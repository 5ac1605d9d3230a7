------------------------------ MODULE TcpServer ------------------------------
(***************************************************************************)
(* The TCP server through which other programs use MediaCycle              *)
(* (core/ACNetworkSocket.cpp, startTcpServer and stopTcpServer in          *)
(* core/MediaCycle.cpp, the callback of apps/server-cli).                  *)
(*                                                                         *)
(* A server has one thread.  It accepts a connection, receives until       *)
(* nothing comes for a millisecond, since a request has no other end,      *)
(* hands what it has to the callback, sends what the callback left as a    *)
(* reply, shuts the connection down and accepts the next one.  Sockets are *)
(* shut down and never closed, the listening one not even that.            *)
(*                                                                         *)
(* Clients connect, send their request piece by piece, may close or reset  *)
(* the connection at any time, and wait as long as they like.  A piece is  *)
(* a pair <<client, number>>; time shows only in that select may time out  *)
(* when there is nothing to receive.                                       *)
(***************************************************************************)
EXTENDS Integers, FiniteSets, SequencesExt

CONSTANTS
  Clients,
  NoClient,    \* no client, and no reply
  Garbage,     \* the reply before one was left
  Lengths,     \* how many pieces a request may have
  BufSize,     \* BUFSIZE: how many pieces one server_receive takes
  MaxStarts,   \* bound on the servers started
  Backlog,     \* max_connections
  FdLimit      \* how many sockets the process may have open

ASSUME ClientsAssumption == NoClient # Garbage /\ {NoClient, Garbage} \cap Clients = {}
ASSUME TcpCountsAssumption ==
  /\ Lengths \subseteq Nat \ {0}
  /\ {BufSize, MaxStarts, Backlog} \subseteq Nat \ {0}
  /\ FdLimit \in Nat

Servers == 1 .. MaxStarts
NoServer == 0
Piece == Clients \X (Nat \ {0})

VARIABLES
  networkSocket,  \* the last server made
  listening,      \* servers whose socket is bound and listens
  deleted,        \* servers that were stopped: their threads are cancelled
  thread,         \* of each server: what its thread does
  answer,         \* of each server: whose reply server_buffer_send and ret_send are
  backlog,        \* connections to be accepted
  client,         \* of each client: [at, length, sent]
  stream,         \* pieces that have arrived and were not received
  heard,          \* of each client: [asked, reply]
  cut,            \* clients whose request was cut off
  fds,            \* sockets open
  killed          \* the process got a signal

serverVars == <<networkSocket, listening, deleted>>
clientVars == <<backlog, client, stream>>
vars == <<serverVars, thread, answer, clientVars, heard, cut, fds, killed>>

NoThread == [at |-> "none", of |-> NoClient, part |-> <<>>, got |-> <<>>]
Accepting == [NoThread EXCEPT !.at = "accepting"]

Init ==
  /\ networkSocket = NoServer
  /\ listening = {} /\ deleted = {}
  /\ thread = [k \in Servers |-> NoThread]
  /\ answer = [k \in Servers |-> NoClient]
  /\ backlog = <<>>
  /\ client = [c \in Clients |-> [at |-> "idle", length |-> 0, sent |-> 0]]
  /\ stream = [c \in Clients |-> <<>>]
  /\ heard = [c \in Clients |-> [asked |-> "nothing", reply |-> NoClient]]
  /\ cut = {}
  /\ fds = 0
  /\ killed = FALSE

Message(c) == [i \in 1..client[c].length |-> <<c, i>>]

-----------------------------------------------------------------------------
(* startTcpServer and stopTcpServer.                                       *)

\* open_server: the port cannot be bound while another socket listens on it.
Binds == fds < FdLimit /\ listening = {}

\* A server after the first one, or after the one before was stopped.  ret_send
\* is not initialised.
StartTcpServer ==
  LET k == networkSocket + 1
  IN /\ k \in Servers
     /\ networkSocket # NoServer => networkSocket \in deleted
     /\ networkSocket' = k
     /\ listening' = IF Binds THEN {k} ELSE listening
     /\ fds' = IF fds < FdLimit THEN fds + 1 ELSE fds
     /\ thread' = [thread EXCEPT ![k] = Accepting]
     /\ \E reply \in {NoClient, Garbage} : answer' = [answer EXCEPT ![k] = reply]
     /\ UNCHANGED <<deleted, clientVars, heard, cut, killed>>

\* Mutant of StopTcpServer: the listening socket is closed.
StopTcpServerClosing ==
  /\ networkSocket \in Servers \ deleted
  /\ deleted' = deleted \cup {networkSocket}
  /\ listening' = listening \ {networkSocket}
  /\ UNCHANGED <<networkSocket, thread, answer, clientVars, heard, cut, fds, killed>>

\* The thread is cancelled and not joined, the server deleted.  Its destructor
\* shuts down the socket whose number is the port's, which is none.
StopTcpServer ==
  /\ networkSocket \in Servers \ deleted
  /\ deleted' = deleted \cup {networkSocket}
  /\ UNCHANGED <<networkSocket, listening, thread, answer, clientVars, heard, cut, fds, killed>>

-----------------------------------------------------------------------------
(* The clients.                                                            *)

Connect(c) ==
  /\ client[c].at = "idle"
  /\ listening # {}
  /\ Len(backlog) < Backlog
  /\ backlog' = Append(backlog, c)
  /\ \E n \in Lengths : client' = [client EXCEPT ![c] = [at |-> "open", length |-> n, sent |-> 0]]
  /\ UNCHANGED <<serverVars, thread, answer, stream, heard, cut, fds, killed>>

SendPiece(c) ==
  /\ client[c].at = "open"
  /\ client[c].sent < client[c].length
  /\ client' = [client EXCEPT ![c].sent = @ + 1]
  /\ stream' = [stream EXCEPT ![c] = Append(@, <<c, client[c].sent + 1>>)]
  /\ UNCHANGED <<serverVars, thread, answer, backlog, heard, cut, fds, killed>>

\* What was sent still arrives.
Close(c) ==
  /\ client[c].at = "open"
  /\ client' = [client EXCEPT ![c].at = "closed"]
  /\ UNCHANGED <<serverVars, thread, answer, backlog, stream, heard, cut, fds, killed>>

\* What was sent and not received is gone.
Reset(c) ==
  /\ client[c].at \in {"open", "closed"}
  /\ client' = [client EXCEPT ![c].at = "reset"]
  /\ stream' = [stream EXCEPT ![c] = <<>>]
  /\ UNCHANGED <<serverVars, thread, answer, backlog, heard, cut, fds, killed>>

-----------------------------------------------------------------------------
(* The thread of server k.  Of a thread that is cancelled only what comes   *)
(* before its next system call is still done.                              *)

\* Without a listening socket, or with too many open, accept fails and the
\* thread comes back to it.
Accept(k) ==
  /\ thread[k].at = "accepting" /\ k \notin deleted
  /\ k \in listening
  /\ backlog # <<>>
  /\ fds < FdLimit
  /\ thread' = [thread EXCEPT ![k].at = "receiving", ![k].of = Head(backlog)]
  /\ backlog' = Tail(backlog)
  /\ fds' = fds + 1
  /\ UNCHANGED <<serverVars, answer, client, stream, heard, cut, killed>>

Receiving(k) == thread[k].at = "receiving" /\ k \notin deleted

\* The end of a server_receive that received something: it is called again.
Returned(t, pieces) == [t EXCEPT !.got = @ \o pieces, !.part = <<>>]

\* Mutant of Receive: a full buffer is the request.
ReceiveOnce(k) ==
  LET c == thread[k].of
      pieces == Append(thread[k].part, Head(stream[c]))
  IN /\ Receiving(k)
     /\ stream[c] # <<>>
     /\ stream' = [stream EXCEPT ![c] = Tail(@)]
     /\ thread' = [thread EXCEPT ![k] =
          IF Len(pieces) = BufSize THEN [Returned(@, pieces) EXCEPT !.at = "received"]
          ELSE [@ EXCEPT !.part = pieces]]
     /\ UNCHANGED <<serverVars, answer, backlog, client, heard, cut, fds, killed>>

Receive(k) ==
  LET c == thread[k].of
      pieces == Append(thread[k].part, Head(stream[c]))
  IN /\ Receiving(k)
     /\ stream[c] # <<>>
     /\ stream' = [stream EXCEPT ![c] = Tail(@)]
     /\ thread' = [thread EXCEPT ![k] =
          IF Len(pieces) = BufSize THEN Returned(@, pieces) ELSE [@ EXCEPT !.part = pieces]]
     /\ UNCHANGED <<serverVars, answer, backlog, client, heard, cut, fds, killed>>

\* Mutant of ReceiveNothing: select waits for ever.
ReceiveEnd(k) ==
  LET c == thread[k].of
  IN /\ Receiving(k)
     /\ stream[c] = <<>>
     /\ client[c].at = "closed"
     /\ thread' = [thread EXCEPT ![k] =
          IF @.part # <<>> THEN Returned(@, @.part) ELSE [@ EXCEPT !.at = "received"]]
     /\ cut' = IF thread[k].part = <<>> /\ client[c].sent < client[c].length
               THEN cut \cup {c} ELSE cut
     /\ UNCHANGED <<serverVars, answer, clientVars, heard, fds, killed>>

\* select times out, or recv finds the connection closed.
ReceiveNothing(k) ==
  LET c == thread[k].of
  IN /\ Receiving(k)
     /\ stream[c] = <<>>
     /\ client[c].at # "reset"
     /\ thread' = [thread EXCEPT ![k] =
          IF @.part # <<>> THEN Returned(@, @.part) ELSE [@ EXCEPT !.at = "received"]]
     /\ cut' = IF thread[k].part = <<>> /\ client[c].sent < client[c].length
               THEN cut \cup {c} ELSE cut
     /\ UNCHANGED <<serverVars, answer, clientVars, heard, fds, killed>>

\* recv fails: what this server_receive had is lost, the rest is a request.
ReceiveError(k) ==
  /\ Receiving(k)
  /\ client[thread[k].of].at = "reset"
  /\ thread' = [thread EXCEPT ![k].at = "received", ![k].part = <<>>]
  /\ cut' = cut \cup {thread[k].of}
  /\ UNCHANGED <<serverVars, answer, clientVars, heard, fds, killed>>

Serve(k) ==
  /\ thread[k].at = "received"
  /\ thread[k].got # <<>>
  /\ thread' = [thread EXCEPT ![k].at = "calling"]
  /\ UNCHANGED <<serverVars, answer, clientVars, heard, cut, fds, killed>>

\* Mutant of ShutDown: read is not set back.
ShutDownReading(k) ==
  /\ thread' = [thread EXCEPT ![k] = [Accepting EXCEPT !.got = thread[k].got]]
  /\ client' = [client EXCEPT ![thread[k].of].at = "over"]
  /\ stream' = [stream EXCEPT ![thread[k].of] = <<>>]

\* shutdown, and the next connection with read set back.
ShutDown(k) ==
  /\ thread' = [thread EXCEPT ![k] = Accepting]
  /\ client' = [client EXCEPT ![thread[k].of].at = "over"]
  /\ stream' = [stream EXCEPT ![thread[k].of] = <<>>]

NothingToServe(k) ==
  /\ thread[k].at = "received"
  /\ thread[k].got = <<>>
  /\ ShutDown(k)
  /\ UNCHANGED <<serverVars, answer, backlog, heard, cut, fds, killed>>

\* Mutant of Callback: an answer is left in the buffer only if there is none.
CallbackOnce(k) ==
  LET c == thread[k].of
  IN /\ thread[k].at = "calling"
     /\ \E asked \in {"answer", "nothing to answer", "other"} :
          /\ heard' = [heard EXCEPT ![c].asked = asked]
          /\ answer' = [answer EXCEPT ![k] = IF asked = "answer" /\ @ = NoClient THEN c ELSE @]
     /\ thread' = [thread EXCEPT ![k].at = "replying"]
     /\ UNCHANGED <<serverVars, clientVars, cut, fds, killed>>

\* processTcpMessageFromClient: most commands leave their answer, one that finds
\* no thumbnail clears it, and setweight, or an unknown one, leaves the buffer
\* and the length as they are.
Callback(k) ==
  LET c == thread[k].of
  IN /\ thread[k].at = "calling"
     /\ \/ /\ heard' = [heard EXCEPT ![c].asked = "answer"]
           /\ answer' = [answer EXCEPT ![k] = c]
        \/ /\ heard' = [heard EXCEPT ![c].asked = "nothing to answer"]
           /\ answer' = [answer EXCEPT ![k] = NoClient]
        \/ /\ heard' = [heard EXCEPT ![c].asked = "other"]
           /\ UNCHANGED answer
     /\ thread' = [thread EXCEPT ![k].at = "replying"]
     /\ UNCHANGED <<serverVars, clientVars, cut, fds, killed>>

\* Mutant of NoReply: the listening socket is closed with the connection.
NoReplyClosing(k) ==
  /\ thread[k].at = "replying"
  /\ answer[k] = NoClient
  /\ ShutDown(k)
  /\ fds' = fds - 2
  /\ UNCHANGED <<serverVars, answer, backlog, heard, cut, killed>>

NoReply(k) ==
  /\ thread[k].at = "replying"
  /\ answer[k] = NoClient
  /\ ShutDown(k)
  /\ UNCHANGED <<serverVars, answer, backlog, heard, cut, fds, killed>>

Reply(k) ==
  /\ thread[k].at = "replying" /\ k \notin deleted
  /\ answer[k] # NoClient
  /\ heard' = IF client[thread[k].of].at = "open"
              THEN [heard EXCEPT ![thread[k].of].reply = answer[k]] ELSE heard
  /\ ShutDown(k)
  /\ UNCHANGED <<serverVars, answer, backlog, cut, fds, killed>>

\* send on a connection that was reset raises SIGPIPE, which nobody handles.
ReplyKills(k) ==
  /\ thread[k].at = "replying" /\ k \notin deleted
  /\ answer[k] # NoClient
  /\ client[thread[k].of].at = "reset"
  /\ killed' = TRUE
  /\ UNCHANGED <<serverVars, thread, answer, clientVars, heard, cut, fds>>

CancelledEnds(k) ==
  /\ k \in deleted
  /\ thread[k].at # "ended"
  /\ thread' = [thread EXCEPT ![k].at = "ended"]
  /\ UNCHANGED <<serverVars, answer, clientVars, heard, cut, fds, killed>>

Run(k) ==
  /\ ~killed
  /\ \/ Accept(k)
     \/ Receive(k) \/ ReceiveNothing(k) \/ ReceiveError(k)
     \/ Serve(k) \/ NothingToServe(k)
     \/ Callback(k)
     \/ NoReply(k) \/ Reply(k) \/ ReplyKills(k)
     \/ CancelledEnds(k)

-----------------------------------------------------------------------------
(* Specifications.                                                         *)

ClientActs(c) == Connect(c) \/ SendPiece(c) \/ Close(c) \/ Reset(c)

Next ==
  \/ ~killed /\ (StartTcpServer \/ StopTcpServer)
  \/ \E c \in Clients : ~killed /\ ClientActs(c)
  \/ \E k \in Servers : Run(k)

Spec == Init /\ [][Next]_vars

\* The callback returns and the other calls do not block, or time out.
FairSpec == Spec /\ \A k \in Servers : WF_vars(Run(k))

-----------------------------------------------------------------------------
(* Properties.                                                             *)

Thread == [at : {"none", "accepting", "receiving", "received", "calling", "replying", "ended"},
           of : Clients \cup {NoClient}, part : Seq(Piece), got : Seq(Piece)]

\* Every variable holds a value its C++ declaration, or the kernel, allows.
TypeOK ==
  /\ networkSocket \in 0..MaxStarts
  /\ listening \subseteq Servers /\ deleted \subseteq Servers
  /\ thread \in [Servers -> Thread]
  /\ answer \in [Servers -> Clients \cup {NoClient, Garbage}]
  /\ backlog \in Seq(Clients)
  /\ client \in [Clients -> [at : {"idle", "open", "closed", "reset", "over"},
                             length : Lengths \cup {0}, sent : Nat]]
  /\ stream \in [Clients -> Seq(Piece)]
  /\ heard \in [Clients -> [asked : {"nothing", "answer", "nothing to answer", "other"},
                            reply : Clients \cup {NoClient, Garbage}]]
  /\ cut \subseteq Clients
  /\ fds \in 0..FdLimit
  /\ killed \in BOOLEAN

Called(k) == thread[k].at = "calling"

\* What the callback of ACNetworkSocketServer::thread gets is the beginning of
\* what this client sent, in order, whatever buffers it went through and
\* whoever was connected before.
RequestsOwn == \A k \in Servers : Called(k) => IsPrefix(thread[k].got, Message(thread[k].of))

\* It is all of it, unless the client paused, closed or reset before the end:
\* a request that arrives in one go is not cut by the size of the buffer nor by
\* the time-outs.
RequestsWhole ==
  \A k \in Servers : Called(k) /\ thread[k].of \notin cut
                     => thread[k].got = Message(thread[k].of)

\* A client whose command has an answer hears that one or none, although the
\* reply buffer is kept from one connection to the next.
AnswersOwn == \A c \in Clients : heard[c].asked = "answer" => heard[c].reply \in {c, NoClient}

\* The callback, which uses the library without a lock, never runs twice at
\* once: not even when a server was stopped in the middle of one and another
\* one is started.
OneCallback == \A j, k \in Servers : Called(j) /\ Called(k) => j = k

\* Nobody keeps the server to himself: a connection is accepted and shut down
\* in turn, how long ever the others stay silent, until a server is stopped, the
\* sockets are used up or the process is killed.
Unserved(c) == c \in Range(backlog) \/ \E k \in Servers : thread[k].of = c
Given == killed \/ fds >= FdLimit \/ deleted # {}
TurnComes == \A c \in Clients : Unserved(c) ~> (~Unserved(c) \/ Given)
=============================================================================
