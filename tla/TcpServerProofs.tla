--------------------------- MODULE TcpServerProofs ---------------------------
(***************************************************************************)
(* Requests and replies of the TCP server, for any clients, requests,      *)
(* buffer, backlog and limits, and any number of servers.                  *)
(*                                                                         *)
(* One fact carries the rest: a socket that listens is never closed, so    *)
(* that no other server than its own can bind the port, and only the       *)
(* thread of a listening server gets past accept.  Hence a client has at   *)
(* most one thread to itself, and the pieces it sends are, in order, in    *)
(* what that thread has got, in the buffer and under way.                  *)
(***************************************************************************)
EXTENDS TcpServer, SequenceTheorems, TLAPS

\* A thread with a connection.
Active(k) == thread[k].at \in {"receiving", "received", "calling", "replying"}

\* One server listens, and only its thread has to do with clients.
KernelInv ==
  /\ \A j, k \in listening : j = k
  /\ \A k \in Servers :
       /\ thread[k].of # NoClient => k \in listening /\ client[thread[k].of].at # "idle"
       /\ Active(k) => thread[k].of \in Clients
       /\ thread[k].at \in {"none", "accepting"} => thread[k].of = NoClient
       /\ thread[k].at = "accepting" => thread[k].got = <<>> /\ thread[k].part = <<>>

\* What a client is promised before anybody takes its connection and after.
ClientsInv ==
  \A c \in Clients :
    /\ client[c].sent <= client[c].length
    /\ client[c].at \in {"idle", "reset"} => stream[c] = <<>>
    /\ client[c].at = "idle" => client[c].sent = 0
    /\ heard[c].reply # NoClient => client[c].at = "over"

\* s is what c sends after its first n pieces.
Follows(s, c, n) == \A i \in 1..Len(s) : s[i] = <<c, n + i>>

\* What is under way is all that c has sent after its first n pieces.
UnderWay(c, n) ==
  client[c].at # "reset" =>
    Follows(stream[c], c, n) /\ n + Len(stream[c]) = client[c].sent

\* A connection that waits is of a client that no thread has had.
BacklogInv ==
  /\ \A i, j \in 1..Len(backlog) : backlog[i] = backlog[j] => i = j
  /\ \A i \in 1..Len(backlog) :
       /\ client[backlog[i]].at \notin {"idle", "over"}
       /\ \A k \in Servers : thread[k].of # backlog[i]
       /\ UnderWay(backlog[i], 0)

\* What thread k has of the request of its client, and of the answer.
Request(k) ==
  LET t == thread[k]
      c == thread[k].of
  IN /\ client[c].at \notin {"idle", "over"}
     /\ Follows(t.got, c, 0) /\ Follows(t.part, c, Len(t.got))
     /\ Len(t.got) + Len(t.part) <= client[c].sent
     /\ UnderWay(c, Len(t.got) + Len(t.part))
     /\ t.at # "receiving" => t.part = <<>>
     /\ t.at # "receiving" /\ c \notin cut => Len(t.got) = client[c].length
     /\ t.at = "replying" /\ heard[c].asked = "answer" => answer[k] = c

RequestInv == \A k \in Servers : Active(k) => Request(k)

\* The inductive invariant.
IInv == TypeOK /\ KernelInv /\ ClientsInv /\ BacklogInv /\ RequestInv /\ AnswersOwn

-----------------------------------------------------------------------------
(* Sequences of pieces.                                                    *)

USE ClientsAssumption, TcpCountsAssumption DEF ClientsAssumption, TcpCountsAssumption

LEMMA FollowsEmpty == \A c, n : Follows(<<>>, c, n)
  BY DEF Follows

\* Another piece.
LEMMA FollowsAppend ==
  ASSUME NEW s \in Seq(Piece), NEW c \in Clients, NEW n \in Nat, Follows(s, c, n)
  PROVE  LET t == Append(s, <<c, n + Len(s) + 1>>)
         IN t \in Seq(Piece) /\ Len(t) = Len(s) + 1 /\ Follows(t, c, n)
<1> DEFINE e == <<c, n + Len(s) + 1>>
<1>1. e \in Piece /\ Len(s) \in Nat
  BY DEF Piece
<1>2. /\ Append(s, e) \in Seq(Piece) /\ Len(Append(s, e)) = Len(s) + 1
      /\ \A i \in 1..Len(s) + 1 : Append(s, e)[i] = IF i = Len(s) + 1 THEN e ELSE s[i]
  <2> HIDE DEF e
  <2>1. QED
    BY <1>1
<1>3. \A i \in 1..Len(s) + 1 : Append(s, e)[i] = <<c, n + i>>
  BY <1>1, <1>2 DEF Follows
<1>4. QED
  BY <1>2, <1>3 DEF Follows

\* The piece received, and what is left.
LEMMA FollowsTail ==
  ASSUME NEW s \in Seq(Piece), s # <<>>, NEW c \in Clients, NEW n \in Nat, Follows(s, c, n)
  PROVE  /\ Head(s) = <<c, n + 1>>
         /\ Tail(s) \in Seq(Piece) /\ Len(Tail(s)) + 1 = Len(s)
         /\ Follows(Tail(s), c, n + 1)
<1>1. Len(s) \in Nat \ {0} /\ Head(s) = s[1]
  BY EmptySeq
<1>2. /\ Tail(s) \in Seq(Piece) /\ Len(Tail(s)) = Len(s) - 1
      /\ \A i \in 1..Len(Tail(s)) : Tail(s)[i] = s[i + 1]
  BY HeadTailProperties
<1>3. \A i \in 1..Len(Tail(s)) : i + 1 \in 1..Len(s) /\ n + (i + 1) = n + 1 + i
  BY <1>1, <1>2
<1>4. \A i \in 1..Len(Tail(s)) : Tail(s)[i] = <<c, n + 1 + i>>
  BY <1>2, <1>3 DEF Follows
<1>5. QED
  BY <1>1, <1>2, <1>4 DEF Follows

\* What was got and what came after.
LEMMA FollowsConcat ==
  ASSUME NEW s \in Seq(Piece), NEW t \in Seq(Piece), NEW c \in Clients,
         Follows(s, c, 0), Follows(t, c, Len(s))
  PROVE  s \o t \in Seq(Piece) /\ Len(s \o t) = Len(s) + Len(t) /\ Follows(s \o t, c, 0)
<1>1. Len(s) \in Nat /\ Len(t) \in Nat
  OBVIOUS
<1>2. /\ s \o t \in Seq(Piece) /\ Len(s \o t) = Len(s) + Len(t)
      /\ \A i \in 1..Len(s) + Len(t) :
           (s \o t)[i] = IF i <= Len(s) THEN s[i] ELSE t[i - Len(s)]
  BY ConcatProperties
<1>3. ASSUME NEW i \in 1..Len(s) + Len(t) PROVE (s \o t)[i] = <<c, 0 + i>>
  <2>1. CASE i <= Len(s)
    BY <1>1, <1>2, <2>1 DEF Follows
  <2>2. CASE ~(i <= Len(s))
    <3>1. i - Len(s) \in 1..Len(t) /\ Len(s) + (i - Len(s)) = i
      BY <1>1, <2>2
    <3>2. QED
      BY <1>2, <2>2, <3>1 DEF Follows
  <2>3. QED
    BY <2>1, <2>2
<1>4. QED
  BY <1>2, <1>3 DEF Follows

-----------------------------------------------------------------------------
(* Types.                                                                  *)

LEMMA ThreadTypes ==
  /\ NoThread \in Thread /\ Accepting \in Thread
  /\ Accepting = [at |-> "accepting", of |-> NoClient, part |-> <<>>, got |-> <<>>]
<1>1. <<>> \in Seq(Piece)
  OBVIOUS
<1>2. Accepting = [at |-> "accepting", of |-> NoClient, part |-> <<>>, got |-> <<>>]
  BY DEF Accepting, NoThread
<1>3. NoThread \in Thread /\ Accepting \in Thread
  BY <1>1, <1>2 DEF NoThread, Thread
<1>4. QED
  BY <1>2, <1>3

LEMMA InitInv == Init => IInv
<1> SUFFICES ASSUME Init PROVE IInv
  OBVIOUS
<1> USE DEF Init
<1>1. TypeOK
  <2>1. <<>> \in Seq(Piece) /\ <<>> \in Seq(Clients)
    OBVIOUS
  <2>2. NoThread \in Thread
    BY <2>1, ThreadTypes
  <2>3. 0 \in 0..MaxStarts /\ 0 \in 0..FdLimit
    OBVIOUS
  <2>4. QED
    BY <2>1, <2>2, <2>3 DEF TypeOK, NoServer
<1>2. KernelInv
  BY DEF KernelInv, Active, NoThread
<1>3. ClientsInv
  BY DEF ClientsInv
<1>4. BacklogInv
  BY DEF BacklogInv
<1>5. RequestInv
  BY DEF RequestInv, Active, NoThread
<1>6. AnswersOwn
  BY DEF AnswersOwn
<1>7. QED
  BY <1>1, <1>2, <1>3, <1>4, <1>5, <1>6 DEF IInv

\* The next step of the thread of server k.
LEMMA RunSteps ==
  ASSUME NEW k \in Servers, Run(k)
  PROVE  \/ Accept(k) \/ Receive(k) \/ ReceiveNothing(k) \/ ReceiveError(k)
         \/ Serve(k) \/ NothingToServe(k) \/ Callback(k)
         \/ NoReply(k) \/ Reply(k) \/ ReplyKills(k) \/ CancelledEnds(k)
  BY DEF Run

Connection == [at : {"idle", "open", "closed", "reset", "over"},
               length : Lengths \cup {0}, sent : Nat]
Hearing == [asked : {"nothing", "answer", "nothing to answer", "other"},
            reply : Clients \cup {NoClient, Garbage}]

\* TypeOK, part by part.
LEMMA Types ==
  ASSUME TypeOK
  PROVE  /\ \A k \in Servers : thread[k] \in Thread /\ thread[k].got \in Seq(Piece)
                                /\ thread[k].part \in Seq(Piece)
         /\ \A c \in Clients : stream[c] \in Seq(Piece)
         /\ \A c \in Clients : client[c] \in Connection /\ client[c].sent \in Nat
                                /\ client[c].length \in Nat
         /\ \A c \in Clients : heard[c] \in Hearing
         /\ thread \in [Servers -> Thread] /\ client \in [Clients -> Connection]
         /\ heard \in [Clients -> Hearing] /\ stream \in [Clients -> Seq(Piece)]
<1>1. thread \in [Servers -> Thread]
  BY DEF TypeOK
<1>2. client \in [Clients -> Connection] /\ heard \in [Clients -> Hearing]
  BY DEF TypeOK, Connection, Hearing
<1>3. stream \in [Clients -> Seq(Piece)]
  BY DEF TypeOK
<1>4. \A k \in Servers : thread[k] \in Thread
  BY <1>1
<1>5. \A k \in Servers : thread[k].got \in Seq(Piece) /\ thread[k].part \in Seq(Piece)
  BY <1>4 DEF Thread
<1>6. ASSUME NEW c \in Clients PROVE client[c].sent \in Nat /\ client[c].length \in Nat
  <2>1. client[c] \in Connection
    BY <1>2
  <2>2. client[c].sent \in Nat /\ client[c].length \in Lengths \cup {0}
    BY <2>1 DEF Connection
  <2>3. \A n \in Lengths \cup {0} : n \in Nat
    OBVIOUS
  <2>4. QED
    BY <2>2, <2>3, Zenon
<1>7. QED
  BY <1>1, <1>2, <1>3, <1>4, <1>5, <1>6

\* Threads at another place, with other pieces.
LEMMA ThreadUpdates ==
  ASSUME NEW t \in Thread
  PROVE  /\ \A s, u \in Seq(Piece) : [t EXCEPT !.got = u, !.part = s] \in Thread
         /\ \A s \in Seq(Piece) : [t EXCEPT !.part = s] \in Thread
         /\ [t EXCEPT !.at = "received", !.part = <<>>] \in Thread
         /\ \A c \in Clients : [t EXCEPT !.at = "receiving", !.of = c] \in Thread
         /\ \A a \in {"received", "calling", "replying", "ended"} : [t EXCEPT !.at = a] \in Thread
<1>1. \A s, u \in Seq(Piece) : [t EXCEPT !.got = u, !.part = s] \in Thread
  BY DEF Thread
<1>2. \A s \in Seq(Piece) : [t EXCEPT !.part = s] \in Thread
  BY DEF Thread
<1>3. [t EXCEPT !.at = "received", !.part = <<>>] \in Thread
  <2>1. <<>> \in Seq(Piece)
    OBVIOUS
  <2>2. QED
    BY <2>1 DEF Thread
<1>4. \A c \in Clients : [t EXCEPT !.at = "receiving", !.of = c] \in Thread
  BY DEF Thread
<1>5. \A a \in {"received", "calling", "replying", "ended"} : [t EXCEPT !.at = a] \in Thread
  BY DEF Thread
<1>6. QED
  BY <1>1, <1>2, <1>3, <1>4, <1>5

\* The client of a thread that has a connection.
LEMMA ClientOf ==
  ASSUME KernelInv, NEW k \in Servers, Active(k)
  PROVE  thread[k].of \in Clients
  BY DEF KernelInv

LEMMA ShutDownTypes ==
  ASSUME TypeOK, NEW k \in Servers, thread[k].of \in Clients, ShutDown(k)
  PROVE  /\ thread' \in [Servers -> Thread]
         /\ client' \in [Clients -> Connection]
         /\ stream' \in [Clients -> Seq(Piece)]
<1> DEFINE c == thread[k].of
<1>1. thread' \in [Servers -> Thread]
  BY ThreadTypes, Types DEF ShutDown
<1>2. stream' \in [Clients -> Seq(Piece)]
  BY Types DEF ShutDown
<1>3. [client[c] EXCEPT !.at = "over"] \in Connection
  BY Types DEF Connection
<1>4. client' \in [Clients -> Connection]
  BY <1>3, Types DEF ShutDown
<1>5. QED
  BY <1>1, <1>2, <1>4

LEMMA TypeStep == TypeOK /\ KernelInv /\ [Next]_vars => TypeOK'
<1> SUFFICES ASSUME TypeOK, KernelInv, [Next]_vars PROVE TypeOK'
  OBVIOUS
<1> USE DEF serverVars, clientVars
<1>1. ASSUME thread' \in [Servers -> Thread], client' \in [Clients -> Connection],
             heard' \in [Clients -> Hearing], stream' \in [Clients -> Seq(Piece)],
             networkSocket' \in 0..MaxStarts, listening' \subseteq Servers,
             deleted' \subseteq Servers, fds' \in 0..FdLimit, killed' \in BOOLEAN,
             answer' \in [Servers -> Clients \cup {NoClient, Garbage}],
             backlog' \in Seq(Clients), cut' \subseteq Clients
      PROVE  TypeOK'
  BY <1>1 DEF TypeOK, Connection, Hearing
<1>2. /\ networkSocket \in 0..MaxStarts /\ listening \subseteq Servers
      /\ deleted \subseteq Servers /\ fds \in 0..FdLimit /\ killed \in BOOLEAN
      /\ answer \in [Servers -> Clients \cup {NoClient, Garbage}]
      /\ backlog \in Seq(Clients) /\ cut \subseteq Clients
  BY DEF TypeOK
<1> USE <1>2
<1>3. CASE StartTcpServer
  <2>1. thread' \in [Servers -> Thread] /\ networkSocket' \in 0..MaxStarts
    BY <1>3, ThreadTypes, Types DEF StartTcpServer, Servers
  <2>2. fds' \in 0..FdLimit /\ listening' \subseteq Servers
    BY <1>3 DEF StartTcpServer
  <2>3. answer' \in [Servers -> Clients \cup {NoClient, Garbage}]
    BY <1>3 DEF StartTcpServer
  <2>4. QED
    BY <1>1, <1>3, <2>1, <2>2, <2>3, Types DEF StartTcpServer
<1>4. CASE StopTcpServer
  BY <1>1, <1>4, Types DEF StopTcpServer
<1>5. ASSUME NEW c \in Clients, ClientActs(c) PROVE TypeOK'
  <2>1. CASE Connect(c)
    <3>1. PICK n \in Lengths :
            client' = [client EXCEPT ![c] = [at |-> "open", length |-> n, sent |-> 0]]
      BY <2>1 DEF Connect
    <3>2. client' \in [Clients -> Connection]
      BY <3>1, Types DEF Connection
    <3>3. QED
      BY <1>1, <2>1, <3>2, Types DEF Connect
  <2>2. CASE SendPiece(c)
    <3>1. client[c].sent + 1 \in Nat \ {0}
      BY Types
    <3>2. Append(stream[c], <<c, client[c].sent + 1>>) \in Seq(Piece)
      BY <3>1, Types DEF Piece
    <3>3. [client[c] EXCEPT !.sent = client[c].sent + 1] \in Connection
      BY <3>1, Types DEF Connection
    <3>4. stream' \in [Clients -> Seq(Piece)] /\ client' \in [Clients -> Connection]
      BY <2>2, <3>2, <3>3, Types DEF SendPiece
    <3>5. QED
      BY <1>1, <2>2, <3>4, Types DEF SendPiece
  <2>3. CASE Close(c)
    <3>1. [client[c] EXCEPT !.at = "closed"] \in Connection
      BY Types DEF Connection
    <3>2. QED
      BY <1>1, <2>3, <3>1, Types DEF Close
  <2>4. CASE Reset(c)
    <3>1. [client[c] EXCEPT !.at = "reset"] \in Connection
      BY Types DEF Connection
    <3>2. stream' \in [Clients -> Seq(Piece)]
      BY <2>4, Types DEF Reset
    <3>3. QED
      BY <1>1, <2>4, <3>1, <3>2, Types DEF Reset
  <2>5. QED
    BY <1>5, <2>1, <2>2, <2>3, <2>4 DEF ClientActs
<1>6. ASSUME NEW k \in Servers, Run(k) PROVE TypeOK'
  <2> DEFINE c == thread[k].of
  <2>0. ASSUME NEW a \in {"received", "calling", "replying", "ended"}
        PROVE  [thread[k] EXCEPT !.at = a] \in Thread
    BY Types DEF Thread
  <2>1. CASE Accept(k)
    <3>1. Head(backlog) \in Clients /\ Tail(backlog) \in Seq(Clients)
      BY <2>1, HeadTailProperties DEF Accept
    <3>2. thread' \in [Servers -> Thread]
      BY <2>1, <3>1, Types, ThreadUpdates DEF Accept
    <3>3. fds' \in 0..FdLimit
      BY <2>1 DEF Accept
    <3>4. QED
      BY <1>1, <2>1, <3>1, <3>2, <3>3, Types DEF Accept
  <2>2. CASE Receive(k)
    <3>1. c \in Clients
      BY <2>2, ClientOf DEF Receive, Receiving, Active
    <3>2. Head(stream[c]) \in Piece /\ Tail(stream[c]) \in Seq(Piece)
      BY <2>2, <3>1, HeadTailProperties, Types DEF Receive
    <3> DEFINE pieces == Append(thread[k].part, Head(stream[c]))
    <3>3. pieces \in Seq(Piece) /\ thread[k].got \o pieces \in Seq(Piece)
      BY <3>2, Types
    <3>4. Returned(thread[k], pieces) \in Thread /\ [thread[k] EXCEPT !.part = pieces] \in Thread
      <4> HIDE DEF pieces
      <4>1. thread[k] \in Thread /\ <<>> \in Seq(Piece)
        BY Types
      <4>2. /\ [thread[k] EXCEPT !.got = thread[k].got \o pieces, !.part = <<>>] \in Thread
            /\ [thread[k] EXCEPT !.part = pieces] \in Thread
        BY <3>3, <4>1, ThreadUpdates
      <4>3. QED
        BY <4>2 DEF Returned
    <3>5. thread' \in [Servers -> Thread] /\ stream' \in [Clients -> Seq(Piece)]
      BY <2>2, <3>1, <3>2, <3>4, Types DEF Receive
    <3>6. QED
      BY <1>1, <2>2, <3>5, Types DEF Receive
  <2>3. CASE ReceiveNothing(k)
    <3>1. c \in Clients
      BY <2>3, ClientOf DEF ReceiveNothing, Receiving, Active
    <3>2. thread[k].got \o thread[k].part \in Seq(Piece)
      BY Types
    <3>3. /\ Returned(thread[k], thread[k].part) \in Thread
          /\ [thread[k] EXCEPT !.at = "received"] \in Thread
      <4>1. thread[k] \in Thread /\ <<>> \in Seq(Piece)
        BY Types
      <4>2. [thread[k] EXCEPT !.got = thread[k].got \o thread[k].part, !.part = <<>>] \in Thread
        BY <3>2, <4>1, ThreadUpdates
      <4>3. QED
        BY <2>0, <4>2 DEF Returned
    <3>4. thread' \in [Servers -> Thread] /\ cut' \subseteq Clients
      BY <2>3, <3>1, <3>3, Types DEF ReceiveNothing
    <3>5. QED
      BY <1>1, <2>3, <3>4, Types DEF ReceiveNothing
  <2>4. CASE ReceiveError(k)
    <3>1. c \in Clients
      BY <2>4, ClientOf DEF ReceiveError, Receiving, Active
    <3>2. [thread[k] EXCEPT !.at = "received", !.part = <<>>] \in Thread
      <4>1. thread[k] \in Thread
        BY Types
      <4>2. QED
        BY <4>1, ThreadUpdates
    <3>3. thread' \in [Servers -> Thread] /\ cut' \subseteq Clients
      BY <2>4, <3>1, <3>2, Types DEF ReceiveError
    <3>4. QED
      BY <1>1, <2>4, <3>3, Types DEF ReceiveError
  <2>5. CASE Serve(k)
    BY <1>1, <2>0, <2>5, Types DEF Serve
  <2>6. CASE NothingToServe(k)
    <3>1. c \in Clients
      BY <2>6, ClientOf DEF NothingToServe, Active
    <3>2. QED
      BY <1>1, <2>6, <3>1, Types, ShutDownTypes DEF NothingToServe
  <2>7. CASE Callback(k)
    <3>1. c \in Clients
      BY <2>7, ClientOf DEF Callback, Active
    <3>2. thread' \in [Servers -> Thread]
      BY <2>0, <2>7, Types DEF Callback
    <3>3. answer' \in [Servers -> Clients \cup {NoClient, Garbage}]
      BY <2>7, <3>1 DEF Callback
    <3>4. \A a \in {"nothing", "answer", "nothing to answer", "other"} :
            [heard[c] EXCEPT !.asked = a] \in Hearing
      BY <3>1, Types DEF Hearing
    <3>5. heard' \in [Clients -> Hearing]
      BY <2>7, <3>1, <3>4, Types DEF Callback
    <3>6. QED
      BY <1>1, <2>7, <3>2, <3>3, <3>5, Types DEF Callback
  <2>8. CASE NoReply(k)
    <3>1. c \in Clients
      BY <2>8, ClientOf DEF NoReply, Active
    <3>2. QED
      BY <1>1, <2>8, <3>1, Types, ShutDownTypes DEF NoReply
  <2>9. CASE Reply(k)
    <3>1. c \in Clients
      BY <2>9, ClientOf DEF Reply, Active
    <3>2. [heard[c] EXCEPT !.reply = answer[k]] \in Hearing
      BY <3>1, Types DEF Hearing
    <3>3. heard' \in [Clients -> Hearing]
      BY <2>9, <3>1, <3>2, Types DEF Reply
    <3>4. QED
      BY <1>1, <2>9, <3>1, <3>3, Types, ShutDownTypes DEF Reply
  <2>10. CASE ReplyKills(k)
    BY <1>1, <2>10, Types DEF ReplyKills
  <2>11. CASE CancelledEnds(k)
    BY <1>1, <2>0, <2>11, Types DEF CancelledEnds
  <2>12. QED
    BY <1>6, <2>1, <2>2, <2>3, <2>4, <2>5, <2>6, <2>7, <2>8, <2>9, <2>10, <2>11, RunSteps
<1>7. CASE UNCHANGED vars
  BY <1>1, <1>7, Types DEF vars
<1>8. QED
  BY <1>3, <1>4, <1>5, <1>6, <1>7 DEF Next

-----------------------------------------------------------------------------
(* What a step of a thread does to its fields.  The others stay as they are. *)

Others(k) == \A j \in Servers \ {k} : thread'[j] = thread[j]

LEMMA AcceptFields ==
  ASSUME TypeOK, NEW k \in Servers, Accept(k)
  PROVE  /\ thread'[k].at = "receiving" /\ thread'[k].of = Head(backlog)
         /\ thread'[k].got = thread[k].got /\ thread'[k].part = thread[k].part
         /\ Others(k)
<1>1. thread' = [thread EXCEPT ![k] = [thread[k] EXCEPT !.at = "receiving", !.of = Head(backlog)]]
  BY DEF Accept
<1>2. thread[k] \in Thread
  BY Types
<1>3. thread'[k] = [thread[k] EXCEPT !.at = "receiving", !.of = Head(backlog)]
  BY <1>1, Types
<1>4. QED
  BY <1>1, <1>2, <1>3, Types DEF Thread, Others

\* A piece, in the part received so far or, when that is full, in the request.
LEMMA ReceiveFields ==
  ASSUME TypeOK, NEW k \in Servers, Receive(k)
  PROVE  LET pieces == Append(thread[k].part, Head(stream[thread[k].of]))
         IN /\ thread'[k].at = "receiving" /\ thread'[k].of = thread[k].of
            /\ \/ thread'[k].got = thread[k].got /\ thread'[k].part = pieces
               \/ thread'[k].got = thread[k].got \o pieces /\ thread'[k].part = <<>>
            /\ Others(k)
<1> DEFINE pieces == Append(thread[k].part, Head(stream[thread[k].of]))
<1>1. thread' = [thread EXCEPT ![k] = IF Len(pieces) = BufSize THEN Returned(thread[k], pieces)
                                      ELSE [thread[k] EXCEPT !.part = pieces]]
  BY DEF Receive
<1>2. thread[k] \in Thread /\ thread[k].at = "receiving"
  BY Types DEF Receive, Receiving
<1> HIDE DEF pieces
<1>3. thread'[k] = IF Len(pieces) = BufSize THEN Returned(thread[k], pieces)
                   ELSE [thread[k] EXCEPT !.part = pieces]
  BY <1>1, Types
<1>4. Others(k)
  BY <1>1, Types DEF Others
<1>5. CASE Len(pieces) = BufSize
  <2>1. thread'[k] = [thread[k] EXCEPT !.got = thread[k].got \o pieces, !.part = <<>>]
    BY <1>3, <1>5 DEF Returned
  <2>2. /\ thread'[k].at = "receiving" /\ thread'[k].of = thread[k].of
        /\ thread'[k].got = thread[k].got \o pieces /\ thread'[k].part = <<>>
    BY <1>2, <2>1 DEF Thread
  <2>3. QED
    BY <1>4, <2>2 DEF pieces
<1>6. CASE Len(pieces) # BufSize
  <2>1. thread'[k] = [thread[k] EXCEPT !.part = pieces]
    BY <1>3, <1>6
  <2>2. /\ thread'[k].at = "receiving" /\ thread'[k].of = thread[k].of
        /\ thread'[k].got = thread[k].got /\ thread'[k].part = pieces
    BY <1>2, <2>1 DEF Thread
  <2>3. QED
    BY <1>4, <2>2 DEF pieces
<1>7. QED
  BY <1>5, <1>6

\* Either what was received so far is in the request, or the request is over.
LEMMA ReceiveNothingFields ==
  ASSUME TypeOK, NEW k \in Servers, ReceiveNothing(k)
  PROVE  /\ thread'[k].of = thread[k].of /\ thread'[k].part = <<>>
         /\ \/ /\ thread[k].part # <<>> /\ thread'[k].at = "receiving"
               /\ thread'[k].got = thread[k].got \o thread[k].part
            \/ /\ thread[k].part = <<>> /\ thread'[k].at = "received"
               /\ thread'[k].got = thread[k].got
         /\ Others(k)
<1>1. thread' = [thread EXCEPT ![k] =
        IF thread[k].part # <<>> THEN Returned(thread[k], thread[k].part)
        ELSE [thread[k] EXCEPT !.at = "received"]]
  BY DEF ReceiveNothing
<1>2. thread[k] \in Thread /\ thread[k].at = "receiving"
  BY Types DEF ReceiveNothing, Receiving
<1>3. thread'[k] = IF thread[k].part # <<>> THEN Returned(thread[k], thread[k].part)
                   ELSE [thread[k] EXCEPT !.at = "received"]
  BY <1>1, Types
<1>4. Others(k)
  BY <1>1, Types DEF Others
<1>5. CASE thread[k].part # <<>>
  <2>1. thread'[k] = [thread[k] EXCEPT !.got = thread[k].got \o thread[k].part, !.part = <<>>]
    BY <1>3, <1>5 DEF Returned
  <2>2. /\ thread'[k].at = "receiving" /\ thread'[k].of = thread[k].of
        /\ thread'[k].got = thread[k].got \o thread[k].part /\ thread'[k].part = <<>>
    BY <1>2, <2>1 DEF Thread
  <2>3. QED
    BY <1>4, <1>5, <2>2
<1>6. CASE thread[k].part = <<>>
  <2>1. thread'[k] = [thread[k] EXCEPT !.at = "received"]
    BY <1>3, <1>6
  <2>2. /\ thread'[k].at = "received" /\ thread'[k].of = thread[k].of
        /\ thread'[k].got = thread[k].got /\ thread'[k].part = <<>>
    BY <1>2, <1>6, <2>1 DEF Thread
  <2>3. QED
    BY <1>4, <1>6, <2>2
<1>7. QED
  BY <1>5, <1>6

LEMMA ReceiveErrorFields ==
  ASSUME TypeOK, NEW k \in Servers, ReceiveError(k)
  PROVE  /\ thread'[k].at = "received" /\ thread'[k].of = thread[k].of
         /\ thread'[k].got = thread[k].got /\ thread'[k].part = <<>>
         /\ Others(k)
<1>1. thread[k] \in Thread
  BY Types
<1>2. thread'[k] = [thread[k] EXCEPT !.at = "received", !.part = <<>>] /\ Others(k)
  BY Types DEF ReceiveError, Others
<1>3. QED
  BY <1>1, <1>2 DEF Thread

LEMMA ShutDownFields ==
  ASSUME TypeOK, NEW k \in Servers, thread[k].of \in Clients, ShutDown(k)
  PROVE  /\ thread'[k].at = "accepting" /\ thread'[k].of = NoClient
         /\ thread'[k].got = <<>> /\ thread'[k].part = <<>>
         /\ Others(k)
         /\ client'[thread[k].of].at = "over" /\ stream'[thread[k].of] = <<>>
         /\ \A c \in Clients :
              /\ client'[c].sent = client[c].sent /\ client'[c].length = client[c].length
              /\ c # thread[k].of => client'[c] = client[c] /\ stream'[c] = stream[c]
<1> DEFINE o == thread[k].of
<1>1. thread'[k] = Accepting /\ Others(k)
  BY Types DEF ShutDown, Others
<1>2. /\ client'[o] = [client[o] EXCEPT !.at = "over"] /\ stream'[o] = <<>>
      /\ \A c \in Clients : c # o => client'[c] = client[c] /\ stream'[c] = stream[c]
  BY Types DEF ShutDown
<1>3. client[o] \in Connection
  BY Types
<1>4. /\ client'[o].at = "over" /\ client'[o].sent = client[o].sent
      /\ client'[o].length = client[o].length
  BY <1>2, <1>3 DEF Connection
<1>5. /\ thread'[k].at = "accepting" /\ thread'[k].of = NoClient
      /\ thread'[k].got = <<>> /\ thread'[k].part = <<>>
  BY <1>1, ThreadTypes
<1>6. \A c \in Clients : /\ client'[c].sent = client[c].sent
                        /\ client'[c].length = client[c].length
  BY <1>2, <1>4
<1>7. QED
  BY <1>1, <1>2, <1>4, <1>5, <1>6

\* Only the place changes.
Moved(k, place) ==
  /\ thread'[k].at = place /\ thread'[k].of = thread[k].of
  /\ thread'[k].got = thread[k].got /\ thread'[k].part = thread[k].part
  /\ Others(k)

LEMMA MovedFields ==
  ASSUME TypeOK, NEW k \in Servers, NEW place \in {"received", "calling", "replying", "ended"},
         thread' = [thread EXCEPT ![k].at = place]
  PROVE  Moved(k, place)
<1>1. thread[k] \in Thread
  BY Types
<1>2. thread'[k] = [thread[k] EXCEPT !.at = place] /\ Others(k)
  BY Types DEF Others
<1>3. QED
  BY <1>1, <1>2 DEF Thread, Moved

\* The steps of client c.
ClientFields(c, at, sent) ==
  /\ client'[c].at = at /\ client'[c].sent = sent
  /\ \A d \in Clients \ {c} : client'[d] = client[d] /\ stream'[d] = stream[d]

LEMMA ConnectFields ==
  ASSUME TypeOK, NEW c \in Clients, Connect(c)
  PROVE  ClientFields(c, "open", 0) /\ client'[c].length \in Nat /\ stream'[c] = stream[c]
<1>1. PICK n \in Lengths :
        client' = [client EXCEPT ![c] = [at |-> "open", length |-> n, sent |-> 0]]
  BY DEF Connect
<1>2. client'[c] = [at |-> "open", length |-> n, sent |-> 0]
  BY <1>1, Types
<1>3. stream' = stream
  BY DEF Connect
<1>4. QED
  BY <1>1, <1>2, <1>3, Types DEF ClientFields

LEMMA SendPieceFields ==
  ASSUME TypeOK, NEW c \in Clients, SendPiece(c)
  PROVE  /\ ClientFields(c, "open", client[c].sent + 1)
         /\ client'[c].length = client[c].length /\ client[c].sent < client[c].length
         /\ stream'[c] = Append(stream[c], <<c, client[c].sent + 1>>)
<1>1. client'[c] = [client[c] EXCEPT !.sent = client[c].sent + 1]
  BY Types DEF SendPiece
<1>2. client[c] \in Connection /\ client[c].at = "open" /\ client[c].sent < client[c].length
  BY Types DEF SendPiece
<1>3. /\ client'[c].at = "open" /\ client'[c].sent = client[c].sent + 1
      /\ client'[c].length = client[c].length
  BY <1>1, <1>2 DEF Connection
<1>4. stream'[c] = Append(stream[c], <<c, client[c].sent + 1>>)
  BY Types DEF SendPiece
<1>5. \A d \in Clients \ {c} : client'[d] = client[d] /\ stream'[d] = stream[d]
  BY Types DEF SendPiece
<1>6. QED
  BY <1>2, <1>3, <1>4, <1>5 DEF ClientFields

LEMMA CloseFields ==
  ASSUME TypeOK, NEW c \in Clients, Close(c)
  PROVE  /\ ClientFields(c, "closed", client[c].sent) /\ client'[c].length = client[c].length
         /\ client[c].at = "open" /\ stream'[c] = stream[c]
<1>1. client'[c] = [client[c] EXCEPT !.at = "closed"] /\ client[c] \in Connection
  BY Types DEF Close
<1>2. /\ client'[c].at = "closed" /\ client'[c].sent = client[c].sent
      /\ client'[c].length = client[c].length
  BY <1>1 DEF Connection
<1>3. /\ client[c].at = "open" /\ stream'[c] = stream[c]
      /\ \A d \in Clients \ {c} : client'[d] = client[d] /\ stream'[d] = stream[d]
  BY Types DEF Close
<1>4. QED
  BY <1>2, <1>3 DEF ClientFields

LEMMA ResetFields ==
  ASSUME TypeOK, NEW c \in Clients, Reset(c)
  PROVE  /\ ClientFields(c, "reset", client[c].sent) /\ client'[c].length = client[c].length
         /\ client[c].at \in {"open", "closed"} /\ stream'[c] = <<>>
<1>1. client'[c] = [client[c] EXCEPT !.at = "reset"] /\ client[c] \in Connection
  BY Types DEF Reset
<1>2. /\ client'[c].at = "reset" /\ client'[c].sent = client[c].sent
      /\ client'[c].length = client[c].length
  BY <1>1 DEF Connection
<1>3. /\ client[c].at \in {"open", "closed"} /\ stream'[c] = <<>>
      /\ \A d \in Clients \ {c} : client'[d] = client[d] /\ stream'[d] = stream[d]
  BY Types DEF Reset
<1>4. QED
  BY <1>2, <1>3 DEF ClientFields

-----------------------------------------------------------------------------
(* One server, and no client with two threads.                             *)

LEMMA OneServed ==
  ASSUME TypeOK, KernelInv, NEW j \in Servers, NEW k \in Servers,
         thread[j].of # NoClient, thread[k].of # NoClient
  PROVE  j = k
  BY DEF KernelInv

LEMMA OneActive ==
  ASSUME TypeOK, KernelInv, NEW j \in Servers, NEW k \in Servers,
         Active(j), thread[k].of # NoClient
  PROVE  j = k
  BY OneServed, ClientOf

\* A client that goes on does not come back to the beginning.
LEMMA ClientGoesOn ==
  ASSUME TypeOK, NEW c \in Clients, NEW d \in Clients, ClientActs(c), client[d].at # "idle"
  PROVE  client'[d].at # "idle"
  BY ConnectFields, SendPieceFields, CloseFields, ResetFields DEF ClientActs, ClientFields

LEMMA KernelStep == IInv /\ [Next]_vars => KernelInv'
<1> SUFFICES ASSUME IInv, [Next]_vars PROVE KernelInv'
  OBVIOUS
<1>0. TypeOK /\ KernelInv
  BY DEF IInv
<1> USE <1>0 DEF serverVars, clientVars
<1>1. CASE StartTcpServer
  <2> DEFINE k == networkSocket + 1
  <2>1. /\ k \in Servers /\ thread'[k] = Accepting /\ Others(k)
        /\ client' = client /\ ((listening' = {k} /\ listening = {}) \/ listening' = listening)
    BY <1>1, Types DEF StartTcpServer, Others, Binds
  <2>2. Accepting.at = "accepting" /\ Accepting.of = NoClient /\ Accepting.got = <<>>
        /\ Accepting.part = <<>>
    BY ThreadTypes
  <2> HIDE DEF k
  <2>3. QED
    BY <2>1, <2>2 DEF KernelInv, Active, Others
<1>2. CASE StopTcpServer
  BY <1>2 DEF StopTcpServer, KernelInv, Active
<1>3. ASSUME NEW c \in Clients, ClientActs(c) PROVE KernelInv'
  <2>1. thread' = thread /\ listening' = listening
    BY <1>3 DEF ClientActs, Connect, SendPiece, Close, Reset
  <2>2. \A d \in Clients : client[d].at # "idle" => client'[d].at # "idle"
    BY <1>3, ClientGoesOn
  <2>3. \A k \in Servers : thread[k].of \in Clients \cup {NoClient}
    BY Types DEF Thread
  <2>4. QED
    BY <2>1, <2>2, <2>3 DEF KernelInv, Active
<1>4. ASSUME NEW k \in Servers, Run(k) PROVE KernelInv'
  <2>1. CASE Accept(k)
    <3>1. backlog # <<>> /\ Len(backlog) \in Nat \ {0} /\ Head(backlog) = backlog[1]
      <4>1. backlog \in Seq(Clients) /\ backlog # <<>>
        BY <2>1 DEF Accept, TypeOK
      <4>2. QED
        BY <4>1, EmptySeq
    <3>2. Head(backlog) \in Clients /\ client[Head(backlog)].at # "idle"
      <4>1. backlog \in Seq(Clients)
        BY DEF TypeOK
      <4>2. 1 \in 1..Len(backlog)
        BY <3>1
      <4>3. backlog[1] \in Clients
        BY <4>1, <4>2, ElementOfSeq
      <4>4. QED
        BY <3>1, <4>2, <4>3 DEF IInv, BacklogInv
    <3>3. k \in listening /\ listening' = listening /\ client' = client
      BY <2>1 DEF Accept
    <3>4. QED
      BY <3>2, <3>3, <2>1, AcceptFields DEF KernelInv, Active, Others
  <2>2. CASE Receive(k)
    <3>1. listening' = listening /\ client' = client /\ Active(k)
      BY <2>2 DEF Receive, Receiving, Active
    <3>2. /\ thread'[k].at \in {"receiving", "received"} /\ thread'[k].of = thread[k].of
          /\ Others(k)
      BY <2>2, ReceiveFields
    <3>3. QED
      BY <3>1, <3>2 DEF KernelInv, Active, Others
  <2>3. CASE ReceiveNothing(k)
    <3>1. listening' = listening /\ client' = client /\ Active(k)
      BY <2>3 DEF ReceiveNothing, Receiving, Active
    <3>2. /\ thread'[k].at \in {"receiving", "received"} /\ thread'[k].of = thread[k].of
          /\ Others(k)
      BY <2>3, ReceiveNothingFields
    <3>3. QED
      BY <3>1, <3>2 DEF KernelInv, Active, Others
  <2>4. CASE ReceiveError(k)
    <3>1. listening' = listening /\ client' = client /\ Active(k)
      BY <2>4 DEF ReceiveError, Receiving, Active
    <3>2. QED
      BY <3>1, <2>4, ReceiveErrorFields DEF KernelInv, Active, Others
  <2>5. CASE Serve(k)
    <3>1. listening' = listening /\ client' = client /\ Active(k) /\ Moved(k, "calling")
      BY <2>5, MovedFields DEF Serve, Active
    <3>2. QED
      BY <3>1 DEF KernelInv, Active, Others, Moved
  <2>6. CASE Callback(k)
    <3>1. listening' = listening /\ client' = client /\ Active(k) /\ Moved(k, "replying")
      BY <2>6, MovedFields DEF Callback, Active
    <3>2. QED
      BY <3>1 DEF KernelInv, Active, Others, Moved
  <2>7. CASE NothingToServe(k) \/ NoReply(k) \/ Reply(k)
    <3>1. listening' = listening /\ Active(k) /\ ShutDown(k)
      BY <2>7 DEF NothingToServe, NoReply, Reply, Active
    <3>2. thread[k].of \in Clients
      BY <3>1, ClientOf
    <3>3. \A d \in Clients : client[d].at # "idle" => client'[d].at # "idle"
      BY <3>1, <3>2, ShutDownFields
    <3>4. \A j \in Servers : thread[j].of \in Clients \cup {NoClient}
      BY Types DEF Thread
    <3>5. QED
      BY <3>1, <3>2, <3>3, <3>4, ShutDownFields DEF KernelInv, Active, Others
  <2>8. CASE ReplyKills(k)
    BY <2>8 DEF ReplyKills, KernelInv, Active
  <2>9. CASE CancelledEnds(k)
    <3>1. listening' = listening /\ client' = client /\ Moved(k, "ended")
      BY <2>9, MovedFields DEF CancelledEnds
    <3>2. QED
      BY <3>1 DEF KernelInv, Active, Others, Moved
  <2>10. QED
    BY <1>4, <2>1, <2>2, <2>3, <2>4, <2>5, <2>6, <2>7, <2>8, <2>9, RunSteps
<1>5. CASE UNCHANGED vars
  BY <1>5 DEF vars, KernelInv, Active
<1>6. QED
  BY <1>1, <1>2, <1>3, <1>4, <1>5 DEF Next

-----------------------------------------------------------------------------
(* The clients and those that wait.                                        *)

LEMMA ClientsStep == IInv /\ [Next]_vars => ClientsInv'
<1> SUFFICES ASSUME IInv, [Next]_vars PROVE ClientsInv'
  OBVIOUS
<1>0. TypeOK /\ KernelInv /\ ClientsInv
  BY DEF IInv
<1> USE <1>0 DEF serverVars, clientVars
<1>1. CASE StartTcpServer \/ StopTcpServer
  BY <1>1 DEF StartTcpServer, StopTcpServer, ClientsInv
<1>2. ASSUME NEW c \in Clients, ClientActs(c) PROVE ClientsInv'
  <2>0. heard' = heard
    BY <1>2 DEF ClientActs, Connect, SendPiece, Close, Reset
  <2>1. CASE Connect(c)
    <3>1. client[c].at = "idle"
      BY <2>1 DEF Connect
    <3>2. QED
      BY <2>0, <2>1, <3>1, ConnectFields DEF ClientsInv, ClientFields
  <2>2. CASE SendPiece(c)
    <3>1. client[c].at = "open" /\ client[c].sent \in Nat /\ client[c].length \in Nat
      BY <2>2, Types DEF SendPiece
    <3>2. QED
      BY <2>0, <2>2, <3>1, SendPieceFields DEF ClientsInv, ClientFields
  <2>3. CASE Close(c)
    BY <2>0, <2>3, CloseFields DEF ClientsInv, ClientFields
  <2>4. CASE Reset(c)
    BY <2>0, <2>4, ResetFields DEF ClientsInv, ClientFields
  <2>5. QED
    BY <1>2, <2>1, <2>2, <2>3, <2>4 DEF ClientActs
<1>3. ASSUME NEW k \in Servers, Run(k) PROVE ClientsInv'
  <2> DEFINE o == thread[k].of
  <2>1. CASE Accept(k) \/ ReceiveNothing(k) \/ ReceiveError(k) \/ Serve(k)
             \/ ReplyKills(k) \/ CancelledEnds(k)
    <3>1. client' = client /\ stream' = stream /\ heard' = heard
      BY <2>1 DEF Accept, ReceiveNothing, ReceiveError, Serve, ReplyKills, CancelledEnds
    <3>2. QED
      BY <3>1 DEF ClientsInv
  <2>2. CASE Receive(k)
    <3>1. client' = client /\ heard' = heard /\ stream[o] # <<>>
      BY <2>2 DEF Receive
    <3>2. \A c \in Clients \ {o} : stream'[c] = stream[c]
      BY <2>2, Types DEF Receive
    <3>3. QED
      BY <3>1, <3>2 DEF ClientsInv
  <2>3. CASE Callback(k)
    <3>1. client' = client /\ stream' = stream
      BY <2>3 DEF Callback
    <3>2. PICK a \in {"nothing", "answer", "nothing to answer", "other"} :
            heard' = [heard EXCEPT ![o].asked = a]
      BY <2>3 DEF Callback
    <3>3. ASSUME NEW c \in Clients PROVE heard'[c].reply = heard[c].reply
      <4>1. heard[c] \in Hearing
        BY Types
      <4>2. heard'[c] = heard[c] \/ heard'[c] = [heard[c] EXCEPT !.asked = a]
        BY <3>2, Types
      <4>3. QED
        BY <4>1, <4>2 DEF Hearing
    <3>4. QED
      BY <3>1, <3>3 DEF ClientsInv
  <2>4. CASE NothingToServe(k) \/ NoReply(k) \/ Reply(k)
    <3>1. Active(k) /\ ShutDown(k)
      BY <2>4 DEF NothingToServe, NoReply, Reply, Active
    <3>2. o \in Clients
      BY <3>1, ClientOf
    <3>3. \A c \in Clients \ {o} : heard'[c] = heard[c]
      BY <2>4, <3>2, Types DEF NothingToServe, NoReply, Reply
    <3>4. QED
      BY <3>1, <3>2, <3>3, ShutDownFields DEF ClientsInv
  <2>5. QED
    BY <1>3, <2>1, <2>2, <2>3, <2>4, RunSteps
<1>4. CASE UNCHANGED vars
  BY <1>4 DEF vars, ClientsInv
<1>5. QED
  BY <1>1, <1>2, <1>3, <1>4 DEF Next

LEMMA BacklogElements ==
  ASSUME TypeOK
  PROVE  /\ backlog \in Seq(Clients) /\ Len(backlog) \in Nat
         /\ \A i \in 1..Len(backlog) : backlog[i] \in Clients
<1>1. backlog \in Seq(Clients)
  BY DEF TypeOK
<1>2. QED
  BY <1>1, ElementOfSeq, LenProperties

\* The connection accepted is not among those that go on waiting.
LEMMA BacklogTail ==
  ASSUME TypeOK, BacklogInv, backlog # <<>>
  PROVE  /\ Len(backlog) \in Nat \ {0} /\ Head(backlog) = backlog[1]
         /\ Tail(backlog) \in Seq(Clients) /\ Len(Tail(backlog)) = Len(backlog) - 1
         /\ \A i \in 1..Len(Tail(backlog)) :
              /\ i + 1 \in 1..Len(backlog) /\ Tail(backlog)[i] = backlog[i + 1]
              /\ Tail(backlog)[i] # Head(backlog)
<1>1. backlog \in Seq(Clients) /\ Len(backlog) \in Nat \ {0} /\ Head(backlog) = backlog[1]
  BY BacklogElements, EmptySeq
<1>2. /\ Tail(backlog) \in Seq(Clients) /\ Len(Tail(backlog)) = Len(backlog) - 1
      /\ \A i \in 1..Len(Tail(backlog)) : Tail(backlog)[i] = backlog[i + 1]
  BY <1>1, HeadTailProperties
<1>3. \A i \in 1..Len(Tail(backlog)) : i + 1 \in 1..Len(backlog) /\ 1 \in 1..Len(backlog) /\ i + 1 # 1
  BY <1>1, <1>2
<1>4. \A i \in 1..Len(Tail(backlog)) : backlog[i + 1] # backlog[1]
  BY <1>3 DEF BacklogInv
<1>5. QED
  BY <1>1, <1>2, <1>3, <1>4

\* A waiting connection of which a step changes nothing.
LEMMA SameUnderWay ==
  ASSUME NEW c \in Clients, NEW n \in Nat, UnderWay(c, n),
         client'[c] = client[c], stream'[c] = stream[c]
  PROVE  UnderWay(c, n)'
  BY DEF UnderWay, Follows

\* Whatever the client does, what is under way stays all it has sent.
LEMMA ClientUnderWay ==
  ASSUME TypeOK, NEW c \in Clients, NEW d \in Clients, NEW n \in Nat,
         UnderWay(c, n), ClientActs(d), client[c].at # "idle"
  PROVE  UnderWay(c, n)'
<1>1. CASE c # d
  <2>1. client'[c] = client[c] /\ stream'[c] = stream[c]
    BY <1>1, ConnectFields, SendPieceFields, CloseFields, ResetFields DEF ClientActs, ClientFields
  <2>2. QED
    BY <2>1, SameUnderWay
<1>2. CASE c = d
  <2>1. CASE SendPiece(c)
    <3>1. client[c].at = "open" /\ client[c].sent \in Nat /\ stream[c] \in Seq(Piece)
      BY <2>1, Types DEF SendPiece
    <3>2. Follows(stream[c], c, n) /\ n + Len(stream[c]) = client[c].sent
      BY <3>1 DEF UnderWay
    <3>3. /\ client'[c].sent = client[c].sent + 1
          /\ stream'[c] = Append(stream[c], <<c, client[c].sent + 1>>)
      BY <2>1, SendPieceFields DEF ClientFields
    <3>4. stream'[c] = Append(stream[c], <<c, n + Len(stream[c]) + 1>>)
      BY <3>2, <3>3
    <3>5. Len(stream'[c]) = Len(stream[c]) + 1 /\ Follows(stream'[c], c, n)
      <4>1. LET t == Append(stream[c], <<c, n + Len(stream[c]) + 1>>)
            IN t \in Seq(Piece) /\ Len(t) = Len(stream[c]) + 1 /\ Follows(t, c, n)
        BY <3>1, <3>2, FollowsAppend, Zenon
      <4>2. QED
        BY <3>4, <4>1, Zenon
    <3>6. n + Len(stream'[c]) = client'[c].sent
      <4>1. Len(stream[c]) \in Nat
        BY <3>1
      <4>2. QED
        BY <3>2, <3>3, <3>5, <4>1
    <3>7. QED
      BY <3>5, <3>6 DEF UnderWay, Follows
  <2>2. CASE Close(c)
    <3>1. /\ client'[c].sent = client[c].sent /\ stream'[c] = stream[c]
          /\ client[c].at # "reset"
      BY <2>2, CloseFields DEF ClientFields
    <3>2. QED
      BY <3>1 DEF UnderWay, Follows
  <2>3. CASE Reset(c)
    <3>1. client'[c].at = "reset"
      BY <2>3, ResetFields DEF ClientFields
    <3>2. QED
      BY <3>1 DEF UnderWay
  <2>4. QED
    BY <1>2, <2>1, <2>2, <2>3 DEF ClientActs, Connect
<1>3. QED
  BY <1>1, <1>2

LEMMA BacklogStep == IInv /\ [Next]_vars => BacklogInv'
<1> SUFFICES ASSUME IInv, [Next]_vars PROVE BacklogInv'
  OBVIOUS
<1>0. TypeOK /\ KernelInv /\ ClientsInv /\ BacklogInv /\ RequestInv
  BY DEF IInv
<1> USE <1>0 DEF serverVars, clientVars
<1>1. CASE StartTcpServer
  <2>1. /\ backlog' = backlog /\ client' = client /\ stream' = stream
        /\ thread' = [thread EXCEPT ![networkSocket + 1] = Accepting]
    BY <1>1 DEF StartTcpServer
  <2>2. \A k \in Servers : thread'[k] = thread[k] \/ thread'[k].of = NoClient
    BY <2>1, Types, ThreadTypes
  <2>3. QED
    BY <2>1, <2>2, BacklogElements DEF BacklogInv, UnderWay, Follows
<1>2. CASE StopTcpServer
  BY <1>2 DEF StopTcpServer, BacklogInv, UnderWay, Follows
<1>3. ASSUME NEW d \in Clients, ClientActs(d) PROVE BacklogInv'
  <2>0. thread' = thread
    BY <1>3 DEF ClientActs, Connect, SendPiece, Close, Reset
  <2>1. ASSUME NEW c \in Clients, NEW i \in 1..Len(backlog), backlog[i] = c
        PROVE  /\ client'[c].at \notin {"idle", "over"}
               /\ \A k \in Servers : thread'[k].of # c
               /\ UnderWay(c, 0)'
    <3>1. client[c].at \notin {"idle", "over"} /\ UnderWay(c, 0)
      BY <2>1 DEF BacklogInv
    <3>2. UnderWay(c, 0)'
      BY <1>3, <3>1, ClientUnderWay
    <3>3. client'[c].at \notin {"idle", "over"}
      BY <1>3, <3>1, ConnectFields, SendPieceFields, CloseFields, ResetFields
         DEF ClientActs, ClientFields
    <3>4. QED
      BY <2>0, <2>1, <3>2, <3>3 DEF BacklogInv
  <2>2. CASE backlog' = backlog
    BY <2>1, <2>2, BacklogElements DEF BacklogInv
  <2>3. CASE Connect(d)
    <3>1. client[d].at = "idle" /\ backlog' = Append(backlog, d) /\ stream'[d] = <<>>
      BY <2>3, ConnectFields DEF Connect, ClientsInv
    <3>2. /\ Len(backlog') = Len(backlog) + 1
          /\ \A i \in 1..Len(backlog) + 1 :
               backlog'[i] = IF i = Len(backlog) + 1 THEN d ELSE backlog[i]
      BY <3>1, BacklogElements
    <3>3. UnderWay(d, 0)' /\ client'[d].at = "open"
      BY <2>3, <3>1, ConnectFields DEF UnderWay, Follows, ClientFields
    <3>4. \A i \in 1..Len(backlog) : backlog[i] # d
      BY <3>1 DEF BacklogInv
    <3>5. \A k \in Servers : thread'[k].of # d
      BY <2>0, <3>1, ClientsAssumption DEF KernelInv
    <3>6. QED
      BY <2>1, <3>2, <3>3, <3>4, <3>5, BacklogElements DEF BacklogInv
  <2>4. QED
    BY <1>3, <2>2, <2>3 DEF ClientActs, SendPiece, Close, Reset
<1>4. ASSUME NEW k \in Servers, Run(k) PROVE BacklogInv'
  <2> DEFINE o == thread[k].of
  <2>0. ASSUME backlog' = backlog,
               \A j \in Servers : thread'[j].of \in {thread[j].of, NoClient},
               \A c \in Clients \ {o} : client'[c] = client[c] /\ stream'[c] = stream[c]
        PROVE  BacklogInv'
    <3>1. ASSUME NEW i \in 1..Len(backlog)
          PROVE  /\ client'[backlog[i]].at \notin {"idle", "over"}
                 /\ \A j \in Servers : thread'[j].of # backlog[i]
                 /\ UnderWay(backlog[i], 0)'
      <4>1. backlog[i] \in Clients \ {o} /\ UnderWay(backlog[i], 0)
        BY BacklogElements DEF BacklogInv
      <4>2. client'[backlog[i]] = client[backlog[i]] /\ stream'[backlog[i]] = stream[backlog[i]]
        BY <2>0, <4>1
      <4>3. QED
        BY <2>0, <4>1, <4>2 DEF BacklogInv, UnderWay, Follows
    <3>2. QED
      BY <2>0, <3>1 DEF BacklogInv
  <2>1. CASE Accept(k)
    <3>1. /\ backlog # <<>> /\ backlog' = Tail(backlog)
          /\ client' = client /\ stream' = stream
      BY <2>1 DEF Accept
    <3>2. \A i \in 1..Len(backlog') : /\ i + 1 \in 1..Len(backlog)
                                      /\ backlog'[i] = backlog[i + 1]
                                      /\ backlog'[i] # Head(backlog)
      BY <3>1, BacklogTail
    <3>3. thread'[k].of = Head(backlog) /\ Others(k)
      BY <2>1, AcceptFields
    <3>4. \A i, j \in 1..Len(backlog') : backlog'[i] = backlog'[j] => i = j
      <4>1. SUFFICES ASSUME NEW i \in 1..Len(backlog'), NEW j \in 1..Len(backlog'),
                            backlog'[i] = backlog'[j]
                     PROVE  i = j
        OBVIOUS
      <4>2. i + 1 = j + 1
        BY <3>2, <4>1 DEF BacklogInv
      <4>3. Len(backlog') \in Nat
        BY <3>1, BacklogTail
      <4>4. QED
        BY <4>2, <4>3
    <3>5. ASSUME NEW i \in 1..Len(backlog')
          PROVE  /\ client'[backlog'[i]].at \notin {"idle", "over"}
                 /\ \A j \in Servers : thread'[j].of # backlog'[i]
                 /\ UnderWay(backlog[i], 0)'
      <4>1. /\ client[backlog[i + 1]].at \notin {"idle", "over"}
            /\ \A j \in Servers : thread[j].of # backlog[i + 1]
            /\ UnderWay(backlog[i + 1], 0)
        BY <3>2 DEF BacklogInv
      <4>2. QED
        BY <3>1, <3>2, <3>3, <4>1 DEF UnderWay, Follows, Others
    <3>6. QED
      BY <3>4, <3>5 DEF BacklogInv
  <2>2. CASE Receive(k)
    <3>1. backlog' = backlog /\ client' = client
      BY <2>2 DEF Receive
    <3>2. \A c \in Clients \ {o} : stream'[c] = stream[c]
      BY <2>2, Types DEF Receive
    <3>3. thread'[k].of = thread[k].of /\ Others(k)
      BY <2>2, ReceiveFields
    <3>4. QED
      BY <2>0, <3>1, <3>2, <3>3 DEF Others
  <2>3. CASE ReceiveNothing(k)
    <3>1. backlog' = backlog /\ client' = client /\ stream' = stream
      BY <2>3 DEF ReceiveNothing
    <3>2. thread'[k].of = thread[k].of /\ Others(k)
      BY <2>3, ReceiveNothingFields
    <3>3. QED
      BY <2>0, <3>1, <3>2 DEF Others
  <2>4. CASE ReceiveError(k)
    <3>1. backlog' = backlog /\ client' = client /\ stream' = stream
      BY <2>4 DEF ReceiveError
    <3>2. thread'[k].of = thread[k].of /\ Others(k)
      BY <2>4, ReceiveErrorFields
    <3>3. QED
      BY <2>0, <3>1, <3>2 DEF Others
  <2>5. CASE Serve(k) \/ Callback(k) \/ CancelledEnds(k)
    <3>1. /\ backlog' = backlog /\ client' = client /\ stream' = stream
          /\ \E place \in {"received", "calling", "replying", "ended"} :
               thread' = [thread EXCEPT ![k].at = place]
      BY <2>5 DEF Serve, Callback, CancelledEnds
    <3>2. thread'[k].of = thread[k].of /\ Others(k)
      BY <3>1, MovedFields DEF Moved
    <3>3. QED
      BY <2>0, <3>1, <3>2 DEF Others
  <2>6. CASE NothingToServe(k) \/ NoReply(k) \/ Reply(k)
    <3>1. Active(k) /\ ShutDown(k) /\ backlog' = backlog
      BY <2>6 DEF NothingToServe, NoReply, Reply, Active
    <3>2. o \in Clients
      BY <3>1, ClientOf
    <3>3. thread'[k].of = NoClient /\ Others(k)
      BY <3>1, <3>2, ShutDownFields
    <3>4. \A c \in Clients \ {o} : client'[c] = client[c] /\ stream'[c] = stream[c]
      BY <3>1, <3>2, ShutDownFields
    <3>5. QED
      BY <2>0, <3>1, <3>3, <3>4 DEF Others
  <2>7. CASE ReplyKills(k)
    BY <2>0, <2>7 DEF ReplyKills
  <2>8. QED
    BY <1>4, <2>1, <2>2, <2>3, <2>4, <2>5, <2>6, <2>7, RunSteps
<1>5. CASE UNCHANGED vars
  BY <1>5 DEF vars, BacklogInv, UnderWay, Follows
<1>6. QED
  BY <1>1, <1>2, <1>3, <1>4, <1>5 DEF Next

-----------------------------------------------------------------------------
(* Requests.                                                               *)

\* A thread about which a step changes nothing.
LEMMA SameRequest ==
  ASSUME NEW j \in Servers, Active(j) => Request(j),
         thread'[j] = thread[j], answer'[j] = answer[j],
         client'[thread[j].of] = client[thread[j].of],
         stream'[thread[j].of] = stream[thread[j].of],
         heard'[thread[j].of] = heard[thread[j].of], cut' = cut
  PROVE  Active(j)' => Request(j)'
  BY DEF Active, Request, UnderWay, Follows

LEMMA SumOfNats == \A a, b \in Nat : a + b \in Nat
  OBVIOUS

\* The request of the thread of k, field by field.
RequestFacts(k, c, n) ==
  /\ c \in Clients /\ c = thread[k].of /\ c # NoClient
  /\ thread[k].got \in Seq(Piece) /\ thread[k].part \in Seq(Piece) /\ stream[c] \in Seq(Piece)
  /\ n \in Nat /\ n = Len(thread[k].got) + Len(thread[k].part)
  /\ Len(thread[k].got) \in Nat /\ Len(thread[k].part) \in Nat
  /\ client[c].sent \in Nat /\ client[c].length \in Nat
  /\ n <= client[c].sent /\ client[c].sent <= client[c].length
  /\ client[c].at \notin {"idle", "over"}
  /\ Follows(thread[k].got, c, 0) /\ Follows(thread[k].part, c, Len(thread[k].got))
  /\ UnderWay(c, n)

LEMMA ActiveFacts ==
  ASSUME IInv, NEW k \in Servers, Active(k)
  PROVE  RequestFacts(k, thread[k].of, Len(thread[k].got) + Len(thread[k].part))
<1>1. TypeOK /\ KernelInv /\ ClientsInv /\ Request(k)
  BY DEF IInv, RequestInv
<1>2. thread[k].of \in Clients /\ thread[k].of # NoClient
  BY <1>1, ClientOf
<1>3. thread[k].got \in Seq(Piece) /\ thread[k].part \in Seq(Piece)
  BY <1>1, Types
<1>4. Len(thread[k].got) \in Nat /\ Len(thread[k].part) \in Nat
  BY <1>3
<1>5. /\ stream[thread[k].of] \in Seq(Piece) /\ client[thread[k].of].sent \in Nat
      /\ client[thread[k].of].length \in Nat
  BY <1>1, <1>2, Types
<1>6. client[thread[k].of].sent <= client[thread[k].of].length
  BY <1>1, <1>2 DEF ClientsInv
<1>7. Len(thread[k].got) + Len(thread[k].part) \in Nat
  BY <1>4, SumOfNats, Zenon
<1>8. /\ client[thread[k].of].at \notin {"idle", "over"}
      /\ Follows(thread[k].got, thread[k].of, 0)
      /\ Follows(thread[k].part, thread[k].of, Len(thread[k].got))
      /\ Len(thread[k].got) + Len(thread[k].part) <= client[thread[k].of].sent
      /\ UnderWay(thread[k].of, Len(thread[k].got) + Len(thread[k].part))
  BY <1>1, Zenon DEF Request
<1>9. QED
  BY <1>2, <1>3, <1>4, <1>5, <1>6, <1>7, <1>8, Zenon DEF RequestFacts

\* The request of a thread after a step, from its parts.
LEMMA RequestAgain ==
  ASSUME NEW k \in Servers, NEW c \in Clients, NEW n \in Nat,
         thread'[k].of = c, client'[c].at \notin {"idle", "over"},
         Follows(thread'[k].got, c, 0), Follows(thread'[k].part, c, Len(thread'[k].got)),
         Len(thread'[k].got) + Len(thread'[k].part) = n, n <= client'[c].sent,
         UnderWay(c, n)',
         thread'[k].at \in {"receiving", "received"},
         thread'[k].at = "received" =>
           /\ thread'[k].part = <<>>
           /\ c \notin cut' => Len(thread'[k].got) = client'[c].length
  PROVE  Request(k)'
<1>1. Follows(thread'[k].got, c, 0) /\ Follows(thread'[k].part, c, Len(thread'[k].got))
  OBVIOUS
<1>2. UnderWay(c, Len(thread[k].got) + Len(thread[k].part))'
  BY DEF UnderWay, Follows
<1>3. thread'[k].at # "receiving" => thread'[k].at = "received"
  OBVIOUS
<1>4. thread'[k].at # "replying"
  OBVIOUS
<1>5. QED
  BY <1>1, <1>2, <1>3, <1>4 DEF Request, Follows, UnderWay

\* A piece is received.
LEMMA ReceiveRequest ==
  ASSUME IInv, NEW k \in Servers, Receive(k), Active(k)
  PROVE  Request(k)'
<1>1. PICK c \in Clients, n \in Nat :
        c = thread[k].of /\ RequestFacts(k, c, n)
  BY ActiveFacts, Zenon DEF RequestFacts
<1> DEFINE head == Head(stream[c])
           pieces == Append(thread[k].part, head)
<1>2. TypeOK /\ ClientsInv /\ stream[c] # <<>> /\ client' = client
  BY <1>1 DEF IInv, Receive
<1>3. client[c].at # "reset"
  BY <1>1, <1>2 DEF ClientsInv
<1>4. Follows(stream[c], c, n) /\ n + Len(stream[c]) = client[c].sent
  BY <1>1, <1>3 DEF UnderWay, RequestFacts
<1>5. /\ head = <<c, n + 1>> /\ Tail(stream[c]) \in Seq(Piece)
      /\ Len(Tail(stream[c])) + 1 = Len(stream[c]) /\ Follows(Tail(stream[c]), c, n + 1)
  BY <1>1, <1>2, <1>4, FollowsTail DEF RequestFacts
<1>6. stream'[c] = Tail(stream[c])
  BY <1>1, <1>2, Types DEF Receive
<1>7. pieces \in Seq(Piece) /\ Len(pieces) = Len(thread[k].part) + 1
      /\ Follows(pieces, c, Len(thread[k].got))
  <2>1. /\ thread[k].part \in Seq(Piece) /\ Len(thread[k].got) \in Nat
        /\ Follows(thread[k].part, c, Len(thread[k].got))
        /\ n = Len(thread[k].got) + Len(thread[k].part)
    BY <1>1 DEF RequestFacts
  <2>2. pieces = Append(thread[k].part, <<c, Len(thread[k].got) + Len(thread[k].part) + 1>>)
    BY <1>5, <2>1
  <2> HIDE DEF pieces
  <2>3. QED
    BY <2>1, <2>2, FollowsAppend
<1> HIDE DEF pieces, head
<1>8. thread[k].got \o pieces \in Seq(Piece)
      /\ Len(thread[k].got \o pieces) = Len(thread[k].got) + Len(pieces)
      /\ Follows(thread[k].got \o pieces, c, 0)
  BY <1>1, <1>7, FollowsConcat, Zenon DEF RequestFacts
<1>9. /\ n + 1 \in Nat /\ n + 1 <= client'[c].sent /\ client'[c].at \notin {"idle", "over"}
      /\ UnderWay(c, n + 1)'
  <2>1. stream[c] \in Seq(Piece) /\ client[c].sent \in Nat /\ client[c].at \notin {"idle", "over"}
    BY <1>1 DEF RequestFacts
  <2>2. Len(Tail(stream[c])) \in Nat /\ Len(stream[c]) \in Nat
    BY <1>5, <2>1, LenProperties
  <2>3. n + 1 + Len(Tail(stream[c])) = client[c].sent /\ n + 1 <= client[c].sent /\ n + 1 \in Nat
    <3>1. PICK a \in Nat, b \in Nat : a = Len(stream[c]) /\ b = Len(Tail(stream[c]))
      BY <2>2, Zenon
    <3>2. PICK m \in Nat : m = client[c].sent
      BY <2>1, Zenon
    <3>3. n + a = m /\ b + 1 = a
      BY <1>4, <1>5, <3>1, <3>2, Zenon
    <3>4. n + 1 + b = m /\ n + 1 <= m /\ n + 1 \in Nat
      BY <3>3
    <3>5. QED
      BY <3>1, <3>2, <3>4, Zenon
  <2>4. UnderWay(c, n + 1)'
    <3>1. Follows(stream'[c], c, n + 1) /\ n + 1 + Len(stream'[c]) = client'[c].sent
      BY <1>2, <1>5, <1>6, <2>3, Zenon
    <3>2. QED
      BY <3>1 DEF UnderWay, Follows
  <2>5. QED
    BY <1>2, <2>1, <2>3, <2>4, Zenon
<1>10. /\ thread'[k].at = "receiving" /\ thread'[k].of = c
       /\ \/ thread'[k].got = thread[k].got /\ thread'[k].part = pieces
          \/ thread'[k].got = thread[k].got \o pieces /\ thread'[k].part = <<>>
  BY <1>1, <1>2, ReceiveFields DEF pieces, head
<1>11. /\ Follows(thread'[k].got, c, 0) /\ Follows(thread'[k].part, c, Len(thread'[k].got))
       /\ Len(thread'[k].got) + Len(thread'[k].part) = n + 1
  <2>1. Len(thread[k].got) \in Nat /\ Len(thread[k].part) \in Nat
        /\ n = Len(thread[k].got) + Len(thread[k].part) /\ Follows(thread[k].got, c, 0)
    BY <1>1 DEF RequestFacts
  <2>2. Len(pieces) = Len(thread[k].part) + 1 /\ Follows(pieces, c, Len(thread[k].got))
        /\ Len(thread[k].got \o pieces) = Len(thread[k].got) + Len(pieces)
        /\ Follows(thread[k].got \o pieces, c, 0)
    BY <1>7, <1>8
  <2> DEFINE p == Len(pieces)
  <2>3. p \in Nat /\ Len(thread[k].got) + p = n + 1
    <3>1. p = Len(thread[k].part) + 1 /\ p \in Nat
      BY <2>1, <2>2
    <3>2. PICK a \in Nat, b \in Nat : a = Len(thread[k].got) /\ b = Len(thread[k].part)
      BY <2>1, Zenon
    <3>3. n = a + b /\ p = b + 1
      BY <2>1, <3>1, <3>2, Zenon
    <3> HIDE DEF p
    <3>4. a + p = n + 1
      BY <3>1, <3>3
    <3>5. QED
      BY <3>1, <3>2, <3>4, Zenon
  <2>4. CASE thread'[k].got = thread[k].got /\ thread'[k].part = pieces
    BY <2>1, <2>2, <2>3, <2>4, Zenon
  <2>5. CASE thread'[k].got = thread[k].got \o pieces /\ thread'[k].part = <<>>
    <3>1. Len(thread'[k].got) = n + 1
      BY <2>2, <2>3, <2>5, Zenon
    <3>2. Len(thread'[k].part) = 0 /\ n + 1 + 0 = n + 1
      BY <2>5
    <3>3. QED
      BY <2>2, <2>5, <3>1, <3>2, FollowsEmpty, Zenon
  <2>6. QED
    BY <1>10, <2>4, <2>5
<1>12. QED
  BY <1>9, <1>10, <1>11, RequestAgain

\* Nothing comes: the request is whole unless its client paused.
LEMMA ReceiveNothingRequest ==
  ASSUME IInv, NEW k \in Servers, ReceiveNothing(k), Active(k)
  PROVE  Request(k)'
<1>1. PICK c \in Clients, n \in Nat :
        c = thread[k].of /\ RequestFacts(k, c, n)
  BY ActiveFacts, Zenon DEF RequestFacts
<1>2. /\ TypeOK /\ client' = client /\ stream' = stream
      /\ stream[c] = <<>> /\ client[c].at # "reset"
      /\ cut' = IF thread[k].part = <<>> /\ client[c].sent < client[c].length
                THEN cut \cup {c} ELSE cut
  BY <1>1 DEF IInv, ReceiveNothing, clientVars
<1>3. /\ client[c].sent \in Nat /\ client[c].length \in Nat /\ client[c].sent <= client[c].length
      /\ client[c].at \notin {"idle", "over"} /\ UnderWay(c, n)
  BY <1>1 DEF RequestFacts
<1>4. n = client[c].sent
  BY <1>2, <1>3 DEF UnderWay
<1>5. UnderWay(c, n)'
  BY <1>2, <1>3 DEF UnderWay, Follows
<1>6. /\ thread[k].got \in Seq(Piece) /\ thread[k].part \in Seq(Piece)
      /\ n = Len(thread[k].got) + Len(thread[k].part)
      /\ Len(thread[k].got) \in Nat /\ Len(thread[k].part) \in Nat
      /\ Follows(thread[k].got, c, 0) /\ Follows(thread[k].part, c, Len(thread[k].got))
  BY <1>1 DEF RequestFacts
<1>7. /\ thread'[k].of = c /\ thread'[k].part = <<>>
      /\ \/ /\ thread[k].part # <<>> /\ thread'[k].at = "receiving"
            /\ thread'[k].got = thread[k].got \o thread[k].part
         \/ /\ thread[k].part = <<>> /\ thread'[k].at = "received"
            /\ thread'[k].got = thread[k].got
  BY <1>1, <1>2, ReceiveNothingFields
<1>8. /\ Follows(thread'[k].got, c, 0) /\ Len(thread'[k].got) = n
  <2>1. /\ Len(thread[k].got \o thread[k].part) = n
        /\ Follows(thread[k].got \o thread[k].part, c, 0)
    BY <1>6, FollowsConcat
  <2>2. CASE thread[k].part = <<>>
    BY <1>6, <1>7, <2>2
  <2>3. CASE thread[k].part # <<>>
    BY <1>7, <2>1, <2>3
  <2>4. QED
    BY <2>2, <2>3
<1>9. /\ Follows(thread'[k].part, c, Len(thread'[k].got))
      /\ Len(thread'[k].got) + Len(thread'[k].part) = n
  BY <1>7, <1>8, FollowsEmpty
<1>10. thread'[k].at = "received" /\ c \notin cut' => Len(thread'[k].got) = client'[c].length
  <2>1. n \in Nat
    OBVIOUS
  <2>2. thread'[k].at = "received" /\ c \notin cut' => ~(client[c].sent < client[c].length)
    BY <1>2, <1>7
  <2>3. QED
    BY <1>2, <1>3, <1>4, <1>8, <2>2
<1>11. n <= client'[c].sent /\ client'[c].at \notin {"idle", "over"}
  BY <1>2, <1>3, <1>4
<1>12. thread'[k].at \in {"receiving", "received"}
  BY <1>7
<1>13. QED
  BY <1>5, <1>7, <1>8, <1>9, <1>10, <1>11, <1>12, RequestAgain

LEMMA ReceiveErrorRequest ==
  ASSUME IInv, NEW k \in Servers, ReceiveError(k), Active(k)
  PROVE  Request(k)'
<1>1. PICK c \in Clients, n \in Nat :
        c = thread[k].of /\ RequestFacts(k, c, n)
  BY ActiveFacts, Zenon DEF RequestFacts
<1>2. /\ TypeOK /\ client' = client /\ client[c].at = "reset" /\ c \in cut'
  BY <1>1 DEF IInv, ReceiveError, clientVars
<1>3. /\ thread'[k].at = "received" /\ thread'[k].of = c
      /\ thread'[k].got = thread[k].got /\ thread'[k].part = <<>>
  BY <1>1, <1>2, ReceiveErrorFields
<1>4. /\ n = Len(thread[k].got) + Len(thread[k].part)
      /\ Len(thread[k].got) \in Nat /\ Len(thread[k].part) \in Nat
      /\ client[c].sent \in Nat /\ n <= client[c].sent
      /\ client[c].at \notin {"idle", "over"} /\ Follows(thread[k].got, c, 0)
  BY <1>1 DEF RequestFacts
<1>5. PICK m \in Nat : m = Len(thread[k].got)
  BY <1>4
<1>6. m <= client'[c].sent /\ Len(thread'[k].got) + Len(thread'[k].part) = m
  <2>1. Len(thread'[k].part) = 0 /\ m + 0 = m
    BY <1>3
  <2>2. m <= client[c].sent
    <3>1. PICK p \in Nat, q \in Nat : p = Len(thread[k].part) /\ q = client[c].sent
      BY <1>4, Zenon
    <3>2. m + p <= q
      BY <1>4, <1>5, <3>1
    <3>3. m <= q
      BY <3>2
    <3>4. QED
      BY <3>1, <3>3
  <2>3. QED
    BY <1>2, <1>3, <1>5, <2>1, <2>2, Zenon
<1>7. Follows(thread'[k].got, c, 0) /\ Follows(thread'[k].part, c, Len(thread'[k].got))
  BY <1>3, <1>4, FollowsEmpty
<1>8. UnderWay(c, m)' /\ client'[c].at \notin {"idle", "over"}
  BY <1>2, <1>4 DEF UnderWay
<1>9. thread'[k].at \in {"receiving", "received"}
  BY <1>3
<1>10. QED
  BY <1>2, <1>3, <1>6, <1>7, <1>8, <1>9, RequestAgain

LEMMA AcceptRequest ==
  ASSUME IInv, NEW k \in Servers, Accept(k)
  PROVE  Request(k)'
<1> DEFINE c == Head(backlog)
<1>1. /\ TypeOK /\ KernelInv /\ BacklogInv /\ backlog # <<>>
      /\ client' = client /\ stream' = stream /\ thread[k].at = "accepting"
  BY DEF IInv, Accept
<1>2. /\ thread'[k].at = "receiving" /\ thread'[k].of = c
      /\ thread'[k].got = <<>> /\ thread'[k].part = <<>>
  BY <1>1, AcceptFields DEF KernelInv
<1>3. c = backlog[1] /\ 1 \in 1..Len(backlog)
  BY <1>1, BacklogTail
<1>4. c \in Clients /\ client[c].at \notin {"idle", "over"} /\ UnderWay(c, 0)
  BY <1>1, <1>3, BacklogElements DEF BacklogInv
<1>5. client[c].sent \in Nat /\ Len(<<>>) = 0 /\ 0 + 0 = 0
  BY <1>1, <1>4, Types
<1>6. Follows(thread'[k].got, c, 0) /\ Follows(thread'[k].part, c, Len(thread'[k].got))
  BY <1>2, FollowsEmpty
<1> HIDE DEF c
<1>7. QED
  BY <1>1, <1>2, <1>4, <1>5, <1>6 DEF Request, UnderWay, Follows

\* The callback leaves what it leaves for the client that asked.
LEMMA CallbackRequest ==
  ASSUME IInv, NEW k \in Servers, Callback(k)
  PROVE  Request(k)'
<1> DEFINE c == thread[k].of
<1>1. /\ TypeOK /\ Active(k) /\ Request(k) /\ thread[k].at = "calling"
      /\ client' = client /\ stream' = stream /\ cut' = cut
  BY DEF IInv, RequestInv, Callback, Active, clientVars
<1>2. c \in Clients
  BY <1>1, ClientOf DEF IInv
<1>3. /\ thread'[k].at = "replying" /\ thread'[k].of = c
      /\ thread'[k].got = thread[k].got /\ thread'[k].part = thread[k].part
  BY <1>1, MovedFields DEF Callback, Moved
<1>4. heard'[c].asked = "answer" => answer'[k] = c
  <2>1. PICK a \in {"nothing", "answer", "nothing to answer", "other"} :
          /\ heard' = [heard EXCEPT ![c].asked = a]
          /\ a = "answer" => answer' = [answer EXCEPT ![k] = c]
    BY DEF Callback
  <2>2. heard'[c] = [heard[c] EXCEPT !.asked = a] /\ heard[c] \in Hearing
    BY <1>1, <1>2, <2>1, Types
  <2>3. heard'[c].asked = a
    BY <2>2 DEF Hearing
  <2>4. answer \in [Servers -> Clients \cup {NoClient, Garbage}]
    BY <1>1 DEF TypeOK
  <2>5. QED
    BY <2>1, <2>3, <2>4
<1>5. QED
  BY <1>1, <1>3, <1>4 DEF Request, UnderWay, Follows

LEMMA ServeRequest ==
  ASSUME IInv, NEW k \in Servers, Serve(k)
  PROVE  Request(k)'
<1>1. /\ TypeOK /\ Active(k) /\ Request(k) /\ thread[k].at = "received"
      /\ client' = client /\ stream' = stream /\ cut' = cut
  BY DEF IInv, RequestInv, Serve, Active, clientVars
<1>2. /\ thread'[k].at = "calling" /\ thread'[k].of = thread[k].of
      /\ thread'[k].got = thread[k].got /\ thread'[k].part = thread[k].part
  BY <1>1, MovedFields DEF Serve, Moved
<1>3. QED
  BY <1>1, <1>2 DEF Request, UnderWay, Follows

LEMMA RequestStep == IInv /\ [Next]_vars => RequestInv'
<1> SUFFICES ASSUME IInv, [Next]_vars, NEW j \in Servers, Active(j)' PROVE Request(j)'
  BY DEF RequestInv
<1>0. TypeOK /\ KernelInv /\ RequestInv
  BY DEF IInv
<1> USE <1>0 DEF serverVars, clientVars
<1>1. CASE StartTcpServer
  <2> DEFINE k == networkSocket + 1
  <2>1. /\ k \in Servers /\ client' = client /\ stream' = stream /\ heard' = heard /\ cut' = cut
        /\ thread' = [thread EXCEPT ![k] = Accepting]
        /\ \E reply \in {NoClient, Garbage} : answer' = [answer EXCEPT ![k] = reply]
    BY <1>1 DEF StartTcpServer
  <2> HIDE DEF k
  <2>2. j # k
    BY <2>1, Types, ThreadTypes DEF Active
  <2>3. thread'[j] = thread[j] /\ answer'[j] = answer[j]
    <3>1. answer \in [Servers -> Clients \cup {NoClient, Garbage}]
      BY DEF TypeOK
    <3>2. QED
      BY <2>1, <2>2, <3>1, Types
  <2>4. QED
    BY <2>1, <2>3, SameRequest DEF RequestInv
<1>2. CASE StopTcpServer
  BY <1>2, SameRequest DEF StopTcpServer, RequestInv
<1>3. ASSUME NEW d \in Clients, ClientActs(d) PROVE Request(j)'
  <2>1. thread' = thread /\ answer' = answer /\ heard' = heard /\ cut' = cut
    BY <1>3 DEF ClientActs, Connect, SendPiece, Close, Reset
  <2>2. Active(j) /\ Request(j)
    BY <2>1 DEF Active, RequestInv
  <2>3. PICK c \in Clients, n \in Nat : c = thread[j].of /\ RequestFacts(j, c, n)
    BY <2>2, ActiveFacts, Zenon DEF RequestFacts
  <2>4. UnderWay(c, n)'
    BY <1>3, <2>3, ClientUnderWay DEF RequestFacts
  <2>5. /\ client'[c].length = client[c].length
        /\ client'[c].sent \in {client[c].sent, client[c].sent + 1}
        /\ client'[c].at \notin {"idle", "over"}
    <3>1. CASE Connect(d)
      <4>1. c # d
        BY <2>3, <3>1 DEF Connect, RequestFacts
      <4>2. QED
        BY <2>3, <3>1, <4>1, ConnectFields DEF ClientFields, RequestFacts
    <3>2. CASE SendPiece(d) \/ Close(d) \/ Reset(d)
      BY <2>3, <3>2, SendPieceFields, CloseFields, ResetFields DEF ClientFields, RequestFacts
    <3>3. QED
      BY <1>3, <3>1, <3>2 DEF ClientActs
  <2>6. n <= client'[c].sent
    <3>1. n <= client[c].sent /\ client[c].sent \in Nat
      BY <2>3 DEF RequestFacts
    <3>2. QED
      BY <2>5, <3>1
  <2>7. n = Len(thread[j].got) + Len(thread[j].part) /\ c = thread[j].of
    BY <2>3 DEF RequestFacts
  <2>8. QED
    BY <2>1, <2>2, <2>4, <2>5, <2>6, <2>7 DEF Request, UnderWay, Follows
<1>4. ASSUME NEW k \in Servers, Run(k) PROVE Request(j)'
  <2>1. CASE Accept(k)
    <3>1. j = k
      <4>2. k \in listening
        BY <2>1 DEF Accept
      <4>3. ASSUME j # k PROVE FALSE
        <5>1. Active(j)
          BY <2>1, <4>3, AcceptFields DEF Active, Others
        <5>2. j \in listening
          BY <5>1, ClientOf DEF KernelInv
        <5>3. QED
          BY <4>2, <4>3, <5>2 DEF KernelInv
      <4>4. QED
        BY <4>3
    <3>2. QED
      BY <2>1, <3>1, AcceptRequest
  <2>2. CASE Receive(k) \/ ReceiveNothing(k) \/ ReceiveError(k) \/ Serve(k) \/ Callback(k)
    <3>1. Active(k)
      BY <2>2 DEF Receive, ReceiveNothing, ReceiveError, Receiving, Serve, Callback, Active
    <3>2. Others(k)
      <4>1. CASE Receive(k) \/ ReceiveNothing(k) \/ ReceiveError(k)
        BY <4>1, ReceiveFields, ReceiveNothingFields, ReceiveErrorFields
      <4>2. CASE Serve(k) \/ Callback(k)
        BY <4>2, MovedFields DEF Serve, Callback, Moved
      <4>3. QED
        BY <2>2, <4>1, <4>2
    <3>3. j = k
      <4>1. ASSUME j # k PROVE FALSE
        <5>1. Active(j)
          BY <3>2, <4>1 DEF Active, Others
        <5>2. QED
          BY <3>1, <4>1, <5>1, ClientOf, OneActive
      <4>2. QED
        BY <4>1
    <3>4. Request(k)'
      <4>1. CASE Receive(k) \/ ReceiveNothing(k) \/ ReceiveError(k)
        BY <3>1, <4>1, ReceiveRequest, ReceiveNothingRequest, ReceiveErrorRequest
      <4>2. CASE Serve(k) \/ Callback(k)
        BY <4>2, ServeRequest, CallbackRequest
      <4>3. QED
        BY <2>2, <4>1, <4>2
    <3>5. QED
      BY <3>3, <3>4
  <2>3. CASE NothingToServe(k) \/ NoReply(k) \/ Reply(k)
    <3>1. Active(k) /\ ShutDown(k)
      BY <2>3 DEF NothingToServe, NoReply, Reply, Active
    <3>2. thread[k].of \in Clients /\ thread[k].of # NoClient
      BY <3>1, ClientOf
    <3>3. Others(k) /\ thread'[k].at = "accepting"
      BY <3>1, <3>2, ShutDownFields
    <3>4. j # k
      BY <3>3 DEF Active
    <3>5. Active(j)
      BY <3>3, <3>4 DEF Active, Others
    <3>6. QED
      BY <3>2, <3>4, <3>5, OneActive
  <2>4. CASE ReplyKills(k)
    BY <2>4, SameRequest DEF ReplyKills, RequestInv
  <2>5. CASE CancelledEnds(k)
    <3>1. Others(k) /\ thread'[k].at = "ended"
      BY <2>5, MovedFields DEF CancelledEnds, Moved
    <3>2. j # k
      BY <3>1 DEF Active
    <3>3. thread'[j] = thread[j]
      BY <3>1, <3>2 DEF Others
    <3>4. QED
      BY <2>5, <3>3, SameRequest DEF CancelledEnds, RequestInv
  <2>6. QED
    BY <1>4, <2>1, <2>2, <2>3, <2>4, <2>5, RunSteps
<1>5. CASE UNCHANGED vars
  BY <1>5, SameRequest DEF vars, RequestInv
<1>6. QED
  BY <1>1, <1>2, <1>3, <1>4, <1>5 DEF Next

-----------------------------------------------------------------------------
(* Replies.                                                                *)

LEMMA HearingUpdates ==
  ASSUME NEW h \in Hearing
  PROVE  /\ \A a : [h EXCEPT !.asked = a].asked = a /\ [h EXCEPT !.asked = a].reply = h.reply
         /\ \A r : [h EXCEPT !.reply = r].reply = r /\ [h EXCEPT !.reply = r].asked = h.asked
  BY DEF Hearing

LEMMA CallbackAnswers ==
  ASSUME IInv, NEW k \in Servers, Callback(k)
  PROVE  AnswersOwn'
<1>1. TypeOK /\ ClientsInv /\ KernelInv /\ AnswersOwn /\ Active(k) /\ Request(k)
  BY DEF IInv, RequestInv, Callback, Active
<1>2. PICK d \in Clients : d = thread[k].of
  BY <1>1, ClientOf
<1>3. client[d].at # "over"
  BY <1>1, <1>2 DEF Request
<1>4. heard[d].reply = NoClient
  BY <1>1, <1>3 DEF ClientsInv
<1>5. PICK a \in {"answer", "nothing to answer", "other"} : heard' = [heard EXCEPT ![d].asked = a]
  BY <1>2 DEF Callback
<1>6. ASSUME NEW c \in Clients, heard'[c].asked = "answer"
      PROVE  heard'[c].reply \in {c, NoClient}
  <2>1. CASE c = d
    <3>1. heard[d] \in Hearing /\ heard'[d] = [heard[d] EXCEPT !.asked = a]
      BY <1>1, <1>5, Types
    <3>2. heard'[d].reply = NoClient
      <4>1. [heard[d] EXCEPT !.asked = a].reply = heard[d].reply
        BY <3>1, HearingUpdates
      <4>2. QED
        BY <1>4, <3>1, <4>1, Zenon
    <3>3. QED
      BY <2>1, <3>2
  <2>2. CASE c # d
    <3>1. heard'[c] = heard[c]
      BY <1>1, <1>5, <2>2, Types
    <3>2. QED
      BY <1>1, <1>6, <3>1 DEF AnswersOwn
  <2>3. QED
    BY <2>1, <2>2
<1>7. QED
  BY <1>6 DEF AnswersOwn

\* What is sent to a client whose command has an answer is that.
LEMMA ReplyAnswers ==
  ASSUME IInv, NEW k \in Servers, Reply(k)
  PROVE  AnswersOwn'
<1>1. TypeOK /\ KernelInv /\ AnswersOwn /\ Active(k) /\ Request(k) /\ thread[k].at = "replying"
  BY DEF IInv, RequestInv, Reply, Active
<1>2. PICK d \in Clients : d = thread[k].of
  BY <1>1, ClientOf
<1>3. heard' = heard \/ heard' = [heard EXCEPT ![d].reply = answer[k]]
  BY <1>2 DEF Reply
<1>4. CASE heard' = heard
  BY <1>1, <1>4 DEF AnswersOwn
<1>5. CASE heard' = [heard EXCEPT ![d].reply = answer[k]]
  <2>1. ASSUME NEW c \in Clients, heard'[c].asked = "answer"
        PROVE  heard'[c].reply \in {c, NoClient}
    <3>1. CASE c = d
      <4>1. heard[d] \in Hearing /\ heard'[d] = [heard[d] EXCEPT !.reply = answer[k]]
        BY <1>1, <1>5, Types
      <4>2. heard'[d].reply = answer[k] /\ heard'[d].asked = heard[d].asked
        BY <4>1, HearingUpdates
      <4>3. heard[d].asked = "answer"
        BY <2>1, <3>1, <4>2
      <4>4. answer[k] = d
        BY <1>1, <1>2, <4>3 DEF Request
      <4>5. QED
        BY <3>1, <4>2, <4>4
    <3>2. CASE c # d
      <4>1. heard'[c] = heard[c]
        BY <1>1, <1>5, <3>2, Types
      <4>2. QED
        BY <1>1, <2>1, <4>1 DEF AnswersOwn
    <3>3. QED
      BY <3>1, <3>2
  <2>2. QED
    BY <2>1 DEF AnswersOwn
<1>6. QED
  BY <1>3, <1>4, <1>5

LEMMA AnswersStep == IInv /\ [Next]_vars => AnswersOwn'
<1> SUFFICES ASSUME IInv, [Next]_vars PROVE AnswersOwn'
  OBVIOUS
<1>0. AnswersOwn
  BY DEF IInv
<1>1. ASSUME heard' = heard PROVE AnswersOwn'
  BY <1>0, <1>1 DEF AnswersOwn
<1>2. CASE StartTcpServer \/ StopTcpServer
  BY <1>1, <1>2 DEF StartTcpServer, StopTcpServer
<1>3. ASSUME NEW c \in Clients, ClientActs(c) PROVE AnswersOwn'
  BY <1>1, <1>3 DEF ClientActs, Connect, SendPiece, Close, Reset
<1>4. ASSUME NEW k \in Servers, Run(k) PROVE AnswersOwn'
  <2>1. CASE Accept(k) \/ Receive(k) \/ ReceiveNothing(k) \/ ReceiveError(k) \/ Serve(k)
    BY <1>1, <2>1 DEF Accept, Receive, ReceiveNothing, ReceiveError, Serve
  <2>2. CASE NothingToServe(k) \/ NoReply(k) \/ ReplyKills(k) \/ CancelledEnds(k)
    BY <1>1, <2>2 DEF NothingToServe, NoReply, ReplyKills, CancelledEnds
  <2>3. CASE Callback(k)
    BY <2>3, CallbackAnswers
  <2>4. CASE Reply(k)
    BY <2>4, ReplyAnswers
  <2>5. QED
    BY <1>4, <2>1, <2>2, <2>3, <2>4, RunSteps
<1>5. CASE UNCHANGED vars
  BY <1>1, <1>5 DEF vars
<1>6. QED
  BY <1>2, <1>3, <1>4, <1>5 DEF Next

-----------------------------------------------------------------------------
(* Theorems.                                                               *)

LEMMA Invariance == Spec => []IInv
<1>1. IInv /\ [Next]_vars => IInv'
  BY TypeStep, KernelStep, ClientsStep, BacklogStep, RequestStep, AnswersStep DEF IInv
<1>2. QED
  BY InitInv, <1>1, PTL DEF Spec

\* Every variable of the server, its threads, its clients and the kernel keeps
\* a value of its declaration, whatever the clients do.
THEOREM Typing == Spec => []TypeOK
<1>1. IInv => TypeOK
  BY DEF IInv
<1>2. QED
  BY Invariance, <1>1, PTL

\* Pieces in order are what the client sends.
LEMMA MessageProperties ==
  ASSUME NEW c \in Clients, client[c].length \in Nat
  PROVE  /\ Message(c) \in Seq(Piece) /\ Len(Message(c)) = client[c].length
         /\ \A i \in 1..client[c].length : Message(c)[i] = <<c, i>>
<1>1. PICK n \in Nat : n = client[c].length
  OBVIOUS
<1>2. Message(c) = [i \in 1..n |-> <<c, i>>]
  BY <1>1 DEF Message
<1>3. \A i \in 1..n : <<c, i>> \in Piece
  BY DEF Piece
<1>4. QED
  BY <1>1, <1>2, <1>3

LEMMA PrefixOfMessage ==
  ASSUME NEW s \in Seq(Piece), NEW c \in Clients, Follows(s, c, 0),
         client[c].length \in Nat, Len(s) <= client[c].length
  PROVE  IsPrefix(s, Message(c))
<1>1. PICK m \in Nat, n \in Nat : m = Len(s) /\ n = client[c].length /\ m <= n
  OBVIOUS
<1> DEFINE t == Message(c)
<1>2. t \in Seq(Piece) /\ Len(t) = n /\ \A i \in 1..n : t[i] = <<c, i>>
  BY <1>1, MessageProperties
<1> HIDE DEF t
<1>3. \A i \in 1..m : s[i] = t[i]
  BY <1>1, <1>2 DEF Follows
<1>4. SubSeq(s, 1, m) = s
  BY <1>1
<1>5. SubSeq(t, 1, m) = s
  <2>1. /\ SubSeq(t, 1, m) \in Seq(Piece) /\ Len(SubSeq(t, 1, m)) = m
        /\ \A i \in 1..m : SubSeq(t, 1, m)[i] = t[i]
    BY <1>1, <1>2
  <2>2. QED
    BY <1>1, <1>3, <2>1, SeqEqual
<1>6. QED
  BY <1>1, <1>2, <1>4, <1>5 DEF IsPrefix, t

LEMMA WholeMessage ==
  ASSUME NEW s \in Seq(Piece), NEW c \in Clients, Follows(s, c, 0),
         client[c].length \in Nat, Len(s) = client[c].length
  PROVE  s = Message(c)
<1>1. PICK n \in Nat : n = client[c].length /\ n = Len(s)
  OBVIOUS
<1>2. /\ Message(c) \in Seq(Piece) /\ Len(Message(c)) = n
      /\ \A i \in 1..n : Message(c)[i] = <<c, i>>
  BY <1>1, MessageProperties
<1>3. \A i \in 1..n : s[i] = Message(c)[i]
  <2>1. \A i \in 1..n : 0 + i = i
    OBVIOUS
  <2>2. \A i \in 1..n : s[i] = <<c, 0 + i>>
    BY <1>1 DEF Follows
  <2>3. QED
    BY <1>2, <2>1, <2>2
<1>4. QED
  BY <1>1, <1>2, <1>3, SeqEqual

\* What a thread has got is a beginning of what its client sent: received
\* through any number of buffers, on a listening socket that stopped servers
\* may have left behind.
THEOREM Ownership == Spec => []RequestsOwn
<1>1. ASSUME IInv, NEW k \in Servers, Called(k)
      PROVE  IsPrefix(thread[k].got, Message(thread[k].of))
  <2>1. PICK c \in Clients, n \in Nat : c = thread[k].of /\ RequestFacts(k, c, n)
    BY <1>1, ActiveFacts, Zenon DEF RequestFacts, Called, Active
  <2>2. PICK m \in Nat : m = Len(thread[k].got)
    BY <2>1 DEF RequestFacts
  <2>3. m <= client[c].length /\ client[c].length \in Nat
    <3>1. PICK p \in Nat, q \in Nat, r \in Nat :
            p = Len(thread[k].part) /\ q = client[c].sent /\ r = client[c].length
      BY <2>1, Zenon DEF RequestFacts
    <3>2. n = m + p /\ n <= q /\ q <= r
      BY <2>1, <2>2, <3>1, Zenon DEF RequestFacts
    <3>3. m <= r
      BY <3>2
    <3>4. QED
      BY <3>1, <3>3
  <2>4. Follows(thread[k].got, c, 0) /\ thread[k].got \in Seq(Piece)
    BY <2>1 DEF RequestFacts
  <2>5. QED
    BY <2>1, <2>2, <2>3, <2>4, PrefixOfMessage
<1>2. IInv => RequestsOwn
  BY <1>1 DEF RequestsOwn
<1>3. QED
  BY Invariance, <1>2, PTL

\* A request that was not cut off, by a pause or the end of the connection, is
\* handed over whole, whatever the size of the buffer.
THEOREM Wholeness == Spec => []RequestsWhole
<1>1. ASSUME IInv, NEW k \in Servers, Called(k), thread[k].of \notin cut
      PROVE  thread[k].got = Message(thread[k].of)
  <2>1. PICK c \in Clients : c = thread[k].of
    BY <1>1, ClientOf DEF IInv, Called, Active
  <2>2. /\ Follows(thread[k].got, c, 0) /\ thread[k].got \in Seq(Piece)
        /\ Len(thread[k].got) = client[c].length /\ client[c].length \in Nat
    BY <1>1, <2>1, Types DEF IInv, RequestInv, Request, Called, Active
  <2>3. QED
    BY <2>1, <2>2, WholeMessage
<1>2. IInv => RequestsWhole
  BY <1>1 DEF RequestsWhole
<1>3. QED
  BY Invariance, <1>2, PTL

\* No client that is owed an answer hears another one's, nor the uninitialised
\* buffer: although only some commands write it.
THEOREM Answers == Spec => []AnswersOwn
<1>1. IInv => AnswersOwn
  BY DEF IInv
<1>2. QED
  BY Invariance, <1>1, PTL

\* The callback is never run by two threads at once, however many servers were
\* started and stopped.
THEOREM Callbacks == Spec => []OneCallback
<1>1. IInv => OneCallback
  BY OneActive, ClientOf DEF IInv, OneCallback, Called, Active
<1>2. QED
  BY Invariance, <1>1, PTL
=============================================================================
