------------------------------- MODULE RestServer -------------------------------
(***************************************************************************)
(* The REST server of the agent: its connections and its session table.    *)
(*                                                                         *)
(* One thread accepts connections, one after the other.  It reads the      *)
(* request into a free session, looks up the handler of the request and    *)
(* calls it; the handler posts a message with the session as its cookie    *)
(* to the queue of an application (BST, Packet Trace, BHD or the system    *)
(* utilities).  The application's thread answers on the session's          *)
(* connection, closes it and frees the session, in this order and with no  *)
(* lock.  A message without a cookie makes a report, which opens and       *)
(* closes a connection of its own to the collector.                        *)
(*                                                                         *)
(* Connections are file descriptors: the system gives a closed one to the  *)
(* next connection, so a descriptor closed or used too late is another's.  *)
(***************************************************************************)
EXTENDS Naturals, Sequences

CONSTANTS
  Clients,
  Apps,
  Server,        \* the thread of the server
  Free, Gone,    \* a closed descriptor; one whose client has left
  Report,        \* a connection to the collector
  MaxSessions,   \* REST_MAX_SESSIONS, also the length of the backlog
  MaxFds,        \* descriptors the process may open
  QueueSize,     \* messages that the queue of an application holds
  Cases          \* what may go wrong: see RestAssumption

ASSUME RestAssumption ==
  /\ Server \notin Apps
  /\ Free \notin Clients /\ Gone \notin Clients /\ Report \notin Clients
  /\ Free # Gone /\ Free # Report /\ Gone # Report
  /\ MaxSessions \in Nat \ {0}
  /\ MaxFds \in Nat \ {0}
  /\ QueueSize \in Nat \ {0}
  /\ Cases \subseteq {"hangup",       \* a client leaves before its answer
                      "unreadable",   \* reading the request fails
                      "unsupported",  \* an unknown method or URL
                      "status",       \* a status without an error message
                      "encode"}       \* no memory for the answer

Sessions == 1 .. MaxSessions
NoSession == 0
Fds == 1 .. MaxFds
NoFd == 0
Threads == Apps \cup {Server}

VARIABLES
  client,    \* waiting for an answer, dropped without one, or neither
  backlog,   \* the other ends of connections that have not been accepted
  fds,       \* the other end of every descriptor
  session,   \* the session table
  queue,     \* the message queues of the applications
  thread     \* where every thread is, with its locals

vars == <<client, backlog, fds, session, queue, thread>>

-----------------------------------------------------------------------------
(* for is not in the program: the client whose request it is.               *)

Message == [s : Sessions \cup {NoSession}, for : Clients \cup {Gone, Report}]

Idle == [pc |-> "idle", fd |-> NoFd, s |-> NoSession, for |-> Gone]

Goto(t, pc) ==
  thread' = [thread EXCEPT ![t] = [pc |-> pc, fd |-> thread[t].fd,
                                   s |-> thread[t].s, for |-> thread[t].for]]

Return(t) == thread' = [thread EXCEPT ![t] = Idle]

LeastOf(S) == CHOOSE x \in S : \A y \in S : x <= y

FreeFds == {f \in Fds : fds[f] = Free}

UsableSessionsOneMore ==
  {s \in 1 .. MaxSessions + 1 : s \in Sessions => ~session[s].inUse}

UsableSessions == {s \in Sessions : ~session[s].inUse}

\* The server has the connection in a local variable, an application takes
\* it from the session that the cookie points to.
FdOf(t) == IF t = Server THEN thread[t].fd ELSE session[thread[t].s].fd

\* A connection that is gone is assumed to take data: the signal that the
\* system may send for it (SIGPIPE), which ends the process, is left out.
Delivered(f) ==
  /\ client' = [c \in Clients |-> IF f \in Fds /\ fds[f] = c THEN "idle"
                                  ELSE client[c]]
  /\ fds' = [g \in Fds |-> IF g = f /\ fds[f] \in Clients THEN Gone
                           ELSE fds[g]]

-----------------------------------------------------------------------------
(* Clients, and the timers that ask for reports.                            *)

Connect(c) ==
  /\ client[c] # "waiting"
  /\ Len(backlog) < MaxSessions
  /\ client' = [client EXCEPT ![c] = "waiting"]
  /\ backlog' = Append(backlog, c)
  /\ UNCHANGED <<fds, session, queue, thread>>

\* What was done for c is done for nobody.
Forget(c, r) == IF r.for = c THEN [r EXCEPT !.for = Gone] ELSE r

HangUp(c) ==
  /\ "hangup" \in Cases
  /\ client[c] = "waiting"
  /\ client' = [client EXCEPT ![c] = "idle"]
  /\ backlog' = [i \in DOMAIN backlog |-> IF backlog[i] = c THEN Gone ELSE backlog[i]]
  /\ fds' = [f \in Fds |-> IF fds[f] = c THEN Gone ELSE fds[f]]
  /\ queue' = [a \in Apps |-> [i \in DOMAIN queue[a] |-> Forget(c, queue[a][i])]]
  /\ thread' = [t \in Threads |-> Forget(c, thread[t])]
  /\ UNCHANGED session

TimerExpires(a) ==
  /\ Len(queue[a]) < QueueSize
  /\ queue' = [queue EXCEPT ![a] = Append(@, [s |-> NoSession, for |-> Report])]
  /\ UNCHANGED <<client, backlog, fds, session, thread>>

-----------------------------------------------------------------------------
(* The thread of the server: rest_http_server_run.                          *)

Accept ==
  /\ thread[Server].pc = "idle"
  /\ backlog # <<>>
  /\ FreeFds # {}
  /\ LET f == LeastOf(FreeFds)
         c == Head(backlog)
     IN /\ fds' = [fds EXCEPT ![f] = c]
        /\ thread' = [thread EXCEPT ![Server] =
                        [pc |-> "allocate", fd |-> f, s |-> NoSession, for |-> c]]
  /\ backlog' = Tail(backlog)
  /\ UNCHANGED <<client, session, queue>>

\* The session is cleared, but not in use before a request has been read.
AllocateSession ==
  /\ thread[Server].pc = "allocate"
  /\ UsableSessions # {}
  /\ LET s == LeastOf(UsableSessions)
     IN /\ session' = [session EXCEPT ![s] = [inUse |-> FALSE, fd |-> NoFd]]
        /\ thread' = [thread EXCEPT ![Server] =
                        [pc |-> "read", fd |-> thread[Server].fd, s |-> s,
                         for |-> thread[Server].for]]
  /\ UNCHANGED <<client, backlog, fds, queue>>

\* The server returns to accept; nobody closes the connection.
NoSessionLeft ==
  /\ thread[Server].pc = "allocate"
  /\ UsableSessions = {}
  /\ Return(Server)
  /\ UNCHANGED <<client, backlog, fds, session, queue>>

ReadFails ==
  /\ thread[Server].pc = "read"
  /\ "unreadable" \in Cases
  /\ Goto(Server, "close")
  /\ UNCHANGED <<client, backlog, fds, session, queue>>

\* Every failure to parse the request leaves session->json NULL, which closes
\* the connection before the code that would answer 404.
ParseFails ==
  /\ thread[Server].pc = "read"
  /\ "unsupported" \in Cases
  /\ session' = [session EXCEPT ![thread[Server].s] =
                   [inUse |-> FALSE, fd |-> thread[Server].fd]]
  /\ Goto(Server, "close")
  /\ UNCHANGED <<client, backlog, fds, queue>>

ReadRequest ==
  /\ thread[Server].pc = "read"
  /\ session' = [session EXCEPT ![thread[Server].s] =
                   [inUse |-> TRUE, fd |-> thread[Server].fd]]
  /\ Goto(Server, "handle")
  /\ UNCHANGED <<client, backlog, fds, queue>>

\* There is no handler, the handler rejects the request, or a queue is full.
Reject ==
  /\ thread[Server].pc = "handle"
  /\ Goto(Server, "reply")
  /\ UNCHANGED <<client, backlog, fds, session, queue>>

Dispatch(a) ==
  /\ thread[Server].pc = "handle"
  /\ Len(queue[a]) < QueueSize
  /\ queue' = [queue EXCEPT ![a] = Append(@, [s |-> thread[Server].s,
                                              for |-> thread[Server].for])]
  /\ Return(Server)
  /\ UNCHANGED <<client, backlog, fds, session>>

-----------------------------------------------------------------------------
(* An application.                                                          *)

Receive(a) ==
  /\ thread[a].pc = "idle"
  /\ queue[a] # <<>>
  /\ queue' = [queue EXCEPT ![a] = Tail(@)]
  /\ thread' = [thread EXCEPT ![a] =
                  [pc |-> IF Head(queue[a]).s = NoSession THEN "open" ELSE "reply",
                   fd |-> NoFd, s |-> Head(queue[a]).s,
                   for |-> Head(queue[a]).for]]
  /\ UNCHANGED <<client, backlog, fds, session>>

\* rest_get_json_error_data knows no message for the status of the reply.
StatusUnknown(a) ==
  /\ thread[a].pc = "reply"
  /\ "status" \in Cases
  /\ Goto(a, "close")
  /\ UNCHANGED <<client, backlog, fds, session, queue>>

\* bst_send_response and the others return when the encoder fails.
EncodeFails(a) ==
  /\ thread[a].pc = "reply"
  /\ "encode" \in Cases
  /\ Return(a)
  /\ UNCHANGED <<client, backlog, fds, session, queue>>

\* rest_send_async_report
OpenReport(a) ==
  /\ thread[a].pc = "open"
  /\ IF FreeFds = {}
       THEN Return(a) /\ UNCHANGED fds
       ELSE LET f == LeastOf(FreeFds)
            IN /\ fds' = [fds EXCEPT ![f] = Report]
               /\ thread' = [thread EXCEPT ![a] =
                               [pc |-> "report", fd |-> f, s |-> NoSession,
                                for |-> Report]]
  /\ UNCHANGED <<client, backlog, session, queue>>

CloseReport(a) ==
  /\ thread[a].pc = "report"
  /\ fds' = [fds EXCEPT ![thread[a].fd] = Free]
  /\ Return(a)
  /\ UNCHANGED <<client, backlog, session, queue>>

-----------------------------------------------------------------------------
(* Answers, by the server and by the applications.                          *)

AnswerAndFree(t) ==
  /\ thread[t].pc = "reply"
  /\ Delivered(FdOf(t))
  /\ Goto(t, "close")
  /\ session' = [session EXCEPT ![thread[t].s] = [inUse |-> FALSE, fd |-> @.fd]]
  /\ UNCHANGED <<backlog, queue>>

AnswerOnly(t) ==
  /\ thread[t].pc = "reply"
  /\ Delivered(FdOf(t))
  /\ Goto(t, "free")
  /\ UNCHANGED <<backlog, session, queue>>

Answer(t) ==
  /\ thread[t].pc = "reply"
  /\ Delivered(FdOf(t))
  /\ Goto(t, "close")
  /\ UNCHANGED <<backlog, session, queue>>

\* The client at the other end, if it still waits, gets no answer.
CloseConnection(t) ==
  /\ thread[t].pc = "close"
  /\ client' = [c \in Clients |->
                  IF FdOf(t) \in Fds /\ fds[FdOf(t)] = c THEN "dropped"
                  ELSE client[c]]
  /\ fds' = [g \in Fds |-> IF g = FdOf(t) THEN Free ELSE fds[g]]
  /\ Goto(t, "free")
  /\ UNCHANGED <<backlog, session, queue>>

NeverFreed(t) ==
  /\ thread[t].pc = "free"
  /\ Return(t)
  /\ UNCHANGED <<client, backlog, fds, session, queue>>

FreeSession(t) ==
  /\ thread[t].pc = "free"
  /\ session' = [session EXCEPT ![thread[t].s] = [inUse |-> FALSE, fd |-> @.fd]]
  /\ Return(t)
  /\ UNCHANGED <<client, backlog, fds, queue>>

-----------------------------------------------------------------------------
Init ==
  /\ client = [c \in Clients |-> "idle"]
  /\ backlog = <<>>
  /\ fds = [f \in Fds |-> Free]
  /\ session = [s \in Sessions |-> [inUse |-> FALSE, fd |-> NoFd]]
  /\ queue = [a \in Apps |-> <<>>]
  /\ thread = [t \in Threads |-> Idle]

Reply(t) == Answer(t) \/ CloseConnection(t) \/ FreeSession(t)

ServerThread == \/ Accept \/ AllocateSession \/ NoSessionLeft
                \/ ReadFails \/ ParseFails \/ ReadRequest
                \/ Reject \/ \E a \in Apps : Dispatch(a)
                \/ Reply(Server)

AppThread(a) == \/ Receive(a) \/ StatusUnknown(a) \/ EncodeFails(a)
                \/ OpenReport(a) \/ CloseReport(a)
                \/ Reply(a)

Next ==
  \/ \E c \in Clients : Connect(c) \/ HangUp(c)
  \/ \E a \in Apps : TimerExpires(a) \/ AppThread(a)
  \/ ServerThread

Spec == Init /\ [][Next]_vars

(***************************************************************************)
(* The threads run.  Sending and reading are bounded: select waits two     *)
(* seconds for the rest of a request.                                      *)
(***************************************************************************)
Fairness == WF_vars(ServerThread) /\ \A a \in Apps : WF_vars(AppThread(a))

FairSpec == Spec /\ Fairness

-----------------------------------------------------------------------------
(* Properties.                                                              *)

TypeOK ==
  /\ client \in [Clients -> {"idle", "waiting", "dropped"}]
  /\ backlog \in Seq(Clients \cup {Gone}) /\ Len(backlog) <= MaxSessions
  /\ fds \in [Fds -> Clients \cup {Free, Gone, Report}]
  /\ session \in [Sessions -> [inUse : BOOLEAN, fd : Fds \cup {NoFd}]]
  /\ queue \in [Apps -> Seq(Message)]
  /\ thread \in [Threads ->
       [pc : {"idle", "allocate", "read", "handle", "open", "report", "reply",
              "close", "free"},
        fd : Fds \cup {NoFd}, s : Sessions \cup {NoSession},
        for : Clients \cup {Gone, Report}]]

\* A request is in the hands of a thread, or waits in a queue.
InHand(t) == thread[t].s # NoSession
Waits(a, i) == i \in DOMAIN queue[a] /\ queue[a][i].s # NoSession

(***************************************************************************)
(* A session belongs to one request: no two threads or messages refer to   *)
(* it, and the server reuses it (inUse) only when none does.               *)
(***************************************************************************)
SessionExclusive ==
  /\ \A t, u \in Threads : InHand(t) /\ InHand(u) /\ thread[t].s = thread[u].s
                             => t = u
  /\ \A a \in Apps, i \in 1 .. QueueSize : Waits(a, i) =>
       /\ session[queue[a][i].s].inUse
       /\ \A t \in Threads : thread[t].s # queue[a][i].s
       /\ \A b \in Apps, j \in 1 .. QueueSize :
            Waits(b, j) /\ queue[b][j].s = queue[a][i].s => a = b /\ i = j
  /\ \A a \in Apps : InHand(a) => session[thread[a].s].inUse

(***************************************************************************)
(* "The cookie is the 'session' and identifies the socket on which the     *)
(* data needs to be sent": a thread that answers a request, or closes its  *)
(* connection, has the connection of the client that made the request, and *)
(* not one that has taken its descriptor.                                  *)
(***************************************************************************)
RightConnection ==
  \A t \in Threads :
    /\ thread[t].pc = "reply" =>
         FdOf(t) \in Fds /\ fds[FdOf(t)] = thread[t].for
    /\ thread[t].pc = "close" =>
         FdOf(t) \in Fds /\ fds[FdOf(t)] \in {thread[t].for, Gone}

(***************************************************************************)
(* "All errors are processed internally": every open connection has a      *)
(* thread or a message that will close it.                                 *)
(***************************************************************************)
NoOrphans ==
  \A f \in Fds : fds[f] # Free =>
    \/ thread[Server].pc \notin {"idle", "free"} /\ thread[Server].fd = f
    \/ \E a \in Apps :
         \/ thread[a].pc = "report" /\ thread[a].fd = f
         \/ thread[a].pc \in {"reply", "close"} /\ session[thread[a].s].fd = f
         \/ \E i \in 1 .. QueueSize : Waits(a, i) /\ session[queue[a][i].s].fd = f

(***************************************************************************)
(* A client that sends a request the agent can read gets an answer before  *)
(* its connection is closed, be it an error.                               *)
(***************************************************************************)
NoSilentClose == \A c \in Clients : client[c] # "dropped"

(***************************************************************************)
(* A session and a descriptor serve one request at a time: what an         *)
(* application answers reaches the client that asked, whatever the accept  *)
(* thread does between its close and its release of the session.           *)
(***************************************************************************)
OwnAnswers == SessionExclusive /\ RightConnection

(***************************************************************************)
(* No connection is closed without an answer, and none is left open that   *)
(* no session has.                                                         *)
(***************************************************************************)
ConnectionsKept == NoSilentClose /\ NoOrphans

(***************************************************************************)
(* No client waits for ever: its request is answered, or its connection    *)
(* closed, while the threads run.                                          *)
(***************************************************************************)
EveryRequestEnds ==
  \A c \in Clients : client[c] = "waiting" ~> client[c] # "waiting"

=============================================================================
