---------------------------- MODULE RestServerProofs ----------------------------
(***************************************************************************)
(* What is proved of the REST server for any clients, applications,        *)
(* sessions, descriptors and queues.                                       *)
(***************************************************************************)
EXTENDS RestServer, ProofLemmas, FiniteSetTheorems

-----------------------------------------------------------------------------
(* Where the threads can be, with the locals that they need there.          *)

Place == [pc : {"idle", "allocate", "read", "handle", "open", "report", "reply", "close", "free"},
          fd : Fds \cup {NoFd}, s : Sessions \cup {NoSession},
          for : Clients \cup {Gone, Report}]

WithSession == {"read", "handle", "reply", "close", "free"}
Connected == {"allocate", "read", "handle", "reply", "close"}

PlacesInv ==
  /\ \A t \in Threads : thread[t].s \in Sessions <=> thread[t].pc \in WithSession
  /\ thread[Server].pc \notin {"open", "report"}
  /\ \A a \in Apps : thread[a].pc \notin {"allocate", "read", "handle"}
  /\ thread[Server].pc \in Connected => thread[Server].fd \in Fds
  /\ \A a \in Apps : thread[a].pc = "report" => thread[a].fd \in Fds

QueuesInv == \A a \in Apps : Len(queue[a]) <= QueueSize

BaseInv == TypeOK /\ PlacesInv /\ QueuesInv

LEMMA Numbers ==
  /\ MaxSessions \in Nat /\ MaxFds \in Nat /\ QueueSize \in Nat
  /\ NoSession \notin Sessions /\ NoFd \notin Fds
  /\ Sessions \in SUBSET Nat /\ Fds \in SUBSET Nat
  BY RestAssumption DEF Sessions, Fds, NoSession, NoFd

LEMMA LeastOfIsIn ==
  ASSUME NEW S \in SUBSET Nat, S # {}
  PROVE  LeastOf(S) \in S
<1>1. \E x \in S : \A y \in S : x <= y
  BY LeastExists
<1> QED BY <1>1 DEF LeastOf

LEMMA ThreadsAre == Server \in Threads /\ Apps \subseteq Threads /\ \A t \in Threads \ Apps : t = Server
  BY DEF Threads

\* A thread that goes on keeps its locals, one that returns loses them.
LEMMA GotoFacts ==
  ASSUME TypeOK, NEW t \in Threads,
         NEW pc \in {"idle", "allocate", "read", "handle", "open", "report", "reply", "close", "free"},
         Goto(t, pc)
  PROVE  /\ thread' \in [Threads -> Place]
         /\ thread'[t] = [pc |-> pc, fd |-> thread[t].fd, s |-> thread[t].s, for |-> thread[t].for]
         /\ \A u \in Threads : u # t => thread'[u] = thread[u]
  BY DEF TypeOK, Goto, Place

LEMMA ReturnFacts ==
  ASSUME TypeOK, NEW t \in Threads, Return(t)
  PROVE  /\ thread' \in [Threads -> Place]
         /\ thread'[t] = Idle /\ Idle \in Place
         /\ \A u \in Threads : u # t => thread'[u] = thread[u]
  BY DEF TypeOK, Return, Place, Idle, NoFd, NoSession

\* An answer is taken by the client at the other end, who leaves.
LEMMA DeliveredFacts ==
  ASSUME TypeOK, NEW f, Delivered(f)
  PROVE  /\ client' \in [Clients -> {"idle", "waiting", "dropped"}]
         /\ fds' \in [Fds -> Clients \cup {Free, Gone, Report}]
         /\ \A g \in Fds : g # f => fds'[g] = fds[g]
         /\ f \in Fds => fds'[f] = IF fds[f] \in Clients THEN Gone ELSE fds[f]
         /\ \A c \in Clients : client'[c] \in {"idle", client[c]}
  BY DEF TypeOK, Delivered

-----------------------------------------------------------------------------
\* A message appended to one queue leaves the others, and those before it.
LEMMA AppendedFacts ==
  ASSUME BaseInv, NEW a \in Apps, NEW m \in Message, Len(queue[a]) < QueueSize,
         queue' = [queue EXCEPT ![a] = Append(@, m)]
  PROVE  /\ queue' \in [Apps -> Seq(Message)] /\ QueuesInv'
         /\ \A b \in Apps : \A j \in DOMAIN queue'[b] :
              \/ j \in DOMAIN queue[b] /\ queue'[b][j] = queue[b][j]
              \/ b = a /\ j = Len(queue[a]) + 1 /\ queue'[b][j] = m
         /\ \A b \in Apps : \A j \in DOMAIN queue[b] :
              j \in DOMAIN queue'[b] /\ queue'[b][j] = queue[b][j]
         /\ Len(queue[a]) + 1 \in DOMAIN queue'[a] /\ queue'[a][Len(queue[a]) + 1] = m
<1>1. queue[a] \in Seq(Message) /\ queue \in [Apps -> Seq(Message)]
  BY DEF BaseInv, TypeOK
<1>2. queue'[a] = Append(queue[a], m) /\ \A b \in Apps : b # a => queue'[b] = queue[b]
  BY <1>1
<1>3. /\ Append(queue[a], m) \in Seq(Message) /\ Len(Append(queue[a], m)) = Len(queue[a]) + 1
      /\ \A i \in 1 .. Len(queue[a]) : Append(queue[a], m)[i] = queue[a][i]
      /\ Append(queue[a], m)[Len(queue[a]) + 1] = m
  BY <1>1, AppendFacts
<1>4. queue' \in [Apps -> Seq(Message)]
  BY <1>1, <1>3
<1>5. QueuesInv'
  BY <1>1, <1>2, <1>3, Numbers DEF BaseInv, QueuesInv
<1>6. DOMAIN queue[a] = 1 .. Len(queue[a]) /\ DOMAIN queue'[a] = 1 .. Len(queue[a]) + 1 /\ Len(queue[a]) \in Nat
  BY <1>1, <1>2, <1>3
<1> QED BY <1>2, <1>3, <1>4, <1>5, <1>6

\* A message taken from one queue lets those behind it move up.
LEMMA TakenFacts ==
  ASSUME BaseInv, NEW a \in Apps, queue[a] # << >>,
         queue' = [queue EXCEPT ![a] = Tail(@)]
  PROVE  /\ queue' \in [Apps -> Seq(Message)] /\ QueuesInv'
         /\ Head(queue[a]) \in Message /\ 1 \in DOMAIN queue[a] /\ Head(queue[a]) = queue[a][1]
         /\ \A b \in Apps : b # a => queue'[b] = queue[b]
         /\ \A j \in DOMAIN queue'[a] : j \in Nat /\ j >= 1 /\ j + 1 \in DOMAIN queue[a] /\ queue'[a][j] = queue[a][j + 1]
         /\ \A j \in DOMAIN queue[a] : j # 1 => j \in Nat /\ j - 1 \in DOMAIN queue'[a] /\ queue'[a][j - 1] = queue[a][j]
<1>1. queue[a] \in Seq(Message) /\ queue \in [Apps -> Seq(Message)]
  BY DEF BaseInv, TypeOK
<1>2. queue'[a] = Tail(queue[a]) /\ \A b \in Apps : b # a => queue'[b] = queue[b]
  BY <1>1
<1>3. /\ Head(queue[a]) \in Message /\ Head(queue[a]) = queue[a][1]
      /\ Len(queue[a]) >= 1 /\ Len(queue[a]) \in Nat
      /\ Tail(queue[a]) \in Seq(Message) /\ Len(Tail(queue[a])) = Len(queue[a]) - 1
      /\ \A i \in 1 .. Len(queue[a]) - 1 : Tail(queue[a])[i] = queue[a][i + 1]
  BY <1>1, TailFacts
<1>4. queue' \in [Apps -> Seq(Message)]
  BY <1>1, <1>3
<1>5. QueuesInv'
  BY <1>1, <1>2, <1>3, Numbers DEF BaseInv, QueuesInv
<1>6. DOMAIN queue[a] = 1 .. Len(queue[a]) /\ DOMAIN queue'[a] = 1 .. Len(queue[a]) - 1
  BY <1>1, <1>2, <1>3
<1> QED BY <1>2, <1>3, <1>4, <1>5, <1>6

-----------------------------------------------------------------------------
(* The type, and where the locals of a thread mean something.               *)

LEMMA BaseInit == Init => BaseInv
  BY Numbers DEF Init, BaseInv, TypeOK, PlacesInv, QueuesInv, Idle, NoFd, NoSession, Threads,
     WithSession, Connected, Message

\* What a thread must have where it is.
Sound(t, p) ==
  /\ p.s \in Sessions <=> p.pc \in WithSession
  /\ t = Server => /\ p.pc \notin {"open", "report"}
                   /\ p.pc \in Connected => p.fd \in Fds
  /\ t \in Apps => /\ p.pc \notin {"allocate", "read", "handle"}
                   /\ p.pc = "report" => p.fd \in Fds

LEMMA PlacesAreSound == PlacesInv <=> \A t \in Threads : Sound(t, thread[t])
  BY ThreadsAre DEF PlacesInv, Sound

\* One thread moves.
LEMMA PlacesStep ==
  ASSUME BaseInv, NEW t \in Threads, Sound(t, thread'[t]),
         \A u \in Threads : u # t => thread'[u] = thread[u]
  PROVE  PlacesInv'
<1>1. \A u \in Threads : Sound(u, thread'[u])
  BY PlacesAreSound DEF BaseInv
<1> QED BY <1>1, ThreadsAre DEF PlacesInv, Sound

LEMMA FreeFdsFacts == FreeFds # {} => LeastOf(FreeFds) \in Fds /\ fds[LeastOf(FreeFds)] = Free
  BY LeastOfIsIn, Numbers DEF FreeFds

LEMMA UsableFacts ==
  UsableSessions # {} => LeastOf(UsableSessions) \in Sessions /\ ~session[LeastOf(UsableSessions)].inUse
  BY LeastOfIsIn, Numbers DEF UsableSessions

LEMMA ServerApart == Server \in Threads /\ Server \notin Apps
  BY RestAssumption DEF Threads

LEMMA BaseClients ==
  ASSUME BaseInv, NEW c \in Clients
  PROVE  /\ Connect(c) => BaseInv'
         /\ HangUp(c) => BaseInv'
<1>1. ASSUME Connect(c) PROVE BaseInv'
  <2>1. backlog' \in Seq(Clients \cup {Gone}) /\ Len(backlog') = Len(backlog) + 1
    BY <1>1, AppendFacts DEF Connect, BaseInv, TypeOK
  <2>2. backlog \in Seq(Clients \cup {Gone})
    BY DEF BaseInv, TypeOK
  <2>3. Len(backlog') <= MaxSessions
    BY <1>1, <2>1, <2>2, Numbers DEF Connect
  <2> QED BY <1>1, <2>1, <2>3 DEF Connect, BaseInv, TypeOK, PlacesInv, QueuesInv
<1>2. ASSUME HangUp(c) PROVE BaseInv'
  <2>1. backlog' \in Seq(Clients \cup {Gone}) /\ Len(backlog') = Len(backlog)
    <3>1. backlog \in Seq(Clients \cup {Gone})
      BY DEF BaseInv, TypeOK
    <3> DEFINE end(i) == IF backlog[i] = c THEN Gone ELSE backlog[i]
    <3>2. \A i \in 1 .. Len(backlog) : end(i) \in Clients \cup {Gone}
      BY <3>1
    <3>3. backlog' = [i \in 1 .. Len(backlog) |-> end(i)]
      BY <1>2, <3>1 DEF HangUp
    <3> HIDE DEF end
    <3> QED BY <3>1, <3>2, <3>3
  <2>2. \A a \in Apps : queue'[a] \in Seq(Message) /\ Len(queue'[a]) = Len(queue[a])
    <3> TAKE a \in Apps
    <3>1. queue[a] \in Seq(Message)
      BY DEF BaseInv, TypeOK
    <3>2. \A i \in 1 .. Len(queue[a]) : Forget(c, queue[a][i]) \in Message
      <4> TAKE i \in 1 .. Len(queue[a])
      <4>1. queue[a][i] \in Message
        BY <3>1
      <4> QED BY <4>1 DEF Forget, Message
    <3>3. queue'[a] = [i \in 1 .. Len(queue[a]) |-> Forget(c, queue[a][i])]
      BY <1>2, <3>1 DEF HangUp
    <3> QED BY <3>1, <3>2, <3>3
  <2>3. \A t \in Threads : /\ thread'[t] \in Place
                            /\ thread'[t].pc = thread[t].pc /\ thread'[t].fd = thread[t].fd
                            /\ thread'[t].s = thread[t].s
    BY <1>2 DEF HangUp, BaseInv, TypeOK, Forget, Place
  <2>4. thread' \in [Threads -> Place] /\ queue' \in [Apps -> Seq(Message)]
    BY <1>2, <2>2, <2>3 DEF HangUp
  <2>5. PlacesInv'
    BY <2>3, ThreadsAre DEF BaseInv, PlacesInv
  <2>6. QueuesInv'
    BY <2>2 DEF BaseInv, QueuesInv
  <2>7. TypeOK'
    BY <1>2, <2>1, <2>4 DEF HangUp, BaseInv, TypeOK, Place
  <2> QED BY <2>5, <2>6, <2>7 DEF BaseInv
<1> QED BY <1>1, <1>2

LEMMA BaseServer ==
  ASSUME BaseInv
  PROVE  /\ Accept => BaseInv'
         /\ AllocateSession => BaseInv'
         /\ NoSessionLeft => BaseInv'
         /\ ReadFails => BaseInv'
         /\ ParseFails => BaseInv'
         /\ ReadRequest => BaseInv'
         /\ Reject => BaseInv'
         /\ \A a \in Apps : Dispatch(a) => BaseInv'
<1> USE ServerApart, Numbers
<1>0. TypeOK /\ PlacesInv /\ QueuesInv /\ thread[Server] \in Place /\ Sound(Server, thread[Server])
  BY PlacesAreSound DEF BaseInv, TypeOK, Place
<1>1. ASSUME Accept PROVE BaseInv'
  <2> DEFINE f == LeastOf(FreeFds)
  <2> DEFINE c == Head(backlog)
  <2> DEFINE p == [pc |-> "allocate", fd |-> f, s |-> NoSession, for |-> c]
  <2>1. f \in Fds
    BY <1>1, FreeFdsFacts DEF Accept
  <2>2. /\ c \in Clients \cup {Gone} /\ backlog' \in Seq(Clients \cup {Gone})
        /\ Len(backlog') = Len(backlog) - 1 /\ Len(backlog) \in Nat
    BY <1>1, <1>0, TailFacts DEF Accept, TypeOK
  <2>3. p \in Place
    BY <2>1, <2>2 DEF Place
  <2>4. fds' = [fds EXCEPT ![f] = c] /\ thread' = [thread EXCEPT ![Server] = p]
    BY <1>1 DEF Accept
  <2>5. /\ thread' \in [Threads -> Place] /\ thread'[Server] = p
        /\ \A u \in Threads : u # Server => thread'[u] = thread[u]
    BY <1>0, <2>3, <2>4 DEF TypeOK, Place
  <2>6. Sound(Server, p)
    BY <2>1 DEF Sound, WithSession
  <2>7. PlacesInv'
    BY <2>5, <2>6, PlacesStep
  <2>8. fds' \in [Fds -> Clients \cup {Free, Gone, Report}]
    BY <1>0, <2>2, <2>4 DEF TypeOK
  <2>9. Len(backlog') <= MaxSessions
    BY <1>0, <2>2 DEF TypeOK
  <2>10. client' = client /\ session' = session /\ queue' = queue
    BY <1>1 DEF Accept
  <2>11. TypeOK'
    BY <1>0, <2>2, <2>5, <2>8, <2>9, <2>10 DEF TypeOK, Place
  <2> QED BY <1>0, <2>7, <2>10, <2>11 DEF BaseInv, QueuesInv
<1>2. ASSUME AllocateSession PROVE BaseInv'
  <2> DEFINE s == LeastOf(UsableSessions)
  <2> DEFINE p == [pc |-> "read", fd |-> thread[Server].fd, s |-> s, for |-> thread[Server].for]
  <2>1. s \in Sessions
    BY <1>2, UsableFacts DEF AllocateSession
  <2>3. p \in Place
    BY <1>0, <2>1 DEF Place
  <2>4. /\ session' = [session EXCEPT ![s] = [inUse |-> FALSE, fd |-> NoFd]]
        /\ thread' = [thread EXCEPT ![Server] = p]
        /\ UNCHANGED <<client, backlog, fds, queue>> /\ thread[Server].pc = "allocate"
    BY <1>2 DEF AllocateSession
  <2>5. /\ thread' \in [Threads -> Place] /\ thread'[Server] = p
        /\ \A u \in Threads : u # Server => thread'[u] = thread[u]
    BY <1>0, <2>3, <2>4 DEF TypeOK, Place
  <2>6. Sound(Server, p)
    BY <1>0, <2>1, <2>4 DEF Sound, WithSession, Connected
  <2>7. PlacesInv'
    BY <2>5, <2>6, PlacesStep
  <2>8. session' \in [Sessions -> [inUse : BOOLEAN, fd : Fds \cup {NoFd}]]
    BY <1>0, <2>4 DEF TypeOK
  <2>9. TypeOK'
    BY <1>0, <2>4, <2>5, <2>8 DEF TypeOK, Place
  <2> QED BY <1>0, <2>4, <2>7, <2>9 DEF BaseInv, QueuesInv
<1>3. ASSUME NoSessionLeft PROVE BaseInv'
  <2>1. Return(Server) /\ UNCHANGED <<client, backlog, fds, session, queue>>
    BY <1>3 DEF NoSessionLeft
  <2>2. /\ thread' \in [Threads -> Place] /\ thread'[Server] = Idle
        /\ \A u \in Threads : u # Server => thread'[u] = thread[u]
    BY <1>0, <2>1, ReturnFacts
  <2>3. PlacesInv'
    BY <2>2, PlacesStep DEF Sound, Idle, WithSession, Connected
  <2> QED BY <1>0, <2>1, <2>2, <2>3 DEF BaseInv, TypeOK, Place, QueuesInv
<1>4. ASSUME NEW pc \in {"handle", "reply", "close"}, Goto(Server, pc),
             thread[Server].pc \in {"read", "handle"}
      PROVE  PlacesInv' /\ thread' \in [Threads -> Place]
  <2>1. /\ thread' \in [Threads -> Place]
        /\ thread'[Server] = [pc |-> pc, fd |-> thread[Server].fd, s |-> thread[Server].s,
                              for |-> thread[Server].for]
        /\ \A u \in Threads : u # Server => thread'[u] = thread[u]
    BY <1>0, <1>4, GotoFacts
  <2>2. Sound(Server, thread'[Server])
    BY <1>0, <1>4, <2>1 DEF Sound, WithSession, Connected
  <2> QED BY <2>1, <2>2, PlacesStep
<1>5. ASSUME ReadFails PROVE BaseInv'
  <2>1. PlacesInv' /\ thread' \in [Threads -> Place]
    BY <1>4, <1>5 DEF ReadFails
  <2> QED BY <1>0, <1>5, <2>1 DEF ReadFails, BaseInv, TypeOK, Place, QueuesInv
<1>6. ASSUME NEW b \in BOOLEAN,
             session' = [session EXCEPT ![thread[Server].s] = [inUse |-> b, fd |-> thread[Server].fd]]
      PROVE  session' \in [Sessions -> [inUse : BOOLEAN, fd : Fds \cup {NoFd}]]
  BY <1>0, <1>6 DEF TypeOK, Place
<1>7. ASSUME ParseFails PROVE BaseInv'
  <2>1. PlacesInv' /\ thread' \in [Threads -> Place]
    BY <1>4, <1>7 DEF ParseFails
  <2>2. session' \in [Sessions -> [inUse : BOOLEAN, fd : Fds \cup {NoFd}]]
    BY <1>6, <1>7 DEF ParseFails
  <2> QED BY <1>0, <1>7, <2>1, <2>2 DEF ParseFails, BaseInv, TypeOK, Place, QueuesInv
<1>8. ASSUME ReadRequest PROVE BaseInv'
  <2>1. PlacesInv' /\ thread' \in [Threads -> Place]
    BY <1>4, <1>8 DEF ReadRequest
  <2>2. session' \in [Sessions -> [inUse : BOOLEAN, fd : Fds \cup {NoFd}]]
    BY <1>6, <1>8 DEF ReadRequest
  <2> QED BY <1>0, <1>8, <2>1, <2>2 DEF ReadRequest, BaseInv, TypeOK, Place, QueuesInv
<1>9. ASSUME Reject PROVE BaseInv'
  <2>1. PlacesInv' /\ thread' \in [Threads -> Place]
    BY <1>4, <1>9 DEF Reject
  <2> QED BY <1>0, <1>9, <2>1 DEF Reject, BaseInv, TypeOK, Place, QueuesInv
<1>10. ASSUME NEW a \in Apps, Dispatch(a) PROVE BaseInv'
  <2>1. [s |-> thread[Server].s, for |-> thread[Server].for] \in Message
    BY <1>0 DEF Place, Message
  <2>2. queue' \in [Apps -> Seq(Message)] /\ QueuesInv'
    BY <1>10, <2>1, AppendedFacts DEF Dispatch
  <2>3. /\ thread' \in [Threads -> Place] /\ thread'[Server] = Idle
        /\ \A u \in Threads : u # Server => thread'[u] = thread[u]
    BY <1>0, <1>10, ReturnFacts DEF Dispatch
  <2>4. PlacesInv'
    BY <2>3, PlacesStep DEF Sound, Idle, WithSession, Connected
  <2> QED BY <1>0, <1>10, <2>2, <2>3, <2>4 DEF Dispatch, BaseInv, TypeOK, Place
<1> QED BY <1>1, <1>2, <1>3, <1>5, <1>7, <1>8, <1>9, <1>10

LEMMA BaseApps ==
  ASSUME BaseInv, NEW a \in Apps
  PROVE  /\ TimerExpires(a) => BaseInv'
         /\ Receive(a) => BaseInv'
         /\ StatusUnknown(a) => BaseInv'
         /\ EncodeFails(a) => BaseInv'
         /\ OpenReport(a) => BaseInv'
         /\ CloseReport(a) => BaseInv'
<1> USE ServerApart, Numbers
<1>0. /\ TypeOK /\ PlacesInv /\ QueuesInv /\ a \in Threads /\ a # Server
      /\ thread[a] \in Place /\ Sound(a, thread[a])
  BY PlacesAreSound, ThreadsAre DEF BaseInv, TypeOK, Place
<1>1. ASSUME TimerExpires(a) PROVE BaseInv'
  <2>1. [s |-> NoSession, for |-> Report] \in Message
    BY DEF Message
  <2>2. queue' \in [Apps -> Seq(Message)] /\ QueuesInv'
    BY <1>1, <2>1, AppendedFacts DEF TimerExpires
  <2> QED BY <1>0, <1>1, <2>2 DEF TimerExpires, BaseInv, TypeOK, PlacesInv
<1>2. ASSUME Receive(a) PROVE BaseInv'
  <2> DEFINE p == [pc |-> IF Head(queue[a]).s = NoSession THEN "open" ELSE "reply",
                   fd |-> NoFd, s |-> Head(queue[a]).s, for |-> Head(queue[a]).for]
  <2>1. queue' \in [Apps -> Seq(Message)] /\ QueuesInv' /\ Head(queue[a]) \in Message
    BY <1>2, TakenFacts DEF Receive
  <2>2. p \in Place
    BY <2>1 DEF Place, Message
  <2>3. thread' = [thread EXCEPT ![a] = p] /\ UNCHANGED <<client, backlog, fds, session>>
    BY <1>2 DEF Receive
  <2>4. /\ thread' \in [Threads -> Place] /\ thread'[a] = p
        /\ \A u \in Threads : u # a => thread'[u] = thread[u]
    BY <1>0, <2>2, <2>3 DEF TypeOK, Place
  <2>5. Sound(a, p)
    BY <1>0, <2>1 DEF Sound, WithSession, Message
  <2>6. PlacesInv'
    BY <1>0, <2>4, <2>5, PlacesStep
  <2> QED BY <1>0, <2>1, <2>3, <2>4, <2>6 DEF BaseInv, TypeOK, Place
<1>3. ASSUME StatusUnknown(a) PROVE BaseInv'
  <2>1. /\ thread' \in [Threads -> Place]
        /\ thread'[a] = [pc |-> "close", fd |-> thread[a].fd, s |-> thread[a].s, for |-> thread[a].for]
        /\ \A u \in Threads : u # a => thread'[u] = thread[u]
    BY <1>0, <1>3, GotoFacts DEF StatusUnknown
  <2>2. Sound(a, thread'[a])
    BY <1>0, <1>3, <2>1 DEF StatusUnknown, Sound, WithSession
  <2>3. PlacesInv'
    BY <1>0, <2>1, <2>2, PlacesStep
  <2> QED BY <1>0, <1>3, <2>1, <2>3 DEF StatusUnknown, BaseInv, TypeOK, Place, QueuesInv
<1>4. ASSUME Return(a) PROVE PlacesInv' /\ thread' \in [Threads -> Place]
  <2>1. /\ thread' \in [Threads -> Place] /\ thread'[a] = Idle
        /\ \A u \in Threads : u # a => thread'[u] = thread[u]
    BY <1>0, <1>4, ReturnFacts
  <2> QED BY <1>0, <2>1, PlacesStep DEF Sound, Idle, WithSession, Connected
<1>5. ASSUME EncodeFails(a) PROVE BaseInv'
  <2>1. PlacesInv' /\ thread' \in [Threads -> Place]
    BY <1>4, <1>5 DEF EncodeFails
  <2> QED BY <1>0, <1>5, <2>1 DEF EncodeFails, BaseInv, TypeOK, Place, QueuesInv
<1>6. ASSUME OpenReport(a) PROVE BaseInv'
  <2>1. CASE FreeFds = {}
    <3>1. Return(a) /\ UNCHANGED <<client, backlog, fds, session, queue>>
      BY <1>6, <2>1 DEF OpenReport
    <3>2. PlacesInv' /\ thread' \in [Threads -> Place]
      BY <1>4, <3>1
    <3> QED BY <1>0, <3>1, <3>2 DEF BaseInv, TypeOK, Place, QueuesInv
  <2>2. CASE FreeFds # {}
    <3> DEFINE f == LeastOf(FreeFds)
    <3> DEFINE p == [pc |-> "report", fd |-> f, s |-> NoSession, for |-> Report]
    <3>1. f \in Fds
      BY <2>2, FreeFdsFacts
    <3>2. /\ fds' = [fds EXCEPT ![f] = Report] /\ thread' = [thread EXCEPT ![a] = p]
          /\ UNCHANGED <<client, backlog, session, queue>>
      BY <1>6, <2>2 DEF OpenReport
    <3>3. p \in Place
      BY <3>1 DEF Place
    <3>4. /\ thread' \in [Threads -> Place] /\ thread'[a] = p
          /\ \A u \in Threads : u # a => thread'[u] = thread[u]
      BY <1>0, <3>2, <3>3 DEF TypeOK, Place
    <3>5. Sound(a, p)
      BY <1>0, <3>1 DEF Sound, WithSession
    <3>6. PlacesInv'
      BY <1>0, <3>4, <3>5, PlacesStep
    <3>7. fds' \in [Fds -> Clients \cup {Free, Gone, Report}]
      BY <1>0, <3>2 DEF TypeOK
    <3> QED BY <1>0, <3>2, <3>4, <3>6, <3>7 DEF BaseInv, TypeOK, Place, QueuesInv
  <2> QED BY <2>1, <2>2
<1>7. ASSUME CloseReport(a) PROVE BaseInv'
  <2>1. PlacesInv' /\ thread' \in [Threads -> Place]
    BY <1>4, <1>7 DEF CloseReport
  <2>2. fds' \in [Fds -> Clients \cup {Free, Gone, Report}]
    BY <1>0, <1>7 DEF CloseReport, TypeOK
  <2> QED BY <1>0, <1>7, <2>1, <2>2 DEF CloseReport, BaseInv, TypeOK, Place, QueuesInv
<1> QED BY <1>1, <1>2, <1>3, <1>5, <1>6, <1>7

LEMMA BaseReply ==
  ASSUME BaseInv, NEW t \in Threads
  PROVE  /\ Answer(t) => BaseInv'
         /\ CloseConnection(t) => BaseInv'
         /\ FreeSession(t) => BaseInv'
<1> USE ServerApart, Numbers
<1>0. TypeOK /\ PlacesInv /\ QueuesInv /\ thread[t] \in Place /\ Sound(t, thread[t])
  BY PlacesAreSound DEF BaseInv, TypeOK, Place
<1>1. ASSUME NEW pc \in {"close", "free"}, Goto(t, pc), thread[t].pc \in {"reply", "close"}
      PROVE  PlacesInv' /\ thread' \in [Threads -> Place]
  <2>1. /\ thread' \in [Threads -> Place]
        /\ thread'[t] = [pc |-> pc, fd |-> thread[t].fd, s |-> thread[t].s, for |-> thread[t].for]
        /\ \A u \in Threads : u # t => thread'[u] = thread[u]
    BY <1>0, <1>1, GotoFacts
  <2>2. Sound(t, thread'[t])
    BY <1>0, <1>1, <2>1 DEF Sound, WithSession, Connected
  <2> QED BY <2>1, <2>2, PlacesStep
<1>2. ASSUME Answer(t) PROVE BaseInv'
  <2>1. PlacesInv' /\ thread' \in [Threads -> Place]
    BY <1>1, <1>2 DEF Answer
  <2>2. /\ client' \in [Clients -> {"idle", "waiting", "dropped"}]
        /\ fds' \in [Fds -> Clients \cup {Free, Gone, Report}]
    BY <1>0, <1>2, DeliveredFacts DEF Answer
  <2> QED BY <1>0, <1>2, <2>1, <2>2 DEF Answer, BaseInv, TypeOK, Place, QueuesInv
<1>3. ASSUME CloseConnection(t) PROVE BaseInv'
  <2>1. PlacesInv' /\ thread' \in [Threads -> Place]
    BY <1>1, <1>3 DEF CloseConnection
  <2>2. /\ client' \in [Clients -> {"idle", "waiting", "dropped"}]
        /\ fds' \in [Fds -> Clients \cup {Free, Gone, Report}]
    BY <1>0, <1>3 DEF CloseConnection, TypeOK
  <2> QED BY <1>0, <1>3, <2>1, <2>2 DEF CloseConnection, BaseInv, TypeOK, Place, QueuesInv
<1>4. ASSUME FreeSession(t) PROVE BaseInv'
  <2>1. /\ thread' \in [Threads -> Place] /\ thread'[t] = Idle
        /\ \A u \in Threads : u # t => thread'[u] = thread[u]
    BY <1>0, <1>4, ReturnFacts DEF FreeSession
  <2>2. PlacesInv'
    BY <2>1, PlacesStep DEF Sound, Idle, WithSession, Connected
  <2>3. session' \in [Sessions -> [inUse : BOOLEAN, fd : Fds \cup {NoFd}]]
    BY <1>0, <1>4 DEF FreeSession, TypeOK
  <2> QED BY <1>0, <1>4, <2>1, <2>2, <2>3 DEF FreeSession, BaseInv, TypeOK, Place, QueuesInv
<1> QED BY <1>2, <1>3, <1>4

LEMMA BaseStep == BaseInv /\ [Next]_vars => BaseInv'
<1> SUFFICES ASSUME BaseInv, [Next]_vars PROVE BaseInv'
  OBVIOUS
<1>1. ASSUME NEW c \in Clients, Connect(c) \/ HangUp(c) PROVE BaseInv'
  BY <1>1, BaseClients
<1>2. ASSUME NEW a \in Apps, TimerExpires(a) \/ AppThread(a) PROVE BaseInv'
  BY <1>2, BaseApps, BaseReply, ThreadsAre DEF AppThread, Reply
<1>3. CASE ServerThread
  BY <1>3, BaseServer, BaseReply, ThreadsAre DEF ServerThread, Reply
<1>4. CASE UNCHANGED vars
  BY <1>4 DEF vars, BaseInv, TypeOK, PlacesInv, QueuesInv
<1> QED BY <1>1, <1>2, <1>3, <1>4 DEF Next

(***************************************************************************)
(* Sessions, descriptors and messages keep their types: no queue and no    *)
(* backlog is longer than the code allows.                                 *)
(***************************************************************************)
THEOREM TypeCorrect == Spec => []TypeOK
<1>1. BaseInv => TypeOK
  BY DEF BaseInv
<1> QED BY <1>1, BaseInit, BaseStep, PTL DEF Spec

-----------------------------------------------------------------------------
(* A session is in one place, and in use when that is not the server's.     *)

Carries(a, i, s) == i \in DOMAIN queue[a] /\ queue[a][i].s = s

ExclInv ==
  /\ \A t, u \in Threads : InHand(t) /\ thread[t].s = thread[u].s => t = u
  /\ \A s \in Sessions : \A a \in Apps, i \in Nat : Carries(a, i, s) =>
       /\ session[s].inUse
       /\ \A t \in Threads : thread[t].s # s
       /\ \A b \in Apps, j \in Nat : Carries(b, j, s) => a = b /\ i = j
  /\ \A a \in Apps : InHand(a) => session[thread[a].s].inUse
  /\ thread[Server].pc = "handle" => session[thread[Server].s].inUse

LEMMA ExclInit == Init => ExclInv
  BY ServerApart DEF Init, ExclInv, Idle, InHand, Carries, Sessions, NoSession, Threads

LEMMA MessageIn ==
  ASSUME TypeOK, NEW a \in Apps, NEW i \in DOMAIN queue[a]
  PROVE  queue[a][i] \in Message /\ i \in Nat
<1>1. queue[a] \in Seq(Message)
  BY DEF TypeOK
<1> QED BY <1>1

LEMMA InHandIs == TypeOK => \A t \in Threads : InHand(t) <=> thread[t].s \in Sessions
  BY Numbers DEF TypeOK, InHand

\* Sessions stay where they are; only the one of the server comes into use
\* or goes out of it.
LEMMA ExclSame ==
  ASSUME BaseInv, ExclInv,
         \A t \in Threads : thread'[t].s = thread[t].s,
         \A a \in Apps, i \in Nat, s \in Sessions : Carries(a, i, s)' <=> Carries(a, i, s),
         \A s \in Sessions : session'[s].inUse = session[s].inUse \/ s = thread[Server].s,
         thread'[Server].pc = "handle" => session'[thread[Server].s].inUse
  PROVE  ExclInv'
<1> USE ServerApart, ThreadsAre
<1>1. \A t \in Threads : InHand(t)' <=> InHand(t)
  BY DEF InHand
<1>2. \A a \in Apps : InHand(a) => thread[a].s # thread[Server].s /\ thread[a].s \in Sessions
  BY InHandIs DEF ExclInv, BaseInv
<1>3. \A a \in Apps : InHand(a)' => session'[thread'[a].s].inUse
  BY <1>1, <1>2 DEF ExclInv
<1>4. \A s \in Sessions : \A a \in Apps, i \in Nat : Carries(a, i, s)' => session'[s].inUse
  BY DEF ExclInv
<1> QED BY <1>1, <1>3, <1>4 DEF ExclInv

\* A thread gives up the session that it has, if it has one.
LEMMA ExclLess ==
  ASSUME BaseInv, ExclInv, NEW t \in Threads,
         thread'[t] = Idle, \A u \in Threads : u # t => thread'[u] = thread[u],
         queue' = queue,
         \A s \in Sessions : session'[s].inUse = session[s].inUse \/ s = thread[t].s
  PROVE  ExclInv'
<1> USE ServerApart, ThreadsAre
<1>1. ~InHand(t)' /\ \A u \in Threads : u # t => (InHand(u)' <=> InHand(u))
  BY DEF InHand, Idle
<1>2. \A u \in Threads : InHand(u)' => u # t /\ thread[u].s \in Sessions /\ thread[u].s # thread[t].s
  BY <1>1, InHandIs DEF ExclInv, BaseInv
<1>3. \A a \in Apps : InHand(a)' => session'[thread'[a].s].inUse
  BY <1>1, <1>2 DEF ExclInv
<1>4. \A a \in Apps, i \in Nat, s \in Sessions : Carries(a, i, s)' <=> Carries(a, i, s)
  BY DEF Carries
<1>5. \A u, v \in Threads : InHand(u)' /\ thread'[u].s = thread'[v].s => u = v
  BY <1>1 DEF ExclInv, InHand
<1>6. \A s \in Sessions : \A a \in Apps, i \in Nat : Carries(a, i, s)' =>
         session'[s].inUse /\ \A u \in Threads : thread'[u].s # s
  BY <1>4, Numbers DEF ExclInv, Idle
<1>7. thread'[Server].pc = "handle" => session'[thread'[Server].s].inUse
  <2>1. CASE t = Server
    BY <2>1 DEF Idle
  <2>2. CASE t # Server /\ thread[Server].pc = "handle"
    <3>1. thread[Server].s \in Sessions
      BY <2>2 DEF BaseInv, PlacesInv, WithSession
    <3>2. InHand(Server) /\ thread[Server].s # thread[t].s
      BY <2>2, <3>1, Numbers DEF ExclInv, InHand
    <3> QED BY <2>2, <3>1, <3>2 DEF ExclInv
  <2>3. CASE t # Server /\ thread[Server].pc # "handle"
    BY <2>3
  <2> QED BY <2>1, <2>2, <2>3
<1> QED BY <1>3, <1>4, <1>5, <1>6, <1>7 DEF ExclInv

LEMMA CarriesSame ==
  (queue' = queue) => \A a \in Apps, i \in Nat, s \in Sessions : Carries(a, i, s)' <=> Carries(a, i, s)
  BY DEF Carries

LEMMA ExclClients ==
  ASSUME BaseInv, ExclInv, NEW c \in Clients, Connect(c) \/ HangUp(c)
  PROVE  ExclInv'
<1> USE ServerApart, ThreadsAre
<1>1. CASE Connect(c)
  BY <1>1, ExclSame, CarriesSame DEF Connect, ExclInv
<1>2. CASE HangUp(c)
  <2>1. \A t \in Threads : thread'[t].s = thread[t].s /\ thread'[t].pc = thread[t].pc
    BY <1>2 DEF HangUp, BaseInv, TypeOK, Forget
  <2>2. \A a \in Apps, i \in Nat, s \in Sessions : Carries(a, i, s)' <=> Carries(a, i, s)
    <3> TAKE a \in Apps, i \in Nat, s \in Sessions
    <3>1. queue'[a] = [j \in DOMAIN queue[a] |-> Forget(c, queue[a][j])]
      BY <1>2 DEF HangUp
    <3>2. ASSUME i \in DOMAIN queue[a] PROVE queue'[a][i].s = queue[a][i].s
      <4>1. queue[a][i] \in Message
        BY <3>2, MessageIn DEF BaseInv
      <4> QED BY <3>1, <3>2, <4>1 DEF Forget, Message
    <3> QED BY <3>1, <3>2 DEF Carries
  <2>3. session' = session
    BY <1>2 DEF HangUp
  <2> QED BY <2>1, <2>2, <2>3, ExclSame DEF ExclInv
<1> QED BY <1>1, <1>2

LEMMA ExclServer ==
  ASSUME BaseInv, ExclInv
  PROVE  /\ Accept => ExclInv'
         /\ AllocateSession => ExclInv'
         /\ NoSessionLeft => ExclInv'
         /\ ReadFails => ExclInv'
         /\ ParseFails => ExclInv'
         /\ ReadRequest => ExclInv'
         /\ Reject => ExclInv'
         /\ \A a \in Apps : Dispatch(a) => ExclInv'
<1> USE ServerApart, ThreadsAre
<1>0. /\ TypeOK /\ PlacesInv /\ QueuesInv
      /\ thread[Server].s \in Sessions <=> thread[Server].pc \in WithSession
      /\ thread[Server].s \in Sessions \cup {NoSession}
  BY DEF BaseInv, TypeOK, PlacesInv
<1>1. ASSUME Accept PROVE ExclInv'
  <2>1. thread[Server].s = NoSession
    BY <1>0, <1>1 DEF Accept, WithSession
  <2>2. /\ \A t \in Threads : thread'[t].s = thread[t].s
        /\ thread'[Server].pc = "allocate" /\ session' = session /\ queue' = queue
    BY <1>0, <1>1, <2>1 DEF Accept, TypeOK
  <2> QED BY <2>2, ExclSame, CarriesSame
<1>2. ASSUME AllocateSession PROVE ExclInv'
  <2> DEFINE s == LeastOf(UsableSessions)
  <2>1. s \in Sessions /\ ~session[s].inUse
    BY <1>2, UsableFacts DEF AllocateSession
  <2>2. thread[Server].s = NoSession
    BY <1>0, <1>2 DEF AllocateSession, WithSession
  <2>3. \A a \in Apps : thread[a].s # s
    BY <2>1, Numbers DEF ExclInv, InHand
  <2>4. \A a \in Apps, i \in Nat : ~Carries(a, i, s)
    BY <2>1 DEF ExclInv
  <2>5. /\ thread'[Server].s = s /\ thread'[Server].pc = "read"
        /\ \A t \in Threads : t # Server => thread'[t] = thread[t]
        /\ \A r \in Sessions : session'[r].inUse = session[r].inUse
        /\ queue' = queue
    BY <1>0, <1>2, <2>1 DEF AllocateSession, TypeOK
  <2> HIDE DEF s
  <2>6. \A a \in Apps, i \in Nat, r \in Sessions : Carries(a, i, r)' <=> Carries(a, i, r)
    BY <2>5, CarriesSame
  <2>7. \A t, u \in Threads : InHand(t)' /\ thread'[t].s = thread'[u].s => t = u
    BY <2>3, <2>5 DEF ExclInv, InHand
  <2>8. \A r \in Sessions : \A a \in Apps, i \in Nat : Carries(a, i, r)' =>
           session'[r].inUse /\ \A t \in Threads : thread'[t].s # r
    BY <2>4, <2>5, <2>6 DEF ExclInv
  <2>9. \A a \in Apps : InHand(a)' => session'[thread'[a].s].inUse
    <3> TAKE a \in Apps
    <3>1. thread'[a] = thread[a] /\ (InHand(a)' <=> InHand(a))
      BY <2>5 DEF InHand
    <3> QED BY <1>0, <2>5, <3>1, InHandIs DEF ExclInv
  <2> QED BY <2>5, <2>6, <2>7, <2>8, <2>9 DEF ExclInv
<1>3. ASSUME NoSessionLeft PROVE ExclInv'
  <2>1. Return(Server) /\ UNCHANGED <<session, queue>>
    BY <1>3 DEF NoSessionLeft
  <2>2. thread'[Server] = Idle /\ \A u \in Threads : u # Server => thread'[u] = thread[u]
    BY <1>0, <2>1, ReturnFacts
  <2> QED BY <2>1, <2>2, ExclLess
<1>4. ASSUME NEW pc \in {"handle", "reply", "close"}, Goto(Server, pc)
      PROVE  /\ \A t \in Threads : thread'[t].s = thread[t].s
             /\ thread'[Server].pc = pc
  <2>1. /\ thread'[Server] = [pc |-> pc, fd |-> thread[Server].fd, s |-> thread[Server].s,
                              for |-> thread[Server].for]
        /\ \A u \in Threads : u # Server => thread'[u] = thread[u]
    BY <1>0, <1>4, GotoFacts
  <2> QED BY <2>1
<1>5. ASSUME ReadFails PROVE ExclInv'
  BY <1>4, <1>5, ExclSame, CarriesSame DEF ReadFails
<1>6. ASSUME NEW b \in BOOLEAN, thread[Server].pc = "read",
             session' = [session EXCEPT ![thread[Server].s] = [inUse |-> b, fd |-> thread[Server].fd]]
      PROVE  /\ \A s \in Sessions : session'[s].inUse = session[s].inUse \/ s = thread[Server].s
             /\ session'[thread[Server].s].inUse = b
  BY <1>0, <1>6 DEF TypeOK, WithSession
<1>7. ASSUME ParseFails PROVE ExclInv'
  BY <1>4, <1>6, <1>7, ExclSame, CarriesSame DEF ParseFails
<1>8. ASSUME ReadRequest PROVE ExclInv'
  BY <1>4, <1>6, <1>8, ExclSame, CarriesSame DEF ReadRequest
<1>9. ASSUME Reject PROVE ExclInv'
  BY <1>4, <1>9, ExclSame, CarriesSame DEF Reject
<1>10. ASSUME NEW a \in Apps, Dispatch(a) PROVE ExclInv'
  <2> DEFINE s == thread[Server].s
  <2> DEFINE m == [s |-> s, for |-> thread[Server].for]
  <2> DEFINE n == Len(queue[a]) + 1
  <2>1. s \in Sessions /\ session[s].inUse /\ InHand(Server)
    BY <1>0, <1>10, InHandIs DEF Dispatch, WithSession, ExclInv
  <2>2. m \in Message
    BY <1>0, <2>1 DEF Message, TypeOK
  <2>3. /\ \A b \in Apps : \A j \in DOMAIN queue'[b] :
              \/ j \in DOMAIN queue[b] /\ queue'[b][j] = queue[b][j]
              \/ b = a /\ j = n /\ queue'[b][j] = m
    BY <1>10, <2>2, AppendedFacts DEF Dispatch
  <2>4. \A b \in Apps, j \in Nat, r \in Sessions :
          Carries(b, j, r)' => Carries(b, j, r) \/ (b = a /\ j = n /\ r = s)
    BY <2>3 DEF Carries
  <2>5. /\ session' = session /\ thread'[Server] = Idle
        /\ \A t \in Threads : t # Server => thread'[t] = thread[t]
    BY <1>0, <1>10, ReturnFacts DEF Dispatch
  <2>6. \A b \in Apps, j \in Nat : ~Carries(b, j, s)
    BY <2>1 DEF ExclInv
  <2>7. \A t \in Threads : t # Server => thread[t].s # s
    BY <2>1 DEF ExclInv
  <2> HIDE DEF s, n
  <2>8. \A t, u \in Threads : InHand(t)' /\ thread'[t].s = thread'[u].s => t = u
    BY <2>5 DEF ExclInv, InHand, Idle
  <2>9. \A t \in Threads : thread'[t].s # s
    BY <2>1, <2>5, <2>7, Numbers DEF Idle
  <2>10. \A t \in Threads : thread'[t].s \in {thread[t].s, NoSession}
    BY <2>5 DEF Idle
  <2>11. \A r \in Sessions : \A b \in Apps, j \in Nat : Carries(b, j, r)' =>
       /\ session'[r].inUse
       /\ \A t \in Threads : thread'[t].s # r
       /\ \A d \in Apps, k \in Nat : Carries(d, k, r)' => b = d /\ j = k
    BY <2>1, <2>4, <2>5, <2>6, <2>9, <2>10, Numbers DEF ExclInv
  <2>12. \A b \in Apps : InHand(b)' => session'[thread'[b].s].inUse
    BY <2>5 DEF ExclInv, InHand
  <2> QED BY <2>5, <2>8, <2>11, <2>12 DEF ExclInv, Idle
<1> QED BY <1>1, <1>2, <1>3, <1>5, <1>7, <1>8, <1>9, <1>10

LEMMA ExclApps ==
  ASSUME BaseInv, ExclInv, NEW a \in Apps
  PROVE  /\ TimerExpires(a) => ExclInv'
         /\ Receive(a) => ExclInv'
         /\ StatusUnknown(a) => ExclInv'
         /\ EncodeFails(a) => ExclInv'
         /\ OpenReport(a) => ExclInv'
         /\ CloseReport(a) => ExclInv'
<1> USE ServerApart, ThreadsAre
<1>0. /\ TypeOK /\ PlacesInv /\ QueuesInv /\ a \in Threads /\ a # Server
      /\ thread[a].s \in Sessions <=> thread[a].pc \in WithSession
      /\ thread[a].s \in Sessions \cup {NoSession}
  BY DEF BaseInv, TypeOK, PlacesInv
<1>1. ASSUME TimerExpires(a) PROVE ExclInv'
  <2> DEFINE m == [s |-> NoSession, for |-> Report]
  <2>1. m \in Message
    BY DEF Message
  <2>2. /\ \A b \in Apps : \A j \in DOMAIN queue'[b] :
              \/ j \in DOMAIN queue[b] /\ queue'[b][j] = queue[b][j]
              \/ b = a /\ j = Len(queue[a]) + 1 /\ queue'[b][j] = m
        /\ \A b \in Apps : \A j \in DOMAIN queue[b] :
              j \in DOMAIN queue'[b] /\ queue'[b][j] = queue[b][j]
    BY <1>1, <2>1, AppendedFacts DEF TimerExpires
  <2>3. \A b \in Apps, j \in Nat, r \in Sessions : Carries(b, j, r)' <=> Carries(b, j, r)
    BY <2>2, Numbers DEF Carries
  <2> QED BY <1>1, <2>3, ExclSame DEF TimerExpires, ExclInv
<1>2. ASSUME Receive(a) PROVE ExclInv'
  <2> DEFINE s == Head(queue[a]).s
  <2>1. /\ Head(queue[a]) \in Message /\ 1 \in DOMAIN queue[a] /\ Head(queue[a]) = queue[a][1]
        /\ \A b \in Apps : b # a => queue'[b] = queue[b]
        /\ \A j \in DOMAIN queue'[a] : j \in Nat /\ j >= 1 /\ j + 1 \in DOMAIN queue[a] /\ queue'[a][j] = queue[a][j + 1]
    BY <1>2, TakenFacts DEF Receive
  <2>2. s \in Sessions \cup {NoSession} /\ Carries(a, 1, s)
    BY <2>1 DEF Message, Carries
  <2>3. /\ thread'[a].s = s /\ session' = session
        /\ \A t \in Threads : t # a => thread'[t] = thread[t]
    BY <1>0, <1>2 DEF Receive, TypeOK
  <2>4. \A b \in Apps, j \in Nat, r \in Sessions : Carries(b, j, r)' =>
           \/ b # a /\ Carries(b, j, r)
           \/ b = a /\ j >= 1 /\ Carries(a, j + 1, r)
    BY <2>1 DEF Carries
  <2>5. \A b \in Apps, j \in Nat, r \in Sessions : Carries(b, j, r)' => r # s
    <3> SUFFICES ASSUME NEW b \in Apps, NEW j \in Nat, NEW r \in Sessions, Carries(b, j, r)', r = s
                 PROVE  FALSE
      OBVIOUS
    <3> HIDE DEF s
    <3>1. CASE b # a /\ Carries(b, j, r)
      BY <2>2, <3>1 DEF ExclInv
    <3>2. CASE b = a /\ j >= 1 /\ Carries(a, j + 1, r)
      <4>1. 1 = j + 1
        BY <2>2, <3>2 DEF ExclInv
      <4> QED BY <3>2, <4>1
    <3> QED BY <2>4, <3>1, <3>2
  <2>6. s \in Sessions => session[s].inUse /\ \A t \in Threads : thread[t].s # s
    BY <2>2 DEF ExclInv
  <2> HIDE DEF s
  <2>7. \A t, u \in Threads : InHand(t)' /\ thread'[t].s = thread'[u].s => t = u
    BY <2>2, <2>3, <2>6 DEF ExclInv, InHand
  <2>8. \A r \in Sessions : \A b \in Apps, j \in Nat : Carries(b, j, r)' =>
          session'[r].inUse /\ \A t \in Threads : thread'[t].s # r
    <3> SUFFICES ASSUME NEW r \in Sessions, NEW b \in Apps, NEW j \in Nat, Carries(b, j, r)'
                 PROVE  session'[r].inUse /\ \A t \in Threads : thread'[t].s # r
      OBVIOUS
    <3>1. \E k \in Nat : Carries(b, k, r)
      BY <2>4
    <3>2. r # s
      BY <2>5
    <3> QED BY <2>3, <3>1, <3>2 DEF ExclInv
  <2>9. \A r \in Sessions : \A b, d \in Apps, j, k \in Nat :
          Carries(b, j, r)' /\ Carries(d, k, r)' => b = d /\ j = k
    <3> SUFFICES ASSUME NEW r \in Sessions, NEW b \in Apps, NEW d \in Apps, NEW j \in Nat, NEW k \in Nat,
                        Carries(b, j, r)', Carries(d, k, r)'
                 PROVE  b = d /\ j = k
      OBVIOUS
    <3>1. Carries(b, IF b = a THEN j + 1 ELSE j, r) /\ Carries(d, IF d = a THEN k + 1 ELSE k, r)
      BY <2>4
    <3>2. b = d /\ (IF b = a THEN j + 1 ELSE j) = (IF d = a THEN k + 1 ELSE k)
      BY <3>1 DEF ExclInv
    <3> QED BY <3>2
  <2>10. \A b \in Apps : InHand(b)' => session'[thread'[b].s].inUse
    BY <2>2, <2>3, <2>6 DEF ExclInv, InHand
  <2>11. thread'[Server] = thread[Server]
    BY <1>0, <2>3
  <2> QED BY <2>3, <2>7, <2>8, <2>9, <2>10, <2>11 DEF ExclInv
<1>3. ASSUME StatusUnknown(a) PROVE ExclInv'
  <2>1. /\ \A t \in Threads : thread'[t].s = thread[t].s
        /\ thread'[Server] = thread[Server]
    <3>1. /\ thread'[a].s = thread[a].s
          /\ \A u \in Threads : u # a => thread'[u] = thread[u]
      <4>1. /\ thread'[a] = [pc |-> "close", fd |-> thread[a].fd, s |-> thread[a].s, for |-> thread[a].for]
            /\ \A u \in Threads : u # a => thread'[u] = thread[u]
        BY <1>0, <1>3, GotoFacts DEF StatusUnknown
      <4> QED BY <4>1
    <3> QED BY <1>0, <3>1
  <2> QED BY <1>3, <2>1, ExclSame, CarriesSame DEF StatusUnknown, ExclInv
<1>4. ASSUME Return(a), UNCHANGED <<session, queue>> PROVE ExclInv'
  <2>1. thread'[a] = Idle /\ \A u \in Threads : u # a => thread'[u] = thread[u]
    BY <1>0, <1>4, ReturnFacts
  <2> QED BY <1>0, <1>4, <2>1, ExclLess
<1>5. ASSUME OpenReport(a) PROVE ExclInv'
  <2>1. CASE FreeFds = {}
    BY <1>4, <1>5, <2>1 DEF OpenReport
  <2>2. CASE FreeFds # {}
    <3>1. thread[a].s = NoSession
      BY <1>0, <1>5 DEF OpenReport, WithSession
    <3>2. /\ \A t \in Threads : thread'[t].s = thread[t].s
          /\ thread'[Server] = thread[Server]
      BY <1>0, <1>5, <2>2, <3>1 DEF OpenReport, TypeOK
    <3> QED BY <1>5, <3>2, ExclSame, CarriesSame DEF OpenReport, ExclInv
  <2> QED BY <2>1, <2>2
<1> QED BY <1>1, <1>2, <1>3, <1>4, <1>5 DEF EncodeFails, CloseReport

LEMMA ExclReply ==
  ASSUME BaseInv, ExclInv, NEW t \in Threads
  PROVE  /\ Answer(t) => ExclInv'
         /\ CloseConnection(t) => ExclInv'
         /\ FreeSession(t) => ExclInv'
<1> USE ServerApart, ThreadsAre
<1>0. TypeOK
  BY DEF BaseInv
<1>1. ASSUME NEW pc \in {"close", "free"}, Goto(t, pc), UNCHANGED <<session, queue>> PROVE ExclInv'
  <2>1. \A u \in Threads : thread'[u].s = thread[u].s /\ thread'[u].pc \in {pc, thread[u].pc}
    <3>1. /\ thread'[t] = [pc |-> pc, fd |-> thread[t].fd, s |-> thread[t].s, for |-> thread[t].for]
          /\ \A u \in Threads : u # t => thread'[u] = thread[u]
      BY <1>0, <1>1, GotoFacts
    <3> QED BY <3>1
  <2> QED BY <1>1, <2>1, ExclSame, CarriesSame DEF ExclInv
<1>2. ASSUME FreeSession(t) PROVE ExclInv'
  <2>1. thread'[t] = Idle /\ \A u \in Threads : u # t => thread'[u] = thread[u]
    BY <1>0, <1>2, ReturnFacts DEF FreeSession
  <2>2. \A s \in Sessions : session'[s].inUse = session[s].inUse \/ s = thread[t].s
    BY <1>0, <1>2 DEF FreeSession, TypeOK
  <2> QED BY <1>2, <2>1, <2>2, ExclLess DEF FreeSession
<1> QED BY <1>1, <1>2 DEF Answer, CloseConnection

LEMMA ExclStep == BaseInv /\ ExclInv /\ [Next]_vars => ExclInv'
<1> SUFFICES ASSUME BaseInv, ExclInv, [Next]_vars PROVE ExclInv'
  OBVIOUS
<1>1. ASSUME NEW c \in Clients, Connect(c) \/ HangUp(c) PROVE ExclInv'
  BY <1>1, ExclClients
<1>2. ASSUME NEW a \in Apps, TimerExpires(a) \/ AppThread(a) PROVE ExclInv'
  BY <1>2, ExclApps, ExclReply, ThreadsAre DEF AppThread, Reply
<1>3. CASE ServerThread
  BY <1>3, ExclServer, ExclReply, ThreadsAre DEF ServerThread, Reply
<1>4. CASE UNCHANGED vars
  BY <1>4 DEF vars, ExclInv, InHand, Carries
<1> QED BY <1>1, <1>2, <1>3, <1>4 DEF Next

LEMMA ExclImplies == BaseInv /\ ExclInv => SessionExclusive
<1> SUFFICES ASSUME BaseInv, ExclInv PROVE SessionExclusive
  OBVIOUS
<1>1. \A a \in Apps, i \in 1 .. QueueSize : Waits(a, i) =>
        i \in Nat /\ queue[a][i].s \in Sessions /\ Carries(a, i, queue[a][i].s)
  BY MessageIn, Numbers DEF BaseInv, Waits, Carries, Message
<1>2. \A a, b \in Apps, i, j \in 1 .. QueueSize :
        Waits(a, i) /\ Waits(b, j) /\ queue[b][j].s = queue[a][i].s => a = b /\ i = j
  BY <1>1 DEF ExclInv
<1> QED BY <1>1, <1>2 DEF ExclInv, SessionExclusive

-----------------------------------------------------------------------------
(* A descriptor is held by one thread or by one message, whose client is    *)
(* at its other end.                                                        *)

Holds(t) == IF t = Server THEN thread[t].pc \in Connected
                          ELSE thread[t].pc \in {"report", "reply", "close"}

HeldBy(t) == IF t = Server \/ thread[t].pc = "report" THEN thread[t].fd
                                                     ELSE session[thread[t].s].fd

Peer(t) == IF thread[t].pc = "report"
             THEN fds[HeldBy(t)] = Report
             ELSE /\ thread[t].for \in Clients \cup {Gone}
                  /\ \/ fds[HeldBy(t)] = thread[t].for
                     \/ thread[t].pc = "close" /\ fds[HeldBy(t)] = Gone

PeerOf(a, i, s) == /\ queue[a][i].for \in Clients \cup {Gone}
                   /\ fds[session[s].fd] = queue[a][i].for

ConnInv ==
  /\ \A t, u \in Threads : Holds(t) /\ Holds(u) /\ HeldBy(t) = HeldBy(u) => t = u
  /\ \A t \in Threads : Holds(t) => HeldBy(t) \in Fds /\ Peer(t)
  /\ \A s \in Sessions, a \in Apps, i \in Nat : Carries(a, i, s) =>
       /\ session[s].fd \in Fds /\ PeerOf(a, i, s)
       /\ \A t \in Threads : Holds(t) => HeldBy(t) # session[s].fd
       /\ \A r \in Sessions, b \in Apps, j \in Nat :
            Carries(b, j, r) /\ session[r].fd = session[s].fd => r = s
  /\ thread[Server].pc = "handle" => session[thread[Server].s].fd = thread[Server].fd

LEMMA ConnInit == Init => ConnInv
  BY ServerApart DEF Init, ConnInv, Idle, Holds, Carries, Threads, Connected

\* No thread holds more than before; what it holds may change.
LEMMA ConnLess ==
  ASSUME ConnInv,
         \A t \in Threads : Holds(t)' => Holds(t) /\ HeldBy(t)' = HeldBy(t) /\ Peer(t)',
         \A s \in Sessions, a \in Apps, i \in Nat : Carries(a, i, s)' =>
            Carries(a, i, s) /\ session'[s].fd = session[s].fd /\ PeerOf(a, i, s)',
         thread'[Server].pc = "handle" => session'[thread'[Server].s].fd = thread'[Server].fd
  PROVE  ConnInv'
  BY DEF ConnInv

\* A descriptor that is held is not a closed one.
LEMMA HeldIsOpen ==
  ASSUME ConnInv
  PROVE  /\ \A t \in Threads : Holds(t) => fds[HeldBy(t)] # Free
         /\ \A s \in Sessions, a \in Apps, i \in Nat : Carries(a, i, s) => fds[session[s].fd] # Free
  BY RestAssumption DEF ConnInv, Peer, PeerOf

\* A thread opens a descriptor.
LEMMA ConnMore ==
  ASSUME ConnInv, TypeOK, NEW t \in Threads, NEW f \in Fds, fds[f] = Free,
         Holds(t)', HeldBy(t)' = f, Peer(t)', thread'[t].pc # "handle",
         \A u \in Threads : u # t => thread'[u] = thread[u],
         \A g \in Fds : g # f => fds'[g] = fds[g],
         session' = session, queue' = queue
  PROVE  ConnInv'
<1>1. \A u \in Threads : Holds(u) => HeldBy(u) # f
  BY HeldIsOpen
<1>2. \A u \in Threads : u # t => (Holds(u)' <=> Holds(u)) /\ HeldBy(u)' = HeldBy(u)
  BY DEF Holds, HeldBy
<1>3. \A u \in Threads : Holds(u) /\ u # t => HeldBy(u)' \in Fds /\ Peer(u)'
  BY <1>1, <1>2 DEF ConnInv, Peer
<1>4. \A u, v \in Threads : Holds(u)' /\ Holds(v)' /\ HeldBy(u)' = HeldBy(v)' => u = v
  BY <1>1, <1>2 DEF ConnInv
<1>5. \A s \in Sessions, a \in Apps, i \in Nat : Carries(a, i, s)' =>
        Carries(a, i, s) /\ session'[s].fd = session[s].fd /\ session[s].fd # f
  BY HeldIsOpen DEF Carries
<1>6. \A s \in Sessions, a \in Apps, i \in Nat : Carries(a, i, s)' => PeerOf(a, i, s)'
  BY <1>5 DEF ConnInv, PeerOf
<1>7. \A s \in Sessions, a \in Apps, i \in Nat : Carries(a, i, s)' =>
        \A u \in Threads : Holds(u)' => HeldBy(u)' # session'[s].fd
  BY <1>2, <1>5 DEF ConnInv
<1>8. \A s \in Sessions, a \in Apps, i \in Nat : Carries(a, i, s)' =>
        /\ session'[s].fd \in Fds
        /\ \A r \in Sessions, b \in Apps, j \in Nat :
             Carries(b, j, r)' /\ session'[r].fd = session'[s].fd => r = s
  BY <1>5 DEF ConnInv
<1>9. thread'[Server].pc = "handle" => session'[thread'[Server].s].fd = thread'[Server].fd
  BY ThreadsAre DEF ConnInv
<1> QED BY <1>2, <1>3, <1>4, <1>6, <1>7, <1>8, <1>9 DEF ConnInv

\* A session that an application or a message has is not the server's, nor
\* one that the server may take.
LEMMA OthersSessions ==
  ASSUME BaseInv, ExclInv
  PROVE  /\ \A a \in Apps : thread[a].pc \in {"reply", "close", "free"} =>
              /\ thread[a].s \in Sessions /\ session[thread[a].s].inUse
              /\ thread[a].s # thread[Server].s
         /\ \A s \in Sessions, a \in Apps, i \in Nat : Carries(a, i, s) =>
              session[s].inUse /\ s # thread[Server].s
<1> USE ServerApart, ThreadsAre
<1>1. ASSUME NEW a \in Apps, thread[a].pc \in {"reply", "close", "free"}
      PROVE  thread[a].s \in Sessions /\ InHand(a)
  BY <1>1, InHandIs DEF BaseInv, PlacesInv, WithSession
<1> QED BY <1>1 DEF ExclInv

\* The table of sessions changes where neither an application nor a message
\* has a session; the applications and the messages do not move.
LEMMA ConnSessions ==
  ASSUME BaseInv, ExclInv, ConnInv,
         \A s \in Sessions : session'[s].fd = session[s].fd \/ ~session[s].inUse \/ s = thread[Server].s,
         \A a \in Apps : thread'[a] = thread[a],
         queue' = queue, fds' = fds,
         thread'[Server].fd = thread[Server].fd, thread'[Server].for = thread[Server].for,
         thread[Server].pc \in Connected \ {"close"},
         thread'[Server].pc = "handle" => session'[thread'[Server].s].fd = thread'[Server].fd,
         thread'[Server].pc # "report"
  PROVE  ConnInv'
<1> USE ServerApart, ThreadsAre
<1>1. ASSUME NEW a \in Apps, Holds(a)' PROVE Holds(a) /\ HeldBy(a)' = HeldBy(a) /\ Peer(a)'
  <2>1. Holds(a) /\ HeldBy(a)' = HeldBy(a)
    <3>1. Holds(a)
      BY <1>1 DEF Holds
    <3>2. CASE thread[a].pc = "report"
      BY <3>1, <3>2 DEF HeldBy
    <3>3. CASE thread[a].pc \in {"reply", "close"}
      <4>1. thread[a].s \in Sessions /\ session'[thread[a].s].fd = session[thread[a].s].fd
        BY <3>3, OthersSessions
      <4> QED BY <3>1, <3>3, <4>1 DEF HeldBy
    <3> QED BY <3>1, <3>2, <3>3 DEF Holds
  <2> QED BY <2>1 DEF ConnInv, Peer
<1>2. Holds(Server)' => Holds(Server) /\ HeldBy(Server)' = HeldBy(Server) /\ Peer(Server)'
  <2>1. Holds(Server) /\ HeldBy(Server)' = HeldBy(Server)
    BY DEF Holds, HeldBy
  <2>2. thread[Server].pc # "report"
    BY DEF Connected
  <2> QED BY <2>1, <2>2 DEF ConnInv, Peer
<1>3. \A s \in Sessions, a \in Apps, i \in Nat : Carries(a, i, s)' =>
         Carries(a, i, s) /\ session'[s].fd = session[s].fd /\ PeerOf(a, i, s)'
  <2>1. \A s \in Sessions, a \in Apps, i \in Nat : Carries(a, i, s)' =>
         Carries(a, i, s) /\ session'[s].fd = session[s].fd
    BY OthersSessions DEF Carries
  <2> QED BY <2>1 DEF ConnInv, PeerOf
<1> QED BY <1>1, <1>2, <1>3, ConnLess

LEMMA ConnServer ==
  ASSUME BaseInv, ExclInv, ConnInv
  PROVE  /\ Accept => ConnInv'
         /\ AllocateSession => ConnInv'
         /\ NoSessionLeft => ConnInv'
         /\ ReadFails => ConnInv'
         /\ ParseFails => ConnInv'
         /\ ReadRequest => ConnInv'
         /\ Reject => ConnInv'
<1> USE ServerApart, ThreadsAre
<1>0. /\ TypeOK /\ PlacesInv
      /\ thread[Server].s \in Sessions <=> thread[Server].pc \in WithSession
      /\ thread[Server].s \in Sessions \cup {NoSession}
  BY DEF BaseInv, TypeOK, PlacesInv
<1>1. ASSUME Accept PROVE ConnInv'
  <2> DEFINE f == LeastOf(FreeFds)
  <2> DEFINE c == Head(backlog)
  <2>1. f \in Fds /\ fds[f] = Free
    BY <1>1, FreeFdsFacts DEF Accept
  <2>2. c \in Clients \cup {Gone}
    BY <1>0, <1>1, TailFacts DEF Accept, TypeOK
  <2>3. /\ fds' = [fds EXCEPT ![f] = c]
        /\ thread' = [thread EXCEPT ![Server] =
                        [pc |-> "allocate", fd |-> f, s |-> NoSession, for |-> c]]
        /\ session' = session /\ queue' = queue
    BY <1>1 DEF Accept
  <2> HIDE DEF f, c
  <2>4. /\ thread'[Server].pc = "allocate" /\ thread'[Server].fd = f /\ thread'[Server].for = c
        /\ fds'[f] = c
        /\ \A u \in Threads : u # Server => thread'[u] = thread[u]
        /\ \A g \in Fds : g # f => fds'[g] = fds[g]
    BY <1>0, <2>1, <2>3 DEF TypeOK
  <2>5. Holds(Server)' /\ HeldBy(Server)' = f /\ Peer(Server)'
    BY <2>2, <2>4 DEF Holds, HeldBy, Peer, Connected
  <2> QED BY <1>0, <2>1, <2>3, <2>4, <2>5, ConnMore
<1>2. ASSUME AllocateSession PROVE ConnInv'
  <2> DEFINE s == LeastOf(UsableSessions)
  <2>1. s \in Sessions /\ ~session[s].inUse
    BY <1>2, UsableFacts DEF AllocateSession
  <2>2. /\ thread'[Server].pc = "read" /\ thread'[Server].fd = thread[Server].fd
        /\ thread'[Server].for = thread[Server].for
        /\ \A t \in Threads : t # Server => thread'[t] = thread[t]
        /\ \A r \in Sessions : session'[r].fd = session[r].fd \/ r = s
        /\ queue' = queue /\ fds' = fds /\ thread[Server].pc = "allocate"
    BY <1>0, <1>2, <2>1 DEF AllocateSession, TypeOK
  <2> QED BY <2>1, <2>2, ConnSessions DEF Connected
<1>3. ASSUME NoSessionLeft PROVE ConnInv'
  <2>1. Return(Server) /\ UNCHANGED <<fds, session, queue>>
    BY <1>3 DEF NoSessionLeft
  <2>2. thread'[Server] = Idle /\ \A u \in Threads : u # Server => thread'[u] = thread[u]
    BY <1>0, <2>1, ReturnFacts
  <2>3. \A u \in Threads : Holds(u)' => u # Server /\ Holds(u) /\ HeldBy(u)' = HeldBy(u)
    BY <2>1, <2>2 DEF Holds, HeldBy, Idle, Connected
  <2>4. \A u \in Threads : Holds(u)' => Peer(u)'
    BY <2>1, <2>2, <2>3 DEF ConnInv, Peer
  <2>5. \A s \in Sessions, a \in Apps, i \in Nat : Carries(a, i, s)' =>
            Carries(a, i, s) /\ session'[s].fd = session[s].fd /\ PeerOf(a, i, s)'
    BY <2>1 DEF ConnInv, Carries, PeerOf
  <2>6. thread'[Server].pc # "handle"
    BY <2>2 DEF Idle
  <2> QED BY <2>3, <2>4, <2>5, <2>6, ConnLess
<1>4. ASSUME NEW pc \in {"handle", "reply", "close"}, Goto(Server, pc)
      PROVE  /\ thread'[Server].pc = pc /\ thread'[Server].fd = thread[Server].fd
             /\ thread'[Server].s = thread[Server].s /\ thread'[Server].for = thread[Server].for
             /\ \A a \in Apps : thread'[a] = thread[a]
  <2>1. /\ thread'[Server] = [pc |-> pc, fd |-> thread[Server].fd, s |-> thread[Server].s,
                              for |-> thread[Server].for]
        /\ \A u \in Threads : u # Server => thread'[u] = thread[u]
    BY <1>0, <1>4, GotoFacts
  <2> QED BY <2>1
<1>5. ASSUME NEW b \in BOOLEAN, thread[Server].pc = "read",
             session' = [session EXCEPT ![thread[Server].s] = [inUse |-> b, fd |-> thread[Server].fd]]
      PROVE  /\ \A s \in Sessions : session'[s].fd = session[s].fd \/ s = thread[Server].s
             /\ session'[thread[Server].s].fd = thread[Server].fd
  BY <1>0, <1>5 DEF TypeOK, WithSession
<1>6. CASE ReadFails
  BY <1>4, <1>6, ConnSessions DEF ReadFails, Connected
<1>7. CASE ParseFails
  BY <1>4, <1>5, <1>7, ConnSessions DEF ParseFails, Connected
<1>8. CASE ReadRequest
  BY <1>4, <1>5, <1>8, ConnSessions DEF ReadRequest, Connected
<1>9. CASE Reject
  BY <1>4, <1>9, ConnSessions DEF Reject, Connected
<1> QED BY <1>1, <1>2, <1>3, <1>6, <1>7, <1>8, <1>9

\* The connection goes from the server to a message.
LEMMA ConnDispatch ==
  ASSUME BaseInv, ExclInv, ConnInv, NEW a \in Apps, Dispatch(a)
  PROVE  ConnInv'
<1> USE ServerApart, ThreadsAre
<1>0. TypeOK
  BY DEF BaseInv
<1> DEFINE s == thread[Server].s
<1> DEFINE m == [s |-> s, for |-> thread[Server].for]
<1> DEFINE n == Len(queue[a]) + 1
<1>1. s \in Sessions /\ session[s].inUse /\ InHand(Server) /\ thread[Server].pc = "handle"
  BY InHandIs DEF Dispatch, WithSession, ExclInv, BaseInv, PlacesInv
<1>2. m \in Message
  BY <1>0, <1>1 DEF Message, TypeOK
<1>3. \A b \in Apps : \A j \in DOMAIN queue'[b] :
        \/ j \in DOMAIN queue[b] /\ queue'[b][j] = queue[b][j]
        \/ b = a /\ j = n /\ queue'[b][j] = m
  BY <1>2, AppendedFacts DEF Dispatch
<1>4. \A r \in Sessions, b \in Apps, j \in Nat : Carries(b, j, r)' =>
        \/ Carries(b, j, r) /\ queue'[b][j] = queue[b][j] /\ r # s
        \/ r = s /\ queue'[b][j] = m
  BY <1>1, <1>3 DEF Carries, ExclInv
<1>5. /\ session' = session /\ fds' = fds /\ thread'[Server] = Idle
      /\ \A t \in Threads : t # Server => thread'[t] = thread[t]
  BY <1>0, ReturnFacts DEF Dispatch
<1>6. /\ Holds(Server) /\ HeldBy(Server) = session[s].fd /\ session[s].fd \in Fds
      /\ thread[Server].for \in Clients \cup {Gone}
      /\ fds[session[s].fd] = thread[Server].for
  BY <1>1 DEF ConnInv, Holds, HeldBy, Peer, Connected
<1>7. m.for = thread[Server].for
  OBVIOUS
<1> HIDE DEF s, m, n
<1>8. \A t \in Threads : Holds(t)' => t # Server /\ Holds(t) /\ HeldBy(t)' = HeldBy(t)
  BY <1>5 DEF Holds, HeldBy, Idle, Connected
<1>9. \A t \in Threads : Holds(t)' => HeldBy(t)' \in Fds /\ Peer(t)'
  BY <1>5, <1>8 DEF ConnInv, Peer
<1>10. \A t, u \in Threads : Holds(t)' /\ Holds(u)' /\ HeldBy(t)' = HeldBy(u)' => t = u
  BY <1>8 DEF ConnInv
<1>11. \A r \in Sessions, b \in Apps, j \in Nat : Carries(b, j, r)' =>
         session'[r].fd \in Fds /\ PeerOf(b, j, r)'
  BY <1>4, <1>5, <1>6, <1>7 DEF ConnInv, PeerOf
<1>12. \A r \in Sessions, b \in Apps, j \in Nat : Carries(b, j, r)' =>
         \A t \in Threads : Holds(t)' => HeldBy(t)' # session'[r].fd
  BY <1>4, <1>5, <1>6, <1>8 DEF ConnInv
<1>13. \A r, q \in Sessions, b, d \in Apps, j, k \in Nat :
         Carries(b, j, r)' /\ Carries(d, k, q)' /\ session'[q].fd = session'[r].fd => q = r
  BY <1>4, <1>5, <1>6 DEF ConnInv
<1>14. thread'[Server].pc # "handle"
  BY <1>5 DEF Idle
<1> QED BY <1>9, <1>10, <1>11, <1>12, <1>13, <1>14 DEF ConnInv

\* The connection goes from the first message to its application.
LEMMA ConnReceive ==
  ASSUME BaseInv, ExclInv, ConnInv, NEW a \in Apps, Receive(a)
  PROVE  ConnInv'
<1> USE ServerApart, ThreadsAre
<1>0. TypeOK /\ a \in Threads /\ a # Server
  BY DEF BaseInv
<1> DEFINE s == Head(queue[a]).s
<1>1. /\ Head(queue[a]) \in Message /\ 1 \in DOMAIN queue[a] /\ Head(queue[a]) = queue[a][1]
      /\ \A b \in Apps : b # a => queue'[b] = queue[b]
      /\ \A j \in DOMAIN queue'[a] : j \in Nat /\ j >= 1 /\ j + 1 \in DOMAIN queue[a] /\ queue'[a][j] = queue[a][j + 1]
  BY TakenFacts DEF Receive
<1>2. s \in Sessions \cup {NoSession} /\ Carries(a, 1, s)
  BY <1>1 DEF Message, Carries
<1>3. /\ thread'[a].s = s /\ thread'[a].for = queue[a][1].for
      /\ thread'[a].pc = IF s = NoSession THEN "open" ELSE "reply"
      /\ session' = session /\ fds' = fds
      /\ \A t \in Threads : t # a => thread'[t] = thread[t]
  BY <1>0, <1>1 DEF Receive, TypeOK
<1>4. \A b \in Apps, j \in Nat, r \in Sessions : Carries(b, j, r)' =>
         \E k \in Nat : Carries(b, k, r) /\ queue'[b][j] = queue[b][k] /\ (b = a => k # 1)
  BY <1>1 DEF Carries
<1> HIDE DEF s
<1>5. \A b \in Apps, j \in Nat, r \in Sessions : Carries(b, j, r)' => r # s
  BY <1>2, <1>4 DEF ExclInv
<1>6. s \in Sessions => /\ session[s].fd \in Fds /\ PeerOf(a, 1, s)
                        /\ \A t \in Threads : Holds(t) => HeldBy(t) # session[s].fd
  BY <1>2 DEF ConnInv
<1>7. s \notin Sessions => s = NoSession
  BY <1>2
<1>8. \A t \in Threads : t # a => (Holds(t)' <=> Holds(t)) /\ HeldBy(t)' = HeldBy(t)
  BY <1>3 DEF Holds, HeldBy
<1>9. Holds(a)' => s \in Sessions /\ HeldBy(a)' = session[s].fd /\ Peer(a)'
  <2> SUFFICES ASSUME Holds(a)' PROVE s \in Sessions /\ HeldBy(a)' = session[s].fd /\ Peer(a)'
    OBVIOUS
  <2>1. s # NoSession /\ thread'[a].pc = "reply"
    BY <1>0, <1>3 DEF Holds
  <2>2. s \in Sessions /\ HeldBy(a)' = session[s].fd
    BY <1>0, <1>3, <1>7, <2>1 DEF HeldBy
  <2> QED BY <1>3, <1>6, <2>1, <2>2 DEF Peer, PeerOf
<1>10. \A t \in Threads : Holds(t)' => HeldBy(t)' \in Fds /\ Peer(t)'
  BY <1>3, <1>6, <1>8, <1>9 DEF ConnInv, Peer
<1>11. \A t, u \in Threads : Holds(t)' /\ Holds(u)' /\ HeldBy(t)' = HeldBy(u)' => t = u
  BY <1>6, <1>8, <1>9 DEF ConnInv
<1>12. \A r \in Sessions, b \in Apps, j \in Nat : Carries(b, j, r)' =>
         session'[r].fd \in Fds /\ PeerOf(b, j, r)'
  BY <1>3, <1>4 DEF ConnInv, PeerOf
<1>13. \A r \in Sessions, b \in Apps, j \in Nat : Carries(b, j, r)' =>
         \A t \in Threads : Holds(t)' => HeldBy(t)' # session'[r].fd
  <2> SUFFICES ASSUME NEW r \in Sessions, NEW b \in Apps, NEW j \in Nat, Carries(b, j, r)',
                      NEW t \in Threads, Holds(t)'
               PROVE  HeldBy(t)' # session'[r].fd
    OBVIOUS
  <2>1. PICK k \in Nat : Carries(b, k, r)
    BY <1>4
  <2>2. CASE t # a
    BY <1>3, <1>8, <2>1, <2>2 DEF ConnInv
  <2>3. CASE t = a
    <3>1. s \in Sessions /\ HeldBy(t)' = session[s].fd /\ r # s
      BY <1>5, <1>9, <2>3
    <3>2. session[r].fd # session[s].fd
      BY <1>2, <2>1, <3>1 DEF ConnInv
    <3> QED BY <1>3, <3>1, <3>2
  <2> QED BY <2>2, <2>3
<1>14. \A r, q \in Sessions, b, d \in Apps, j, k \in Nat :
         Carries(b, j, r)' /\ Carries(d, k, q)' /\ session'[q].fd = session'[r].fd => q = r
  BY <1>3, <1>4 DEF ConnInv
<1>15. thread'[Server] = thread[Server]
  BY <1>0, <1>3
<1> QED BY <1>3, <1>10, <1>11, <1>12, <1>13, <1>14, <1>15 DEF ConnInv

LEMMA ConnClients ==
  ASSUME BaseInv, ExclInv, ConnInv, NEW c \in Clients, Connect(c) \/ HangUp(c)
  PROVE  ConnInv'
<1> USE ServerApart, ThreadsAre
<1>1. CASE Connect(c)
  BY <1>1 DEF Connect, ConnInv, Holds, HeldBy, Peer, PeerOf, Carries
<1>2. CASE HangUp(c)
  <2>0. TypeOK
    BY DEF BaseInv
  <2>1. \A t \in Threads : /\ thread'[t].pc = thread[t].pc /\ thread'[t].fd = thread[t].fd
                            /\ thread'[t].s = thread[t].s
                            /\ thread'[t].for = IF thread[t].for = c THEN Gone ELSE thread[t].for
    BY <1>2, <2>0 DEF HangUp, TypeOK, Forget
  <2>2. \A f \in Fds : fds'[f] = IF fds[f] = c THEN Gone ELSE fds[f]
    BY <1>2 DEF HangUp
  <2>3. session' = session
    BY <1>2 DEF HangUp
  <2>4. \A s \in Sessions, a \in Apps, i \in Nat : Carries(a, i, s)' =>
          /\ Carries(a, i, s)
          /\ queue'[a][i].for = IF queue[a][i].for = c THEN Gone ELSE queue[a][i].for
    <3> SUFFICES ASSUME NEW s \in Sessions, NEW a \in Apps, NEW i \in Nat, Carries(a, i, s)'
                 PROVE  /\ Carries(a, i, s)
                        /\ queue'[a][i].for = IF queue[a][i].for = c THEN Gone ELSE queue[a][i].for
      OBVIOUS
    <3>1. queue'[a] = [j \in DOMAIN queue[a] |-> Forget(c, queue[a][j])]
      BY <1>2 DEF HangUp
    <3>2. i \in DOMAIN queue[a]
      BY <3>1 DEF Carries
    <3>3. queue[a][i] \in Message
      BY <2>0, <3>2, MessageIn
    <3>4. queue'[a][i].s = queue[a][i].s /\ queue'[a][i].for = IF queue[a][i].for = c THEN Gone ELSE queue[a][i].for
      BY <3>1, <3>2, <3>3 DEF Forget, Message
    <3> QED BY <3>2, <3>4 DEF Carries
  <2>5. \A t \in Threads : Holds(t)' => Holds(t) /\ HeldBy(t)' = HeldBy(t)
    BY <2>1, <2>3 DEF Holds, HeldBy
  <2>6. \A t \in Threads : Holds(t)' => Peer(t)'
    BY <2>1, <2>2, <2>5, RestAssumption DEF ConnInv, Peer
  <2>7. \A s \in Sessions, a \in Apps, i \in Nat : Carries(a, i, s)' => PeerOf(a, i, s)'
    BY <2>2, <2>3, <2>4 DEF ConnInv, PeerOf
  <2>8. thread'[Server].pc = "handle" => session'[thread'[Server].s].fd = thread'[Server].fd
    BY <2>1, <2>3 DEF ConnInv
  <2> QED BY <2>3, <2>4, <2>5, <2>6, <2>7, <2>8, ConnLess
<1> QED BY <1>1, <1>2

\* A thread that returns gives up the descriptor that it holds, if it does.
LEMMA ConnReturn ==
  ASSUME BaseInv, ConnInv, NEW t \in Threads, Return(t),
         \A g \in Fds : fds'[g] = fds[g] \/ (Holds(t) /\ g = HeldBy(t)),
         \A s \in Sessions : session'[s].fd = session[s].fd, queue' = queue
  PROVE  ConnInv'
<1> USE ServerApart, ThreadsAre
<1>0. TypeOK
  BY DEF BaseInv
<1>1. thread'[t] = Idle /\ \A u \in Threads : u # t => thread'[u] = thread[u]
  BY <1>0, ReturnFacts
<1>2. \A u \in Threads : Holds(u)' => u # t /\ Holds(u)
  BY <1>1 DEF Holds, Idle, Connected
<1>3. \A u \in Threads : Holds(u)' => HeldBy(u)' = HeldBy(u)
  <2> SUFFICES ASSUME NEW u \in Threads, Holds(u)', u # Server, thread[u].pc # "report", u # t
               PROVE  HeldBy(u)' = HeldBy(u)
    BY <1>1, <1>2 DEF HeldBy
  <2>1. thread[u].s \in Sessions
    BY <1>2 DEF BaseInv, PlacesInv, WithSession, Holds
  <2> QED BY <1>1, <2>1 DEF HeldBy
<1>4. \A u \in Threads : Holds(u)' => Peer(u)'
  BY <1>1, <1>2, <1>3 DEF ConnInv, Peer
<1>5. \A s \in Sessions, a \in Apps, i \in Nat : Carries(a, i, s)' =>
            Carries(a, i, s) /\ session'[s].fd = session[s].fd /\ PeerOf(a, i, s)'
  BY DEF ConnInv, Carries, PeerOf
<1>6. thread'[Server].pc = "handle" => session'[thread'[Server].s].fd = thread'[Server].fd
  BY <1>1 DEF Idle, ConnInv, BaseInv, PlacesInv, WithSession
<1> QED BY <1>2, <1>3, <1>4, <1>5, <1>6, ConnLess

LEMMA ConnApps ==
  ASSUME BaseInv, ExclInv, ConnInv, NEW a \in Apps
  PROVE  /\ TimerExpires(a) => ConnInv'
         /\ StatusUnknown(a) => ConnInv'
         /\ EncodeFails(a) => ConnInv'
         /\ OpenReport(a) => ConnInv'
         /\ CloseReport(a) => ConnInv'
<1> USE ServerApart, ThreadsAre
<1>0. TypeOK /\ PlacesInv /\ a \in Threads /\ a # Server
  BY DEF BaseInv
<1>1. ASSUME TimerExpires(a) PROVE ConnInv'
  <2> DEFINE m == [s |-> NoSession, for |-> Report]
  <2>1. m \in Message
    BY DEF Message
  <2>2. \A b \in Apps : \A j \in DOMAIN queue'[b] :
              \/ j \in DOMAIN queue[b] /\ queue'[b][j] = queue[b][j]
              \/ b = a /\ j = Len(queue[a]) + 1 /\ queue'[b][j] = m
    BY <1>1, <2>1, AppendedFacts DEF TimerExpires
  <2>3. \A s \in Sessions, b \in Apps, j \in Nat : Carries(b, j, s)' =>
           Carries(b, j, s) /\ queue'[b][j] = queue[b][j]
    BY <2>2, Numbers DEF Carries
  <2>4. UNCHANGED <<fds, session, thread>>
    BY <1>1 DEF TimerExpires
  <2>5. \A s \in Sessions, b \in Apps, j \in Nat : Carries(b, j, s)' => PeerOf(b, j, s)'
    BY <2>3, <2>4 DEF ConnInv, PeerOf
  <2>6. \A t \in Threads : Holds(t)' => Holds(t) /\ HeldBy(t)' = HeldBy(t) /\ Peer(t)'
    BY <2>4 DEF ConnInv, Holds, HeldBy, Peer
  <2> QED BY <2>3, <2>4, <2>5, <2>6, ConnLess DEF ConnInv
<1>2. ASSUME StatusUnknown(a) PROVE ConnInv'
  <2>1. /\ thread'[a].pc = "close" /\ thread'[a].s = thread[a].s /\ thread'[a].for = thread[a].for
        /\ \A u \in Threads : u # a => thread'[u] = thread[u]
    <3>1. /\ thread'[a] = [pc |-> "close", fd |-> thread[a].fd, s |-> thread[a].s, for |-> thread[a].for]
          /\ \A u \in Threads : u # a => thread'[u] = thread[u]
      BY <1>0, <1>2, GotoFacts DEF StatusUnknown
    <3> QED BY <3>1
  <2>2. UNCHANGED <<fds, session, queue>> /\ thread[a].pc = "reply"
    BY <1>2 DEF StatusUnknown
  <2>3. \A t \in Threads : Holds(t)' => Holds(t) /\ HeldBy(t)' = HeldBy(t)
    BY <1>0, <2>1, <2>2 DEF Holds, HeldBy
  <2>4. \A t \in Threads : Holds(t)' => Peer(t)'
    BY <2>1, <2>2, <2>3 DEF ConnInv, Peer
  <2>5. \A s \in Sessions, b \in Apps, j \in Nat : Carries(b, j, s)' =>
           Carries(b, j, s) /\ session'[s].fd = session[s].fd /\ PeerOf(b, j, s)'
    BY <2>2 DEF ConnInv, Carries, PeerOf
  <2> QED BY <1>0, <2>1, <2>2, <2>3, <2>4, <2>5, ConnLess DEF ConnInv
<1>3. ASSUME EncodeFails(a) PROVE ConnInv'
  BY <1>0, <1>3, ConnReturn DEF EncodeFails
<1>4. ASSUME OpenReport(a) PROVE ConnInv'
  <2>1. CASE FreeFds = {}
    BY <1>0, <1>4, <2>1, ConnReturn DEF OpenReport
  <2>2. CASE FreeFds # {}
    <3> DEFINE f == LeastOf(FreeFds)
    <3>1. f \in Fds /\ fds[f] = Free
      BY <2>2, FreeFdsFacts
    <3>2. /\ fds' = [fds EXCEPT ![f] = Report]
          /\ thread' = [thread EXCEPT ![a] = [pc |-> "report", fd |-> f, s |-> NoSession, for |-> Report]]
          /\ UNCHANGED <<session, queue>>
      BY <1>4, <2>2 DEF OpenReport
    <3> HIDE DEF f
    <3>3. /\ thread'[a].pc = "report" /\ thread'[a].fd = f /\ fds'[f] = Report
          /\ \A u \in Threads : u # a => thread'[u] = thread[u]
          /\ \A g \in Fds : g # f => fds'[g] = fds[g]
      BY <1>0, <3>1, <3>2 DEF TypeOK
    <3>4. Holds(a)' /\ HeldBy(a)' = f /\ Peer(a)'
      BY <1>0, <3>3 DEF Holds, HeldBy, Peer
    <3> QED BY <1>0, <3>1, <3>2, <3>3, <3>4, ConnMore
  <2> QED BY <2>1, <2>2
<1>5. ASSUME CloseReport(a) PROVE ConnInv'
  <2>1. Return(a) /\ UNCHANGED <<session, queue>> /\ fds' = [fds EXCEPT ![thread[a].fd] = Free]
    BY <1>5 DEF CloseReport
  <2>2. Holds(a) /\ HeldBy(a) = thread[a].fd
    BY <1>0, <1>5 DEF CloseReport, Holds, HeldBy
  <2>3. \A g \in Fds : fds'[g] = fds[g] \/ g = thread[a].fd
    BY <1>0, <2>1 DEF TypeOK
  <2> QED BY <1>0, <2>1, <2>2, <2>3, ConnReturn
<1> QED BY <1>1, <1>2, <1>3, <1>4, <1>5

LEMMA ConnReply ==
  ASSUME BaseInv, ExclInv, ConnInv, NEW t \in Threads
  PROVE  /\ Answer(t) => ConnInv'
         /\ CloseConnection(t) => ConnInv'
         /\ FreeSession(t) => ConnInv'
<1> USE ServerApart, ThreadsAre
<1>0. TypeOK
  BY DEF BaseInv
<1>1. thread[t].pc \in {"reply", "close"} => Holds(t) /\ HeldBy(t) = FdOf(t) /\ FdOf(t) \in Fds /\ Peer(t)
  BY DEF ConnInv, Holds, HeldBy, FdOf, Connected
\* The others hold other descriptors.
<1>2. ASSUME NEW pc \in {"close", "free"}, Goto(t, pc), thread[t].pc \in {"reply", "close"},
             \A g \in Fds : g # FdOf(t) => fds'[g] = fds[g],
             pc = "close" => fds'[FdOf(t)] \in {thread[t].for, Gone},
             UNCHANGED <<session, queue>>
      PROVE  ConnInv'
  <2>1. /\ thread'[t].pc = pc /\ thread'[t].fd = thread[t].fd
        /\ thread'[t].s = thread[t].s /\ thread'[t].for = thread[t].for
        /\ \A u \in Threads : u # t => thread'[u] = thread[u]
    <3>1. /\ thread'[t] = [pc |-> pc, fd |-> thread[t].fd, s |-> thread[t].s, for |-> thread[t].for]
          /\ \A u \in Threads : u # t => thread'[u] = thread[u]
      BY <1>0, <1>2, GotoFacts
    <3> QED BY <3>1
  <2>2. \A u \in Threads : Holds(u)' => Holds(u) /\ HeldBy(u)' = HeldBy(u) /\ (u = t => pc = "close")
    BY <1>1, <1>2, <2>1 DEF Holds, HeldBy, Connected
  <2>3. \A u \in Threads : Holds(u)' => Peer(u)'
    <3> TAKE u \in Threads
    <3> HAVE Holds(u)'
    <3>1. CASE u # t
      <4>1. HeldBy(u) # FdOf(t) /\ HeldBy(u) \in Fds
        BY <1>1, <1>2, <2>2, <3>1 DEF ConnInv
      <4> QED BY <1>2, <2>1, <2>2, <3>1, <4>1 DEF ConnInv, Peer
    <3>2. CASE u = t
      BY <1>1, <1>2, <2>1, <2>2, <3>2 DEF Peer
    <3> QED BY <3>1, <3>2
  <2>4. \A s \in Sessions, b \in Apps, j \in Nat : Carries(b, j, s)' =>
           Carries(b, j, s) /\ session'[s].fd = session[s].fd /\ session[s].fd # FdOf(t) /\ session[s].fd \in Fds
    BY <1>1, <1>2 DEF ConnInv, Carries
  <2>5. \A s \in Sessions, b \in Apps, j \in Nat : Carries(b, j, s)' => PeerOf(b, j, s)'
    BY <1>2, <2>4 DEF ConnInv, PeerOf
  <2>6. thread'[Server].pc = "handle" => session'[thread'[Server].s].fd = thread'[Server].fd
    BY <1>2, <2>1 DEF ConnInv
  <2> QED BY <2>2, <2>3, <2>4, <2>5, <2>6, ConnLess
<1>3. ASSUME Answer(t) PROVE ConnInv'
  <2>1. /\ \A g \in Fds : g # FdOf(t) => fds'[g] = fds[g]
        /\ FdOf(t) \in Fds => fds'[FdOf(t)] = IF fds[FdOf(t)] \in Clients THEN Gone ELSE fds[FdOf(t)]
    BY <1>0, <1>3, DeliveredFacts DEF Answer
  <2>2. fds'[FdOf(t)] \in {thread[t].for, Gone}
    BY <1>1, <1>3, <2>1 DEF Answer, Peer
  <2> QED BY <1>2, <1>3, <2>1, <2>2 DEF Answer
<1>4. ASSUME CloseConnection(t) PROVE ConnInv'
  <2>1. \A g \in Fds : g # FdOf(t) => fds'[g] = fds[g]
    BY <1>4 DEF CloseConnection
  <2> QED BY <1>2, <1>4, <2>1 DEF CloseConnection
<1>5. ASSUME FreeSession(t) PROVE ConnInv'
  <2>1. \A s \in Sessions : session'[s].fd = session[s].fd
    BY <1>0, <1>5 DEF FreeSession, TypeOK
  <2> QED BY <1>5, <2>1, ConnReturn DEF FreeSession
<1> QED BY <1>3, <1>4, <1>5

LEMMA ConnStep == BaseInv /\ ExclInv /\ ConnInv /\ [Next]_vars => ConnInv'
<1> SUFFICES ASSUME BaseInv, ExclInv, ConnInv, [Next]_vars PROVE ConnInv'
  OBVIOUS
<1>1. ASSUME NEW c \in Clients, Connect(c) \/ HangUp(c) PROVE ConnInv'
  BY <1>1, ConnClients
<1>2. ASSUME NEW a \in Apps, TimerExpires(a) \/ AppThread(a) PROVE ConnInv'
  BY <1>2, ConnApps, ConnReceive, ConnReply, ThreadsAre DEF AppThread, Reply
<1>3. CASE ServerThread
  BY <1>3, ConnServer, ConnDispatch, ConnReply, ThreadsAre DEF ServerThread, Reply
<1>4. CASE UNCHANGED vars
  BY <1>4 DEF vars, ConnInv, Holds, HeldBy, Peer, PeerOf, Carries
<1> QED BY <1>1, <1>2, <1>3, <1>4 DEF Next

LEMMA ConnImplies == ConnInv => RightConnection
<1> SUFFICES ASSUME ConnInv, NEW t \in Threads, thread[t].pc \in {"reply", "close"}
             PROVE  Holds(t) /\ FdOf(t) = HeldBy(t) /\ Peer(t) /\ HeldBy(t) \in Fds
  BY DEF RightConnection, Peer
<1> QED BY DEF ConnInv, Holds, HeldBy, FdOf, Connected

(***************************************************************************)
(* What a thread answers reaches the client that asked, whatever the       *)
(* failures and however many sessions, descriptors and applications there  *)
(* are: sessions are exclusive, and no descriptor is used too late.        *)
(***************************************************************************)
THEOREM OwnAnswersHold == Spec => []OwnAnswers
<1>1. Init => BaseInv /\ ExclInv /\ ConnInv
  BY BaseInit, ExclInit, ConnInit
<1>2. BaseInv /\ ExclInv /\ ConnInv /\ [Next]_vars => (BaseInv /\ ExclInv /\ ConnInv)'
  BY BaseStep, ExclStep, ConnStep
<1>3. BaseInv /\ ExclInv /\ ConnInv => OwnAnswers
  BY ExclImplies, ConnImplies DEF OwnAnswers
<1> QED BY <1>1, <1>2, <1>3, PTL DEF Spec

-----------------------------------------------------------------------------
(* What is never closed, and what is closed without an answer.              *)

SilentInv == \A t \in Threads : thread[t].pc = "close" => fds[FdOf(t)] \notin Clients

\* Every open descriptor is held, every session in use is somewhere.
HeldAt(f) ==
  \/ \E t \in Threads : Holds(t) /\ HeldBy(t) = f
  \/ \E s \in Sessions, a \in Apps, i \in Nat : Carries(a, i, s) /\ session[s].fd = f

UsedAt(s) ==
  \/ \E t \in Threads : thread[t].s = s
  \/ \E a \in Apps, i \in Nat : Carries(a, i, s)

HeldInv ==
  /\ \A f \in Fds : fds[f] # Free => HeldAt(f)
  /\ \A s \in Sessions : session[s].inUse => UsedAt(s)

\* A client has one connection at a time, and has it when it waits.
OneInv ==
  /\ \A i, j \in DOMAIN backlog : backlog[i] \in Clients /\ backlog[i] = backlog[j] => i = j
  /\ \A f, g \in Fds : fds[f] \in Clients /\ fds[f] = fds[g] => f = g
  /\ \A i \in DOMAIN backlog : \A f \in Fds : backlog[i] \in Clients => backlog[i] # fds[f]
  /\ \A c \in Clients : client[c] # "waiting" =>
       /\ \A i \in DOMAIN backlog : backlog[i] # c
       /\ \A f \in Fds : fds[f] # c

LEMMA OneInit == Init => OneInv
  BY RestAssumption DEF Init, OneInv

\* Connections end; those that wait to be accepted do not change.
LEMMA OneLess ==
  ASSUME OneInv, backlog' = backlog,
         \A f \in Fds : fds'[f] = fds[f] \/ fds'[f] \notin Clients,
         \A c \in Clients : \/ client'[c] = client[c]
                             \/ \E f \in Fds : fds[f] = c /\ fds'[f] # c
  PROVE  OneInv'
<1>1. \A c \in Clients : client'[c] # "waiting" =>
        (\A i \in DOMAIN backlog : backlog[i] # c) /\ (\A f \in Fds : fds'[f] # c)
  <2> SUFFICES ASSUME NEW c \in Clients, client'[c] # "waiting"
               PROVE  (\A i \in DOMAIN backlog : backlog[i] # c) /\ (\A f \in Fds : fds'[f] # c)
    OBVIOUS
  <2>1. CASE client'[c] = client[c]
    BY <2>1 DEF OneInv
  <2>2. CASE \E f \in Fds : fds[f] = c /\ fds'[f] # c
    BY <2>2 DEF OneInv
  <2> QED BY <2>1, <2>2
<1> QED BY <1>1 DEF OneInv

LEMMA OneStep == BaseInv /\ ConnInv /\ OneInv /\ [Next]_vars => OneInv'
<1> SUFFICES ASSUME BaseInv, ConnInv, OneInv, [Next]_vars PROVE OneInv'
  OBVIOUS
<1> USE ServerApart, ThreadsAre
<1>0. TypeOK
  BY DEF BaseInv
<1>1. ASSUME NEW c \in Clients, Connect(c) PROVE OneInv'
  <2>0. backlog \in Seq(Clients \cup {Gone}) /\ c \in Clients \cup {Gone}
    BY <1>0 DEF TypeOK
  <2>1. /\ DOMAIN backlog = 1 .. Len(backlog) /\ DOMAIN backlog' = 1 .. Len(backlog) + 1
        /\ Len(backlog) \in Nat
        /\ \A i \in 1 .. Len(backlog) : backlog'[i] = backlog[i]
        /\ backlog'[Len(backlog) + 1] = c
    BY <1>1, <2>0, AppendFacts DEF Connect
  <2>2. /\ fds' = fds /\ client[c] # "waiting" /\ client'[c] = "waiting"
        /\ \A d \in Clients : d # c => client'[d] = client[d]
    BY <1>0, <1>1 DEF Connect, TypeOK
  <2>3. \A i \in DOMAIN backlog' : \/ i \in DOMAIN backlog /\ backlog'[i] = backlog[i]
                                   \/ i = Len(backlog) + 1 /\ backlog'[i] = c
    BY <2>1
  <2>4. (\A i \in DOMAIN backlog : backlog[i] # c) /\ \A f \in Fds : fds[f] # c
    BY <2>2 DEF OneInv
  <2>5. \A i, j \in DOMAIN backlog' : backlog'[i] \in Clients /\ backlog'[i] = backlog'[j] => i = j
    BY <2>3, <2>4 DEF OneInv
  <2>6. \A d \in Clients : client'[d] # "waiting" => \A i \in DOMAIN backlog' : backlog'[i] # d
    BY <2>2, <2>3 DEF OneInv
  <2> QED BY <2>2, <2>3, <2>4, <2>5, <2>6 DEF OneInv
<1>2. ASSUME NEW c \in Clients, HangUp(c) PROVE OneInv'
  <2>1. /\ DOMAIN backlog' = DOMAIN backlog
        /\ \A i \in DOMAIN backlog : backlog'[i] = IF backlog[i] = c THEN Gone ELSE backlog[i]
        /\ \A f \in Fds : fds'[f] = IF fds[f] = c THEN Gone ELSE fds[f]
        /\ \A d \in Clients : d # c => client'[d] = client[d]
    BY <1>0, <1>2 DEF HangUp, TypeOK
  <2>2. Gone \notin Clients
    BY RestAssumption
  <2>3. \A i \in DOMAIN backlog' : backlog'[i] \in Clients => backlog'[i] = backlog[i] /\ backlog[i] # c
    BY <2>1, <2>2
  <2>4. \A f \in Fds : fds'[f] \in Clients => fds'[f] = fds[f] /\ fds[f] # c
    BY <2>1, <2>2
  <2>5. \A f, g \in Fds : fds'[f] \in Clients /\ fds'[f] = fds'[g] => f = g
    BY <2>4 DEF OneInv
  <2>6. \A i, j \in DOMAIN backlog' : backlog'[i] \in Clients /\ backlog'[i] = backlog'[j] => i = j
    BY <2>1, <2>3 DEF OneInv
  <2>7. \A i \in DOMAIN backlog' : \A f \in Fds : backlog'[i] \in Clients => backlog'[i] # fds'[f]
    BY <2>1, <2>3, <2>4 DEF OneInv
  <2>8. \A d \in Clients : client'[d] # "waiting" =>
          (\A i \in DOMAIN backlog' : backlog'[i] # d) /\ \A f \in Fds : fds'[f] # d
    BY <2>1, <2>3, <2>4 DEF OneInv
  <2> QED BY <2>5, <2>6, <2>7, <2>8 DEF OneInv
<1>3. CASE Accept
  <2> DEFINE f == LeastOf(FreeFds)
  <2>1. f \in Fds /\ fds[f] = Free
    BY <1>3, FreeFdsFacts DEF Accept
  <2>2. backlog \in Seq(Clients \cup {Gone}) /\ backlog # << >>
    BY <1>0, <1>3 DEF Accept, TypeOK
  <2>3. /\ DOMAIN backlog = 1 .. Len(backlog) /\ DOMAIN backlog' = 1 .. Len(backlog) - 1
        /\ Len(backlog) \in Nat /\ Len(backlog) >= 1 /\ Head(backlog) = backlog[1]
        /\ \A i \in 1 .. Len(backlog) - 1 : backlog'[i] = backlog[i + 1]
    BY <1>3, <2>2, TailFacts DEF Accept
  <2>4. /\ fds'[f] = backlog[1] /\ \A g \in Fds : g # f => fds'[g] = fds[g]
        /\ client' = client
    BY <1>0, <1>3, <2>1, <2>3 DEF Accept, TypeOK
  <2> HIDE DEF f
  <2>5. /\ 1 \in DOMAIN backlog
        /\ \A i \in DOMAIN backlog' : i + 1 \in DOMAIN backlog /\ backlog'[i] = backlog[i + 1] /\ i + 1 # 1 /\ i \in Nat
    BY <2>3
  <2>6. \A i, j \in DOMAIN backlog' : backlog'[i] \in Clients /\ backlog'[i] = backlog'[j] => i = j
    <3> SUFFICES ASSUME NEW i \in DOMAIN backlog', NEW j \in DOMAIN backlog',
                        backlog'[i] \in Clients, backlog'[i] = backlog'[j]
                 PROVE  i = j
      OBVIOUS
    <3>1. i + 1 = j + 1
      BY <2>5 DEF OneInv
    <3> QED BY <2>5, <3>1
  <2>7. \A g, h \in Fds : fds'[g] \in Clients /\ fds'[g] = fds'[h] => g = h
    BY <2>1, <2>4, <2>5 DEF OneInv
  <2>8. \A i \in DOMAIN backlog' : \A g \in Fds : backlog'[i] \in Clients => backlog'[i] # fds'[g]
    BY <2>4, <2>5 DEF OneInv
  <2>9. \A d \in Clients : client'[d] # "waiting" =>
          (\A i \in DOMAIN backlog' : backlog'[i] # d) /\ \A g \in Fds : fds'[g] # d
    BY <2>4, <2>5 DEF OneInv
  <2> QED BY <2>6, <2>7, <2>8, <2>9 DEF OneInv
<1>4. ASSUME UNCHANGED <<client, backlog, fds>> PROVE OneInv'
  BY <1>4 DEF OneInv
<1>5. ASSUME NEW t \in Threads, Answer(t) PROVE OneInv'
  <2>1. \A c \in Clients : client'[c] = client[c] \/ (FdOf(t) \in Fds /\ fds[FdOf(t)] = c)
    BY <1>5 DEF Answer, Delivered
  <2>2. \A f \in Fds : fds'[f] = IF f = FdOf(t) /\ fds[f] \in Clients THEN Gone ELSE fds[f]
    BY <1>5 DEF Answer, Delivered
  <2>3. backlog' = backlog /\ Gone \notin Clients
    BY <1>5, RestAssumption DEF Answer
  <2> QED BY <2>1, <2>2, <2>3, OneLess
<1>6. ASSUME NEW t \in Threads, CloseConnection(t) PROVE OneInv'
  <2>1. \A c \in Clients : client'[c] = client[c] \/ (FdOf(t) \in Fds /\ fds[FdOf(t)] = c)
    BY <1>6 DEF CloseConnection
  <2>2. \A f \in Fds : fds'[f] = IF f = FdOf(t) THEN Free ELSE fds[f]
    BY <1>6 DEF CloseConnection
  <2>3. backlog' = backlog /\ Free \notin Clients
    BY <1>6, RestAssumption DEF CloseConnection
  <2> QED BY <2>1, <2>2, <2>3, OneLess
<1>7. ASSUME NEW a \in Apps, OpenReport(a) PROVE OneInv'
  <2>1. backlog' = backlog /\ client' = client /\ \A f \in Fds : fds'[f] \in {fds[f], Report}
    BY <1>0, <1>7 DEF OpenReport, TypeOK
  <2> QED BY <2>1, OneLess, RestAssumption
<1>8. ASSUME NEW a \in Apps, CloseReport(a) PROVE OneInv'
  <2>1. backlog' = backlog /\ client' = client /\ \A f \in Fds : fds'[f] \in {fds[f], Free}
    BY <1>0, <1>8 DEF CloseReport, TypeOK
  <2> QED BY <2>1, OneLess, RestAssumption
<1>9. CASE ServerThread
  BY <1>3, <1>4, <1>5, <1>6, <1>9
     DEF ServerThread, Reply, AllocateSession, NoSessionLeft, ReadFails, ParseFails, ReadRequest,
         Reject, Dispatch, FreeSession
<1>10. ASSUME NEW a \in Apps, TimerExpires(a) \/ AppThread(a) PROVE OneInv'
  BY <1>4, <1>5, <1>6, <1>7, <1>8, <1>10
     DEF AppThread, Reply, TimerExpires, Receive, StatusUnknown, EncodeFails, FreeSession
<1>11. CASE UNCHANGED vars
  BY <1>4, <1>11 DEF vars
<1> QED BY <1>1, <1>2, <1>9, <1>10, <1>11 DEF Next

-----------------------------------------------------------------------------
\* The failures that close a connection without an answer do not happen.
AllAnswered == Cases \cap {"unreadable", "unsupported", "status"} = {}

\* A thread that closes a connection keeps what it has; an answer comes first.
LEMMA SilentStep ==
  ASSUME AllAnswered, BaseInv, ExclInv, ConnInv, SilentInv, [Next]_vars, ConnInv'
  PROVE  SilentInv'
<1> USE ServerApart, ThreadsAre
<1>0. TypeOK
  BY DEF BaseInv
<1>1. \A t \in Threads : thread[t].pc = "close" => Holds(t) /\ FdOf(t) = HeldBy(t) /\ FdOf(t) \in Fds
  BY DEF ConnInv, Holds, HeldBy, FdOf, Connected
\* Nobody comes to close a connection, and those there keep it.
<1>2. ASSUME \A t \in Threads : thread'[t].pc = "close" => thread[t].pc = "close" /\ FdOf(t)' = FdOf(t),
             \A f \in Fds : fds[f] # Free => (fds'[f] = fds[f] \/ fds'[f] \notin Clients)
      PROVE  SilentInv'
  <2>1. \A t \in Threads : thread[t].pc = "close" => fds[FdOf(t)] # Free
    BY <1>1, HeldIsOpen
  <2> QED BY <1>1, <1>2, <2>1 DEF SilentInv
<1>3. ASSUME NEW t \in Threads, thread'[t].pc # "close",
             \A u \in Threads : u # t => thread'[u] = thread[u],
             \A s \in Sessions : session'[s].fd = session[s].fd \/ s = thread[t].s \/ ~session[s].inUse
      PROVE  \A u \in Threads : thread'[u].pc = "close" => thread[u].pc = "close" /\ FdOf(u)' = FdOf(u)
  <2> SUFFICES ASSUME NEW u \in Threads, thread'[u].pc = "close"
               PROVE  thread[u].pc = "close" /\ FdOf(u)' = FdOf(u)
    OBVIOUS
  <2>1. u # t /\ thread'[u] = thread[u]
    BY <1>3
  <2>2. CASE u = Server
    BY <2>1, <2>2 DEF FdOf
  <2>3. CASE u # Server
    <3>1. thread[u].s \in Sessions /\ session[thread[u].s].inUse
      BY <2>1, <2>3, OthersSessions
    <3>2. thread[u].s # thread[t].s
      BY <2>1, <3>1, InHandIs DEF ExclInv, BaseInv
    <3>3. session'[thread[u].s].fd = session[thread[u].s].fd
      BY <1>3, <3>1, <3>2
    <3> QED BY <2>1, <2>3, <3>3 DEF FdOf
  <2> QED BY <2>2, <2>3
<1>4. ASSUME NEW t \in Threads, NEW pc \in {"handle", "reply", "free"}, Goto(t, pc)
      PROVE  thread'[t].pc # "close" /\ \A u \in Threads : u # t => thread'[u] = thread[u]
  <2>1. /\ thread'[t] = [pc |-> pc, fd |-> thread[t].fd, s |-> thread[t].s, for |-> thread[t].for]
        /\ \A u \in Threads : u # t => thread'[u] = thread[u]
    BY <1>0, <1>4, GotoFacts
  <2> QED BY <2>1
<1>5. ASSUME NEW t \in Threads, Return(t)
      PROVE  thread'[t].pc # "close" /\ \A u \in Threads : u # t => thread'[u] = thread[u]
  BY <1>0, <1>5, ReturnFacts DEF Idle
<1>6. ASSUME NEW c \in Clients, Connect(c) PROVE SilentInv'
  BY <1>2, <1>6 DEF Connect, FdOf
<1>7. ASSUME NEW c \in Clients, HangUp(c) PROVE SilentInv'
  <2>1. \A t \in Threads : /\ thread'[t].pc = thread[t].pc /\ thread'[t].fd = thread[t].fd
                            /\ thread'[t].s = thread[t].s
    BY <1>0, <1>7 DEF HangUp, TypeOK, Forget
  <2>2. session' = session /\ \A f \in Fds : fds'[f] = IF fds[f] = c THEN Gone ELSE fds[f]
    BY <1>7 DEF HangUp
  <2> QED BY <1>2, <2>1, <2>2, RestAssumption DEF FdOf
<1>8. CASE Accept
  <2>1. /\ thread'[Server].pc # "close" /\ \A u \in Threads : u # Server => thread'[u] = thread[u]
        /\ session' = session
    BY <1>0, <1>8 DEF Accept, TypeOK
  <2>2. \A f \in Fds : fds[f] # Free => fds'[f] = fds[f]
    BY <1>8, FreeFdsFacts DEF Accept
  <2> QED BY <1>2, <1>3, <2>1, <2>2
<1>9. CASE AllocateSession
  <2>1. /\ thread'[Server].pc # "close" /\ \A u \in Threads : u # Server => thread'[u] = thread[u]
        /\ fds' = fds
    BY <1>0, <1>9 DEF AllocateSession, TypeOK
  <2>2. \A s \in Sessions : session'[s].fd = session[s].fd \/ ~session[s].inUse
    BY <1>0, <1>9, UsableFacts DEF AllocateSession, TypeOK
  <2>3. \A u \in Threads : thread'[u].pc = "close" => thread[u].pc = "close" /\ FdOf(u)' = FdOf(u)
    BY <1>3, <2>1, <2>2
  <2> QED BY <1>2, <2>1, <2>3
<1>10. CASE ReadRequest
  <2>1. \A s \in Sessions : session'[s].fd = session[s].fd \/ s = thread[Server].s
    BY <1>0, <1>10 DEF ReadRequest, TypeOK
  <2>2. \A u \in Threads : thread'[u].pc = "close" => thread[u].pc = "close" /\ FdOf(u)' = FdOf(u)
    BY <1>3, <1>4, <1>10, <2>1 DEF ReadRequest
  <2> QED BY <1>2, <1>10, <2>2 DEF ReadRequest
<1>11. ASSUME NEW t \in Threads, Return(t), UNCHANGED <<fds, session>> PROVE SilentInv'
  <2>1. \A u \in Threads : thread'[u].pc = "close" => thread[u].pc = "close" /\ FdOf(u)' = FdOf(u)
    BY <1>3, <1>5, <1>11
  <2> QED BY <1>2, <1>11, <2>1
<1>12. CASE Reject
  <2>1. \A u \in Threads : thread'[u].pc = "close" => thread[u].pc = "close" /\ FdOf(u)' = FdOf(u)
    BY <1>3, <1>4, <1>12 DEF Reject
  <2> QED BY <1>2, <1>12, <2>1 DEF Reject
<1>13. ASSUME NEW a \in Apps, TimerExpires(a) PROVE SilentInv'
  BY <1>2, <1>13 DEF TimerExpires, FdOf
<1>14. ASSUME NEW a \in Apps, Receive(a) PROVE SilentInv'
  <2>1. /\ thread'[a].pc # "close" /\ \A u \in Threads : u # a => thread'[u] = thread[u]
        /\ session' = session /\ fds' = fds
    BY <1>0, <1>14 DEF Receive, TypeOK
  <2>2. \A u \in Threads : thread'[u].pc = "close" => thread[u].pc = "close" /\ FdOf(u)' = FdOf(u)
    BY <1>3, <2>1
  <2> QED BY <1>2, <2>1, <2>2
<1>15. ASSUME NEW a \in Apps, OpenReport(a) PROVE SilentInv'
  <2>1. CASE FreeFds = {}
    BY <1>11, <1>15, <2>1 DEF OpenReport
  <2>2. CASE FreeFds # {}
    <3>1. /\ thread'[a].pc # "close" /\ \A u \in Threads : u # a => thread'[u] = thread[u]
          /\ session' = session /\ \A f \in Fds : fds[f] # Free => fds'[f] = fds[f]
      BY <1>0, <1>15, <2>2, FreeFdsFacts DEF OpenReport, TypeOK
    <3>2. \A u \in Threads : thread'[u].pc = "close" => thread[u].pc = "close" /\ FdOf(u)' = FdOf(u)
      BY <1>3, <3>1
    <3> QED BY <1>2, <3>1, <3>2
  <2> QED BY <2>1, <2>2
<1>16. ASSUME NEW a \in Apps, CloseReport(a) PROVE SilentInv'
  <2>1. \A u \in Threads : thread'[u].pc = "close" => thread[u].pc = "close" /\ FdOf(u)' = FdOf(u)
    BY <1>3, <1>5, <1>16 DEF CloseReport
  <2>2. \A f \in Fds : fds'[f] \in {fds[f], Free}
    BY <1>0, <1>16 DEF CloseReport, TypeOK
  <2> QED BY <1>2, <2>1, <2>2, RestAssumption
<1>17. ASSUME NEW t \in Threads, Answer(t) PROVE SilentInv'
  <2>1. /\ \A f \in Fds : fds'[f] = IF f = FdOf(t) /\ fds[f] \in Clients THEN Gone ELSE fds[f]
        /\ session' = session /\ Gone \notin Clients
    BY <1>17, RestAssumption DEF Answer, Delivered
  <2>2. /\ thread'[t].fd = thread[t].fd /\ thread'[t].s = thread[t].s
        /\ \A u \in Threads : u # t => thread'[u] = thread[u]
    <3>1. /\ thread'[t] = [pc |-> "close", fd |-> thread[t].fd, s |-> thread[t].s, for |-> thread[t].for]
          /\ \A u \in Threads : u # t => thread'[u] = thread[u]
      BY <1>0, <1>17, GotoFacts DEF Answer
    <3> QED BY <3>1
  <2>3. \A u \in Threads : FdOf(u)' = FdOf(u)
    BY <2>1, <2>2 DEF FdOf
  <2>4. FdOf(t) \in Fds
    BY <1>17 DEF Answer, ConnInv, Holds, HeldBy, FdOf, Connected
  <2> QED BY <1>1, <2>1, <2>2, <2>3, <2>4 DEF SilentInv
<1>18. ASSUME NEW t \in Threads, CloseConnection(t) PROVE SilentInv'
  <2>1. \A u \in Threads : thread'[u].pc = "close" => thread[u].pc = "close" /\ FdOf(u)' = FdOf(u)
    BY <1>3, <1>4, <1>18 DEF CloseConnection
  <2>2. \A f \in Fds : fds'[f] \in {fds[f], Free}
    BY <1>18 DEF CloseConnection
  <2> QED BY <1>2, <2>1, <2>2, RestAssumption
<1>19. ASSUME NEW t \in Threads, FreeSession(t) PROVE SilentInv'
  <2>1. \A s \in Sessions : session'[s].fd = session[s].fd
    BY <1>0, <1>19 DEF FreeSession, TypeOK
  <2>2. \A u \in Threads : thread'[u].pc = "close" => thread[u].pc = "close" /\ FdOf(u)' = FdOf(u)
    BY <1>3, <1>5, <1>19, <2>1 DEF FreeSession
  <2> QED BY <1>2, <1>19, <2>2 DEF FreeSession
<1>20. CASE ServerThread
  <2>1. ~ReadFails /\ ~ParseFails
    BY DEF ReadFails, ParseFails, AllAnswered
  <2> QED BY <1>8, <1>9, <1>10, <1>11, <1>12, <1>17, <1>18, <1>19, <1>20, <2>1
             DEF ServerThread, Reply, NoSessionLeft, Dispatch
<1>21. ASSUME NEW a \in Apps, TimerExpires(a) \/ AppThread(a) PROVE SilentInv'
  <2>1. ~StatusUnknown(a)
    BY DEF StatusUnknown, AllAnswered
  <2> QED BY <1>11, <1>13, <1>14, <1>15, <1>16, <1>17, <1>18, <1>19, <1>21, <2>1
             DEF AppThread, Reply, EncodeFails
<1>22. CASE UNCHANGED vars
  BY <1>22 DEF vars, SilentInv, FdOf
<1> QED BY <1>6, <1>7, <1>20, <1>21, <1>22 DEF Next

\* A client is dropped only by a close that it has not been answered before.
LEMMA DroppedStep ==
  ASSUME BaseInv, SilentInv, NoSilentClose, [Next]_vars
  PROVE  NoSilentClose'
<1>0. \A c \in Clients : client[c] # "dropped"
  BY DEF NoSilentClose
<1>1. ASSUME client' = client PROVE NoSilentClose'
  BY <1>1 DEF NoSilentClose
<1>2. ASSUME NEW c \in Clients, Connect(c) \/ HangUp(c) PROVE NoSilentClose'
  BY <1>0, <1>2 DEF NoSilentClose, Connect, HangUp, BaseInv, TypeOK
<1>3. ASSUME NEW t \in Threads, Reply(t) PROVE NoSilentClose'
  <2>1. CASE Answer(t)
    BY <1>0, <2>1 DEF NoSilentClose, Answer, Delivered
  <2>2. CASE CloseConnection(t)
    BY <1>0, <2>2 DEF NoSilentClose, CloseConnection, SilentInv
  <2>3. CASE FreeSession(t)
    BY <1>1, <2>3 DEF FreeSession
  <2> QED BY <1>3, <2>1, <2>2, <2>3 DEF Reply
<1>4. CASE ServerThread
  BY <1>1, <1>3, <1>4, ThreadsAre
     DEF ServerThread, Accept, AllocateSession, NoSessionLeft, ReadFails, ParseFails, ReadRequest,
         Reject, Dispatch
<1>5. ASSUME NEW a \in Apps, TimerExpires(a) \/ AppThread(a) PROVE NoSilentClose'
  BY <1>1, <1>3, <1>5, ThreadsAre
     DEF AppThread, TimerExpires, Receive, StatusUnknown, EncodeFails, OpenReport, CloseReport
<1>6. CASE UNCHANGED vars
  BY <1>1, <1>6 DEF vars
<1> QED BY <1>2, <1>4, <1>5, <1>6 DEF Next

-----------------------------------------------------------------------------
LEMMA HeldInit == Init => HeldInv /\ SilentInv /\ NoSilentClose
  BY ServerApart DEF Init, HeldInv, SilentInv, NoSilentClose, Idle

\* Whoever has a descriptor or a session keeps it, or gives it back.
LEMMA HeldKeeps ==
  ASSUME HeldInv,
         \A f \in Fds : fds'[f] # Free /\ fds[f] = Free => HeldAt(f)',
         \A t \in Threads, f \in Fds : Holds(t) /\ HeldBy(t) = f /\ fds'[f] # Free => HeldAt(f)',
         \A s \in Sessions, a \in Apps, i \in Nat : Carries(a, i, s) =>
            UsedAt(s)' /\ \A f \in Fds : session[s].fd = f => HeldAt(f)',
         \A t \in Threads, s \in Sessions : thread[t].s = s /\ session'[s].inUse => UsedAt(s)',
         \A s \in Sessions : session'[s].inUse /\ ~session[s].inUse => UsedAt(s)'
  PROVE  HeldInv'
<1>1. ASSUME NEW f \in Fds, fds'[f] # Free PROVE HeldAt(f)'
  <2>1. fds[f] # Free => HeldAt(f)
    BY DEF HeldInv
  <2> QED BY <1>1, <2>1 DEF HeldAt
<1>2. ASSUME NEW s \in Sessions, session'[s].inUse PROVE UsedAt(s)'
  <2>1. session[s].inUse => UsedAt(s)
    BY DEF HeldInv
  <2> QED BY <1>2, <2>1 DEF UsedAt
<1> QED BY <1>1, <1>2 DEF HeldInv

\* One thread moves on, with what it has or without.
LEMMA HeldMoves ==
  ASSUME HeldInv, BaseInv, ExclInv, NEW t \in Threads,
         \A u \in Threads : u # t => thread'[u] = thread[u],
         queue' = queue,
         \A f \in Fds : fds'[f] # Free => fds[f] # Free \/ (Holds(t)' /\ HeldBy(t)' = f),
         \A f \in Fds : Holds(t) /\ HeldBy(t) = f /\ fds'[f] # Free => Holds(t)' /\ HeldBy(t)' = f,
         \A s \in Sessions : thread[t].s = s => thread'[t].s = s \/ ~session'[s].inUse,
         \A s \in Sessions : session'[s].fd = session[s].fd \/ ~session[s].inUse
                                \/ (s = thread[t].s /\ t = Server),
         \A s \in Sessions : session'[s].inUse => session[s].inUse \/ thread'[t].s = s
  PROVE  HeldInv'
<1> USE ServerApart, ThreadsAre
<1>1. \A s \in Sessions, a \in Apps, i \in Nat : Carries(a, i, s) =>
        Carries(a, i, s)' /\ session'[s].fd = session[s].fd
  BY OthersSessions DEF Carries
<1>2. \A u \in Threads : u # t /\ Holds(u) => Holds(u)' /\ HeldBy(u)' = HeldBy(u)
  <2> SUFFICES ASSUME NEW u \in Threads, u # t, Holds(u) PROVE Holds(u)' /\ HeldBy(u)' = HeldBy(u)
    OBVIOUS
  <2>1. thread'[u] = thread[u]
    OBVIOUS
  <2>2. CASE u = Server \/ thread[u].pc = "report"
    BY <2>1, <2>2 DEF Holds, HeldBy
  <2>3. CASE u \in Apps /\ thread[u].pc \in {"reply", "close"}
    <3>1. thread[u].s \in Sessions /\ session[thread[u].s].inUse /\ thread[u].s # thread[Server].s
      BY <2>3, OthersSessions
    <3>2. session'[thread[u].s].fd = session[thread[u].s].fd
      BY <3>1
    <3> QED BY <2>1, <2>3, <3>2 DEF Holds, HeldBy
  <2> QED BY <2>2, <2>3 DEF Holds
<1> QED BY <1>1, <1>2, HeldKeeps DEF HeldAt, UsedAt

\* The connection and its session go from the server to a message.
LEMMA HeldDispatch ==
  ASSUME BaseInv, ConnInv, HeldInv, NEW a \in Apps, Dispatch(a)
  PROVE  HeldInv'
<1> USE ServerApart, ThreadsAre
<1>0. TypeOK
  BY DEF BaseInv
<1> DEFINE m == [s |-> thread[Server].s, for |-> thread[Server].for]
<1>1. /\ thread[Server].s \in Sessions /\ thread[Server].pc = "handle"
      /\ session[thread[Server].s].fd = thread[Server].fd
  BY DEF Dispatch, WithSession, BaseInv, PlacesInv, ConnInv
<1>2. m \in Message
  BY <1>0, <1>1 DEF Message, TypeOK
<1>3. Len(queue[a]) < QueueSize /\ queue' = [queue EXCEPT ![a] = Append(@, m)]
  BY DEF Dispatch
<1>4. m.s = thread[Server].s
  OBVIOUS
<1> HIDE DEF m
<1>5. /\ \A b \in Apps : \A j \in DOMAIN queue[b] :
           j \in DOMAIN queue'[b] /\ queue'[b][j] = queue[b][j]
      /\ Len(queue[a]) + 1 \in DOMAIN queue'[a] /\ queue'[a][Len(queue[a]) + 1] = m
  BY <1>2, <1>3, AppendedFacts
<1>6. Len(queue[a]) + 1 \in Nat
  BY <1>0 DEF TypeOK
<1>7. \E k \in Nat : k \in DOMAIN queue'[a] /\ queue'[a][k].s = thread[Server].s
  BY <1>4, <1>5, <1>6
<1>8. \A r \in Sessions : r = thread[Server].s => \E k \in Nat : Carries(a, k, r)'
  BY <1>7 DEF Carries
<1>9. /\ session' = session /\ fds' = fds
      /\ \A t \in Threads : t # Server => thread'[t] = thread[t]
  BY <1>0, ReturnFacts DEF Dispatch
<1>10. \A f \in Fds : Holds(Server) /\ HeldBy(Server) = f => HeldAt(f)'
  <2>1. \A f \in Fds : HeldBy(Server) = f => session'[thread[Server].s].fd = f
    BY <1>1, <1>9 DEF HeldBy
  <2> QED BY <1>1, <1>8, <2>1 DEF HeldAt
<1>11. \A t \in Threads, f \in Fds : t # Server /\ Holds(t) /\ HeldBy(t) = f => HeldAt(f)'
  BY <1>9 DEF HeldAt, Holds, HeldBy
<1>12. \A r \in Sessions, b \in Apps, j \in Nat : Carries(b, j, r) =>
         Carries(b, j, r)' /\ session'[r].fd = session[r].fd
  BY <1>5, <1>9 DEF Carries
<1>13. \A t \in Threads, r \in Sessions : thread[t].s = r => UsedAt(r)'
  BY <1>8, <1>9 DEF UsedAt
<1> QED BY <1>9, <1>10, <1>11, <1>12, <1>13, HeldKeeps DEF HeldAt, UsedAt

\* They go from the first message to its application.
LEMMA HeldReceive ==
  ASSUME BaseInv, HeldInv, NEW a \in Apps, Receive(a)
  PROVE  HeldInv'
<1> USE ServerApart, ThreadsAre
<1>0. TypeOK /\ a \in Threads /\ a # Server
  BY DEF BaseInv
<1>1. /\ Head(queue[a]) = queue[a][1] /\ Head(queue[a]) \in Message
      /\ \A b \in Apps : b # a => queue'[b] = queue[b]
      /\ \A j \in DOMAIN queue[a] : j # 1 => j \in Nat /\ j - 1 \in DOMAIN queue'[a] /\ queue'[a][j - 1] = queue[a][j]
  BY TakenFacts DEF Receive
<1>2. /\ thread'[a].s = queue[a][1].s
      /\ thread'[a].pc = IF queue[a][1].s = NoSession THEN "open" ELSE "reply"
      /\ session' = session /\ fds' = fds /\ thread[a].pc = "idle"
      /\ \A t \in Threads : t # a => thread'[t] = thread[t]
  BY <1>0, <1>1 DEF Receive, TypeOK
<1>3. thread[a].s \notin Sessions /\ ~Holds(a)
  BY <1>0, <1>2 DEF BaseInv, PlacesInv, WithSession, Holds
<1>4. \A t \in Threads, f \in Fds : Holds(t) /\ HeldBy(t) = f => HeldAt(f)'
  BY <1>2, <1>3 DEF HeldAt, Holds, HeldBy
<1>5. ASSUME NEW s \in Sessions, NEW b \in Apps, NEW i \in Nat, Carries(b, i, s)
      PROVE  UsedAt(s)' /\ \A f \in Fds : session[s].fd = f => HeldAt(f)'
  <2>1. CASE b # a \/ i # 1
    <3>1. \E k \in Nat : k \in DOMAIN queue'[b] /\ queue'[b][k] = queue[b][i]
      <4>1. CASE b # a
        BY <1>1, <1>5, <4>1 DEF Carries
      <4>2. CASE b = a
        <5>1. i \in DOMAIN queue[a] /\ i # 1
          BY <1>5, <2>1, <4>2 DEF Carries
        <5>2. i - 1 \in DOMAIN queue'[a] /\ queue'[a][i - 1] = queue[a][i]
          BY <1>1, <5>1
        <5>3. queue[a] \in Seq(Message)
          BY <1>0 DEF TypeOK
        <5>4. i - 1 \in Nat
          BY <5>1, <5>3
        <5> QED BY <4>2, <5>2, <5>4
      <4> QED BY <4>1, <4>2
    <3>2. \E k \in Nat : Carries(b, k, s)'
      BY <1>5, <3>1 DEF Carries
    <3> QED BY <1>2, <3>2 DEF UsedAt, HeldAt
  <2>2. CASE b = a /\ i = 1
    <3>1. thread'[a].s = s /\ thread'[a].pc = "reply"
      BY <1>2, <1>5, <2>2, Numbers DEF Carries
    <3>2. Holds(a)' /\ \A f \in Fds : session[s].fd = f => HeldBy(a)' = f
      BY <1>0, <1>2, <3>1 DEF Holds, HeldBy
    <3> QED BY <1>0, <3>1, <3>2 DEF UsedAt, HeldAt
  <2> QED BY <2>1, <2>2
<1>6. \A t \in Threads, s \in Sessions : thread[t].s = s => UsedAt(s)'
  BY <1>2, <1>3 DEF UsedAt
<1> QED BY <1>2, <1>4, <1>5, <1>6, HeldKeeps

\* The failures that leave a connection open do not happen.
NothingLeft == "encode" \notin Cases

LEMMA HeldStep ==
  ASSUME NothingLeft, BaseInv, ExclInv, ConnInv, HeldInv, [Next]_vars,
         thread[Server].pc = "allocate" => UsableSessions # {}
  PROVE  HeldInv'
<1> USE ServerApart, ThreadsAre
<1>0. TypeOK
  BY DEF BaseInv
<1>1. ASSUME UNCHANGED <<session, thread>>,
             \A s \in Sessions, a \in Apps, i \in Nat : Carries(a, i, s) => Carries(a, i, s)',
             \A f \in Fds : fds'[f] # Free => fds[f] # Free
      PROVE  HeldInv'
  BY <1>1, HeldKeeps DEF HeldAt, UsedAt, Holds, HeldBy
<1>2. ASSUME NEW t \in Threads, NEW pc \in {"handle", "reply", "close", "free"}, Goto(t, pc)
      PROVE  /\ thread'[t].pc = pc /\ thread'[t].fd = thread[t].fd /\ thread'[t].s = thread[t].s
             /\ \A u \in Threads : u # t => thread'[u] = thread[u]
  <2>1. /\ thread'[t] = [pc |-> pc, fd |-> thread[t].fd, s |-> thread[t].s, for |-> thread[t].for]
        /\ \A u \in Threads : u # t => thread'[u] = thread[u]
    BY <1>0, <1>2, GotoFacts
  <2> QED BY <2>1
<1>3. ASSUME NEW c \in Clients, Connect(c) PROVE HeldInv'
  BY <1>1, <1>3 DEF Connect, Carries
<1>4. ASSUME NEW c \in Clients, HangUp(c) PROVE HeldInv'
  <2>1. \A t \in Threads : /\ thread'[t].pc = thread[t].pc /\ thread'[t].fd = thread[t].fd
                            /\ thread'[t].s = thread[t].s
    BY <1>0, <1>4 DEF HangUp, TypeOK, Forget
  <2>2. session' = session /\ \A f \in Fds : fds'[f] # Free => fds[f] # Free
    BY <1>4, RestAssumption DEF HangUp
  <2>3. \A s \in Sessions, a \in Apps, i \in Nat : Carries(a, i, s) => Carries(a, i, s)'
    <3> SUFFICES ASSUME NEW s \in Sessions, NEW a \in Apps, NEW i \in Nat, Carries(a, i, s)
                 PROVE  Carries(a, i, s)'
      OBVIOUS
    <3>1. queue'[a] = [j \in DOMAIN queue[a] |-> Forget(c, queue[a][j])]
      BY <1>4 DEF HangUp
    <3>2. queue[a][i] \in Message /\ i \in DOMAIN queue[a]
      BY <1>0, MessageIn DEF Carries
    <3>3. queue'[a][i].s = queue[a][i].s
      BY <3>1, <3>2 DEF Forget, Message
    <3> QED BY <3>1, <3>2, <3>3 DEF Carries
  <2> QED BY <2>1, <2>2, <2>3, HeldKeeps DEF HeldAt, UsedAt, Holds, HeldBy
<1>5. CASE Accept
  <2> DEFINE f == LeastOf(FreeFds)
  <2>1. f \in Fds /\ fds[f] = Free
    BY <1>5, FreeFdsFacts DEF Accept
  <2>2. /\ thread'[Server].pc = "allocate" /\ thread'[Server].fd = f /\ thread[Server].pc = "idle"
        /\ \A u \in Threads : u # Server => thread'[u] = thread[u]
        /\ \A g \in Fds : g # f => fds'[g] = fds[g]
        /\ session' = session /\ queue' = queue
    BY <1>0, <1>5, <2>1 DEF Accept, TypeOK
  <2> HIDE DEF f
  <2>3. Holds(Server)' /\ HeldBy(Server)' = f /\ ~Holds(Server)
    BY <2>2 DEF Holds, HeldBy, Connected
  <2>4. thread[Server].s \notin Sessions
    BY <2>2 DEF BaseInv, PlacesInv, WithSession
  <2> QED BY <2>2, <2>3, <2>4, HeldMoves
<1>6. CASE AllocateSession
  <2> DEFINE s == LeastOf(UsableSessions)
  <2>1. s \in Sessions /\ ~session[s].inUse
    BY <1>6, UsableFacts DEF AllocateSession
  <2>2. /\ thread'[Server].pc = "read" /\ thread'[Server].fd = thread[Server].fd
        /\ thread'[Server].s = s /\ thread[Server].pc = "allocate"
        /\ \A u \in Threads : u # Server => thread'[u] = thread[u]
        /\ \A r \in Sessions : session'[r] = IF r = s THEN [inUse |-> FALSE, fd |-> NoFd] ELSE session[r]
        /\ fds' = fds /\ queue' = queue
    BY <1>0, <1>6, <2>1 DEF AllocateSession, TypeOK
  <2> HIDE DEF s
  <2>3. \A g \in Fds : HeldBy(Server) = g => Holds(Server)' /\ HeldBy(Server)' = g
    BY <2>2 DEF Holds, HeldBy, Connected
  <2>4. thread[Server].s \notin Sessions
    BY <2>2 DEF BaseInv, PlacesInv, WithSession
  <2>5. \A r \in Sessions : /\ session'[r].fd = session[r].fd \/ ~session[r].inUse
                            /\ session'[r].inUse => session[r].inUse
    BY <2>1, <2>2
  <2> QED BY <2>2, <2>3, <2>4, <2>5, HeldMoves
<1>7. ~NoSessionLeft /\ ~\E a \in Apps : EncodeFails(a)
  BY DEF NoSessionLeft, EncodeFails, NothingLeft
\* The server goes on with its connection and its session.
<1>8. ASSUME NEW pc \in {"handle", "reply", "close"}, Goto(Server, pc), UNCHANGED <<fds, queue>>,
             thread[Server].pc \in {"read", "handle"},
             \A s \in Sessions : session'[s] = session[s] \/ s = thread[Server].s
      PROVE  HeldInv'
  <2>1. /\ thread'[Server].pc = pc /\ thread'[Server].fd = thread[Server].fd
        /\ thread'[Server].s = thread[Server].s
        /\ \A u \in Threads : u # Server => thread'[u] = thread[u]
    BY <1>2, <1>8
  <2>2. \A g \in Fds : HeldBy(Server) = g => Holds(Server)' /\ HeldBy(Server)' = g
    BY <1>8, <2>1 DEF Holds, HeldBy, Connected
  <2> QED BY <1>8, <2>1, <2>2, HeldMoves
<1>9. CASE ReadFails
  BY <1>8, <1>9 DEF ReadFails
<1>10. ASSUME NEW b \in BOOLEAN,
             session' = [session EXCEPT ![thread[Server].s] = [inUse |-> b, fd |-> thread[Server].fd]]
      PROVE  \A s \in Sessions : session'[s] = session[s] \/ s = thread[Server].s
  BY <1>0, <1>10 DEF TypeOK
<1>11. CASE ParseFails
  BY <1>8, <1>10, <1>11 DEF ParseFails
<1>12. CASE ReadRequest
  BY <1>8, <1>10, <1>12 DEF ReadRequest
<1>13. CASE Reject
  BY <1>8, <1>13 DEF Reject
<1>14. ASSUME NEW a \in Apps, TimerExpires(a) PROVE HeldInv'
  <2> DEFINE m == [s |-> NoSession, for |-> Report]
  <2>1. m \in Message
    BY DEF Message
  <2>2. \A b \in Apps : \A j \in DOMAIN queue[b] :
              j \in DOMAIN queue'[b] /\ queue'[b][j] = queue[b][j]
    BY <1>14, <2>1, AppendedFacts DEF TimerExpires
  <2> QED BY <1>1, <1>14, <2>2 DEF TimerExpires, Carries
<1>15. ASSUME NEW a \in Apps, StatusUnknown(a) PROVE HeldInv'
  <2>1. /\ thread'[a].pc = "close" /\ thread'[a].s = thread[a].s /\ thread[a].pc = "reply"
        /\ \A u \in Threads : u # a => thread'[u] = thread[u]
        /\ UNCHANGED <<fds, session, queue>>
    BY <1>2, <1>15 DEF StatusUnknown
  <2>2. \A g \in Fds : HeldBy(a) = g => Holds(a)' /\ HeldBy(a)' = g
    BY <2>1 DEF Holds, HeldBy
  <2> QED BY <2>1, <2>2, HeldMoves
<1>16. ASSUME NEW a \in Apps, OpenReport(a) PROVE HeldInv'
  <2>0. thread[a].s \notin Sessions /\ ~Holds(a) /\ UNCHANGED <<session, queue>>
    BY <1>16 DEF OpenReport, BaseInv, PlacesInv, WithSession, Holds
  <2>1. CASE FreeFds = {}
    <3>1. fds' = fds /\ \A u \in Threads : u # a => thread'[u] = thread[u]
      BY <1>0, <1>16, <2>1, ReturnFacts DEF OpenReport
    <3> QED BY <2>0, <3>1, HeldMoves
  <2>2. CASE FreeFds # {}
    <3> DEFINE f == LeastOf(FreeFds)
    <3>1. f \in Fds /\ fds[f] = Free
      BY <2>2, FreeFdsFacts
    <3>2. /\ thread'[a].pc = "report" /\ thread'[a].fd = f
          /\ \A u \in Threads : u # a => thread'[u] = thread[u]
          /\ \A g \in Fds : g # f => fds'[g] = fds[g]
      BY <1>0, <1>16, <2>2, <3>1 DEF OpenReport, TypeOK
    <3> HIDE DEF f
    <3>3. Holds(a)' /\ HeldBy(a)' = f
      BY <3>2 DEF Holds, HeldBy
    <3> QED BY <2>0, <3>2, <3>3, HeldMoves
  <2> QED BY <2>1, <2>2
<1>17. ASSUME NEW a \in Apps, CloseReport(a) PROVE HeldInv'
  <2>1. thread[a].s \notin Sessions /\ UNCHANGED <<session, queue>> /\ thread[a].pc = "report"
    BY <1>17 DEF CloseReport, BaseInv, PlacesInv, WithSession
  <2>2. \A u \in Threads : u # a => thread'[u] = thread[u]
    BY <1>0, <1>17, ReturnFacts DEF CloseReport
  <2>3. \A f \in Fds : fds'[f] = IF f = thread[a].fd THEN Free ELSE fds[f]
    BY <1>0, <1>17 DEF CloseReport, TypeOK
  <2>4. \A f \in Fds : HeldBy(a) = f => fds'[f] = Free
    BY <2>1, <2>3 DEF HeldBy
  <2> QED BY <2>1, <2>2, <2>3, <2>4, HeldMoves
<1>18. ASSUME NEW t \in Threads, Answer(t) PROVE HeldInv'
  <2>1. /\ thread'[t].pc = "close" /\ thread'[t].s = thread[t].s /\ thread[t].pc = "reply"
        /\ thread'[t].fd = thread[t].fd
        /\ \A u \in Threads : u # t => thread'[u] = thread[u]
        /\ UNCHANGED <<session, queue>>
    BY <1>2, <1>18 DEF Answer
  <2>2. \A g \in Fds : HeldBy(t) = g => Holds(t)' /\ HeldBy(t)' = g
    BY <2>1 DEF Holds, HeldBy, Connected
  <2>3. \A f \in Fds : fds'[f] = IF f = FdOf(t) /\ fds[f] \in Clients THEN Gone ELSE fds[f]
    BY <1>18 DEF Answer, Delivered
  <2>4. \A f \in Fds : fds'[f] # Free => fds[f] # Free
    BY <2>3, RestAssumption
  <2> QED BY <2>1, <2>2, <2>4, HeldMoves
<1>19. ASSUME NEW t \in Threads, CloseConnection(t) PROVE HeldInv'
  <2>1. /\ thread'[t].s = thread[t].s /\ thread[t].pc = "close"
        /\ \A u \in Threads : u # t => thread'[u] = thread[u]
        /\ UNCHANGED <<session, queue>>
    BY <1>2, <1>19 DEF CloseConnection
  <2>2. HeldBy(t) = FdOf(t)
    BY <2>1 DEF HeldBy, FdOf
  <2>3. \A f \in Fds : fds'[f] = IF f = FdOf(t) THEN Free ELSE fds[f]
    BY <1>19 DEF CloseConnection
  <2> QED BY <2>1, <2>2, <2>3, HeldMoves
<1>20. ASSUME NEW t \in Threads, FreeSession(t) PROVE HeldInv'
  <2>1. /\ \A u \in Threads : u # t => thread'[u] = thread[u]
        /\ UNCHANGED <<fds, queue>> /\ thread[t].pc = "free"
    BY <1>0, <1>20, ReturnFacts DEF FreeSession
  <2>2. ~Holds(t)
    BY <2>1 DEF Holds, Connected
  <2>3. \A s \in Sessions : /\ session'[s].fd = session[s].fd
                            /\ session'[s].inUse => session[s].inUse /\ s # thread[t].s
    BY <1>0, <1>20 DEF FreeSession, TypeOK
  <2> QED BY <2>1, <2>2, <2>3, HeldMoves
<1>21. CASE ServerThread
  BY <1>5, <1>6, <1>7, <1>9, <1>11, <1>12, <1>13, <1>18, <1>19, <1>20, <1>21, HeldDispatch
     DEF ServerThread, Reply
<1>22. ASSUME NEW a \in Apps, TimerExpires(a) \/ AppThread(a) PROVE HeldInv'
  BY <1>7, <1>14, <1>15, <1>16, <1>17, <1>18, <1>19, <1>20, <1>22, HeldReceive DEF AppThread, Reply
<1>23. CASE UNCHANGED vars
  BY <1>23 DEF vars, HeldInv, HeldAt, UsedAt, Holds, HeldBy, Carries
<1> QED BY <1>3, <1>4, <1>21, <1>22, <1>23 DEF Next

LEMMA HeldImplies == BaseInv /\ HeldInv => NoOrphans
<1> SUFFICES ASSUME BaseInv, HeldInv, NEW f \in Fds, fds[f] # Free
             PROVE  \/ thread[Server].pc \notin {"idle", "free"} /\ thread[Server].fd = f
                    \/ \E a \in Apps :
                         \/ thread[a].pc = "report" /\ thread[a].fd = f
                         \/ thread[a].pc \in {"reply", "close"} /\ session[thread[a].s].fd = f
                         \/ \E i \in 1 .. QueueSize : Waits(a, i) /\ session[queue[a][i].s].fd = f
  BY DEF NoOrphans
<1> USE ServerApart, ThreadsAre
<1>1. HeldAt(f)
  BY DEF HeldInv
<1>2. ASSUME NEW t \in Threads, Holds(t), HeldBy(t) = f
      PROVE  \/ thread[Server].pc \notin {"idle", "free"} /\ thread[Server].fd = f
             \/ \E a \in Apps :
                         \/ thread[a].pc = "report" /\ thread[a].fd = f
                         \/ thread[a].pc \in {"reply", "close"} /\ session[thread[a].s].fd = f
  BY <1>2 DEF Holds, HeldBy, Connected
<1>3. ASSUME NEW s \in Sessions, NEW a \in Apps, NEW i \in Nat, Carries(a, i, s), session[s].fd = f
      PROVE  \E j \in 1 .. QueueSize : Waits(a, j) /\ session[queue[a][j].s].fd = f
  <2>1. queue[a] \in Seq(Message) /\ Len(queue[a]) <= QueueSize /\ i \in DOMAIN queue[a]
    BY <1>3 DEF BaseInv, TypeOK, QueuesInv, Carries
  <2>2. i \in 1 .. QueueSize
    BY <2>1, Numbers
  <2>3. Waits(a, i)
    BY <1>3, <2>1, Numbers DEF Waits, Carries
  <2> QED BY <1>3, <2>2, <2>3 DEF Carries
<1> QED BY <1>1, <1>2, <1>3 DEF HeldAt

-----------------------------------------------------------------------------
(* When there are sessions enough.  Either the applications and their       *)
(* queues hold fewer than there are; or every client waits for its answer,  *)
(* and there is a session for each client and for each application.         *)

Roomy == Cardinality(Apps) * (QueueSize + 1) < MaxSessions

Patient == /\ "hangup" \notin Cases
           /\ IsFiniteSet(Clients)
           /\ Cardinality(Apps) + Cardinality(Clients) <= MaxSessions

EnoughSessions == IsFiniteSet(Apps) /\ (Roomy \/ Patient)

\* Nobody who has asked is gone.
HereInv ==
  /\ \A i \in DOMAIN backlog : backlog[i] \in Clients
  /\ thread[Server].pc \in {"allocate", "read", "handle"} => thread[Server].for \in Clients
  /\ \A s \in Sessions, a \in Apps, i \in Nat : Carries(a, i, s) => queue[a][i].for \in Clients

LEMMA HereInit == Init => HereInv
  BY ServerApart DEF Init, HereInv, Idle, Carries

LEMMA HereStep ==
  ASSUME "hangup" \notin Cases, BaseInv, HereInv, [Next]_vars
  PROVE  HereInv'
<1> USE ServerApart, ThreadsAre
<1>0. TypeOK
  BY DEF BaseInv
<1>1. ASSUME thread'[Server].pc \in {"allocate", "read", "handle"} =>
                thread[Server].pc \in {"allocate", "read", "handle"} /\ thread'[Server].for = thread[Server].for,
             UNCHANGED <<backlog, queue>>
      PROVE  HereInv'
  BY <1>1 DEF HereInv, Carries
<1>2. ASSUME NEW t \in Threads, Return(t), UNCHANGED <<backlog, queue>> PROVE HereInv'
  BY <1>0, <1>1, <1>2, ReturnFacts DEF Idle
<1>3. ASSUME NEW t \in Threads, NEW pc \in {"handle", "reply", "close", "free"}, Goto(t, pc),
             t = Server => thread[t].pc \in {"read", "handle"} \/ pc # "handle",
             t # Server => pc # "handle", UNCHANGED <<backlog, queue>>
      PROVE  HereInv'
  <2>1. /\ thread'[t].pc = pc /\ thread'[t].for = thread[t].for
        /\ \A u \in Threads : u # t => thread'[u] = thread[u]
    <3>1. /\ thread'[t] = [pc |-> pc, fd |-> thread[t].fd, s |-> thread[t].s, for |-> thread[t].for]
          /\ \A u \in Threads : u # t => thread'[u] = thread[u]
      BY <1>0, <1>3, GotoFacts
    <3> QED BY <3>1
  <2> QED BY <1>1, <1>3, <2>1
<1>4. ASSUME NEW c \in Clients, Connect(c) \/ HangUp(c) PROVE HereInv'
  <2>1. backlog' = Append(backlog, c) /\ UNCHANGED <<thread, queue>>
    BY <1>4 DEF Connect, HangUp
  <2>2. backlog \in Seq(Clients \cup {Gone})
    BY <1>0 DEF TypeOK
  <2>3. \A i \in DOMAIN backlog' : backlog'[i] \in Clients
    BY <2>1, <2>2 DEF HereInv
  <2> QED BY <2>1, <2>3 DEF HereInv, Carries
<1>5. CASE Accept
  <2>1. backlog \in Seq(Clients \cup {Gone}) /\ backlog # << >> /\ backlog' = Tail(backlog)
    BY <1>0, <1>5 DEF Accept, TypeOK
  <2>2. /\ \A i \in DOMAIN backlog' : i + 1 \in DOMAIN backlog /\ backlog'[i] = backlog[i + 1]
        /\ Head(backlog) = backlog[1] /\ 1 \in DOMAIN backlog
    BY <2>1
  <2>3. thread'[Server].for = backlog[1] /\ queue' = queue
    BY <1>0, <1>5, <2>2 DEF Accept, TypeOK
  <2> QED BY <2>2, <2>3 DEF HereInv, Carries
<1>6. CASE AllocateSession
  <2>1. thread'[Server].for = thread[Server].for /\ thread[Server].pc = "allocate"
    BY <1>0, <1>6 DEF AllocateSession, TypeOK
  <2> QED BY <1>1, <1>6, <2>1 DEF AllocateSession
<1>7. ASSUME NEW a \in Apps, Dispatch(a) PROVE HereInv'
  <2> DEFINE m == [s |-> thread[Server].s, for |-> thread[Server].for]
  <2>1. thread[Server].for \in Clients
    BY <1>7 DEF Dispatch, HereInv
  <2>2. m \in Message /\ m.for \in Clients
    BY <1>0, <2>1 DEF Message, TypeOK
  <2>3. Len(queue[a]) < QueueSize /\ queue' = [queue EXCEPT ![a] = Append(@, m)]
    BY <1>7 DEF Dispatch
  <2> HIDE DEF m
  <2>4. \A b \in Apps : \A j \in DOMAIN queue'[b] :
              \/ j \in DOMAIN queue[b] /\ queue'[b][j] = queue[b][j]
              \/ queue'[b][j] = m
    BY <2>2, <2>3, AppendedFacts
  <2>5. backlog' = backlog /\ thread'[Server].pc = "idle"
    BY <1>0, <1>7, ReturnFacts DEF Dispatch, Idle
  <2> QED BY <2>2, <2>4, <2>5 DEF HereInv, Carries
<1>8. ASSUME NEW a \in Apps, TimerExpires(a) PROVE HereInv'
  <2> DEFINE m == [s |-> NoSession, for |-> Report]
  <2>1. m \in Message /\ m.s \notin Sessions
    BY Numbers DEF Message
  <2>2. Len(queue[a]) < QueueSize /\ queue' = [queue EXCEPT ![a] = Append(@, m)] /\ UNCHANGED <<backlog, thread>>
    BY <1>8 DEF TimerExpires
  <2> HIDE DEF m
  <2>3. \A b \in Apps : \A j \in DOMAIN queue'[b] :
              \/ j \in DOMAIN queue[b] /\ queue'[b][j] = queue[b][j]
              \/ queue'[b][j] = m
    BY <2>1, <2>2, AppendedFacts
  <2> QED BY <2>1, <2>2, <2>3 DEF HereInv, Carries
<1>9. ASSUME NEW a \in Apps, Receive(a) PROVE HereInv'
  <2>1. /\ \A b \in Apps : b # a => queue'[b] = queue[b]
        /\ \A j \in DOMAIN queue'[a] : j \in Nat /\ j + 1 \in DOMAIN queue[a] /\ queue'[a][j] = queue[a][j + 1]
    BY <1>9, TakenFacts DEF Receive
  <2>2. thread'[Server] = thread[Server] /\ backlog' = backlog
    BY <1>9 DEF Receive, BaseInv, TypeOK
  <2>3. \A s \in Sessions, b \in Apps, j \in Nat : Carries(b, j, s)' =>
          \E k \in Nat : Carries(b, k, s) /\ queue'[b][j] = queue[b][k]
    BY <2>1 DEF Carries
  <2> QED BY <2>2, <2>3 DEF HereInv
<1>10. ASSUME NEW a \in Apps, OpenReport(a) PROVE HereInv'
  <2>1. thread'[Server] = thread[Server] /\ UNCHANGED <<backlog, queue>>
    BY <1>0, <1>10, ReturnFacts DEF OpenReport, TypeOK
  <2> QED BY <1>1, <2>1
<1>11. CASE ServerThread
  BY <1>2, <1>3, <1>5, <1>6, <1>7, <1>11
     DEF ServerThread, Reply, NoSessionLeft, ReadFails, ParseFails, ReadRequest, Reject, Answer,
         CloseConnection, FreeSession
<1>12. ASSUME NEW a \in Apps, TimerExpires(a) \/ AppThread(a) PROVE HereInv'
  BY <1>2, <1>3, <1>8, <1>9, <1>10, <1>12
     DEF AppThread, Reply, StatusUnknown, EncodeFails, CloseReport, Answer, CloseConnection, FreeSession
<1>13. CASE UNCHANGED vars
  BY <1>13 DEF vars, HereInv, Carries
<1> QED BY <1>4, <1>11, <1>12, <1>13 DEF Next

LEMMA SessionsAre == IsFiniteSet(Sessions) /\ Cardinality(Sessions) = MaxSessions
<1>1. MaxSessions \in Nat /\ MaxSessions >= 1
  BY RestAssumption
<1>2. IsFiniteSet(1 .. MaxSessions) /\ Cardinality(1 .. MaxSessions) = IF 1 > MaxSessions THEN 0 ELSE MaxSessions - 1 + 1
  BY <1>1, FS_Interval
<1> QED BY <1>1, <1>2 DEF Sessions

\* The server that looks for a session has none itself.
LEMMA WhoUses ==
  ASSUME BaseInv, HeldInv, thread[Server].pc = "allocate", UsableSessions = {}
  PROVE  \A s \in Sessions : \/ \E a \in Apps : thread[a].s = s
                             \/ \E a \in Apps, i \in Nat : Carries(a, i, s)
<1>1. \A s \in Sessions : session[s].inUse
  BY DEF UsableSessions, BaseInv, TypeOK
<1>2. thread[Server].s \notin Sessions
  BY ThreadsAre DEF BaseInv, PlacesInv, WithSession
<1> QED BY <1>1, <1>2, ThreadsAre DEF HeldInv, UsedAt

\* Each session in use is at an application, or at a place in its queue.
LEMMA RoomyLeaves ==
  ASSUME IsFiniteSet(Apps), Roomy, BaseInv, HeldInv, thread[Server].pc = "allocate"
  PROVE  UsableSessions # {}
<1> SUFFICES ASSUME UsableSessions = {} PROVE FALSE
  OBVIOUS
<1> DEFINE At(a, i, s) == IF i = 0 THEN thread[a].s = s ELSE Carries(a, i, s)
<1> DEFINE Spots == Apps \X (0 .. QueueSize)
<1> DEFINE at == [s \in Sessions |-> CHOOSE p \in Spots : At(p[1], p[2], s)]
<1>1. \A s \in Sessions : \E p \in Spots : At(p[1], p[2], s)
  <2> TAKE s \in Sessions
  <2>1. CASE \E a \in Apps : thread[a].s = s
    <3>1. PICK a \in Apps : thread[a].s = s
      BY <2>1
    <3>2. <<a, 0>> \in Spots /\ At(<<a, 0>>[1], <<a, 0>>[2], s)
      BY <3>1, Numbers
    <3> QED BY <3>2
  <2>2. CASE \E a \in Apps, i \in Nat : Carries(a, i, s)
    <3>1. PICK a \in Apps, i \in Nat : Carries(a, i, s)
      BY <2>2
    <3>2. queue[a] \in Seq(Message) /\ Len(queue[a]) <= QueueSize /\ i \in DOMAIN queue[a]
      BY <3>1 DEF BaseInv, TypeOK, QueuesInv, Carries
    <3>3. i \in 0 .. QueueSize /\ i # 0
      BY <3>2, Numbers
    <3>4. <<a, i>> \in Spots /\ At(<<a, i>>[1], <<a, i>>[2], s)
      BY <3>1, <3>3
    <3> QED BY <3>4
  <2> QED BY <2>1, <2>2, WhoUses
<1>2. at \in [Sessions -> Spots]
  BY <1>1
<1>3. \A s \in Sessions : At(at[s][1], at[s][2], s)
  BY <1>1
<1>4. \A r, s \in Sessions : at[r] = at[s] => r = s
  <2>1. \A r, s : \A a, i : At(a, i, r) /\ At(a, i, s) => r = s
    BY DEF Carries
  <2> HIDE DEF At, at
  <2> QED BY <1>3, <2>1
<1>5. IsFiniteSet(0 .. QueueSize) /\ Cardinality(0 .. QueueSize) = QueueSize + 1
  <2>1. /\ IsFiniteSet(0 .. QueueSize)
        /\ Cardinality(0 .. QueueSize) = IF 0 > QueueSize THEN 0 ELSE QueueSize - 0 + 1
    BY Numbers, FS_Interval
  <2> QED BY <2>1, Numbers
<1>6. IsFiniteSet(Spots) /\ Cardinality(Spots) = Cardinality(Apps) * (QueueSize + 1)
  BY <1>5, FS_Product
<1>7. Cardinality(Spots) < Cardinality(Sessions)
  BY <1>6, SessionsAre DEF Roomy
<1> HIDE DEF at, Spots, At
<1> QED BY <1>2, <1>4, <1>6, <1>7, SessionsAre, FS_PigeonHole

\* Each session in use is at an application, or waits for one of the other
\* clients than that of the server.
LEMMA PatientLeaves ==
  ASSUME IsFiniteSet(Apps), Patient, BaseInv, ConnInv, OneInv, HeldInv, HereInv,
         thread[Server].pc = "allocate"
  PROVE  UsableSessions # {}
<1> SUFFICES ASSUME UsableSessions = {} PROVE FALSE
  OBVIOUS
<1> USE ServerApart, ThreadsAre
<1> DEFINE c0 == thread[Server].for
<1> DEFINE Others == Clients \ {c0}
<1> DEFINE Spots == ({0} \X Apps) \cup ({1} \X Others)
<1> DEFINE At(k, x, s) == IF k = 0 THEN thread[x].s = s
                          ELSE \E a \in Apps, i \in Nat : Carries(a, i, s) /\ queue[a][i].for = x
<1> DEFINE at == [s \in Sessions |-> CHOOSE p \in Spots : At(p[1], p[2], s)]
<1>0. c0 \in Clients /\ Holds(Server) /\ HeldBy(Server) \in Fds /\ fds[HeldBy(Server)] = c0
  BY DEF HereInv, ConnInv, Holds, Connected, Peer
<1>1. \A s \in Sessions : \E p \in Spots : At(p[1], p[2], s)
  <2> TAKE s \in Sessions
  <2>1. CASE \E a \in Apps : thread[a].s = s
    <3>1. PICK a \in Apps : thread[a].s = s
      BY <2>1
    <3>2. <<0, a>> \in Spots /\ At(<<0, a>>[1], <<0, a>>[2], s)
      BY <3>1
    <3> QED BY <3>2
  <2>2. CASE \E a \in Apps, i \in Nat : Carries(a, i, s)
    <3>1. PICK a \in Apps, i \in Nat : Carries(a, i, s)
      BY <2>2
    <3> DEFINE c == queue[a][i].for
    <3>2. /\ c \in Clients /\ session[s].fd \in Fds /\ fds[session[s].fd] = c
          /\ HeldBy(Server) # session[s].fd
      BY <1>0, <3>1 DEF HereInv, ConnInv, PeerOf
    <3>3. c # c0
      BY <1>0, <3>2 DEF OneInv
    <3>4. <<1, c>> \in Spots /\ At(<<1, c>>[1], <<1, c>>[2], s)
      BY <3>1, <3>2, <3>3
    <3> QED BY <3>4
  <2> QED BY <2>1, <2>2, WhoUses
<1>2. at \in [Sessions -> Spots]
  BY <1>1
<1>3. \A s \in Sessions : at[s] \in Spots /\ At(at[s][1], at[s][2], s)
  BY <1>1, ZenonT(60)
<1>4. \A r, s \in Sessions : at[r] = at[s] => r = s
  <2>1. \A r, s \in Sessions : \A k, x : At(k, x, r) /\ At(k, x, s) => r = s
    <3> SUFFICES ASSUME NEW r \in Sessions, NEW s \in Sessions, NEW k, NEW x, At(k, x, r), At(k, x, s)
                 PROVE  r = s
      BY ZenonT(60)
    <3>1. CASE k = 0
      BY <3>1
    <3>2. CASE k # 0
      <4>1. PICK a \in Apps, i \in Nat : Carries(a, i, r) /\ queue[a][i].for = x
        BY <3>2
      <4>2. PICK b \in Apps, j \in Nat : Carries(b, j, s) /\ queue[b][j].for = x
        BY <3>2
      <4>3. /\ x \in Clients /\ session[r].fd \in Fds /\ session[s].fd \in Fds
            /\ fds[session[r].fd] = x /\ fds[session[s].fd] = x
        BY <4>1, <4>2 DEF HereInv, ConnInv, PeerOf
      <4>4. session[r].fd = session[s].fd
        BY <4>3 DEF OneInv
      <4> QED BY <4>1, <4>2, <4>4 DEF ConnInv
    <3> QED BY <3>1, <3>2
  <2> HIDE DEF At, at
  <2> QED BY <1>3, <2>1
<1>5. /\ IsFiniteSet({0} \X Apps) /\ Cardinality({0} \X Apps) = 1 * Cardinality(Apps)
  <2>1. IsFiniteSet({0}) /\ Cardinality({0}) = 1
    BY FS_Singleton
  <2> QED BY <2>1, FS_Product
<1>6. IsFiniteSet(Others) /\ Cardinality(Others) = Cardinality(Clients) - 1
  BY <1>0, FS_RemoveElement DEF Patient
<1>7. /\ IsFiniteSet({1} \X Others) /\ Cardinality({1} \X Others) = 1 * Cardinality(Others)
  <2>1. IsFiniteSet({1}) /\ Cardinality({1}) = 1
    BY FS_Singleton
  <2> QED BY <1>6, <2>1, FS_Product
<1>8. /\ Cardinality(Apps) \in Nat /\ Cardinality(Clients) \in Nat
      /\ Cardinality(({0} \X Apps) \cap ({1} \X Others)) \in Nat
  BY <1>5, FS_CardinalityType, FS_Intersection DEF Patient
<1>9. /\ IsFiniteSet(Spots)
      /\ Cardinality(Spots) = Cardinality({0} \X Apps) + Cardinality({1} \X Others)
                                 - Cardinality(({0} \X Apps) \cap ({1} \X Others))
  BY <1>5, <1>7, FS_Union
<1>10. Cardinality(Spots) < Cardinality(Sessions)
  <2> HIDE DEF Spots, Others
  <2> QED BY <1>5, <1>6, <1>7, <1>8, <1>9, SessionsAre, Numbers DEF Patient
<1> HIDE DEF at, Spots, At
<1> QED BY <1>2, <1>4, <1>9, <1>10, SessionsAre, FS_PigeonHole

(***************************************************************************)
(* No client that sends a request the agent can read is dropped: the code  *)
(* answers before it closes.  (The other failures close without an answer.) *)
(***************************************************************************)
THEOREM AnsweredFirst ==
  ASSUME AllAnswered PROVE Spec => []NoSilentClose
<1> DEFINE Inv == BaseInv /\ ExclInv /\ ConnInv /\ SilentInv /\ NoSilentClose
<1>1. Init => Inv
  BY BaseInit, ExclInit, ConnInit, HeldInit
<1>2. Inv /\ [Next]_vars => Inv'
  <2> SUFFICES ASSUME Inv, [Next]_vars PROVE Inv'
    OBVIOUS
  <2>1. BaseInv' /\ ExclInv' /\ ConnInv'
    BY BaseStep, ExclStep, ConnStep
  <2>2. SilentInv'
    BY <2>1, SilentStep
  <2>3. NoSilentClose'
    BY DroppedStep
  <2> QED BY <2>1, <2>2, <2>3
<1>3. Inv => NoSilentClose
  OBVIOUS
<1> HIDE DEF Inv
<1> QED BY <1>1, <1>2, <1>3, PTL DEF Spec

(***************************************************************************)
(* And no connection is left open that nobody will close, while there are  *)
(* sessions enough: as for one client at a time, with the four             *)
(* applications and five sessions of the program.                          *)
(***************************************************************************)
THEOREM ConnectionsAreKept ==
  ASSUME AllAnswered, NothingLeft, EnoughSessions
  PROVE  Spec => []ConnectionsKept
<1> DEFINE Here == "hangup" \notin Cases => HereInv
<1> DEFINE Inv == BaseInv /\ ExclInv /\ ConnInv /\ OneInv /\ HeldInv /\ Here
<1>1. Init => Inv
  BY BaseInit, ExclInit, ConnInit, OneInit, HeldInit, HereInit
<1>2. Inv /\ [Next]_vars => Inv'
  <2> SUFFICES ASSUME Inv, [Next]_vars PROVE Inv'
    OBVIOUS
  <2>1. BaseInv' /\ ExclInv' /\ ConnInv' /\ OneInv'
    BY BaseStep, ExclStep, ConnStep, OneStep
  <2>2. Here'
    BY HereStep
  <2>3. thread[Server].pc = "allocate" => UsableSessions # {}
    BY RoomyLeaves, PatientLeaves DEF EnoughSessions, Patient
  <2>4. HeldInv'
    BY <2>3, HeldStep
  <2> QED BY <2>1, <2>2, <2>4
<1>3. Inv => NoOrphans
  BY HeldImplies
<1>4. Spec => []NoSilentClose
  BY AnsweredFirst
<1>5. NoSilentClose /\ NoOrphans <=> ConnectionsKept
  BY DEF ConnectionsKept
<1> HIDE DEF Inv
<1> QED BY <1>1, <1>2, <1>3, <1>4, <1>5, PTL DEF Spec

=============================================================================
