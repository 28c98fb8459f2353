------------------------------ MODULE RtspServer ------------------------------
(***************************************************************************)
(* The RTSP server (src/src/network/rtsp_server.cpp).                      *)
(*                                                                         *)
(* The controller calls Start and Stop, the stream thread calls Push, and  *)
(* the server thread does everything with the clients in rounds: it        *)
(* accepts, handles the requests of the clients it knew before, takes one  *)
(* frame from the queue and sends it to those that play.  Only the queue   *)
(* is shared under queue_lock_; running_ is an atomic that Push reads      *)
(* before it takes the lock.                                               *)
(*                                                                         *)
(* A client is known by its peer.  Sockets never block: what a slow peer   *)
(* does not take is a failed send.  The order in which one round comes to  *)
(* the clients is left open, since what it does to one does not depend on  *)
(* the others.  Requests are told apart by what they change.               *)
(***************************************************************************)
EXTENDS Naturals, SequencesExt

CONSTANTS
    Peers,             \* remote players
    kMaxClients,
    kMaxQueuedFrames,
    MaxSessions,       \* bound: calls of Start that get past the socket
    MaxFrames          \* bound: calls of Push that pass its checks

\* The queue has room for a key frame and one that follows it (it is 32 in the code).
ASSUME RtspAssumption ==
    /\ kMaxClients \in Nat \ {0} /\ kMaxQueuedFrames \in Nat \ {0, 1}
    /\ MaxSessions \in Nat /\ MaxFrames \in Nat

\* Descriptors; 0 stands for the -1 of the code.
Fds == 1..(1 + 2 * kMaxClients)

VARIABLES
    ctl,        \* the controller: "idle", "create", "joining" or "clearing"
    running,    \* running_
    listen,     \* listen_fd_
    spc,        \* where the server thread is in its round; "none" when thread_ is 0
    todo,       \* peers whose client this round has still to look at
    frame,      \* the frame being sent
    targets,    \* peers it is still to be sent to
    client,     \* clients_, by peer
    open,       \* descriptors the server has open
    queue,      \* queue_
    pushing,    \* the stream thread is between the checks of Push and the lock
    copy,       \* the frame it copied
    backlog,    \* peers that asked for a connection
    session,    \* history: number of the current or last Start
    stopped,    \* history: the last session a Stop has returned for
    frames,     \* history: frames that passed the checks of Push
    newestKey,  \* history: the newest key frame queued since Stop cleared the queue
    takenKey    \* history: the last key frame the server took

lifeVars   == <<ctl, running, listen, session, stopped>>
roundVars  == <<spc, todo, frame, targets>>
startVars  == <<session, stopped>>
sendVars   == <<frame, targets>>
clientVars == <<client, open>>
queueVars  == <<queue, newestKey, takenKey>>
pushVars   == <<pushing, copy, frames>>
streamVars == <<queueVars, pushVars, backlog>>
vars == <<lifeVars, roundVars, clientVars, streamVars>>

NoFrame == [id |-> 0, key |-> FALSE, sess |-> 0]
NoClient == [rtsp |-> 0, udp |-> 0, playing |-> FALSE, tcp |-> TRUE, last |-> 0]

Init ==
    /\ ctl = "idle" /\ running = FALSE /\ listen = 0
    /\ session = 0 /\ stopped = 0
    /\ spc = "none" /\ todo = {} /\ frame = NoFrame /\ targets = {}
    /\ client = [p \in Peers |-> NoClient] /\ open = {}
    /\ queue = <<>> /\ newestKey = 0 /\ takenKey = 0
    /\ pushing = FALSE /\ copy = NoFrame /\ frames = 0
    /\ backlog = {}

Connected == {p \in Peers : client[p].rtsp # 0}

\* socket and accept return the lowest descriptor that is free.
NewFd(inUse) == Min(Fds \ inUse)

-----------------------------------------------------------------------------
(* Start and Stop, in the controller. *)

\* The listening socket is up, and running_ set before the thread exists.  Without a
\* socket Start returns the error and has changed nothing.
StartListens ==
    /\ ctl = "idle" /\ ~running
    /\ session < MaxSessions
    /\ session' = session + 1
    /\ listen' = NewFd(open) /\ open' = open \cup {listen'}
    /\ running' = TRUE
    /\ ctl' = "create"
    /\ UNCHANGED <<roundVars, client, streamVars, stopped>>

StartCreates ==
    /\ ctl = "create"
    /\ spc' = "loop"
    /\ ctl' = "idle"
    /\ UNCHANGED <<running, listen, todo, sendVars, clientVars, streamVars, startVars>>

\* Mutant: the listening socket stays open.
StartCreateFailsOpen ==
    /\ ctl = "create"
    /\ running' = FALSE
    /\ ctl' = "idle"
    /\ UNCHANGED <<listen, roundVars, clientVars, streamVars, startVars>>

StartCreateFails ==
    /\ ctl = "create"
    /\ running' = FALSE
    /\ open' = open \ {listen} /\ listen' = 0 /\ backlog' = {}
    /\ ctl' = "idle"
    /\ UNCHANGED <<roundVars, client, queueVars, pushVars, startVars>>

\* Mutant: the thread is joined before it is told to end.
StopForgets ==
    /\ ctl = "idle"
    /\ ctl' = "joining"
    /\ UNCHANGED <<running, listen, roundVars, clientVars, streamVars, startVars>>

StopClears ==
    /\ ctl = "idle"
    /\ running' = FALSE
    /\ ctl' = "joining"
    /\ UNCHANGED <<listen, roundVars, clientVars, streamVars, startVars>>

ClientFds(p) == {client[p].rtsp, client[p].udp}

\* The thread, if there was one, is gone: the clients and the listening socket are closed.
StopJoins ==
    /\ ctl = "joining" /\ spc \in {"none", "gone"}
    /\ spc' = "none"
    /\ client' = [p \in Peers |-> NoClient]
    /\ open' = open \ ({listen} \cup UNION {ClientFds(p) : p \in Peers})
    /\ listen' = 0 /\ backlog' = {}
    /\ ctl' = "clearing"
    /\ UNCHANGED <<running, todo, sendVars, queueVars, pushVars, startVars>>

\* Mutant: the frames wait for the next Start.
KeptQueue == queue

ClearedQueue == <<>>

StopClearsQueue ==
    /\ ctl = "clearing"
    /\ queue' = ClearedQueue /\ newestKey' = 0
    /\ stopped' = session /\ ctl' = "idle"
    /\ UNCHANGED <<running, listen, roundVars, clientVars, pushVars, backlog, session,
                   takenKey>>

-----------------------------------------------------------------------------
(* Push, in the stream thread. *)

PushCopies(key) ==
    /\ ~pushing /\ running
    /\ frames < MaxFrames
    /\ frames' = frames + 1
    /\ copy' = [id |-> frames + 1, key |-> key, sess |-> session]
    /\ pushing' = TRUE
    /\ UNCHANGED <<lifeVars, roundVars, clientVars, queueVars, backlog>>

\* Mutants: nothing is given up; the oldest frame is given up, whatever it is.
Unbounded(q) == q
WithoutOldest(q) == IF Len(q) < kMaxQueuedFrames THEN q ELSE Tail(q)

\* A full queue gives up its oldest frame that is not a key frame, or else its oldest.
MakeRoom(q) ==
    IF Len(q) < kMaxQueuedFrames THEN q
    ELSE LET disposable == {i \in DOMAIN q : ~q[i].key}
         IN  RemoveAt(q, IF disposable = {} THEN 1 ELSE Min(disposable))

\* Mutant: the frame enters at the wrong end.
EnqueuedFirst(q) == <<copy>> \o q

Enqueued(q) == Append(q, copy)

PushEnqueues ==
    /\ pushing /\ pushing' = FALSE
    /\ queue' = Enqueued(MakeRoom(queue))
    /\ newestKey' = IF copy.key THEN copy.id ELSE newestKey
    /\ UNCHANGED <<lifeVars, roundVars, clientVars, copy, backlog, frames, takenKey>>

-----------------------------------------------------------------------------
(* A round of the server thread. *)

\* The clients known now are looked at; those accepted in this round are not.
RoundBegins ==
    /\ spc = "loop" /\ running
    /\ spc' = "accept" /\ todo' = Connected
    /\ UNCHANGED <<lifeVars, sendVars, clientVars, streamVars>>

ServerEnds ==
    /\ spc = "loop" /\ ~running
    /\ spc' = "gone"
    /\ UNCHANGED <<lifeVars, todo, sendVars, clientVars, streamVars>>

AcceptClient(p) ==
    /\ spc = "accept" /\ p \in backlog
    /\ Cardinality(Connected) < kMaxClients
    /\ LET fd == NewFd(open) IN
         /\ client' = [client EXCEPT ![p] = [NoClient EXCEPT !.rtsp = fd]]
         /\ open' = open \cup {fd}
    /\ backlog' = backlog \ {p}
    /\ UNCHANGED <<lifeVars, roundVars, queueVars, pushVars>>

\* No more room, or no one there, or accept fails.
AcceptEnds ==
    /\ spc = "accept" /\ spc' = "handle"
    /\ UNCHANGED <<lifeVars, todo, sendVars, clientVars, streamVars>>

Handling(p) == spc = "handle" /\ p \in todo /\ todo' = todo \ {p}

\* The client is not readable, or its request is not complete.
NoRequest(p) ==
    /\ Handling(p)
    /\ UNCHANGED <<lifeVars, spc, sendVars, clientVars, streamVars>>

\* The response is sent to a client that is c by now, with the descriptors fds open; a
\* client that does not take it at once is closed.
Replies(p, c, fds) ==
    /\ \/ client' = [client EXCEPT ![p] = c] /\ open' = fds
       \/ client' = [client EXCEPT ![p] = NoClient] /\ open' = fds \ {c.rtsp, c.udp}
    /\ UNCHANGED <<lifeVars, spc, sendVars, streamVars>>

\* OPTIONS, DESCRIBE, an unknown path or method, a transport that is not supported.
Answers(p) == Handling(p) /\ Replies(p, client[p], open)

\* Mutant: the closed descriptor is remembered.
SetupTcpKeeps(p) ==
    /\ Handling(p)
    /\ Replies(p, [client[p] EXCEPT !.tcp = TRUE], open \ {client[p].udp})

SetupTcp(p) ==
    /\ Handling(p)
    /\ Replies(p, [client[p] EXCEPT !.tcp = TRUE, !.udp = 0], open \ {client[p].udp})

\* Without a socket the answer is an error, but the client is set to UDP all the same.
SetupUdp(p) ==
    /\ Handling(p)
    /\ LET fds == open \ {client[p].udp} IN
         \E fd \in {0, NewFd(fds)} :
            Replies(p, [client[p] EXCEPT !.tcp = FALSE, !.udp = fd], fds \cup ({fd} \ {0}))

\* Neither a SETUP before it nor the session number is asked for.
Play(p) ==
    /\ Handling(p)
    /\ Replies(p, [client[p] EXCEPT !.playing = TRUE], open)

\* TEARDOWN, or the peer closed the connection.
Leaves(p) ==
    /\ Handling(p)
    /\ client' = [client EXCEPT ![p] = NoClient]
    /\ open' = open \ ClientFds(p)
    /\ UNCHANGED <<lifeVars, spc, sendVars, streamVars>>

TakesFrame ==
    /\ spc = "handle" /\ todo = {} /\ queue # <<>>
    /\ frame' = Head(queue) /\ queue' = Tail(queue)
    /\ takenKey' = IF Head(queue).key THEN Head(queue).id ELSE takenKey
    /\ targets' = {p \in Connected : client[p].playing}
    /\ spc' = "send"
    /\ UNCHANGED <<lifeVars, todo, clientVars, pushVars, backlog, newestKey>>

NothingToSend ==
    /\ spc = "handle" /\ todo = {} /\ queue = <<>>
    /\ spc' = "loop"
    /\ UNCHANGED <<lifeVars, todo, sendVars, clientVars, streamVars>>

Sending(p) == spc = "send" /\ p \in targets /\ targets' = targets \ {p}

\* All packets of the frame go out.
SendsFrame(p) ==
    /\ Sending(p)
    /\ client[p].tcp \/ client[p].udp # 0
    /\ client' = [client EXCEPT ![p].last = frame.id]
    /\ UNCHANGED <<lifeVars, spc, todo, frame, open, streamVars>>

\* Mutant: the server waits for the peer.
SendWaits(p) == Sending(p) /\ UNCHANGED vars

\* A packet is not taken, or only in part: the client stops playing and stays connected.
SendFails(p) ==
    /\ Sending(p)
    /\ client' = [client EXCEPT ![p].playing = FALSE]
    /\ UNCHANGED <<lifeVars, spc, todo, frame, open, streamVars>>

RoundEnds ==
    /\ spc = "send" /\ targets = {}
    /\ spc' = "loop" /\ frame' = NoFrame
    /\ UNCHANGED <<lifeVars, todo, targets, clientVars, streamVars>>

-----------------------------------------------------------------------------
(* The peers. *)

Connects(p) ==
    /\ listen # 0 /\ p \notin backlog /\ p \notin Connected
    /\ backlog' = backlog \cup {p}
    /\ UNCHANGED <<lifeVars, roundVars, clientVars, queueVars, pushVars>>

-----------------------------------------------------------------------------
Start == StartListens \/ StartCreates \/ StartCreateFails

Stop == StopClears \/ StopJoins \/ StopClearsQueue

Push == (\E key \in BOOLEAN : PushCopies(key)) \/ PushEnqueues

HandleRequest(p) == Answers(p) \/ SetupTcp(p) \/ SetupUdp(p) \/ Play(p) \/ Leaves(p)

\* All the server thread does, but for a send that succeeds.
ServerThread ==
    \/ RoundBegins \/ ServerEnds
    \/ (\E p \in Peers : AcceptClient(p)) \/ AcceptEnds
    \/ (\E p \in Peers : NoRequest(p) \/ HandleRequest(p))
    \/ TakesFrame \/ NothingToSend
    \/ (\E p \in Peers : SendFails(p)) \/ RoundEnds

Next ==
    \/ Start \/ Stop \/ Push \/ ServerThread
    \/ \E p \in Peers : SendsFrame(p)
    \/ \E p \in Peers : Connects(p)

\* The threads run.  A send returns at once, having succeeded or failed; that it ever
\* succeeds is not relied on.  Nobody has to call Start, Stop or Push.
Fairness ==
    /\ WF_vars(ctl # "idle" /\ (Start \/ Stop))
    /\ WF_vars(ServerThread) /\ WF_vars(PushEnqueues)

Spec == Init /\ [][Next]_vars /\ Fairness

-----------------------------------------------------------------------------
Frame == [id : Nat, key : BOOLEAN, sess : Nat]

\* Every variable is of its kind; queue and clients keep to their limits.
TypeOK ==
    /\ ctl \in {"idle", "create", "joining", "clearing"}
    /\ running \in BOOLEAN /\ listen \in Fds \cup {0}
    /\ spc \in {"none", "loop", "accept", "handle", "send", "gone"}
    /\ todo \subseteq Peers /\ targets \subseteq Peers
    /\ frame \in Frame /\ copy \in Frame /\ pushing \in BOOLEAN
    /\ client \in [Peers -> [rtsp : Fds \cup {0}, udp : Fds \cup {0}, playing : BOOLEAN,
                             tcp : BOOLEAN, last : Nat]]
    /\ Cardinality(Connected) <= kMaxClients
    /\ open \subseteq Fds /\ backlog \subseteq Peers
    /\ queue \in Seq(Frame) /\ Len(queue) <= kMaxQueuedFrames
    /\ {session, stopped, frames, newestKey, takenKey} \subseteq Nat

\* Every descriptor the server has open is the listening socket or belongs to exactly
\* one client in one role, and a descriptor that somebody holds is open: none is lost,
\* closed twice or shared, in whatever order clients set up, switch transport, leave or
\* are dropped.
Held == {h \in Peers \X {"rtsp", "udp"} : client[h[1]][h[2]] # 0}
FdsOwnedOnce ==
    /\ open = ({listen} \ {0}) \cup {client[h[1]][h[2]] : h \in Held}
    /\ Cardinality(open) = Cardinality(Held) + (IF listen = 0 THEN 0 ELSE 1)

\* Between calls a server that is not running has no thread, no descriptor, no client;
\* a failed Start is no exception.
StoppedHoldsNothing == ctl = "idle" /\ ~running => spc = "none" /\ open = {} /\ Connected = {}

\* However far the server falls behind, the newest key frame is either still queued or was
\* sent on.  This is about the key frame alone: a full queue gives up its oldest frame that
\* is none, which may be the one right behind the newest key frame, and frames that refer to
\* that one stay queued.
NewestKeyIsKept ==
    newestKey # 0 => newestKey = takenKey \/ \E i \in DOMAIN queue : queue[i].id = newestKey

\* Start does not clear the queue and Push does not look at running_ again under the
\* lock, yet at most one frame, the one the stream thread held, survives a Stop.
StaleAtMostOne == Cardinality({i \in DOMAIN queue : queue[i].sess <= stopped}) <= 1

\* A client gets its frames in the order of Push and none twice, whatever is dropped
\* from the queue before it.
SentInOrder ==
    [][\A p \in Peers : client'[p].last # client[p].last /\ client'[p].rtsp = client[p].rtsp
          => client'[p].last > client[p].last]_vars

\* A slow client does not hold up the frames: each leaves the queue of a live server
\* ("网络慢客户端不会阻塞录像写线程", docs/prototype_status.md:14).
Queued(n) == \E i \in DOMAIN queue : queue[i].id = n
SlowClientsDoNotStall ==
    \A n \in 1..MaxFrames : (Queued(n) /\ spc \notin {"none", "gone"}) ~> ~Queued(n)

\* Stop returns, whatever the clients do.
StopTerminates == ctl = "joining" ~> ctl = "idle"
=============================================================================
