----------------------------- MODULE Signaling -----------------------------
(***************************************************************************)
(* The signalling server and its clients: one IP room                      *)
(* (server/src/controller/ws_controller.rs) and the client side of the     *)
(* connection (packages/core/src/webrtc/signaling.rs).                     *)
(*                                                                         *)
(* A connection has three tasks on the server.  The handler enters the     *)
(* room, tells the other peers, queues Hello, and only then starts the     *)
(* task that empties its queue and the task that reads the socket.  The    *)
(* room is locked to change or copy it, never while a message is sent.     *)
(* Rooms share nothing but the lock, so one room is modelled.              *)
(***************************************************************************)
EXTENDS Naturals, Sequences, FiniteSets

CONSTANTS
    Clients,         \* connections; each has a peer id of its own
    MaxInfo,         \* bound on the versions of a client's information
    QueueCapacity,   \* mpsc::channel(4) of a peer
    LinkCapacity,    \* messages on the way to a client before the socket blocks
    MaxConnections,  \* MAX_CONNECTIONS
    MaxRequests      \* MAX_REQUESTS

ASSUME SignalingAssumption ==
    /\ {MaxInfo, QueueCapacity, LinkCapacity, MaxConnections} \subseteq Nat \ {0}
    /\ MaxRequests \in Nat

VARIABLES
    room,    \* tx_map of the room: the information of each member, 0 if it is none
    count,   \* request_count_map of the room
    task,    \* the handler of each connection
    recv,    \* its reading task
    chan,    \* the queue to its sending task
    rx,      \* who holds the receiving end of the queue
    link,    \* messages on the way to the client
    up,      \* whether the connection is open
    client,  \* the client
    late     \* history: peers whose reading task sent after it was aborted

vars == <<room, count, task, recv, chan, rx, link, up, client, late>>

NoPeers == [q \in Clients |-> 0]
Members == {c \in Clients : room[c] # 0}

Msg(kind, c, info) == [kind |-> kind, of |-> c, info |-> info, peers |-> NoPeers]
HelloMsg(c, peers) == [kind |-> "Hello", of |-> c, info |-> 1, peers |-> peers]
NoMsg(c) == Msg("None", c, 0)

Messages ==
    [kind : {"None", "Hello", "Join", "Update", "Left", "Sdp", "Error"}, of : Clients,
     info : 0..MaxInfo, peers : [Clients -> 0..MaxInfo]]

\* A reading task with nothing to send.
Idle(pc, c) == [pc |-> pc, todo |-> <<>>, msg |-> NoMsg(c), aborted |-> FALSE]

\* A client that has received nothing.
NoClient(pc, c) == [pc |-> pc, buf |-> NoMsg(c), view |-> NoPeers, first |-> "none"]

\* The order in which a HashMap is iterated is arbitrary, but fixed once copied.
Orders(S) ==
    {s \in [1..Cardinality(S) -> S] : \A i, j \in 1..Cardinality(S) : s[i] = s[j] => i = j}

(* Every variable stays in its type: no queue outgrows its capacity, and a  *)
(* room never has more than MAX_CONNECTIONS members.                        *)
TypeOK ==
    /\ room \in [Clients -> 0..MaxInfo]
    /\ Cardinality(Members) <= MaxConnections
    /\ count \in 0..MaxRequests
    /\ task \in [Clients -> [pc : {"idle", "join", "hello", "run", "leave", "left", "done", "refused"},
                             todo : Seq(Clients), peers : [Clients -> 0..MaxInfo]]]
    /\ recv \in [Clients -> [pc : {"off", "read", "update", "sdp", "fan", "err", "ended"},
                             todo : Seq(Clients), msg : Messages, aborted : BOOLEAN]]
    /\ chan \in [Clients -> Seq(Messages)]
    /\ rx \in [Clients -> {"held", "task", "gone"}]
    /\ link \in [Clients -> Seq(Messages)]
    /\ up \in [Clients -> BOOLEAN]
    /\ client \in [Clients -> [pc : {"off", "connecting", "open", "closed", "failed"}, buf : Messages,
                               view : [Clients -> 0..MaxInfo], first : {"none", "hello", "other"}]]
    /\ late \subseteq Clients
    /\ \A c \in Clients : Len(chan[c]) <= QueueCapacity /\ Len(link[c]) <= LinkCapacity

Init ==
    /\ room = NoPeers
    /\ count = 0
    /\ task = [c \in Clients |-> [pc |-> "idle", todo |-> <<>>, peers |-> NoPeers]]
    /\ recv = [c \in Clients |-> Idle("off", c)]
    /\ chan = [c \in Clients |-> <<>>]
    /\ rx = [c \in Clients |-> "held"]
    /\ link = [c \in Clients |-> <<>>]
    /\ up = [c \in Clients |-> FALSE]
    /\ client = [c \in Clients |-> NoClient("off", c)]
    /\ late = {}

\* tx.send(m).await on the queue of q: waits for room, and ignores a gone receiver.
HasRoom(q) == rx[q] # "gone" /\ Len(chan[q]) < QueueCapacity
SendTo(q, m) ==
    \/ HasRoom(q) /\ chan' = [chan EXCEPT ![q] = Append(@, m)]
    \/ rx[q] = "gone" /\ UNCHANGED chan

-----------------------------------------------------------------------------
(* The handler of a connection *)

\* Mutant: both limits are off by one.
RefusedLate == Cardinality(Members) > MaxConnections \/ count > MaxRequests

\* The limits of the lock section of handle_socket; the second one counts the request.
Refused == Cardinality(Members) >= MaxConnections \/ count >= MaxRequests

\* Mutant: the members are copied, but the newcomer is inserted without being copied to.
EnterUnannounced(c) ==
    /\ task[c].pc = "idle"
    /\ ~Refused
    /\ count' = count + 1
    /\ task' = [task EXCEPT ![c] = [pc |-> "join", todo |-> <<>>, peers |-> room]]
    /\ room' = [room EXCEPT ![c] = 1]
    /\ up' = [up EXCEPT ![c] = TRUE]
    /\ client' = [client EXCEPT ![c].pc = "connecting"]
    /\ UNCHANGED <<recv, chan, rx, link, late>>

\* One critical section: the other members are copied and the newcomer inserted.
Enter(c) ==
    /\ task[c].pc = "idle"
    /\ ~Refused
    /\ count' = count + 1
    /\ \E order \in Orders(Members) :
         task' = [task EXCEPT ![c] = [pc |-> "join", todo |-> order, peers |-> room]]
    /\ room' = [room EXCEPT ![c] = 1]
    /\ up' = [up EXCEPT ![c] = TRUE]
    /\ client' = [client EXCEPT ![c].pc = "connecting"]
    /\ UNCHANGED <<recv, chan, rx, link, late>>

\* "Limit reached" is no WsServerMessage and the socket is closed: connect() fails.
EnterRefused(c) ==
    /\ task[c].pc = "idle"
    /\ Refused
    /\ task' = [task EXCEPT ![c].pc = "refused"]
    /\ client' = [client EXCEPT ![c].pc = "failed"]
    /\ UNCHANGED <<room, count, recv, chan, rx, link, up, late>>

\* ws_handler: a query whose information cannot be decoded is answered with 400
\* before the upgrade, and counts nowhere.
EnterMalformed(c) ==
    /\ task[c].pc = "idle"
    /\ task' = [task EXCEPT ![c].pc = "refused"]
    /\ client' = [client EXCEPT ![c].pc = "failed"]
    /\ UNCHANGED <<room, count, recv, chan, rx, link, up, late>>

SendJoin(c) ==
    /\ task[c].pc = "join"
    /\ \/ /\ task[c].todo = <<>>
          /\ task' = [task EXCEPT ![c].pc = "hello"]
          /\ UNCHANGED chan
       \/ /\ task[c].todo # <<>>
          /\ SendTo(Head(task[c].todo), Msg("Join", c, 1))
          /\ task' = [task EXCEPT ![c].todo = Tail(@)]
    /\ UNCHANGED <<room, count, recv, rx, link, up, client, late>>

\* Hello goes through the queue like any message, and nothing empties it before.
SayHello(c) ==
    /\ task[c].pc = "hello"
    /\ HasRoom(c)
    /\ chan' = [chan EXCEPT ![c] = Append(@, HelloMsg(c, task[c].peers))]
    /\ task' = [task EXCEPT ![c] = [@ EXCEPT !.pc = "run", !.peers = NoPeers]]
    /\ rx' = [rx EXCEPT ![c] = "task"]
    /\ recv' = [recv EXCEPT ![c] = Idle("read", c)]
    /\ UNCHANGED <<room, count, link, up, client, late>>

\* select! over the two tasks, and abort() of the other one: the sending task
\* drops the queue; a reading task that is just being polled ends at its next wait.
Select(c) ==
    /\ task[c].pc = "run"
    /\ rx[c] = "gone" \/ recv[c].pc = "ended"
    /\ task' = [task EXCEPT ![c].pc = "leave"]
    /\ rx' = [rx EXCEPT ![c] = "gone"]
    /\ chan' = [chan EXCEPT ![c] = <<>>]
    /\ \/ recv' = [recv EXCEPT ![c] = Idle("ended", c)]
       \/ recv[c].pc # "ended" /\ recv' = [recv EXCEPT ![c].aborted = TRUE]
    /\ UNCHANGED <<room, count, link, up, client, late>>

\* One critical section: the peer is removed and the remaining members copied.
Leave(c) ==
    /\ task[c].pc = "leave"
    /\ room' = [room EXCEPT ![c] = 0]
    /\ \E order \in Orders(Members \ {c}) :
         task' = [task EXCEPT ![c] = [@ EXCEPT !.pc = "left", !.todo = order]]
    /\ UNCHANGED <<count, recv, chan, rx, link, up, client, late>>

\* The socket is dropped with the handler's tasks.
SendLeft(c) ==
    /\ task[c].pc = "left"
    /\ \/ /\ task[c].todo = <<>>
          /\ task' = [task EXCEPT ![c].pc = "done"]
          /\ up' = [up EXCEPT ![c] = FALSE]
          /\ link' = [link EXCEPT ![c] = <<>>]
          /\ client' = [client EXCEPT ![c] = NoClient("closed", c)]
          /\ UNCHANGED chan
       \/ /\ task[c].todo # <<>>
          /\ SendTo(Head(task[c].todo), Msg("Left", c, 0))
          /\ task' = [task EXCEPT ![c].todo = Tail(@)]
          /\ UNCHANGED <<up, link, client>>
    /\ UNCHANGED <<room, count, recv, rx, late>>

-----------------------------------------------------------------------------
(* The sending and the reading task *)

SendTask(c) ==
    /\ rx[c] = "task" /\ chan[c] # <<>>
    /\ up[c] /\ Len(link[c]) < LinkCapacity
    /\ link' = [link EXCEPT ![c] = Append(@, Head(chan[c]))]
    /\ chan' = [chan EXCEPT ![c] = Tail(@)]
    /\ UNCHANGED <<room, count, task, recv, rx, up, client, late>>

\* A failed send ends the task, which drops the queue.
SendTaskFails(c) ==
    /\ rx[c] = "task" /\ chan[c] # <<>>
    /\ ~up[c]
    /\ rx' = [rx EXCEPT ![c] = "gone"]
    /\ chan' = [chan EXCEPT ![c] = <<>>]
    /\ UNCHANGED <<room, count, task, recv, link, up, client, late>>

\* The client can send once connect() has returned.
CanRequest(c) == recv[c].pc = "read" /\ up[c] /\ client[c].pc = "open"

\* protect_ddos_request_count lets a message pass; its own lock, released again.
RecvRequest(c) ==
    /\ CanRequest(c)
    /\ count < MaxRequests
    /\ count' = count + 1
    /\ \/ room[c] < MaxInfo /\ recv' = [recv EXCEPT ![c].pc = "update"]
       \/ recv' = [recv EXCEPT ![c].pc = "sdp"]
    /\ UNCHANGED <<room, task, chan, rx, link, up, client, late>>

\* Too many requests: an Error to the client itself, and the task returns.
RecvLimited(c) ==
    /\ CanRequest(c)
    /\ count >= MaxRequests
    /\ recv' = [recv EXCEPT ![c] = [@ EXCEPT !.pc = "err", !.todo = <<c>>, !.msg = Msg("Error", c, 0)]]
    /\ UNCHANGED <<room, count, task, chan, rx, link, up, client, late>>

\* Mutant: the information is inserted, whether or not the peer is a member.
RecvUpdateInserts(c) ==
    /\ recv[c].pc = "update"
    /\ room' = [room EXCEPT ![c] = @ + 1]
    /\ \E order \in Orders(Members \ {c}) :
         recv' = [recv EXCEPT ![c] =
                    [@ EXCEPT !.pc = "fan", !.todo = order, !.msg = Msg("Update", c, room[c] + 1)]]
    /\ UNCHANGED <<count, task, chan, rx, link, up, client, late>>

\* send_update_to_other_peers_with_lock: one critical section, then the fan-out.
RecvUpdate(c) ==
    /\ recv[c].pc = "update"
    /\ \/ /\ c \in Members
          /\ room' = [room EXCEPT ![c] = @ + 1]
          /\ \E order \in Orders(Members \ {c}) :
               recv' = [recv EXCEPT ![c] =
                          [@ EXCEPT !.pc = "fan", !.todo = order, !.msg = Msg("Update", c, room[c] + 1)]]
       \/ /\ c \notin Members
          /\ recv' = [recv EXCEPT ![c].pc = "fan"]
          /\ UNCHANGED room
    /\ UNCHANGED <<count, task, chan, rx, link, up, client, late>>

\* send_to_peer_with_lock: an offer or answer; the target may be no member.
RecvSdp(c) ==
    /\ recv[c].pc = "sdp"
    /\ \E q \in Clients :
         recv' = [recv EXCEPT ![c] =
                    IF q \in Members
                    THEN [@ EXCEPT !.pc = "fan", !.todo = <<q>>, !.msg = Msg("Sdp", c, 1)]
                    ELSE [@ EXCEPT !.pc = "read"]]
    /\ UNCHANGED <<room, count, task, chan, rx, link, up, client, late>>

RecvSend(c) ==
    /\ recv[c].pc \in {"fan", "err"}
    /\ \/ /\ recv[c].todo = <<>>
          /\ recv' = [recv EXCEPT ![c] =
                         [@ EXCEPT !.pc = IF recv[c].pc = "fan" THEN "read" ELSE "ended", !.msg = NoMsg(c)]]
          /\ UNCHANGED <<chan, late>>
       \/ /\ recv[c].todo # <<>>
          /\ SendTo(Head(recv[c].todo), recv[c].msg)
          /\ recv' = [recv EXCEPT ![c].todo = Tail(@)]
          /\ late' = IF recv[c].aborted THEN late \cup {c} ELSE late
    /\ UNCHANGED <<room, count, task, rx, link, up, client>>

\* Mutant: only an abort ends the task, the end of the stream does not.
RecvEndsOnAbort(c) ==
    /\ recv[c].aborted
    /\ recv' = [recv EXCEPT ![c] = Idle("ended", c)]
    /\ UNCHANGED <<room, count, task, chan, rx, link, up, client, late>>

\* The end of the stream is seen only where the task reads; an aborted task goes
\* on while nothing makes it wait, and then ends wherever it stands.
RecvEnds(c) ==
    /\ \/ recv[c].pc = "read" /\ ~up[c]
       \/ recv[c].aborted
    /\ recv' = [recv EXCEPT ![c] = Idle("ended", c)]
    /\ UNCHANGED <<room, count, task, chan, rx, link, up, client, late>>

\* configure_scheduling: the counters are cleared every hour.
ResetCount ==
    /\ count # 0
    /\ count' = 0
    /\ UNCHANGED <<room, task, recv, chan, rx, link, up, client, late>>

-----------------------------------------------------------------------------
(* The client *)

\* The application registers the peers of Hello, Join and Update and
\* unregisters the one of Left (signaling_provider.dart).
Apply(view, m) ==
    CASE m.kind = "Hello" -> [q \in Clients |-> IF m.peers[q] # 0 THEN m.peers[q] ELSE view[q]]
      [] m.kind \in {"Join", "Update"} -> [view EXCEPT ![m.of] = m.info]
      [] m.kind = "Left" -> [view EXCEPT ![m.of] = 0]
      [] OTHER -> view

\* Until Hello is there nobody reads receive_rx, whose capacity is 1.
Jammed(c) ==
    /\ client[c].pc = "connecting" /\ client[c].buf.kind # "None"
    /\ link[c] # <<>> /\ Head(link[c]).kind # "Hello"

ClientRead(c) ==
    /\ link[c] # <<>>
    /\ LET m == Head(link[c])
           k == client[c]
       IN  \/ /\ k.pc = "open"
              /\ client' = [client EXCEPT ![c].view = Apply(@, m)]
           \/ /\ k.pc = "connecting" /\ m.kind = "Hello"
              /\ client' = [client EXCEPT ![c] =
                              [pc |-> "open", buf |-> NoMsg(c),
                               view |-> Apply(Apply(k.view, k.buf), m),
                               first |-> IF k.first = "none" THEN "hello" ELSE k.first]]
           \/ /\ k.pc = "connecting" /\ m.kind # "Hello" /\ k.buf.kind = "None"
              /\ client' = [client EXCEPT ![c] = [@ EXCEPT !.buf = m, !.first = "other"]]
    /\ link' = [link EXCEPT ![c] = Tail(@)]
    /\ UNCHANGED <<room, count, task, recv, chan, rx, up, late>>

\* The connection breaks, or the client closes it; what the client saw is dropped.
Disconnect(c) ==
    /\ up[c]
    /\ up' = [up EXCEPT ![c] = FALSE]
    /\ link' = [link EXCEPT ![c] = <<>>]
    /\ client' = [client EXCEPT ![c] = NoClient("closed", c)]
    /\ UNCHANGED <<room, count, task, recv, chan, rx, late>>

-----------------------------------------------------------------------------
HandlerStep(c) ==
    SendJoin(c) \/ SayHello(c) \/ Select(c) \/ Leave(c) \/ SendLeft(c)

TaskStep(c) ==
    \/ SendTask(c) \/ SendTaskFails(c)
    \/ RecvUpdate(c) \/ RecvSdp(c) \/ RecvSend(c) \/ RecvEnds(c)

Request(c) == RecvRequest(c) \/ RecvLimited(c)

Next ==
    \/ \E c \in Clients :
         \/ Enter(c) \/ EnterRefused(c) \/ EnterMalformed(c) \/ Disconnect(c)
         \/ HandlerStep(c) \/ TaskStep(c) \/ Request(c) \/ ClientRead(c)
    \/ ResetCount

Spec == Init /\ [][Next]_vars

-----------------------------------------------------------------------------
(* Properties *)

\* Some message about q is still going to be handed to c or read by it.
InFlight(c, q) ==
    \/ task[q].pc = "leave"
    \/ \E i \in DOMAIN link[c] : link[c][i].of = q \/ link[c][i].kind = "Hello"
    \/ \E i \in DOMAIN chan[c] : chan[c][i].of = q \/ chan[c][i].kind = "Hello"
    \/ \E i \in DOMAIN task[q].todo : task[q].todo[i] = c
    \/ \E i \in DOMAIN recv[q].todo : recv[q].todo[i] = c

(* Once nothing about q is on its way to it, a connected client sees exactly *)
(* what the room holds of q: its current information if it is a member,      *)
(* nothing if it left.  Two exceptions are the code's own: the              *)
(* client got a message before Hello, or q's reading task sent an update     *)
(* after it had been aborted.                                                *)
ViewSettled ==
    \A c, q \in Clients :
        /\ c # q /\ q \notin late
        /\ client[c].pc = "open" /\ client[c].first = "hello"
        /\ up[c] /\ task[c].pc = "run" /\ rx[c] = "task"
        /\ ~InFlight(c, q)
        => client[c].view[q] = room[q]

(* The room holds exactly the connections whose handler is going to remove   *)
(* them: a reading task that outlives its abort brings no peer back.         *)
NoGhosts ==
    \A c \in Clients : c \in Members <=> task[c].pc \in {"join", "hello", "run", "leave"}

(* The state invariant of the room: its limits, its queues and its members.  *)
RoomSound == TypeOK /\ NoGhosts

(* Nothing can empty the queue of a handler that waits to put Hello in it.   *)
Starved(c) == task[c].pc = "hello" /\ ~HasRoom(c)

(* A connection that is gone leaves the room: as long as it is still there,   *)
(* some task on either side can go on, unless a peer waits for room in a      *)
(* queue that nobody will ever empty: its own before Hello, or that of a      *)
(* client that jammed on messages before Hello.  Every such step consumes a   *)
(* message or ends a loop, so under fair scheduling the tasks get there.      *)
GoneLeaves ==
    (\E c \in Clients : ~up[c] /\ c \in Members) =>
        \/ ENABLED (\E c \in Clients : HandlerStep(c) \/ TaskStep(c) \/ ClientRead(c))
        \/ \E q \in Clients : Starved(q) \/ Jammed(q)

(* What the documentation of WsServerMessage promises and the code does not  *)
(* keep.                                                                     *)

(* "The initial message sent to the client that has just connected": a client *)
(* that entered the room can be sent its Hello.  A queue that is full by then *)
(* stays full, for the task that empties it is spawned after Hello.           *)
HelloFits == \A c \in Clients : ~Starved(c)
=============================================================================
