-------------------------- MODULE SignalingProofs --------------------------
(***************************************************************************)
(* Proofs about Signaling, for every set of connections, every capacity    *)
(* and every limit of the room.                                            *)
(***************************************************************************)
EXTENDS Signaling, FiniteSetTheorems, TLAPS

In(s, c) == \E i \in DOMAIN s : s[i] = c

Entered(c) == task[c].pc \notin {"idle", "refused"}
Starting(c) == task[c].pc \in {"idle", "refused", "join", "hello"}
Leaving(c) == task[c].pc \in {"leave", "left", "done"}

(* Nothing reaches a connection before its handler has entered the room.    *)
Untouched(c) ==
    /\ chan[c] = <<>> /\ link[c] = <<>>
    /\ client[c].view = NoPeers /\ client[c].buf.kind = "None" /\ client[c].first = "none"
    /\ client[c].pc \in {"off", "failed"} /\ ~up[c]

TodoEntered ==
    /\ \A c \in Clients : ~Entered(c) => Untouched(c)
    /\ \A q, c \in Clients : In(task[q].todo, c) \/ In(recv[q].todo, c) => Entered(c)

(* The reading task exists from Hello on, has something to send only where  *)
(* it sends, and outlives the handler's run only as an aborted task.        *)
Reading ==
    \A c \in Clients :
        /\ recv[c].pc = "off" <=> Starting(c)
        /\ Starting(c) => rx[c] = "held"
        /\ recv[c].aborted => Leaving(c)
        /\ Leaving(c) => recv[c].aborted \/ recv[c].pc = "ended"
        /\ recv[c].pc \notin {"fan", "err"} => recv[c].todo = <<>>
        /\ recv[c].msg.of = c /\ recv[c].msg.kind \in {"None", "Update", "Sdp", "Error"}

(* A running peer's update says what the room holds of it.                  *)
Current ==
    \A c \in Clients :
        /\ task[c].pc \in {"join", "hello"} => room[c] = 1
        /\ recv[c].pc = "update" => room[c] < MaxInfo
        /\ recv[c].msg.kind = "Update" /\ task[c].pc = "run" => recv[c].msg.info = room[c]

RoomInv == TypeOK /\ IsFiniteSet(Members) /\ NoGhosts /\ TodoEntered /\ Reading /\ Current

-----------------------------------------------------------------------------
(* What a client is going to see *)

About(m, q) == m.kind \in {"Join", "Update", "Left"} /\ m.of = q
Says(m) == IF m.kind = "Left" THEN 0 ELSE m.info

(* After s is read by a client that sees b of q, it sees v. *)
Reads(s, q, b, v) ==
    \/ v = b /\ \A i \in DOMAIN s : ~About(s[i], q)
    \/ \E i \in DOMAIN s :
         About(s[i], q) /\ Says(s[i]) = v /\ \A j \in DOMAIN s : j > i => ~About(s[j], q)

NoHello(s) == \A i \in DOMAIN s : s[i].kind # "Hello"

(* The peers a client starts from: what it sees, or what its Hello will say. *)
Base(c) ==
    CASE client[c].pc = "open" -> client[c].view
      [] client[c].pc # "open" /\ link[c] # <<>> -> Head(link[c]).peers
      [] client[c].pc # "open" /\ link[c] = <<>> /\ chan[c] # <<>> -> Head(chan[c]).peers
      [] OTHER -> task[c].peers

(* A connection to which nothing was sent before its Hello. *)
Clean(c) ==
    /\ up[c] /\ rx[c] # "gone" /\ task[c].pc \in {"join", "hello", "run"}
    /\ \/ client[c].pc = "open" /\ client[c].first = "hello"
       \/ /\ client[c].pc = "connecting" /\ client[c].first = "none"
          /\ link[c] # <<>> => Head(link[c]).kind = "Hello"
          /\ link[c] = <<>> /\ chan[c] # <<>> => Head(chan[c]).kind = "Hello"

(* There is one Hello on its path: none before it is said, none once read.  *)
HelloOnce(c) ==
    /\ client[c].pc = "open" =>
         task[c].pc = "run" /\ NoHello(link[c]) /\ NoHello(chan[c])
    /\ client[c].pc = "connecting" =>
         /\ client[c].view = NoPeers /\ client[c].buf.kind = "None"
         /\ task[c].pc = "run" <=> link[c] # <<>> \/ chan[c] # <<>>
         /\ link[c] # <<>> => NoHello(Tail(link[c])) /\ NoHello(chan[c])
         /\ link[c] = <<>> /\ chan[c] # <<>> => NoHello(Tail(chan[c]))

OneHello == \A c \in Clients : Clean(c) => HelloOnce(c)

(* Nobody has seen Hello while it is still connecting. *)
FirstTells == \A c \in Clients : client[c].pc = "connecting" => client[c].first # "hello"

Told(c, q, v) ==
    \E w \in 0 .. MaxInfo : Reads(link[c], q, Base(c)[q], w) /\ Reads(chan[c], q, w, v)

(* q's handler or its reading task is still going to tell c. *)
Owed(c, q) ==
    \/ task[q].pc = "leave"
    \/ task[q].pc \in {"join", "left"} /\ In(task[q].todo, c)
    \/ task[q].pc = "run" /\ In(recv[q].todo, c) /\ recv[q].msg.kind = "Update"

(* A clean connection that reads everything sent to it will see what the    *)
(* room holds of q, unless a message is owed to it.                         *)
Sees(c, q) ==
    \E v \in 0 .. MaxInfo : Told(c, q, v) /\ (Owed(c, q) \/ q \in late \/ v = room[q])

WillSee == \A c, q \in Clients : c # q /\ Clean(c) => Sees(c, q)

IInv == RoomInv /\ OneHello /\ FirstTells /\ WillSee

-----------------------------------------------------------------------------
(* Sequences of messages and of peers *)

(* A message that is not about q changes nothing of what is read of it. *)
LEMMA AppendOther ==
    ASSUME NEW M, NEW s \in Seq(M), NEW m \in M, NEW q, NEW b, NEW v, Reads(s, q, b, v), ~About(m, q)
    PROVE  Reads(Append(s, m), q, b, v)
  <1> DEFINE t == Append(s, m)
  <1>1. /\ DOMAIN s = 1 .. Len(s) /\ DOMAIN t = 1 .. Len(s) + 1 /\ Len(s) \in Nat
        /\ t[Len(s) + 1] = m /\ \A i \in 1 .. Len(s) : t[i] = s[i]
    OBVIOUS
  <1> HIDE DEF t
  <1>2. CASE v = b /\ \A i \in DOMAIN s : ~About(s[i], q)
    <2>1. \A i \in DOMAIN t : ~About(t[i], q)
      BY <1>1, <1>2
    <2> QED
      BY <1>2, <2>1 DEF Reads, t
  <1>3. CASE \E i \in DOMAIN s : About(s[i], q) /\ Says(s[i]) = v /\ \A j \in DOMAIN s : j > i => ~About(s[j], q)
    <2>1. PICK i \in DOMAIN s : About(s[i], q) /\ Says(s[i]) = v /\ \A j \in DOMAIN s : j > i => ~About(s[j], q)
      BY <1>3
    <2>2. i \in DOMAIN t /\ t[i] = s[i]
      BY <1>1
    <2>3. \A j \in DOMAIN t : j > i => ~About(t[j], q)
      BY <1>1, <2>1
    <2> QED
      BY <2>1, <2>2, <2>3 DEF Reads, t
  <1> QED
    BY <1>2, <1>3 DEF Reads

(* The last message about q decides. *)
LEMMA AppendAbout ==
    ASSUME NEW M, NEW s \in Seq(M), NEW m \in M, NEW q, NEW b, About(m, q)
    PROVE  Reads(Append(s, m), q, b, Says(m))
  <1> DEFINE t == Append(s, m)
  <1>1. DOMAIN t = 1 .. Len(s) + 1 /\ Len(s) \in Nat /\ t[Len(s) + 1] = m
    OBVIOUS
  <1> HIDE DEF t
  <1>2. \A j \in DOMAIN t : ~(j > Len(s) + 1)
    BY <1>1
  <1>3. Len(s) + 1 \in DOMAIN t
    BY <1>1
  <1> QED
    BY <1>1, <1>2, <1>3 DEF Reads, t

(* Reading the first message. *)
LEMMA TailReads ==
    ASSUME NEW M, NEW s \in Seq(M), s # <<>>, NEW q, NEW b, NEW v, Reads(s, q, b, v)
    PROVE  Reads(Tail(s), q, IF About(Head(s), q) THEN Says(Head(s)) ELSE b, v)
  <1> DEFINE t == Tail(s)
             c == IF About(Head(s), q) THEN Says(Head(s)) ELSE b
  <1>1. /\ DOMAIN s = 1 .. Len(s) /\ Len(s) \in Nat \ {0} /\ DOMAIN t = 1 .. Len(s) - 1
        /\ Head(s) = s[1] /\ \A i \in 1 .. Len(s) - 1 : t[i] = s[i + 1]
    OBVIOUS
  <1>0. c = IF About(s[1], q) THEN Says(s[1]) ELSE b
    BY <1>1
  <1> HIDE DEF t, c
  <1>2. CASE v = b /\ \A i \in DOMAIN s : ~About(s[i], q)
    <2>1. \A i \in DOMAIN t : ~About(t[i], q)
      BY <1>1, <1>2
    <2>2. c = v
      BY <1>0, <1>1, <1>2
    <2>3. Reads(t, q, c, v)
      BY <2>1, <2>2 DEF Reads
    <2> QED
      BY <2>3 DEF t, c
  <1>3. CASE \E i \in DOMAIN s : About(s[i], q) /\ Says(s[i]) = v /\ \A j \in DOMAIN s : j > i => ~About(s[j], q)
    <2>1. PICK i \in DOMAIN s : About(s[i], q) /\ Says(s[i]) = v /\ \A j \in DOMAIN s : j > i => ~About(s[j], q)
      BY <1>3
    <2>2. CASE i = 1
      <3>1. \A j \in DOMAIN t : ~About(t[j], q)
        <4> SUFFICES ASSUME NEW j \in DOMAIN t PROVE ~About(t[j], q)
          OBVIOUS
        <4>1. j + 1 \in DOMAIN s /\ j + 1 > i /\ t[j] = s[j + 1]
          BY <1>1, <2>2
        <4> QED
          BY <2>1, <4>1
      <3>2. c = v
        BY <1>0, <2>1, <2>2
      <3>3. Reads(t, q, c, v)
        BY <3>1, <3>2 DEF Reads
      <3> QED
        BY <3>3 DEF t, c
    <2>3. CASE i # 1
      <3>1. i - 1 \in DOMAIN t /\ t[i - 1] = s[i]
        BY <1>1, <2>3
      <3>2. \A j \in DOMAIN t : j > i - 1 => ~About(t[j], q)
        <4> SUFFICES ASSUME NEW j \in DOMAIN t, j > i - 1 PROVE ~About(t[j], q)
          OBVIOUS
        <4>1. j + 1 \in DOMAIN s /\ j + 1 > i /\ t[j] = s[j + 1]
          BY <1>1
        <4> QED
          BY <2>1, <4>1
      <3>3. Reads(t, q, c, v)
        BY <2>1, <3>1, <3>2 DEF Reads
      <3> QED
        BY <3>3 DEF t, c
    <2> QED
      BY <2>2, <2>3
  <1> QED
    BY <1>2, <1>3 DEF Reads

(* Nothing to read. *)
LEMMA EmptyReads ==
    ASSUME NEW q, NEW b
    PROVE  Reads(<<>>, q, b, b) /\ NoHello(<<>>) /\ \A c : ~In(<<>>, c)
  BY DEF Reads, NoHello, In

(* Who is left after the first. *)
LEMMA InTail ==
    ASSUME NEW M, NEW s \in Seq(M), s # <<>>, NEW c
    PROVE  /\ In(Tail(s), c) => In(s, c)
           /\ In(s, c) => c = Head(s) \/ In(Tail(s), c)
           /\ In(s, Head(s))
  <1> DEFINE t == Tail(s)
  <1>1. /\ DOMAIN s = 1 .. Len(s) /\ Len(s) \in Nat \ {0} /\ DOMAIN t = 1 .. Len(s) - 1
        /\ Head(s) = s[1] /\ \A i \in 1 .. Len(s) - 1 : t[i] = s[i + 1]
    OBVIOUS
  <1> HIDE DEF t
  <1>2. In(t, c) => In(s, c)
    <2> SUFFICES ASSUME NEW i \in DOMAIN t, t[i] = c PROVE In(s, c)
      BY DEF In
    <2>1. i + 1 \in DOMAIN s /\ s[i + 1] = c
      BY <1>1
    <2> QED
      BY <2>1 DEF In
  <1>3. In(s, c) => c = s[1] \/ In(t, c)
    <2> SUFFICES ASSUME NEW i \in DOMAIN s, s[i] = c, i # 1 PROVE In(t, c)
      BY DEF In
    <2>1. i - 1 \in DOMAIN t /\ t[i - 1] = c
      BY <1>1
    <2> QED
      BY <2>1 DEF In
  <1>4. In(s, s[1])
    BY <1>1 DEF In
  <1> QED
    BY <1>1, <1>2, <1>3, <1>4 DEF t

(* The same for Hello. *)
LEMMA NoHelloKept ==
    ASSUME NEW M, NEW s \in Seq(M)
    PROVE  /\ s # <<>> /\ NoHello(s) => NoHello(Tail(s)) /\ Head(s).kind # "Hello"
           /\ \A m \in M : NoHello(s) /\ m.kind # "Hello" => NoHello(Append(s, m))
           /\ \A m \in M : s # <<>> => Tail(Append(s, m)) = Append(Tail(s), m) /\ Head(Append(s, m)) = Head(s)
  <1>1. ASSUME s # <<>>, NoHello(s)
        PROVE  NoHello(Tail(s)) /\ Head(s).kind # "Hello"
    <2>1. /\ DOMAIN s = 1 .. Len(s) /\ Len(s) \in Nat \ {0} /\ DOMAIN Tail(s) = 1 .. Len(s) - 1
          /\ Head(s) = s[1] /\ \A i \in 1 .. Len(s) - 1 : Tail(s)[i] = s[i + 1]
      BY <1>1
    <2>2. \A i \in DOMAIN Tail(s) : i + 1 \in DOMAIN s
      BY <2>1
    <2> QED
      BY <1>1, <2>1, <2>2 DEF NoHello
  <1>2. ASSUME NEW m \in M, NoHello(s), m.kind # "Hello"
        PROVE  NoHello(Append(s, m))
    BY <1>2 DEF NoHello
  <1>3. ASSUME NEW m \in M, s # <<>>
        PROVE  Tail(Append(s, m)) = Append(Tail(s), m) /\ Head(Append(s, m)) = Head(s)
    BY <1>3
  <1> QED
    BY <1>1, <1>2, <1>3

(* A copy of the members of the room names each of them. *)
LEMMA OrdersAll ==
    ASSUME NEW S, IsFiniteSet(S), NEW s \in Orders(S)
    PROVE  s \in Seq(S) /\ \A c : In(s, c) <=> c \in S
  <1> DEFINE n == Cardinality(S)
  <1>1. n \in Nat
    BY FS_CardinalityType
  <1>2. s \in [1 .. n -> S] /\ \A i, j \in 1 .. n : s[i] = s[j] => i = j
    BY DEF Orders
  <1>3. s \in Injection(1 .. n, S)
    BY <1>2 DEF Injection, IsInjective
  <1>4. Cardinality(1 .. n) = n
    BY <1>1, FS_Interval
  <1>5. s \in Surjection(1 .. n, S)
    BY <1>3, <1>4, FS_Injection
  <1>6. \A c \in S : \E i \in 1 .. n : s[i] = c
    BY <1>5 DEF Surjection
  <1>7. s \in Seq(S) /\ DOMAIN s = 1 .. n
    BY <1>1, <1>2
  <1> HIDE DEF n
  <1> QED
    BY <1>2, <1>6, <1>7 DEF In

-----------------------------------------------------------------------------
(* Types *)

TaskRecords ==
    [pc : {"idle", "join", "hello", "run", "leave", "left", "done", "refused"},
     todo : Seq(Clients), peers : [Clients -> 0..MaxInfo]]
RecvRecords ==
    [pc : {"off", "read", "update", "sdp", "fan", "err", "ended"},
     todo : Seq(Clients), msg : Messages, aborted : BOOLEAN]
ClientRecords ==
    [pc : {"off", "connecting", "open", "closed", "failed"}, buf : Messages,
     view : [Clients -> 0..MaxInfo], first : {"none", "hello", "other"}]

(* The bounds are numbers, and 0 stands for no information. *)
LEMMA Bounds ==
    /\ MaxInfo \in Nat \ {0} /\ QueueCapacity \in Nat \ {0} /\ LinkCapacity \in Nat \ {0}
    /\ MaxConnections \in Nat \ {0} /\ MaxRequests \in Nat
    /\ NoPeers \in [Clients -> 0..MaxInfo] /\ 0 \in 0..MaxInfo /\ 1 \in 0..MaxInfo
  <1>1. /\ MaxInfo \in Nat \ {0} /\ QueueCapacity \in Nat \ {0} /\ LinkCapacity \in Nat \ {0}
        /\ MaxConnections \in Nat \ {0} /\ MaxRequests \in Nat
    BY SignalingAssumption
  <1> QED
    BY <1>1 DEF NoPeers

(* The messages that are sent are messages. *)
LEMMA MessageTypes ==
    ASSUME NEW c \in Clients, NEW i \in 0..MaxInfo,
           NEW k \in {"None", "Join", "Update", "Left", "Sdp", "Error"}
    PROVE  /\ Msg(k, c, i) \in Messages
           /\ Msg(k, c, i).kind = k /\ Msg(k, c, i).of = c /\ Msg(k, c, i).info = i
           /\ NoMsg(c) \in Messages /\ NoMsg(c).kind = "None" /\ NoMsg(c).of = c
           /\ \A p \in [Clients -> 0..MaxInfo] :
                 HelloMsg(c, p) \in Messages /\ HelloMsg(c, p).kind = "Hello" /\ HelloMsg(c, p).peers = p
  BY Bounds DEF Msg, NoMsg, HelloMsg, Messages

(* A receiving task that waits at pc is a record of its type with nothing to forward. *)
LEMMA IdleTypes ==
    ASSUME NEW c \in Clients, NEW pc \in {"off", "read", "update", "sdp", "fan", "err", "ended"}
    PROVE  /\ Idle(pc, c) \in RecvRecords /\ Idle(pc, c).pc = pc /\ Idle(pc, c).todo = <<>>
           /\ Idle(pc, c).msg.kind = "None" /\ Idle(pc, c).msg.of = c /\ ~Idle(pc, c).aborted
  BY Bounds, MessageTypes DEF Idle, RecvRecords

(* A client at pc without a connection is a record of its type that has seen nothing. *)
LEMMA ClientTypes ==
    ASSUME NEW c \in Clients, NEW pc \in {"off", "connecting", "open", "closed", "failed"}
    PROVE  /\ NoClient(pc, c) \in ClientRecords /\ NoClient(pc, c).pc = pc
           /\ NoClient(pc, c).buf.kind = "None" /\ NoClient(pc, c).view = NoPeers
           /\ NoClient(pc, c).first = "none"
  BY Bounds, MessageTypes DEF NoClient, ClientRecords

(* TypeOK with its records named. *)
Typed ==
    /\ room \in [Clients -> 0..MaxInfo] /\ Cardinality(Members) <= MaxConnections
    /\ count \in 0..MaxRequests
    /\ task \in [Clients -> TaskRecords] /\ recv \in [Clients -> RecvRecords]
    /\ chan \in [Clients -> Seq(Messages)] /\ rx \in [Clients -> {"held", "task", "gone"}]
    /\ link \in [Clients -> Seq(Messages)] /\ up \in [Clients -> BOOLEAN]
    /\ client \in [Clients -> ClientRecords] /\ late \subseteq Clients
    /\ \A c \in Clients : Len(chan[c]) <= QueueCapacity /\ Len(link[c]) <= LinkCapacity

(* The typing by functions is the type invariant, also after a step. *)
LEMMA TypedIs == (TypeOK <=> Typed) /\ (TypeOK' <=> Typed')
  BY DEF Typed, TypeOK, TaskRecords, RecvRecords, ClientRecords

(* What the type invariant says of each variable. *)
LEMMA RecordsTyped ==
    ASSUME TypeOK
    PROVE  /\ room \in [Clients -> 0..MaxInfo] /\ task \in [Clients -> TaskRecords]
           /\ recv \in [Clients -> RecvRecords] /\ client \in [Clients -> ClientRecords]
           /\ chan \in [Clients -> Seq(Messages)] /\ link \in [Clients -> Seq(Messages)]
           /\ rx \in [Clients -> {"held", "task", "gone"}] /\ up \in [Clients -> BOOLEAN]
  BY TypedIs DEF Typed

(* A handler, and a reading task, goes on to another point. *)
LEMMA TaskMoves ==
    ASSUME TypeOK, NEW c \in Clients, NEW pc \in {"hello", "leave", "left", "done", "refused"},
           task' = [task EXCEPT ![c].pc = pc]
    PROVE  /\ task' \in [Clients -> TaskRecords]
           /\ task'[c].pc = pc /\ task'[c].todo = task[c].todo /\ task'[c].peers = task[c].peers
           /\ \A x \in Clients : x # c => task'[x] = task[x]
  <1>1. task \in [Clients -> TaskRecords]
    BY RecordsTyped
  <1> QED
    BY <1>1 DEF TaskRecords

(* A receiving task that only moves to another pc. *)
LEMMA RecvMoves ==
    ASSUME TypeOK, NEW c \in Clients, NEW pc \in {"read", "update", "sdp", "fan"},
           recv' = [recv EXCEPT ![c].pc = pc]
    PROVE  /\ recv' \in [Clients -> RecvRecords]
           /\ recv'[c].pc = pc /\ recv'[c].todo = recv[c].todo /\ recv'[c].msg = recv[c].msg
           /\ recv'[c].aborted = recv[c].aborted
           /\ \A x \in Clients : x # c => recv'[x] = recv[x]
  <1>1. recv \in [Clients -> RecvRecords]
    BY RecordsTyped
  <1> QED
    BY <1>1 DEF RecvRecords

(* The reading task becomes idle or ends. *)
LEMMA RecvIdles ==
    ASSUME TypeOK, NEW c \in Clients, NEW pc \in {"read", "ended"}, recv' = [recv EXCEPT ![c] = Idle(pc, c)]
    PROVE  /\ recv' \in [Clients -> RecvRecords]
           /\ recv'[c].pc = pc /\ recv'[c].todo = <<>> /\ recv'[c].msg.kind = "None"
           /\ recv'[c].msg.of = c /\ ~recv'[c].aborted
           /\ \A x \in Clients : x # c => recv'[x] = recv[x]
  <1>1. recv \in [Clients -> RecvRecords]
    BY RecordsTyped
  <1>2. recv'[c] = Idle(pc, c) /\ \A x \in Clients : x # c => recv'[x] = recv[x]
    BY <1>1
  <1>3. /\ Idle(pc, c) \in RecvRecords /\ Idle(pc, c).pc = pc /\ Idle(pc, c).todo = <<>>
        /\ Idle(pc, c).msg.kind = "None" /\ Idle(pc, c).msg.of = c /\ ~Idle(pc, c).aborted
    BY IdleTypes
  <1> QED
    BY <1>1, <1>2, <1>3

(* What sending into a queue does. *)
LEMMA SendToIs ==
    ASSUME TypeOK, NEW q \in Clients, NEW m \in Messages, SendTo(q, m)
    PROVE  /\ chan' \in [Clients -> Seq(Messages)] /\ \A c \in Clients : Len(chan'[c]) <= QueueCapacity
           /\ \A c \in Clients : c # q => chan'[c] = chan[c]
           /\ chan'[q] = Append(chan[q], m) \/ (rx[q] = "gone" /\ chan'[q] = chan[q])
  <1>0. /\ chan \in [Clients -> Seq(Messages)] /\ QueueCapacity \in Nat
        /\ \A c \in Clients : Len(chan[c]) <= QueueCapacity
    BY Bounds, TypedIs DEF Typed
  <1>1. CASE HasRoom(q) /\ chan' = [chan EXCEPT ![q] = Append(@, m)]
    <2>1. Append(chan[q], m) \in Seq(Messages) /\ Len(Append(chan[q], m)) <= QueueCapacity
      BY <1>0, <1>1 DEF HasRoom
    <2> QED
      BY <1>0, <1>1, <2>1
  <1>2. CASE rx[q] = "gone" /\ UNCHANGED chan
    BY <1>0, <1>2
  <1> QED
    BY <1>1, <1>2 DEF SendTo

(* The invariant holds initially. *)
LEMMA InitInv == Init => IInv
  <1> SUFFICES ASSUME Init PROVE IInv
    OBVIOUS
  <1>0. Members = {} /\ IsFiniteSet(Members) /\ Cardinality(Members) = 0
    BY FS_EmptySet DEF Init, NoPeers, Members
  <1>1. TypeOK
    <2>1. task \in [Clients -> TaskRecords]
      BY Bounds DEF Init, TaskRecords
    <2>2. recv \in [Clients -> RecvRecords]
      BY IdleTypes DEF Init
    <2>3. client \in [Clients -> ClientRecords]
      BY ClientTypes DEF Init
    <2> QED
      BY <1>0, <2>1, <2>2, <2>3, Bounds, TypedIs DEF Typed, Init
  <1>2. \A c \in Clients : /\ task[c].pc = "idle" /\ task[c].todo = <<>> /\ recv[c] = Idle("off", c)
                           /\ chan[c] = <<>> /\ link[c] = <<>> /\ client[c] = NoClient("off", c)
                           /\ rx[c] = "held" /\ ~up[c]
    BY DEF Init
  <1>3. NoGhosts
    BY <1>0, <1>2 DEF NoGhosts
  <1>8. \A c \in Clients : /\ recv[c].pc = "off" /\ recv[c].todo = <<>> /\ recv[c].msg.kind = "None"
                           /\ recv[c].msg.of = c /\ ~recv[c].aborted
    BY <1>2, IdleTypes
  <1>9. \A c \in Clients : /\ client[c].pc = "off" /\ client[c].buf.kind = "None"
                           /\ client[c].view = NoPeers /\ client[c].first = "none"
    BY <1>2, ClientTypes
  <1>4. TodoEntered
    BY <1>2, <1>8, <1>9, EmptyReads DEF TodoEntered, Untouched
  <1>5. Reading
    BY <1>2, <1>8 DEF Reading, Starting, Leaving
  <1>6. Current
    BY <1>2, <1>8 DEF Current
  <1>7. OneHello /\ FirstTells /\ WillSee
    BY <1>2, <1>9 DEF OneHello, FirstTells, WillSee, Clean
  <1> QED
    BY <1>0, <1>1, <1>3, <1>4, <1>5, <1>6, <1>7 DEF IInv, RoomInv

-----------------------------------------------------------------------------
(* The steps keep the invariant of the room *)

(* Members have entered. *)
LEMMA MembersEntered ==
    ASSUME NoGhosts, NEW c \in Members
    PROVE  c \in Clients /\ Entered(c)
  BY DEF NoGhosts, Entered, Members

(* What a step must not do to the peers that nobody has let in yet. *)
LEMMA TodoKept ==
    ASSUME TodoEntered,
           \A c \in Clients : Entered(c) => Entered(c)',
           \A q, c \in Clients : In(task'[q].todo, c) => In(task[q].todo, c) \/ Entered(c)',
           \A q, c \in Clients : In(recv'[q].todo, c) => In(recv[q].todo, c) \/ Entered(c)',
           \A c \in Clients : ~Entered(c)' =>
               /\ chan'[c] = chan[c] /\ link'[c] = link[c] /\ up'[c] = up[c]
               /\ client'[c].view = client[c].view /\ client'[c].buf = client[c].buf
               /\ client'[c].first = client[c].first /\ client'[c].pc \in {client[c].pc, "failed"}
    PROVE  TodoEntered'
  <1>1. \A c \in Clients : ~Entered(c)' => Untouched(c)'
    BY DEF TodoEntered, Untouched
  <1>2. \A q, c \in Clients : In(task[q].todo, c)' \/ In(recv[q].todo, c)' => Entered(c)'
    BY DEF TodoEntered, In
  <1> QED
    BY <1>1, <1>2 DEF TodoEntered

(* A connection enters the room. *)
LEMMA RoomEnter ==
    ASSUME RoomInv, NEW c \in Clients, Enter(c)
    PROVE  RoomInv'
  <1> USE DEF RoomInv
  <1>0. /\ task[c].pc = "idle" /\ ~Refused /\ room' = [room EXCEPT ![c] = 1] /\ count' = count + 1
        /\ up' = [up EXCEPT ![c] = TRUE] /\ client' = [client EXCEPT ![c].pc = "connecting"]
        /\ UNCHANGED <<recv, chan, rx, link, late>>
    BY DEF Enter
  <1>1. PICK order \in Orders(Members) : task' = [task EXCEPT ![c] = [pc |-> "join", todo |-> order, peers |-> room]]
    BY DEF Enter
  <1>2. order \in Seq(Members) /\ \A x : In(order, x) <=> x \in Members
    BY OrdersAll
  <1>3. order \in Seq(Clients)
    BY <1>2 DEF Members
  <1>4. Members' = Members \cup {c}
    <2>1. room \in [Clients -> 0..MaxInfo]
      BY TypedIs DEF Typed
    <2>2. room' = [room EXCEPT ![c] = 1]
      BY <1>0
    <2> QED
      BY <2>1, <2>2, Bounds DEF Members
  <1>5. IsFiniteSet(Members') /\ Cardinality(Members') <= MaxConnections
    <2>1. Cardinality(Members) \in Nat
      BY FS_CardinalityType
    <2>2. /\ IsFiniteSet(Members \cup {c})
          /\ Cardinality(Members \cup {c}) = IF c \in Members THEN Cardinality(Members) ELSE Cardinality(Members) + 1
      BY FS_AddElement
    <2>3. Cardinality(Members) < MaxConnections
      BY <1>0, <2>1, Bounds DEF Refused
    <2> QED
      BY <1>4, <2>1, <2>2, <2>3, Bounds
  <1>6. count' \in 0..MaxRequests
    BY <1>0, Bounds, TypedIs DEF Typed, Refused
  <1>7. client' \in [Clients -> ClientRecords]
    BY <1>0, TypedIs DEF Typed, ClientRecords
  <1>8. task' \in [Clients -> TaskRecords]
    BY <1>1, <1>3, TypedIs DEF Typed, TaskRecords
  <1>9. room' \in [Clients -> 0..MaxInfo] /\ up' \in [Clients -> BOOLEAN]
    BY <1>0, Bounds, TypedIs DEF Typed
  <1>10. TypeOK'
    BY <1>0, <1>5, <1>6, <1>7, <1>8, <1>9, TypedIs DEF Typed
  <1>11. /\ task'[c].pc = "join" /\ task'[c].todo = order
         /\ \A x \in Clients : x # c => /\ task'[x] = task[x] /\ room'[x] = room[x]
                                        /\ client'[x] = client[x] /\ up'[x] = up[x]
         /\ room'[c] = 1
    BY <1>0, <1>1, TypedIs DEF Typed
  <1>12. NoGhosts'
    BY <1>4, <1>11 DEF NoGhosts
  <1>13. TodoEntered'
    <2>1. \A x \in Clients : Entered(x) => Entered(x)'
      BY <1>11 DEF Entered
    <2>2. \A x \in Members : Entered(x)'
      BY <2>1, MembersEntered
    <2>3. Entered(c)'
      BY <1>11 DEF Entered
    <2> QED
      BY <1>0, <1>2, <1>11, <2>1, <2>2, <2>3, TodoKept
  <1>14. Reading'
    BY <1>0, <1>11 DEF Reading, Starting, Leaving
  <1>15. Current'
    BY <1>0, <1>11 DEF Current, Reading, Starting
  <1> QED
    BY <1>5, <1>10, <1>12, <1>13, <1>14, <1>15

(* A step that leaves the room alone. *)
LEMMA RoomSame ==
    ASSUME RoomInv, UNCHANGED room,
           TypeOK', TodoEntered', Reading', Current',
           \A c \in Clients : task'[c].pc \in {"join", "hello", "run", "leave"} <=> task[c].pc \in {"join", "hello", "run", "leave"}
    PROVE  RoomInv'
  <1>1. Members' = Members
    BY DEF Members
  <1> QED
    BY <1>1 DEF RoomInv, NoGhosts

(* A connection is refused. *)
LEMMA RoomRefused ==
    ASSUME RoomInv, NEW c \in Clients, EnterRefused(c) \/ EnterMalformed(c)
    PROVE  RoomInv'
  <1> USE DEF RoomInv
  <1>0. /\ task[c].pc = "idle" /\ task' = [task EXCEPT ![c].pc = "refused"]
        /\ client' = [client EXCEPT ![c].pc = "failed"]
        /\ UNCHANGED <<room, count, recv, chan, rx, link, up, late>>
    BY DEF EnterRefused, EnterMalformed
  <1>1. task' \in [Clients -> TaskRecords] /\ client' \in [Clients -> ClientRecords]
    <2>1. task' \in [Clients -> TaskRecords]
      BY <1>0, TypedIs DEF Typed, TaskRecords
    <2>2. client' \in [Clients -> ClientRecords]
      BY <1>0, TypedIs DEF Typed, ClientRecords
    <2> QED
      BY <2>1, <2>2
  <1>2. TypeOK'
    BY <1>0, <1>1, TypedIs DEF Typed, Members
  <1>3. /\ task'[c].pc = "refused" /\ task'[c].todo = task[c].todo
        /\ client'[c].pc = "failed" /\ client'[c].view = client[c].view
        /\ client'[c].buf = client[c].buf /\ client'[c].first = client[c].first
        /\ \A x \in Clients : x # c => task'[x] = task[x] /\ client'[x] = client[x]
    BY <1>0, TypedIs DEF Typed, TaskRecords, ClientRecords
  <1>4. TodoEntered'
    <2>1. \A x \in Clients : Entered(x) => Entered(x)'
      BY <1>0, <1>3 DEF Entered
    <2> QED
      BY <1>0, <1>3, <2>1, TodoKept
  <1>5. Reading' /\ Current'
    BY <1>0, <1>3 DEF Reading, Current, Starting, Leaving
  <1> QED
    BY <1>0, <1>2, <1>3, <1>4, <1>5, RoomSame

(* What the sending of Join and Left changes: the peers still to be told    *)
(* and the queue of the one that is.                                        *)
LEMMA SendStep ==
    ASSUME RoomInv, NEW c \in Clients, NEW m \in Messages,
           task[c].todo # <<>>, SendTo(Head(task[c].todo), m),
           task' = [task EXCEPT ![c].todo = Tail(@)]
    PROVE  /\ Head(task[c].todo) \in Clients /\ Entered(Head(task[c].todo))
           /\ task' \in [Clients -> TaskRecords]
           /\ task'[c].pc = task[c].pc /\ task'[c].peers = task[c].peers /\ task'[c].todo = Tail(task[c].todo)
           /\ \A x \in Clients : x # c => task'[x] = task[x]
           /\ chan' \in [Clients -> Seq(Messages)] /\ \A x \in Clients : Len(chan'[x]) <= QueueCapacity
           /\ \A x \in Clients : x # Head(task[c].todo) => chan'[x] = chan[x]
  <1>1. task \in [Clients -> TaskRecords] /\ task[c] \in TaskRecords /\ task[c].todo \in Seq(Clients)
    BY TypedIs DEF RoomInv, Typed, TaskRecords
  <1>2. Head(task[c].todo) \in Clients /\ Tail(task[c].todo) \in Seq(Clients)
    BY <1>1
  <1>3. Entered(Head(task[c].todo))
    BY <1>1, <1>2, InTail DEF RoomInv, TodoEntered
  <1>4. /\ task' \in [Clients -> TaskRecords]
        /\ task'[c].pc = task[c].pc /\ task'[c].peers = task[c].peers /\ task'[c].todo = Tail(task[c].todo)
        /\ \A x \in Clients : x # c => task'[x] = task[x]
    BY <1>1, <1>2 DEF TaskRecords
  <1> QED
    BY <1>2, <1>3, <1>4, SendToIs DEF RoomInv

(* The join to one of the others, by the handler before it listens. *)
LEMMA RoomSendJoin ==
    ASSUME RoomInv, NEW c \in Clients, SendJoin(c)
    PROVE  RoomInv'
  <1>0. task[c].pc = "join" /\ UNCHANGED <<room, count, recv, rx, link, up, client, late>>
    BY DEF SendJoin
  <1>1. CASE task[c].todo = <<>> /\ task' = [task EXCEPT ![c].pc = "hello"] /\ UNCHANGED chan
    <2>1. /\ task' \in [Clients -> TaskRecords]
          /\ task'[c].pc = "hello" /\ task'[c].todo = task[c].todo
          /\ \A x \in Clients : x # c => task'[x] = task[x]
      BY <1>1, TaskMoves DEF RoomInv
    <2>2. TypeOK'
      BY <1>0, <1>1, <2>1, TypedIs DEF RoomInv, Typed, Members
    <2>3. TodoEntered'
      BY <1>0, <1>1, <2>1, TodoKept DEF RoomInv, Entered
    <2>4. Reading' /\ Current'
      BY <1>0, <2>1 DEF RoomInv, Reading, Current, Starting, Leaving
    <2> QED
      BY <1>0, <2>1, <2>2, <2>3, <2>4, RoomSame
  <1>2. CASE /\ task[c].todo # <<>> /\ SendTo(Head(task[c].todo), Msg("Join", c, 1))
             /\ task' = [task EXCEPT ![c].todo = Tail(@)]
    <2>0. Msg("Join", c, 1) \in Messages
      BY Bounds, MessageTypes
    <2>1. /\ Head(task[c].todo) \in Clients /\ Entered(Head(task[c].todo))
          /\ task' \in [Clients -> TaskRecords]
          /\ task'[c].pc = task[c].pc /\ task'[c].peers = task[c].peers /\ task'[c].todo = Tail(task[c].todo)
          /\ \A x \in Clients : x # c => task'[x] = task[x]
          /\ chan' \in [Clients -> Seq(Messages)] /\ \A x \in Clients : Len(chan'[x]) <= QueueCapacity
          /\ \A x \in Clients : x # Head(task[c].todo) => chan'[x] = chan[x]
      BY <1>2, <2>0, SendStep
    <2>2. TypeOK'
      BY <1>0, <2>1, TypedIs DEF RoomInv, Typed, Members
    <2>3. TodoEntered'
      <3>1. \A x \in Clients : Entered(x)' <=> Entered(x)
        BY <2>1 DEF Entered
      <3>2. \A x \in Clients : In(task'[c].todo, x) => In(task[c].todo, x)
        BY <1>2, <2>1, InTail, TypedIs DEF RoomInv, Typed, TaskRecords
      <3> QED
        BY <1>0, <2>1, <3>1, <3>2, TodoKept DEF RoomInv
    <2>4. \A x \in Clients : task'[x].pc = task[x].pc
      BY <2>1
    <2>5. Reading'
      BY <1>0, <2>4 DEF RoomInv, Reading, Starting, Leaving
    <2>6. Current'
      BY <1>0, <2>4 DEF RoomInv, Current
    <2> QED
      BY <1>0, <2>2, <2>3, <2>4, <2>5, <2>6, RoomSame
  <1> QED
    BY <1>1, <1>2 DEF SendJoin

(* The handler puts its Hello into the channel of its own client. *)
LEMMA RoomSayHello ==
    ASSUME RoomInv, NEW c \in Clients, SayHello(c)
    PROVE  RoomInv'
  <1>0. /\ task[c].pc = "hello" /\ UNCHANGED <<room, count, link, up, client, late>>
        /\ Len(chan[c]) < QueueCapacity
        /\ chan' = [chan EXCEPT ![c] = Append(chan[c], HelloMsg(c, task[c].peers))]
    BY DEF SayHello, HasRoom
  <1>1. task' = [task EXCEPT ![c] = [@ EXCEPT !.pc = "run", !.peers = NoPeers]]
    BY DEF SayHello
  <1>2. rx' = [rx EXCEPT ![c] = "task"] /\ recv' = [recv EXCEPT ![c] = Idle("read", c)]
    BY DEF SayHello
  <1>3. task[c].peers \in [Clients -> 0..MaxInfo] /\ chan[c] \in Seq(Messages)
    BY TypedIs DEF RoomInv, Typed, TaskRecords
  <1>4. /\ task' \in [Clients -> TaskRecords]
        /\ task'[c].pc = "run" /\ task'[c].todo = task[c].todo
        /\ \A x \in Clients : x # c => task'[x] = task[x]
    <2>1. task \in [Clients -> TaskRecords]
      BY RecordsTyped DEF RoomInv
    <2> QED
      BY <1>1, <2>1, Bounds DEF TaskRecords
  <1>5. /\ recv' \in [Clients -> RecvRecords] /\ rx' \in [Clients -> {"held", "task", "gone"}]
        /\ recv'[c].pc = "read" /\ recv'[c].todo = <<>> /\ recv'[c].msg.kind = "None"
        /\ recv'[c].msg.of = c /\ ~recv'[c].aborted
        /\ \A x \in Clients : x # c => recv'[x] = recv[x] /\ rx'[x] = rx[x]
    <2>1. rx \in [Clients -> {"held", "task", "gone"}]
      BY RecordsTyped DEF RoomInv
    <2>2. rx' \in [Clients -> {"held", "task", "gone"}] /\ \A x \in Clients : x # c => rx'[x] = rx[x]
      BY <1>2, <2>1
    <2> QED
      BY <1>2, <2>2, RecvIdles DEF RoomInv
  <1>6. /\ chan' \in [Clients -> Seq(Messages)] /\ \A x \in Clients : Len(chan'[x]) <= QueueCapacity
        /\ \A x \in Clients : x # c => chan'[x] = chan[x]
    <2>1. HelloMsg(c, task[c].peers) \in Messages
      BY <1>3, MessageTypes, Bounds
    <2>2. /\ Append(chan[c], HelloMsg(c, task[c].peers)) \in Seq(Messages)
          /\ Len(Append(chan[c], HelloMsg(c, task[c].peers))) <= QueueCapacity
      BY <1>0, <1>3, <2>1, Bounds
    <2> QED
      BY <1>0, <2>2, TypedIs DEF RoomInv, Typed
  <1>7. TypeOK'
    BY <1>0, <1>4, <1>5, <1>6, TypedIs DEF RoomInv, Typed, Members
  <1>8. TodoEntered'
    <2>1. \A x \in Clients : Entered(x)' <=> Entered(x)
      BY <1>0, <1>4 DEF Entered
    <2>2. Entered(c)
      BY <1>0 DEF Entered
    <2>3. \A q, x \in Clients : In(recv'[q].todo, x) => In(recv[q].todo, x)
      BY <1>5, EmptyReads
    <2> QED
      BY <1>0, <1>4, <1>6, <2>1, <2>2, <2>3, TodoKept DEF RoomInv
  <1>9. Reading' /\ Current'
    BY <1>0, <1>4, <1>5 DEF RoomInv, Reading, Current, Starting, Leaving
  <1> QED
    BY <1>0, <1>4, <1>7, <1>8, <1>9, RoomSame

(* One of the two tasks has ended, and the other one is aborted. *)
LEMMA RoomSelect ==
    ASSUME RoomInv, NEW c \in Clients, Select(c)
    PROVE  RoomInv'
  <1>0. task[c].pc = "run" /\ UNCHANGED <<room, count, link, up, client, late>>
    BY DEF Select
  <1>1. /\ task' \in [Clients -> TaskRecords]
        /\ task'[c].pc = "leave" /\ task'[c].todo = task[c].todo
        /\ \A x \in Clients : x # c => task'[x] = task[x]
    BY TaskMoves DEF Select, RoomInv
  <1>2. /\ rx' \in [Clients -> {"held", "task", "gone"}] /\ \A x \in Clients : x # c => rx'[x] = rx[x]
        /\ chan' \in [Clients -> Seq(Messages)] /\ \A x \in Clients : x # c => chan'[x] = chan[x]
        /\ chan'[c] = <<>>
    <2>1. rx' = [rx EXCEPT ![c] = "gone"] /\ chan' = [chan EXCEPT ![c] = <<>>]
      BY DEF Select
    <2>2. rx \in [Clients -> {"held", "task", "gone"}] /\ chan \in [Clients -> Seq(Messages)]
      BY RecordsTyped DEF RoomInv
    <2> QED
      BY <2>1, <2>2
  <1>3. /\ recv' \in [Clients -> RecvRecords]
        /\ \/ recv'[c].pc = "ended" /\ recv'[c].todo = <<>> /\ recv'[c].msg.kind = "None"
           \/ /\ recv'[c].aborted /\ recv'[c].pc = recv[c].pc /\ recv'[c].todo = recv[c].todo
              /\ recv'[c].msg.kind = recv[c].msg.kind
        /\ recv'[c].msg.of = c
        /\ \A x \in Clients : x # c => recv'[x] = recv[x]
    <2>1. CASE recv' = [recv EXCEPT ![c] = Idle("ended", c)]
      BY <2>1, RecvIdles DEF RoomInv
    <2>2. CASE recv' = [recv EXCEPT ![c].aborted = TRUE]
      <3>1. recv \in [Clients -> RecvRecords]
        BY RecordsTyped DEF RoomInv
      <3>2. recv[c].msg.of = c
        BY DEF RoomInv, Reading
      <3> QED
        BY <2>2, <3>1, <3>2 DEF RecvRecords
    <2> QED
      BY <2>1, <2>2 DEF Select
  <1>4. \A x \in Clients : Len(chan'[x]) <= QueueCapacity
    <2>1. (\A x \in Clients : Len(chan[x]) <= QueueCapacity) /\ Len(<<>>) <= QueueCapacity
      BY TypedIs, Bounds DEF RoomInv, Typed
    <2> QED
      BY <1>2, <2>1
  <1>5. TypeOK'
    BY <1>0, <1>1, <1>2, <1>3, <1>4, TypedIs DEF RoomInv, Typed, Members
  <1>6. TodoEntered'
    <2>1. \A x \in Clients : Entered(x)' <=> Entered(x)
      BY <1>0, <1>1 DEF Entered
    <2>2. Entered(c)
      BY <1>0 DEF Entered
    <2>3. \A q, x \in Clients : In(recv'[q].todo, x) => In(recv[q].todo, x)
      BY <1>3, EmptyReads
    <2> QED
      BY <1>0, <1>1, <1>2, <2>1, <2>2, <2>3, TodoKept DEF RoomInv
  <1>7. Reading'
    <2> SUFFICES ASSUME NEW x \in Clients
                 PROVE  /\ recv'[x].pc = "off" <=> Starting(x)'
                        /\ Starting(x)' => rx'[x] = "held"
                        /\ recv'[x].aborted => Leaving(x)'
                        /\ Leaving(x)' => recv'[x].aborted \/ recv'[x].pc = "ended"
                        /\ recv'[x].pc \notin {"fan", "err"} => recv'[x].todo = <<>>
                        /\ recv'[x].msg.of = x /\ recv'[x].msg.kind \in {"None", "Update", "Sdp", "Error"}
      BY DEF Reading
    <2>1. CASE x # c
      <3>1. task'[x] = task[x] /\ recv'[x] = recv[x] /\ rx'[x] = rx[x]
        BY <1>1, <1>2, <1>3, <2>1
      <3> QED
        BY <3>1 DEF RoomInv, Reading, Starting, Leaving
    <2>2. CASE x = c
      <3>1. recv[c].pc # "off"
        BY <1>0 DEF RoomInv, Reading, Starting
      <3> QED
        BY <1>0, <1>1, <1>2, <1>3, <2>2, <3>1 DEF RoomInv, Reading, Starting, Leaving
    <2> QED
      BY <2>1, <2>2
  <1>8. Current'
    BY <1>0, <1>1, <1>3 DEF RoomInv, Current
  <1> QED
    BY <1>0, <1>1, <1>5, <1>6, <1>7, <1>8, RoomSame

(* A copy of the other members. *)
LEMMA OthersOrder ==
    ASSUME RoomInv, NEW c \in Clients, NEW order \in Orders(Members \ {c})
    PROVE  order \in Seq(Clients) /\ \A x : In(order, x) <=> x \in Members \ {c}
  <1>1. IsFiniteSet(Members \ {c})
    BY FS_RemoveElement DEF RoomInv
  <1>2. order \in Seq(Members \ {c}) /\ \A x : In(order, x) <=> x \in Members \ {c}
    BY <1>1, OrdersAll
  <1>3. order \in Seq(Clients)
    BY <1>2 DEF Members
  <1> QED
    BY <1>2, <1>3

(* The handler leaves the room and lists who is to be told. *)
LEMMA RoomLeave ==
    ASSUME RoomInv, NEW c \in Clients, Leave(c)
    PROVE  RoomInv'
  <1>0. /\ task[c].pc = "leave" /\ room' = [room EXCEPT ![c] = 0]
        /\ UNCHANGED <<count, recv, chan, rx, link, up, client, late>>
    BY DEF Leave
  <1>1. PICK order \in Orders(Members \ {c}) : task' = [task EXCEPT ![c] = [@ EXCEPT !.pc = "left", !.todo = order]]
    BY DEF Leave
  <1>2. order \in Seq(Clients) /\ \A x : In(order, x) <=> x \in Members \ {c}
    BY OthersOrder
  <1>3. /\ task' \in [Clients -> TaskRecords]
        /\ task'[c].pc = "left" /\ task'[c].todo = order
        /\ \A x \in Clients : x # c => task'[x] = task[x]
    <2>1. task \in [Clients -> TaskRecords]
      BY RecordsTyped DEF RoomInv
    <2> QED
      BY <1>1, <1>2, <2>1 DEF TaskRecords
  <1>4. /\ room' \in [Clients -> 0..MaxInfo] /\ room'[c] = 0 /\ \A x \in Clients : x # c => room'[x] = room[x]
    <2>1. room \in [Clients -> 0..MaxInfo]
      BY RecordsTyped DEF RoomInv
    <2> QED
      BY <1>0, <2>1, Bounds
  <1>5. Members' = Members \ {c}
    BY <1>4 DEF Members
  <1>6. IsFiniteSet(Members') /\ Cardinality(Members') <= MaxConnections
    <2>1. IsFiniteSet(Members) /\ Cardinality(Members) <= MaxConnections /\ Cardinality(Members) \in Nat
      BY FS_CardinalityType, TypedIs DEF RoomInv, Typed
    <2>2. IsFiniteSet(Members \ {c}) /\ Cardinality(Members \ {c}) <= Cardinality(Members)
      BY <2>1, FS_Subset
    <2>3. Cardinality(Members \ {c}) \in Nat
      BY <2>2, FS_CardinalityType
    <2> QED
      BY <1>5, <2>1, <2>2, <2>3, Bounds
  <1>7. TypeOK'
    BY <1>0, <1>3, <1>4, <1>6, TypedIs DEF RoomInv, Typed
  <1>8. NoGhosts'
    BY <1>3, <1>5 DEF RoomInv, NoGhosts
  <1>9. TodoEntered'
    <2>1. \A x \in Clients : Entered(x)' <=> Entered(x)
      BY <1>0, <1>3 DEF Entered
    <2>2. \A x \in Members : Entered(x)
      BY MembersEntered DEF RoomInv
    <2> QED
      BY <1>0, <1>2, <1>3, <2>1, <2>2, TodoKept DEF RoomInv
  <1>10. Reading'
    BY <1>0, <1>3 DEF RoomInv, Reading, Starting, Leaving
  <1>11. Current'
    BY <1>0, <1>3, <1>4, Bounds DEF RoomInv, Current
  <1> QED
    BY <1>6, <1>7, <1>8, <1>9, <1>10, <1>11 DEF RoomInv

(* The connection is over for the client. *)
LEMMA ClosedTypes ==
    ASSUME TypeOK, NEW c \in Clients, up' = [up EXCEPT ![c] = FALSE], link' = [link EXCEPT ![c] = <<>>],
           client' = [client EXCEPT ![c] = NoClient("closed", c)]
    PROVE  /\ up' \in [Clients -> BOOLEAN] /\ link' \in [Clients -> Seq(Messages)]
           /\ client' \in [Clients -> ClientRecords]
           /\ \A x \in Clients : Len(link'[x]) <= LinkCapacity
           /\ \A x \in Clients : x # c => up'[x] = up[x] /\ link'[x] = link[x] /\ client'[x] = client[x]
           /\ ~up'[c] /\ client'[c].pc = "closed"
  <1>1. /\ up \in [Clients -> BOOLEAN] /\ link \in [Clients -> Seq(Messages)]
        /\ client \in [Clients -> ClientRecords] /\ \A x \in Clients : Len(link[x]) <= LinkCapacity
    BY TypedIs DEF Typed
  <1>2. NoClient("closed", c) \in ClientRecords /\ NoClient("closed", c).pc = "closed"
    BY ClientTypes
  <1>3. up' \in [Clients -> BOOLEAN] /\ (\A x \in Clients : x # c => up'[x] = up[x]) /\ ~up'[c]
    BY <1>1
  <1>4. link' \in [Clients -> Seq(Messages)] /\ \A x \in Clients : x # c => link'[x] = link[x]
    BY <1>1
  <1>5. \A x \in Clients : Len(link'[x]) <= LinkCapacity
    BY <1>1, <1>4, Bounds
  <1>6. /\ client' \in [Clients -> ClientRecords] /\ client'[c] = NoClient("closed", c)
        /\ \A x \in Clients : x # c => client'[x] = client[x]
    BY <1>1, <1>2
  <1> QED
    BY <1>2, <1>3, <1>4, <1>5, <1>6

(* Left to one of the others. *)
LEMMA RoomSendLeft ==
    ASSUME RoomInv, NEW c \in Clients, SendLeft(c)
    PROVE  RoomInv'
  <1>0. task[c].pc = "left" /\ UNCHANGED <<room, count, recv, rx, late>>
    BY DEF SendLeft
  <1>1. CASE /\ task[c].todo = <<>> /\ task' = [task EXCEPT ![c].pc = "done"]
             /\ up' = [up EXCEPT ![c] = FALSE] /\ link' = [link EXCEPT ![c] = <<>>]
             /\ client' = [client EXCEPT ![c] = NoClient("closed", c)] /\ UNCHANGED chan
    <2>1. /\ task' \in [Clients -> TaskRecords]
          /\ task'[c].pc = "done" /\ task'[c].todo = task[c].todo
          /\ \A x \in Clients : x # c => task'[x] = task[x]
      BY <1>1, TaskMoves DEF RoomInv
    <2>2. /\ up' \in [Clients -> BOOLEAN] /\ link' \in [Clients -> Seq(Messages)]
          /\ client' \in [Clients -> ClientRecords]
          /\ \A x \in Clients : Len(link'[x]) <= LinkCapacity
          /\ \A x \in Clients : x # c => up'[x] = up[x] /\ link'[x] = link[x] /\ client'[x] = client[x]
      BY <1>1, ClosedTypes DEF RoomInv
    <2>3. chan' = chan
      BY <1>1
    <2>4. TypeOK'
      BY <1>0, <2>1, <2>2, <2>3, TypedIs DEF RoomInv, Typed, Members
    <2>5. TodoEntered'
      <3>1. \A x \in Clients : Entered(x)' <=> Entered(x)
        BY <1>0, <2>1 DEF Entered
      <3>2. Entered(c)
        BY <1>0 DEF Entered
      <3> QED
        BY <1>0, <2>1, <2>2, <2>3, <3>1, <3>2, TodoKept DEF RoomInv
    <2>6. Reading'
      BY <1>0, <2>1 DEF RoomInv, Reading, Starting, Leaving
    <2>7. Current'
      BY <1>0, <2>1 DEF RoomInv, Current
    <2> QED
      BY <1>0, <2>1, <2>4, <2>5, <2>6, <2>7, RoomSame
  <1>2. CASE /\ task[c].todo # <<>> /\ SendTo(Head(task[c].todo), Msg("Left", c, 0))
             /\ task' = [task EXCEPT ![c].todo = Tail(@)] /\ UNCHANGED <<up, link, client>>
    <2>0. Msg("Left", c, 0) \in Messages
      BY Bounds, MessageTypes
    <2>1. /\ Head(task[c].todo) \in Clients /\ Entered(Head(task[c].todo))
          /\ task' \in [Clients -> TaskRecords]
          /\ task'[c].pc = task[c].pc /\ task'[c].peers = task[c].peers /\ task'[c].todo = Tail(task[c].todo)
          /\ \A x \in Clients : x # c => task'[x] = task[x]
          /\ chan' \in [Clients -> Seq(Messages)] /\ \A x \in Clients : Len(chan'[x]) <= QueueCapacity
          /\ \A x \in Clients : x # Head(task[c].todo) => chan'[x] = chan[x]
      BY <1>2, <2>0, SendStep
    <2>2. UNCHANGED <<up, link, client>>
      BY <1>2
    <2>3. TypeOK'
      BY <1>0, <2>1, <2>2, TypedIs DEF RoomInv, Typed, Members
    <2>4. \A x \in Clients : task'[x].pc = task[x].pc
      BY <2>1
    <2>5. TodoEntered'
      <3>1. \A x \in Clients : Entered(x)' <=> Entered(x)
        BY <2>4 DEF Entered
      <3>2. \A x \in Clients : In(task'[c].todo, x) => In(task[c].todo, x)
        BY <1>2, <2>1, InTail, TypedIs DEF RoomInv, Typed, TaskRecords
      <3> QED
        BY <1>0, <2>1, <2>2, <3>1, <3>2, TodoKept DEF RoomInv
    <2>6. Reading'
      BY <1>0, <2>4 DEF RoomInv, Reading, Starting, Leaving
    <2>7. Current'
      BY <1>0, <2>4 DEF RoomInv, Current
    <2> QED
      BY <1>0, <2>3, <2>4, <2>5, <2>6, <2>7, RoomSame
  <1> QED
    BY <1>1, <1>2 DEF SendLeft

(* The sending task: nothing but the queue, the link and their owner. *)
LEMMA RoomSendTask ==
    ASSUME RoomInv, NEW c \in Clients, SendTask(c) \/ SendTaskFails(c)
    PROVE  RoomInv'
  <1>0. UNCHANGED <<room, count, task, recv, up, client, late>> /\ rx[c] = "task" /\ chan[c] # <<>>
    BY DEF SendTask, SendTaskFails
  <1>1. ~Starting(c) /\ Entered(c)
    BY <1>0 DEF RoomInv, Reading, Starting, Entered
  <1>2. /\ chan \in [Clients -> Seq(Messages)] /\ link \in [Clients -> Seq(Messages)]
        /\ rx \in [Clients -> {"held", "task", "gone"}]
        /\ \A x \in Clients : Len(chan[x]) <= QueueCapacity /\ Len(link[x]) <= LinkCapacity
    BY TypedIs DEF RoomInv, Typed
  <1>3. /\ chan' \in [Clients -> Seq(Messages)] /\ link' \in [Clients -> Seq(Messages)]
        /\ rx' \in [Clients -> {"held", "task", "gone"}]
        /\ \A x \in Clients : Len(chan'[x]) <= QueueCapacity /\ Len(link'[x]) <= LinkCapacity
        /\ \A x \in Clients : x # c => chan'[x] = chan[x] /\ link'[x] = link[x] /\ rx'[x] = rx[x]
    <2>1. CASE SendTask(c)
      <3>1. /\ link' = [link EXCEPT ![c] = Append(link[c], Head(chan[c]))] /\ chan' = [chan EXCEPT ![c] = Tail(chan[c])]
            /\ Len(link[c]) < LinkCapacity /\ rx' = rx
        BY <2>1 DEF SendTask
      <3>2. Head(chan[c]) \in Messages /\ Tail(chan[c]) \in Seq(Messages) /\ Len(Tail(chan[c])) <= QueueCapacity
        BY <1>0, <1>2, Bounds
      <3>3. Append(link[c], Head(chan[c])) \in Seq(Messages) /\ Len(Append(link[c], Head(chan[c]))) <= LinkCapacity
        BY <1>2, <3>1, <3>2, Bounds
      <3> QED
        BY <1>2, <3>1, <3>2, <3>3
    <2>2. CASE SendTaskFails(c)
      <3>1. link' = link /\ chan' = [chan EXCEPT ![c] = <<>>] /\ rx' = [rx EXCEPT ![c] = "gone"]
        BY <2>2 DEF SendTaskFails
      <3>2. <<>> \in Seq(Messages) /\ Len(<<>>) <= QueueCapacity
        BY Bounds
      <3> QED
        BY <1>2, <3>1, <3>2
    <2> QED
      BY <2>1, <2>2
  <1>4. TypeOK'
    BY <1>0, <1>3, TypedIs DEF RoomInv, Typed, Members
  <1>5. TodoEntered'
    <2>1. \A x \in Clients : Entered(x)' <=> Entered(x)
      BY <1>0 DEF Entered
    <2> QED
      BY <1>0, <1>1, <1>3, <2>1, TodoKept DEF RoomInv
  <1>6. Reading'
    BY <1>0, <1>1, <1>3 DEF RoomInv, Reading, Starting, Leaving
  <1>7. Current'
    BY <1>0 DEF RoomInv, Current
  <1> QED
    BY <1>0, <1>4, <1>5, <1>6, <1>7, RoomSame

(* The client's end, and the hourly reset: the room's side is not touched. *)
LEMMA ApplyType ==
    ASSUME NEW view \in [Clients -> 0..MaxInfo], NEW m \in Messages
    PROVE  Apply(view, m) \in [Clients -> 0..MaxInfo]
  <1>1. m.peers \in [Clients -> 0..MaxInfo] /\ m.of \in Clients /\ m.info \in 0..MaxInfo
    BY DEF Messages
  <1> QED
    BY <1>1, Bounds DEF Apply

(* The client reads a message, or closes its connection. *)
LEMMA RoomClient ==
    ASSUME RoomInv, NEW c \in Clients, ClientRead(c) \/ Disconnect(c)
    PROVE  RoomInv'
  <1>0. UNCHANGED <<room, count, task, recv, chan, rx, late>>
    BY DEF ClientRead, Disconnect
  <1>1. Entered(c) \/ Disconnect(c)
    BY DEF ClientRead, RoomInv, TodoEntered, Untouched
  <1>2. /\ client \in [Clients -> ClientRecords] /\ link \in [Clients -> Seq(Messages)]
        /\ up \in [Clients -> BOOLEAN] /\ \A x \in Clients : Len(link[x]) <= LinkCapacity
    BY TypedIs DEF RoomInv, Typed
  <1>3. /\ client' \in [Clients -> ClientRecords] /\ link' \in [Clients -> Seq(Messages)]
        /\ up' \in [Clients -> BOOLEAN] /\ \A x \in Clients : Len(link'[x]) <= LinkCapacity
        /\ \A x \in Clients : x # c => client'[x] = client[x] /\ link'[x] = link[x] /\ up'[x] = up[x]
    <2>1. CASE Disconnect(c)
      BY <2>1, ClosedTypes DEF RoomInv, Disconnect
    <2>2. CASE ClientRead(c)
      <3>1. link[c] # <<>> /\ link' = [link EXCEPT ![c] = Tail(link[c])] /\ up' = up
        BY <2>2 DEF ClientRead
      <3>2. Head(link[c]) \in Messages /\ Tail(link[c]) \in Seq(Messages) /\ Len(Tail(link[c])) <= LinkCapacity
        BY <1>2, <3>1, Bounds
      <3>3. client[c] \in ClientRecords /\ client[c].view \in [Clients -> 0..MaxInfo] /\ client[c].buf \in Messages
        BY <1>2 DEF ClientRecords
      <3>4. PICK k \in ClientRecords : client' = [client EXCEPT ![c] = k]
        <4>1. CASE client' = [client EXCEPT ![c].view = Apply(@, Head(link[c]))]
          <5>1. Apply(client[c].view, Head(link[c])) \in [Clients -> 0..MaxInfo]
            BY <3>2, <3>3, ApplyType
          <5> DEFINE k == [client[c] EXCEPT !.view = Apply(client[c].view, Head(link[c]))]
          <5>2. k \in ClientRecords
            BY <3>3, <5>1 DEF ClientRecords
          <5>3. client' = [client EXCEPT ![c] = k]
            BY <4>1
          <5> QED
            BY <5>2, <5>3
        <4>2. CASE client' = [client EXCEPT ![c] =
                                [pc |-> "open", buf |-> NoMsg(c),
                                 view |-> Apply(Apply(client[c].view, client[c].buf), Head(link[c])),
                                 first |-> IF client[c].first = "none" THEN "hello" ELSE client[c].first]]
          <5>1. Apply(Apply(client[c].view, client[c].buf), Head(link[c])) \in [Clients -> 0..MaxInfo]
            BY <3>2, <3>3, ApplyType
          <5>2. NoMsg(c) \in Messages
            BY MessageTypes, Bounds
          <5>3. client[c].first \in {"none", "hello", "other"}
            BY <3>3 DEF ClientRecords
          <5> DEFINE k == [pc |-> "open", buf |-> NoMsg(c),
                           view |-> Apply(Apply(client[c].view, client[c].buf), Head(link[c])),
                           first |-> IF client[c].first = "none" THEN "hello" ELSE client[c].first]
          <5>4. k \in ClientRecords
            BY <5>1, <5>2, <5>3 DEF ClientRecords
          <5>5. client' = [client EXCEPT ![c] = k]
            BY <4>2, Zenon
          <5> QED
            BY <5>4, <5>5
        <4>3. CASE client' = [client EXCEPT ![c] = [@ EXCEPT !.buf = Head(link[c]), !.first = "other"]]
          <5> DEFINE k == [client[c] EXCEPT !.buf = Head(link[c]), !.first = "other"]
          <5>1. k \in ClientRecords
            BY <3>2, <3>3 DEF ClientRecords
          <5>2. client' = [client EXCEPT ![c] = k]
            BY <4>3
          <5> QED
            BY <5>1, <5>2
        <4> QED
          BY <2>2, <4>1, <4>2, <4>3 DEF ClientRead
      <3> QED
        BY <1>2, <3>1, <3>2, <3>4
    <2> QED
      BY <2>1, <2>2
  <1>4. TypeOK'
    BY <1>0, <1>3, TypedIs DEF RoomInv, Typed, Members
  <1>5. TodoEntered'
    <2>1. \A x \in Clients : Entered(x)' <=> Entered(x)
      BY <1>0 DEF Entered
    <2>2. Entered(c)
      BY <1>1 DEF Disconnect, RoomInv, TodoEntered, Untouched
    <2> QED
      BY <1>0, <1>3, <2>1, <2>2, TodoKept DEF RoomInv
  <1>6. Reading'
    BY <1>0 DEF RoomInv, Reading, Starting, Leaving
  <1>7. Current'
    BY <1>0 DEF RoomInv, Current
  <1> QED
    BY <1>0, <1>4, <1>5, <1>6, <1>7, RoomSame

(* A step of the reading task that leaves the room and the queues alone. *)
LEMMA RecvOnly ==
    ASSUME RoomInv, NEW c \in Clients,
           UNCHANGED <<room, task, chan, rx, link, up, client, late>>, count' \in 0..MaxRequests,
           ~Starting(c), recv' \in [Clients -> RecvRecords],
           \A x \in Clients : x # c => recv'[x] = recv[x],
           recv'[c].pc # "off",
           recv'[c].aborted => recv[c].aborted,
           Leaving(c) => recv'[c].aborted \/ recv'[c].pc = "ended",
           recv'[c].pc \notin {"fan", "err"} => recv'[c].todo = <<>>,
           recv'[c].msg.of = c, recv'[c].msg.kind \in {"None", "Update", "Sdp", "Error"},
           recv'[c].pc = "update" => room[c] < MaxInfo,
           recv'[c].msg.kind = "Update" /\ task[c].pc = "run" => recv'[c].msg.info = room[c],
           \A x \in Clients : In(recv'[c].todo, x) => Entered(x)
    PROVE  RoomInv'
  <1>0. UNCHANGED <<room, task, chan, rx, link, up, client, late>>
    OBVIOUS
  <1>1. TypeOK'
    BY <1>0, TypedIs DEF RoomInv, Typed, Members
  <1>2. \A x \in Clients : (Entered(x)' <=> Entered(x)) /\ (Starting(x)' <=> Starting(x)) /\ (Leaving(x)' <=> Leaving(x))
    BY <1>0 DEF Entered, Starting, Leaving
  <1>3. TodoEntered'
    BY <1>0, <1>2, TodoKept DEF RoomInv
  <1>4. Reading'
    BY <1>0, <1>2 DEF RoomInv, Reading
  <1>5. Current'
    BY <1>0 DEF RoomInv, Current
  <1> QED
    BY <1>0, <1>1, <1>3, <1>4, <1>5, RoomSame

(* Requests and their refusal. *)
LEMMA RoomRequest ==
    ASSUME RoomInv, NEW c \in Clients, Request(c)
    PROVE  RoomInv'
  <1>0. recv[c].pc = "read" /\ UNCHANGED <<room, task, chan, rx, link, up, client, late>>
    BY DEF Request, RecvRequest, RecvLimited, CanRequest
  <1>1. /\ ~Starting(c) /\ Entered(c) /\ (Leaving(c) => recv[c].aborted) /\ recv[c].todo = <<>>
        /\ recv[c].msg.of = c /\ recv[c].msg.kind \in {"None", "Update", "Sdp", "Error"}
    BY <1>0 DEF RoomInv, Reading, Starting, Entered
  <1>2. recv[c].msg.kind = "Update" /\ task[c].pc = "run" => recv[c].msg.info = room[c]
    BY DEF RoomInv, Current
  <1>3. count \in 0..MaxRequests
    BY TypedIs DEF RoomInv, Typed
  <1>4. CASE RecvRequest(c)
    <2>1. PICK pc \in {"update", "sdp"} : recv' = [recv EXCEPT ![c].pc = pc] /\ (pc = "update" => room[c] < MaxInfo)
      BY <1>4 DEF RecvRequest
    <2>2. /\ recv' \in [Clients -> RecvRecords]
          /\ recv'[c].pc = pc /\ recv'[c].todo = recv[c].todo /\ recv'[c].msg = recv[c].msg
          /\ recv'[c].aborted = recv[c].aborted
          /\ \A x \in Clients : x # c => recv'[x] = recv[x]
      BY <2>1, RecvMoves DEF RoomInv
    <2>3. count' \in 0..MaxRequests
      BY <1>3, <1>4, Bounds DEF RecvRequest
    <2>4. \A x : ~In(recv'[c].todo, x)
      BY <1>1, <2>2, EmptyReads
    <2> QED
      BY <1>0, <1>1, <1>2, <2>1, <2>2, <2>3, <2>4, RecvOnly
  <1>5. CASE RecvLimited(c)
    <2>1. /\ recv' = [recv EXCEPT ![c] = [@ EXCEPT !.pc = "err", !.todo = <<c>>, !.msg = Msg("Error", c, 0)]]
          /\ count' = count
      BY <1>5 DEF RecvLimited
    <2>2. Msg("Error", c, 0) \in Messages /\ Msg("Error", c, 0).of = c /\ Msg("Error", c, 0).kind = "Error"
      BY MessageTypes, Bounds
    <2>3. /\ recv' \in [Clients -> RecvRecords]
          /\ recv'[c].pc = "err" /\ recv'[c].todo = <<c>> /\ recv'[c].msg = Msg("Error", c, 0)
          /\ recv'[c].aborted = recv[c].aborted
          /\ \A x \in Clients : x # c => recv'[x] = recv[x]
      <3>1. recv \in [Clients -> RecvRecords]
        BY RecordsTyped DEF RoomInv
      <3>2. <<c>> \in Seq(Clients)
        OBVIOUS
      <3> QED
        BY <2>1, <2>2, <3>1, <3>2 DEF RecvRecords
    <2>4. \A x : In(recv'[c].todo, x) => x = c
      BY <2>3 DEF In
    <2> QED
      BY <1>0, <1>1, <1>3, <2>1, <2>2, <2>3, <2>4, RecvOnly
  <1> QED
    BY <1>4, <1>5 DEF Request

(* An offer or an answer is to be sent, or its target is gone. *)
LEMMA RoomRecvSdp ==
    ASSUME RoomInv, NEW c \in Clients, RecvSdp(c)
    PROVE  RoomInv'
  <1>0. recv[c].pc = "sdp" /\ UNCHANGED <<room, count, task, chan, rx, link, up, client, late>>
    BY DEF RecvSdp
  <1>1. /\ ~Starting(c) /\ (Leaving(c) => recv[c].aborted) /\ recv[c].todo = <<>>
        /\ recv[c].msg.of = c /\ recv[c].msg.kind \in {"None", "Update", "Sdp", "Error"}
    BY <1>0 DEF RoomInv, Reading, Starting
  <1>2. recv[c].msg.kind = "Update" /\ task[c].pc = "run" => recv[c].msg.info = room[c]
    BY DEF RoomInv, Current
  <1>3. count \in 0..MaxRequests
    BY TypedIs DEF RoomInv, Typed
  <1>4. PICK q \in Clients :
          recv' = [recv EXCEPT ![c] =
                     IF q \in Members
                     THEN [@ EXCEPT !.pc = "fan", !.todo = <<q>>, !.msg = Msg("Sdp", c, 1)]
                     ELSE [@ EXCEPT !.pc = "read"]]
    BY DEF RecvSdp
  <1>5. CASE q \in Members
    <2>1. recv' = [recv EXCEPT ![c] = [@ EXCEPT !.pc = "fan", !.todo = <<q>>, !.msg = Msg("Sdp", c, 1)]]
      BY <1>4, <1>5
    <2>2. Msg("Sdp", c, 1) \in Messages /\ Msg("Sdp", c, 1).of = c /\ Msg("Sdp", c, 1).kind = "Sdp"
      BY MessageTypes, Bounds
    <2>3. /\ recv' \in [Clients -> RecvRecords]
          /\ recv'[c].pc = "fan" /\ recv'[c].todo = <<q>> /\ recv'[c].msg = Msg("Sdp", c, 1)
          /\ recv'[c].aborted = recv[c].aborted
          /\ \A x \in Clients : x # c => recv'[x] = recv[x]
      <3>1. recv \in [Clients -> RecvRecords]
        BY RecordsTyped DEF RoomInv
      <3>2. <<q>> \in Seq(Clients)
        OBVIOUS
      <3> QED
        BY <2>1, <2>2, <3>1, <3>2 DEF RecvRecords
    <2>4. \A x : In(recv'[c].todo, x) => x = q
      BY <2>3 DEF In
    <2>5. Entered(q)
      BY <1>5, MembersEntered DEF RoomInv
    <2> QED
      BY <1>0, <1>1, <1>3, <2>2, <2>3, <2>4, <2>5, RecvOnly
  <1>6. CASE q \notin Members
    <2>1. recv' = [recv EXCEPT ![c].pc = "read"]
      BY <1>4, <1>6
    <2>2. /\ recv' \in [Clients -> RecvRecords]
          /\ recv'[c].pc = "read" /\ recv'[c].todo = recv[c].todo /\ recv'[c].msg = recv[c].msg
          /\ recv'[c].aborted = recv[c].aborted
          /\ \A x \in Clients : x # c => recv'[x] = recv[x]
      BY <2>1, RecvMoves DEF RoomInv
    <2>3. \A x : ~In(recv'[c].todo, x)
      BY <1>1, <2>2, EmptyReads
    <2> QED
      BY <1>0, <1>1, <1>2, <1>3, <2>2, <2>3, RecvOnly
  <1> QED
    BY <1>5, <1>6

(* The reading task ends with its connection. *)
LEMMA RoomRecvEnds ==
    ASSUME RoomInv, NEW c \in Clients, RecvEnds(c)
    PROVE  RoomInv'
  <1>0. UNCHANGED <<room, count, task, chan, rx, link, up, client, late>> /\ (recv[c].pc = "read" \/ recv[c].aborted)
    BY DEF RecvEnds
  <1>1. ~Starting(c)
    BY <1>0 DEF RoomInv, Reading, Starting, Leaving
  <1>2. /\ recv' \in [Clients -> RecvRecords]
        /\ recv'[c].pc = "ended" /\ recv'[c].todo = <<>> /\ recv'[c].msg.kind = "None"
        /\ recv'[c].msg.of = c /\ ~recv'[c].aborted
        /\ \A x \in Clients : x # c => recv'[x] = recv[x]
    BY RecvIdles DEF RecvEnds, RoomInv
  <1>3. count \in 0..MaxRequests
    BY TypedIs DEF RoomInv, Typed
  <1>4. \A x : ~In(recv'[c].todo, x)
    BY <1>2, EmptyReads
  <1> QED
    BY <1>0, <1>1, <1>2, <1>3, <1>4, RecvOnly

(* The hourly reset of the counters. *)
LEMMA RoomReset ==
    ASSUME RoomInv, ResetCount
    PROVE  RoomInv'
  <1>0. UNCHANGED <<room, task, recv, chan, rx, link, up, client, late>> /\ count' \in 0..MaxRequests
    BY Bounds DEF ResetCount
  <1>1. TypeOK'
    BY <1>0, TypedIs DEF RoomInv, Typed, Members
  <1>2. TodoEntered' /\ Reading' /\ Current'
    BY <1>0 DEF RoomInv, TodoEntered, Untouched, Reading, Current, Entered, Starting, Leaving
  <1> QED
    BY <1>0, <1>1, <1>2, RoomSame

(* The information of a peer is replaced and is to be told to the others,   *)
(* unless the peer is no member any more.                                   *)
LEMMA UpdateIs ==
    ASSUME RoomInv, NEW c \in Clients, RecvUpdate(c)
    PROVE  /\ recv[c].pc = "update" /\ UNCHANGED <<count, task, chan, rx, link, up, client, late>>
           /\ ~Starting(c) /\ recv[c].todo = <<>>
           /\ recv' \in [Clients -> RecvRecords] /\ recv'[c].pc = "fan"
           /\ recv'[c].aborted = recv[c].aborted
           /\ \A x \in Clients : x # c => recv'[x] = recv[x] /\ room'[x] = room[x]
           /\ \/ /\ c \in Members /\ room'[c] = room[c] + 1 /\ room'[c] \in 0..MaxInfo /\ room' \in [Clients -> 0..MaxInfo]
                 /\ recv'[c].msg = Msg("Update", c, room[c] + 1)
                 /\ \A x : In(recv'[c].todo, x) <=> x \in Members \ {c}
              \/ /\ c \notin Members /\ room' = room
                 /\ recv'[c].msg = recv[c].msg /\ recv'[c].todo = <<>>
  <1>0. recv[c].pc = "update" /\ UNCHANGED <<count, task, chan, rx, link, up, client, late>>
    BY DEF RecvUpdate
  <1>1. ~Starting(c) /\ recv[c].todo = <<>>
    BY <1>0 DEF RoomInv, Reading, Starting
  <1>2. recv \in [Clients -> RecvRecords] /\ room \in [Clients -> 0..MaxInfo]
    BY RecordsTyped DEF RoomInv
  <1>3. CASE c \in Members
    <2>1. PICK order \in Orders(Members \ {c}) :
            recv' = [recv EXCEPT ![c] =
                       [@ EXCEPT !.pc = "fan", !.todo = order, !.msg = Msg("Update", c, room[c] + 1)]]
      BY <1>3 DEF RecvUpdate
    <2>2. room' = [room EXCEPT ![c] = room[c] + 1]
      BY <1>3 DEF RecvUpdate
    <2>3. room[c] + 1 \in 0..MaxInfo
      BY <1>0, <1>2, Bounds DEF RoomInv, Current
    <2>4. order \in Seq(Clients) /\ \A x : In(order, x) <=> x \in Members \ {c}
      BY OthersOrder
    <2>5. Msg("Update", c, room[c] + 1) \in Messages
      BY <2>3, MessageTypes
    <2>6. /\ recv' \in [Clients -> RecvRecords] /\ recv'[c].pc = "fan" /\ recv'[c].todo = order
          /\ recv'[c].msg = Msg("Update", c, room[c] + 1)
          /\ recv'[c].aborted = recv[c].aborted
          /\ \A x \in Clients : x # c => recv'[x] = recv[x]
      BY <1>2, <2>1, <2>4, <2>5 DEF RecvRecords
    <2>7. room'[c] = room[c] + 1 /\ room' \in [Clients -> 0..MaxInfo] /\ \A x \in Clients : x # c => room'[x] = room[x]
      BY <1>2, <2>2, <2>3
    <2> QED
      BY <1>0, <1>1, <1>3, <2>3, <2>4, <2>6, <2>7
  <1>4. CASE c \notin Members
    <2>1. recv' = [recv EXCEPT ![c].pc = "fan"] /\ room' = room
      BY <1>4 DEF RecvUpdate
    <2>2. /\ recv' \in [Clients -> RecvRecords]
          /\ recv'[c].pc = "fan" /\ recv'[c].todo = recv[c].todo /\ recv'[c].msg = recv[c].msg
          /\ recv'[c].aborted = recv[c].aborted
          /\ \A x \in Clients : x # c => recv'[x] = recv[x]
      BY <2>1, RecvMoves DEF RoomInv
    <2> QED
      BY <1>0, <1>1, <1>4, <2>1, <2>2
  <1> QED
    BY <1>3, <1>4

(* An update of the own information takes effect in the room. *)
LEMMA RoomRecvUpdate ==
    ASSUME RoomInv, NEW c \in Clients, RecvUpdate(c)
    PROVE  RoomInv'
  <1>1. /\ recv[c].pc = "update" /\ UNCHANGED <<count, task, chan, rx, link, up, client, late>>
        /\ ~Starting(c) /\ recv[c].todo = <<>>
        /\ recv' \in [Clients -> RecvRecords] /\ recv'[c].pc = "fan"
        /\ recv'[c].aborted = recv[c].aborted
        /\ \A x \in Clients : x # c => recv'[x] = recv[x] /\ room'[x] = room[x]
    BY UpdateIs
  <1>2. CASE /\ c \in Members /\ room'[c] = room[c] + 1 /\ room'[c] \in 0..MaxInfo /\ room' \in [Clients -> 0..MaxInfo]
             /\ recv'[c].msg = Msg("Update", c, room[c] + 1)
             /\ \A x : In(recv'[c].todo, x) <=> x \in Members \ {c}
    <2>0. room \in [Clients -> 0..MaxInfo]
      BY RecordsTyped DEF RoomInv
    <2>1. Members' = Members
      BY <1>1, <1>2, <2>0 DEF Members
    <2>2. TypeOK'
      BY <1>1, <1>2, <2>1, TypedIs DEF RoomInv, Typed
    <2>3. NoGhosts'
      BY <1>1, <2>1 DEF RoomInv, NoGhosts
    <2>4. \A x \in Clients : (Entered(x)' <=> Entered(x)) /\ (Starting(x)' <=> Starting(x)) /\ (Leaving(x)' <=> Leaving(x))
      BY <1>1 DEF Entered, Starting, Leaving
    <2>5. TodoEntered'
      <3>1. \A x \in Members : Entered(x)
        BY MembersEntered DEF RoomInv
      <3>2. \A q, x \in Clients : In(recv'[q].todo, x) => In(recv[q].todo, x) \/ Entered(x)'
        BY <1>1, <1>2, <2>4, <3>1
      <3> QED
        BY <1>1, <2>4, <3>2, TodoKept DEF RoomInv
    <2>6. recv'[c].msg.of = c /\ recv'[c].msg.kind = "Update" /\ recv'[c].msg.info = room'[c]
      BY <1>2, MessageTypes
    <2>7. Reading'
      BY <1>1, <2>4, <2>6 DEF RoomInv, Reading
    <2>8. Current'
      BY <1>1, <2>6 DEF RoomInv, Current, Starting
    <2> QED
      BY <2>1, <2>2, <2>3, <2>5, <2>7, <2>8 DEF RoomInv
  <1>3. CASE c \notin Members /\ room' = room /\ recv'[c].msg = recv[c].msg /\ recv'[c].todo = <<>>
    <2>1. /\ recv[c].msg.of = c /\ recv[c].msg.kind \in {"None", "Update", "Sdp", "Error"}
          /\ Leaving(c) => recv[c].aborted
      BY <1>1 DEF RoomInv, Reading
    <2>2. recv[c].msg.kind = "Update" /\ task[c].pc = "run" => recv[c].msg.info = room[c]
      BY DEF RoomInv, Current
    <2>3. count' \in 0..MaxRequests
      BY <1>1, TypedIs DEF RoomInv, Typed
    <2>4. \A x : ~In(recv'[c].todo, x)
      BY <1>3, EmptyReads
    <2> QED
      BY <1>1, <1>3, <2>1, <2>2, <2>3, <2>4, RecvOnly
  <1> QED
    BY <1>2, <1>3, UpdateIs

(* The fan-out of a reading task, and its end. *)
LEMMA FanIs ==
    ASSUME RoomInv, NEW c \in Clients, RecvSend(c)
    PROVE  /\ recv[c].pc \in {"fan", "err"} /\ UNCHANGED <<room, count, task, rx, link, up, client>> /\ ~Starting(c)
           /\ recv' \in [Clients -> RecvRecords] /\ recv'[c].aborted = recv[c].aborted
           /\ \A x \in Clients : x # c => recv'[x] = recv[x]
           /\ \/ /\ recv[c].todo = <<>> /\ UNCHANGED <<chan, late>>
                 /\ recv'[c].pc \in {"read", "ended"} /\ recv'[c].todo = <<>>
                 /\ recv'[c].msg.kind = "None" /\ recv'[c].msg.of = c
              \/ /\ recv[c].todo # <<>> /\ Head(recv[c].todo) \in Clients /\ Entered(Head(recv[c].todo))
                 /\ SendTo(Head(recv[c].todo), recv[c].msg)
                 /\ recv'[c].pc = recv[c].pc /\ recv'[c].todo = Tail(recv[c].todo) /\ recv'[c].msg = recv[c].msg
                 /\ late' = IF recv[c].aborted THEN late \cup {c} ELSE late
  <1>0. recv[c].pc \in {"fan", "err"} /\ UNCHANGED <<room, count, task, rx, link, up, client>>
    BY DEF RecvSend
  <1>1. ~Starting(c)
    BY <1>0 DEF RoomInv, Reading, Starting
  <1>2. recv \in [Clients -> RecvRecords] /\ recv[c] \in RecvRecords /\ recv[c].todo \in Seq(Clients)
    BY RecordsTyped DEF RoomInv, RecvRecords
  <1>3. CASE /\ recv[c].todo = <<>> /\ UNCHANGED <<chan, late>>
             /\ recv' = [recv EXCEPT ![c] =
                            [@ EXCEPT !.pc = IF recv[c].pc = "fan" THEN "read" ELSE "ended", !.msg = NoMsg(c)]]
    <2>1. NoMsg(c) \in Messages /\ NoMsg(c).kind = "None" /\ NoMsg(c).of = c
      BY MessageTypes, Bounds
    <2> DEFINE pc == IF recv[c].pc = "fan" THEN "read" ELSE "ended"
               r == [recv[c] EXCEPT !.pc = pc, !.msg = NoMsg(c)]
    <2>2. recv' = [recv EXCEPT ![c] = r]
      BY <1>3
    <2>3. pc \in {"read", "ended"}
      OBVIOUS
    <2> HIDE DEF pc
    <2>4. /\ r \in RecvRecords /\ r.pc = pc /\ r.todo = recv[c].todo /\ r.aborted = recv[c].aborted
          /\ r.msg = NoMsg(c)
      BY <1>2, <2>1, <2>3 DEF RecvRecords
    <2> HIDE DEF r
    <2> QED
      BY <1>0, <1>1, <1>2, <1>3, <2>1, <2>2, <2>3, <2>4
  <1>4. CASE /\ recv[c].todo # <<>>
             /\ SendTo(Head(recv[c].todo), recv[c].msg)
             /\ recv' = [recv EXCEPT ![c].todo = Tail(@)]
             /\ late' = IF recv[c].aborted THEN late \cup {c} ELSE late
    <2>1. Head(recv[c].todo) \in Clients /\ Tail(recv[c].todo) \in Seq(Clients)
      BY <1>2, <1>4
    <2>2. Entered(Head(recv[c].todo))
      BY <1>2, <1>4, <2>1, InTail DEF RoomInv, TodoEntered
    <2>3. recv' = [recv EXCEPT ![c].todo = Tail(@)]
      BY <1>4
    <2>4. /\ recv' \in [Clients -> RecvRecords] /\ recv'[c].aborted = recv[c].aborted
          /\ \A x \in Clients : x # c => recv'[x] = recv[x]
          /\ recv'[c].pc = recv[c].pc /\ recv'[c].todo = Tail(recv[c].todo) /\ recv'[c].msg = recv[c].msg
      BY <1>2, <2>1, <2>3 DEF RecvRecords
    <2>5. /\ recv[c].todo # <<>> /\ SendTo(Head(recv[c].todo), recv[c].msg)
          /\ late' = IF recv[c].aborted THEN late \cup {c} ELSE late
      BY <1>4
    <2> QED
      BY <1>0, <1>1, <2>1, <2>2, <2>4, <2>5
  <1> QED
    BY <1>3, <1>4 DEF RecvSend

(* The reading task forwards an update to one of the others. *)
LEMMA RoomRecvSend ==
    ASSUME RoomInv, NEW c \in Clients, RecvSend(c)
    PROVE  RoomInv'
  <1>1. /\ recv[c].pc \in {"fan", "err"} /\ UNCHANGED <<room, count, task, rx, link, up, client>> /\ ~Starting(c)
        /\ recv' \in [Clients -> RecvRecords] /\ recv'[c].aborted = recv[c].aborted
        /\ \A x \in Clients : x # c => recv'[x] = recv[x]
    BY FanIs
  <1>2. /\ recv[c].msg.of = c /\ recv[c].msg.kind \in {"None", "Update", "Sdp", "Error"}
        /\ Leaving(c) => recv[c].aborted
    BY <1>1 DEF RoomInv, Reading
  <1>3. CASE /\ recv[c].todo = <<>> /\ UNCHANGED <<chan, late>>
             /\ recv'[c].pc \in {"read", "ended"} /\ recv'[c].todo = <<>>
             /\ recv'[c].msg.kind = "None" /\ recv'[c].msg.of = c
    <2>1. count' \in 0..MaxRequests
      BY <1>1, TypedIs DEF RoomInv, Typed
    <2>2. \A x : ~In(recv'[c].todo, x)
      BY <1>3, EmptyReads
    <2> QED
      BY <1>1, <1>2, <1>3, <2>1, <2>2, RecvOnly
  <1>4. CASE /\ recv[c].todo # <<>> /\ Head(recv[c].todo) \in Clients /\ Entered(Head(recv[c].todo))
             /\ SendTo(Head(recv[c].todo), recv[c].msg)
             /\ recv'[c].pc = recv[c].pc /\ recv'[c].todo = Tail(recv[c].todo) /\ recv'[c].msg = recv[c].msg
             /\ late' = IF recv[c].aborted THEN late \cup {c} ELSE late
    <2>0. recv[c].msg \in Messages /\ recv[c].todo \in Seq(Clients)
      BY RecordsTyped DEF RoomInv, RecvRecords
    <2>1. /\ chan' \in [Clients -> Seq(Messages)] /\ \A x \in Clients : Len(chan'[x]) <= QueueCapacity
          /\ \A x \in Clients : x # Head(recv[c].todo) => chan'[x] = chan[x]
      BY <1>4, <2>0, SendToIs DEF RoomInv
    <2>2. late' \subseteq Clients
      BY <1>4, TypedIs DEF RoomInv, Typed
    <2>3. TypeOK'
      BY <1>1, <2>1, <2>2, TypedIs DEF RoomInv, Typed, Members
    <2>4. \A x \in Clients : (Entered(x)' <=> Entered(x)) /\ (Starting(x)' <=> Starting(x)) /\ (Leaving(x)' <=> Leaving(x))
      BY <1>1 DEF Entered, Starting, Leaving
    <2>5. TodoEntered'
      <3>1. \A x \in Clients : In(recv'[c].todo, x) => In(recv[c].todo, x)
        BY <1>4, <2>0, InTail
      <3>2. \A q, x \in Clients : In(recv'[q].todo, x) => In(recv[q].todo, x)
        BY <1>1, <3>1
      <3>3. \A x \in Clients : ~Entered(x)' => chan'[x] = chan[x]
        BY <1>4, <2>1, <2>4
      <3> QED
        BY <1>1, <2>4, <3>2, <3>3, TodoKept DEF RoomInv
    <2>6. Reading'
      BY <1>1, <1>4, <2>4 DEF RoomInv, Reading
    <2>7. Current'
      BY <1>1, <1>4 DEF RoomInv, Current
    <2> QED
      BY <1>1, <2>3, <2>5, <2>6, <2>7, RoomSame
  <1> QED
    BY <1>3, <1>4, FanIs

(* Every step keeps the invariant of the room. *)
LEMMA RoomStep == RoomInv /\ [Next]_vars => RoomInv'
  <1> SUFFICES ASSUME RoomInv, [Next]_vars PROVE RoomInv'
    OBVIOUS
  <1>1. CASE UNCHANGED vars
    <2>0. UNCHANGED <<room, count, task, recv, chan, rx, link, up, client, late>>
      BY <1>1 DEF vars
    <2>1. TypeOK'
      BY <2>0, TypedIs DEF RoomInv, Typed, Members
    <2>2. TodoEntered' /\ Reading' /\ Current'
      BY <2>0 DEF RoomInv, TodoEntered, Untouched, Reading, Current, Entered, Starting, Leaving
    <2> QED
      BY <2>0, <2>1, <2>2, RoomSame
  <1>2. ASSUME NEW c \in Clients, HandlerStep(c) PROVE RoomInv'
    BY <1>2, RoomSendJoin, RoomSayHello, RoomSelect, RoomLeave, RoomSendLeft DEF HandlerStep
  <1>3. ASSUME NEW c \in Clients, TaskStep(c) PROVE RoomInv'
    BY <1>3, RoomSendTask, RoomRecvUpdate, RoomRecvSdp, RoomRecvSend, RoomRecvEnds DEF TaskStep
  <1> QED
    BY <1>1, <1>2, <1>3, RoomEnter, RoomRefused, RoomRequest, RoomClient, RoomReset DEF Next

(* The state of the room is sound in every reachable state: the limits hold *)
(* and the queues keep their capacity, for every number of connections, and *)
(* the members are exactly the connections whose handler will remove them.  *)
THEOREM RoomIsSound == Spec => []RoomSound
  <1>1. Init => RoomInv
    BY InitInv DEF IInv
  <1>2. RoomInv => RoomSound
    BY DEF RoomInv, RoomSound
  <1> QED
    BY <1>1, <1>2, RoomStep, PTL DEF Spec

-----------------------------------------------------------------------------
(* The steps keep what a client is going to see *)

(* Nothing on the path to c changed, or only the queue of a connection that *)
(* has not said Hello yet moved on from telling the others.                 *)
LEMMA PathSame ==
    ASSUME NEW c \in Clients, client'[c] = client[c], link'[c] = link[c], chan'[c] = chan[c],
           up'[c] = up[c], rx'[c] = rx[c], task'[c].peers = task[c].peers,
           task'[c].pc \in {"join", "hello", "run"} =>
              /\ task[c].pc \in {"join", "hello", "run"}
              /\ task'[c].pc = "run" <=> task[c].pc = "run"
    PROVE  /\ Clean(c)' => Clean(c)
           /\ Clean(c)' /\ HelloOnce(c) => HelloOnce(c)'
           /\ \A q, v : Told(c, q, v) => Told(c, q, v)'
  <1>1. Clean(c)' => Clean(c)
    BY DEF Clean
  <1>2. Clean(c)' /\ HelloOnce(c) => HelloOnce(c)'
    BY DEF Clean, HelloOnce
  <1>3. Base(c)' = Base(c)
    BY DEF Base
  <1> QED
    BY <1>1, <1>2, <1>3 DEF Told

(* Another task puts a message into the queue of c. *)
LEMMA PathAppend ==
    ASSUME RoomInv, NEW c \in Clients, NEW m \in Messages, m.kind # "Hello",
           client'[c] = client[c], link'[c] = link[c], chan'[c] = Append(chan[c], m),
           up'[c] = up[c], rx'[c] = rx[c], task'[c].peers = task[c].peers, task'[c].pc = task[c].pc,
           Clean(c)'
    PROVE  /\ Clean(c)
           /\ HelloOnce(c) => HelloOnce(c)'
           /\ \A q, v : Told(c, q, v) /\ ~About(m, q) => Told(c, q, v)'
           /\ \A q, v : Told(c, q, v) /\ About(m, q) => Told(c, q, Says(m))'
  <1>1. chan[c] \in Seq(Messages) /\ link[c] \in Seq(Messages)
    BY RecordsTyped DEF RoomInv
  <1>2. chan'[c] # <<>> /\ (chan[c] = <<>> => Head(chan'[c]) = m)
    <2>1. \A s \in Seq(Messages) : Append(s, m) # <<>> /\ (Len(s) = 0 => Head(Append(s, m)) = m)
      OBVIOUS
    <2> QED
      BY <1>1, <2>1
  <1>3. chan[c] # <<>> => Head(chan'[c]) = Head(chan[c]) /\ Tail(chan'[c]) = Append(Tail(chan[c]), m)
    BY <1>1, NoHelloKept
  <1>4. client[c].pc # "open" => link[c] # <<>> \/ chan[c] # <<>>
    BY <1>2 DEF Clean
  <1>5. Clean(c)
    BY <1>2, <1>3, <1>4 DEF Clean
  <1>6. Base(c)' = Base(c)
    BY <1>2, <1>3, <1>4 DEF Base
  <1>7. ASSUME HelloOnce(c) PROVE HelloOnce(c)'
    <2>1. NoHello(chan[c]) => NoHello(chan'[c])
      BY <1>1, NoHelloKept
    <2>2. chan[c] # <<>> /\ NoHello(Tail(chan[c])) => NoHello(Tail(chan'[c]))
      <3> SUFFICES ASSUME chan[c] # <<>>, NoHello(Tail(chan[c])) PROVE NoHello(Tail(chan'[c]))
        OBVIOUS
      <3>1. Tail(chan[c]) \in Seq(Messages)
        BY <1>1
      <3>2. NoHello(Append(Tail(chan[c]), m))
        BY <3>1, NoHelloKept
      <3> QED
        BY <1>3, <3>2
    <2> QED
      BY <1>2, <1>4, <1>7, <2>1, <2>2 DEF HelloOnce, NoHello
  <1>8. ASSUME NEW q, NEW v, Told(c, q, v)
        PROVE  Told(c, q, IF About(m, q) THEN Says(m) ELSE v)'
    <2>1. PICK w \in 0 .. MaxInfo : Reads(link[c], q, Base(c)[q], w) /\ Reads(chan[c], q, w, v)
      BY <1>8 DEF Told
    <2>2. Reads(chan'[c], q, w, IF About(m, q) THEN Says(m) ELSE v)
      BY <1>1, <2>1, AppendAbout, AppendOther
    <2> QED
      BY <1>6, <2>1, <2>2 DEF Told
  <1> QED
    BY <1>5, <1>7, <1>8

(* q's side of it: nothing is forgotten that was owed. *)
LEMMA SourceSame ==
    ASSUME NEW c \in Clients, NEW q \in Clients, Sees(c, q),
           \A v \in 0 .. MaxInfo : Told(c, q, v) => Told(c, q, v)',
           room'[q] = room[q], late \subseteq late', Owed(c, q) => Owed(c, q)'
    PROVE  Sees(c, q)'
  BY DEF Sees

(* Whatever c was told of q, it is going to be told more. *)
LEMMA SourceOwes ==
    ASSUME NEW c \in Clients, NEW q \in Clients, Sees(c, q),
           \A v \in 0 .. MaxInfo : Told(c, q, v) => Told(c, q, v)', Owed(c, q)'
    PROVE  Sees(c, q)'
  BY DEF Sees

(* A step of a alone: what the others know and owe stays as it is.          *)
LEMMA AloneSees ==
    ASSUME IInv, NEW a \in Clients,
           \A c \in Clients \ {a} :
              /\ client'[c] = client[c] /\ link'[c] = link[c] /\ chan'[c] = chan[c]
              /\ up'[c] = up[c] /\ rx'[c] = rx[c] /\ task'[c] = task[c] /\ recv'[c] = recv[c]
              /\ room'[c] = room[c],
           late \subseteq late',
           client'[a].pc = "connecting" => client'[a].first # "hello",
           Clean(a)' => HelloOnce(a)',
           \A q \in Clients \ {a} : Clean(a)' =>
              \/ room[q] \in 0 .. MaxInfo /\ Told(a, q, room[q])'
              \/ Clean(a) /\ \A v \in 0 .. MaxInfo : Told(a, q, v) => Told(a, q, v)',
           \A c \in Clients \ {a} : Clean(c) =>
              Owed(c, a)' \/ (room'[a] = room[a] /\ ~Owed(c, a))
    PROVE  (OneHello /\ FirstTells /\ WillSee)'
  <1>0. OneHello /\ FirstTells /\ WillSee
    BY DEF IInv
  <1>1. \A c \in Clients \ {a} :
           /\ Clean(c)' => Clean(c)
           /\ Clean(c)' /\ HelloOnce(c) => HelloOnce(c)'
           /\ \A q, v : Told(c, q, v) => Told(c, q, v)'
    BY PathSame
  <1>2. OneHello'
    BY <1>0, <1>1 DEF OneHello
  <1>3. FirstTells'
    BY <1>0 DEF FirstTells
  <1>4. \A c, q \in Clients : q # a /\ Owed(c, q) => Owed(c, q)'
    BY DEF Owed
  <1>5. ASSUME NEW c \in Clients, NEW q \in Clients, c # q, Clean(c)'
        PROVE  Sees(c, q)'
    <2>1. CASE c # a /\ q # a
      BY <1>0, <1>1, <1>4, <1>5, <2>1, SourceSame DEF WillSee
    <2>2. CASE c # a /\ q = a
      <3>1. Clean(c) /\ Sees(c, a) /\ \A v \in 0 .. MaxInfo : Told(c, a, v) => Told(c, a, v)'
        BY <1>0, <1>1, <1>5, <2>2 DEF WillSee
      <3>2. CASE Owed(c, a)'
        BY <2>2, <3>1, <3>2, SourceOwes
      <3>3. CASE room'[a] = room[a] /\ ~Owed(c, a)
        BY <2>2, <3>1, <3>3, SourceSame
      <3> QED
        BY <2>2, <3>1, <3>2, <3>3
    <2>3. CASE c = a
      <3>1. CASE room[q] \in 0 .. MaxInfo /\ Told(a, q, room[q])'
        <4>1. room'[q] = room[q]
          BY <1>5, <2>3
        <4> QED
          BY <2>3, <3>1, <4>1 DEF Sees
      <3>2. CASE Clean(a) /\ \A v \in 0 .. MaxInfo : Told(a, q, v) => Told(a, q, v)'
        <4>1. Sees(a, q)
          BY <1>0, <1>5, <2>3, <3>2 DEF WillSee
        <4>2. room'[q] = room[q] /\ (Owed(a, q) => Owed(a, q)')
          BY <1>4, <1>5, <2>3
        <4> QED
          BY <2>3, <3>2, <4>1, <4>2, SourceSame
      <3> QED
        BY <1>5, <2>3, <3>1, <3>2
    <2> QED
      BY <2>1, <2>2, <2>3
  <1>6. WillSee'
    BY <1>5 DEF WillSee
  <1> QED
    BY <1>2, <1>3, <1>6

(* A message of a reaches the queue of h.                                   *)
LEMMA SendSees ==
    ASSUME IInv, NEW a \in Clients, NEW h \in Clients, NEW m \in Messages,
           m.kind # "Hello", m.of = a, SendTo(h, m),
           UNCHANGED <<room, rx, link, up, client>>, late \subseteq late',
           \A c \in Clients : task'[c].pc = task[c].pc /\ task'[c].peers = task[c].peers,
           \A q \in Clients \ {a} : task'[q] = task[q] /\ recv'[q] = recv[q],
           About(m, a) => (Says(m) = room[a] \/ a \in late'),
           \A c \in Clients : Owed(c, a) => Owed(c, a)' \/ (c = h /\ About(m, a))
    PROVE  (OneHello /\ FirstTells /\ WillSee)'
  <1>0. OneHello /\ FirstTells /\ WillSee /\ RoomInv
    BY DEF IInv
  <1>1. /\ \A c \in Clients : c # h => chan'[c] = chan[c]
        /\ chan'[h] = Append(chan[h], m) \/ (rx[h] = "gone" /\ chan'[h] = chan[h])
    BY <1>0, SendToIs DEF RoomInv
  <1>2. \A c \in Clients \ {h} :
           /\ Clean(c)' => Clean(c)
           /\ Clean(c)' /\ HelloOnce(c) => HelloOnce(c)'
           /\ \A q, v : Told(c, q, v) => Told(c, q, v)'
    BY <1>1, PathSame
  <1>3. ASSUME Clean(h)'
        PROVE  /\ Clean(h)
               /\ HelloOnce(h) => HelloOnce(h)'
               /\ \A q, v : Told(h, q, v) /\ ~About(m, q) => Told(h, q, v)'
               /\ \A q, v : Told(h, q, v) /\ About(m, q) => Told(h, q, Says(m))'
    <2>1. chan'[h] = Append(chan[h], m)
      BY <1>1, <1>3 DEF Clean
    <2> QED
      BY <1>0, <1>3, <2>1, PathAppend
  <1>4. OneHello'
    BY <1>0, <1>2, <1>3 DEF OneHello
  <1>5. FirstTells'
    BY <1>0 DEF FirstTells
  <1>6. \A c, q \in Clients : q # a /\ Owed(c, q) => Owed(c, q)'
    BY DEF Owed
  <1>7. ASSUME NEW c \in Clients, NEW q \in Clients, c # q, Clean(c)'
        PROVE  Sees(c, q)'
    <2>1. Clean(c) /\ Sees(c, q)
      BY <1>0, <1>2, <1>3, <1>7 DEF WillSee
    <2>2. CASE c # h \/ ~About(m, q)
      <3>1. \A v \in 0 .. MaxInfo : Told(c, q, v) => Told(c, q, v)'
        BY <1>2, <1>3, <1>7, <2>2
      <3>2. Owed(c, q) => Owed(c, q)'
        BY <1>6, <2>2
      <3> QED
        BY <2>1, <3>1, <3>2, SourceSame
    <2>3. CASE c = h /\ About(m, q)
      <3>1. q = a /\ (Says(m) = room[a] \/ a \in late')
        BY <2>3 DEF About
      <3>2. Says(m) \in 0 .. MaxInfo
        BY Bounds DEF Messages, Says
      <3>3. Told(c, q, Says(m))'
        BY <1>3, <1>7, <2>1, <2>3 DEF Sees
      <3> QED
        BY <3>1, <3>2, <3>3 DEF Sees
    <2> QED
      BY <2>2, <2>3
  <1>8. WillSee'
    BY <1>7 DEF WillSee
  <1> QED
    BY <1>4, <1>5, <1>8

(* A clean connection is a member of the room. *)
LEMMA CleanMember ==
    ASSUME RoomInv, NEW c \in Clients, Clean(c)
    PROVE  c \in Members
  BY DEF RoomInv, NoGhosts, Clean

(* The newcomer starts from the room as it is, and owes every member its Join. *)
LEMMA EnterSees ==
    ASSUME IInv, NEW a \in Clients, Enter(a)
    PROVE  (OneHello /\ FirstTells /\ WillSee)'
  <1>0. RoomInv /\ FirstTells
    BY DEF IInv
  <1>1. /\ task[a].pc = "idle" /\ room' = [room EXCEPT ![a] = 1]
        /\ up' = [up EXCEPT ![a] = TRUE] /\ client' = [client EXCEPT ![a].pc = "connecting"]
        /\ UNCHANGED <<recv, chan, rx, link, late>>
    BY DEF Enter
  <1>2. PICK order \in Orders(Members) : task' = [task EXCEPT ![a] = [pc |-> "join", todo |-> order, peers |-> room]]
    BY DEF Enter
  <1>3. \A x : In(order, x) <=> x \in Members
    BY <1>0, OrdersAll DEF RoomInv
  <1>4. /\ room \in [Clients -> 0..MaxInfo] /\ task \in [Clients -> TaskRecords]
        /\ client \in [Clients -> ClientRecords] /\ up \in [Clients -> BOOLEAN]
    BY <1>0, RecordsTyped DEF RoomInv
  <1>5. /\ task'[a].pc = "join" /\ task'[a].todo = order /\ task'[a].peers = room
        /\ \A x \in Clients \ {a} : task'[x] = task[x] /\ room'[x] = room[x] /\ up'[x] = up[x]
    BY <1>1, <1>2, <1>4
  <1>6. /\ client'[a].pc = "connecting" /\ client'[a].view = client[a].view
        /\ client'[a].buf = client[a].buf /\ client'[a].first = client[a].first
        /\ \A x \in Clients \ {a} : client'[x] = client[x]
    BY <1>1, <1>4 DEF ClientRecords
  <1>7. Untouched(a)
    BY <1>0, <1>1 DEF RoomInv, TodoEntered, Entered
  <1>8. /\ chan'[a] = <<>> /\ link'[a] = <<>> /\ client'[a].view = NoPeers
        /\ client'[a].buf.kind = "None" /\ client'[a].first = "none"
    BY <1>1, <1>6, <1>7 DEF Untouched
  <1>9. HelloOnce(a)'
    BY <1>5, <1>6, <1>8 DEF HelloOnce
  <1>10. ASSUME NEW q \in Clients \ {a}
         PROVE  room[q] \in 0 .. MaxInfo /\ Told(a, q, room[q])'
    <2>1. Base(a)' = room
      BY <1>5, <1>6, <1>8 DEF Base
    <2>2. Reads(<<>>, q, room[q], room[q])
      BY EmptyReads
    <2>3. Reads(link'[a], q, Base(a)'[q], room[q]) /\ Reads(chan'[a], q, room[q], room[q])
      BY <1>8, <2>1, <2>2
    <2>4. room[q] \in 0 .. MaxInfo /\ room'[q] = room[q]
      BY <1>4, <1>5
    <2> QED
      BY <2>3, <2>4 DEF Told
  <1>11. ASSUME NEW c \in Clients \ {a}, Clean(c)
         PROVE  Owed(c, a)'
    <2>1. In(task'[a].todo, c)
      BY <1>0, <1>3, <1>5, <1>11, CleanMember
    <2> QED
      BY <1>5, <2>1 DEF Owed, In
  <1> QED
    BY <1>1, <1>5, <1>6, <1>8, <1>9, <1>10, <1>11, AloneSees

(* A refused connection has never been in the room. *)
LEMMA RefusedSees ==
    ASSUME IInv, NEW a \in Clients, EnterRefused(a) \/ EnterMalformed(a)
    PROVE  (OneHello /\ FirstTells /\ WillSee)'
  <1>0. RoomInv
    BY DEF IInv
  <1>1. /\ task[a].pc = "idle" /\ task' = [task EXCEPT ![a].pc = "refused"]
        /\ client' = [client EXCEPT ![a].pc = "failed"]
        /\ UNCHANGED <<room, count, recv, chan, rx, link, up, late>>
    BY DEF EnterRefused, EnterMalformed
  <1>2. /\ task'[a].pc = "refused" /\ \A x \in Clients : x # a => task'[x] = task[x]
    BY <1>0, <1>1, TaskMoves DEF RoomInv
  <1>3. client \in [Clients -> ClientRecords]
    BY <1>0, RecordsTyped DEF RoomInv
  <1>4. client'[a].pc = "failed" /\ \A x \in Clients : x # a => client'[x] = client[x]
    BY <1>1, <1>3 DEF ClientRecords
  <1>5. ~Clean(a)'
    BY <1>2 DEF Clean
  <1>6. \A c \in Clients : ~Owed(c, a)
    BY <1>1 DEF Owed
  <1> QED
    BY <1>1, <1>2, <1>4, <1>5, <1>6, AloneSees

(* Every member hears of the newcomer in turn. *)
LEMMA SendJoinSees ==
    ASSUME IInv, NEW a \in Clients, SendJoin(a)
    PROVE  (OneHello /\ FirstTells /\ WillSee)'
  <1>0. RoomInv /\ OneHello /\ FirstTells
    BY DEF IInv
  <1>1. task[a].pc = "join" /\ UNCHANGED <<room, count, recv, rx, link, up, client, late>>
    BY DEF SendJoin
  <1>2. CASE task[a].todo = <<>> /\ task' = [task EXCEPT ![a].pc = "hello"] /\ UNCHANGED chan
    <2>1. /\ task'[a].pc = "hello" /\ task'[a].peers = task[a].peers
          /\ \A x \in Clients : x # a => task'[x] = task[x]
      BY <1>0, <1>2, TaskMoves DEF RoomInv
    <2>2. /\ Clean(a)' => Clean(a)
          /\ Clean(a)' /\ HelloOnce(a) => HelloOnce(a)'
          /\ \A q, v : Told(a, q, v) => Told(a, q, v)'
      BY <1>1, <1>2, <2>1, PathSame
    <2>3. Clean(a)' => HelloOnce(a)'
      BY <1>0, <2>2 DEF OneHello
    <2>4. \A c \in Clients : ~Owed(c, a)
      BY <1>1, <1>2, EmptyReads DEF Owed
    <2>5. client'[a].pc = "connecting" => client'[a].first # "hello"
      BY <1>0, <1>1 DEF FirstTells
    <2> QED
      BY <1>1, <1>2, <2>1, <2>2, <2>3, <2>4, <2>5, AloneSees
  <1>3. CASE /\ task[a].todo # <<>> /\ SendTo(Head(task[a].todo), Msg("Join", a, 1))
             /\ task' = [task EXCEPT ![a].todo = Tail(@)]
    <2> DEFINE m == Msg("Join", a, 1)
               h == Head(task[a].todo)
    <2>1. m \in Messages /\ m.kind = "Join" /\ m.of = a /\ m.info = 1
      BY Bounds, MessageTypes
    <2> HIDE DEF m
    <2>2. SendTo(h, m)
      BY <1>3 DEF m
    <2>3. /\ h \in Clients /\ task'[a].pc = task[a].pc /\ task'[a].peers = task[a].peers
          /\ task'[a].todo = Tail(task[a].todo) /\ \A x \in Clients : x # a => task'[x] = task[x]
      BY <1>0, <1>3, <2>1, <2>2, SendStep
    <2>4. room[a] = 1
      BY <1>0, <1>1 DEF RoomInv, Current
    <2>5. Says(m) = room[a]
      BY <2>1, <2>4 DEF Says
    <2>6. task[a].todo \in Seq(Clients)
      BY <1>0, RecordsTyped DEF RoomInv, TaskRecords
    <2>7. \A c \in Clients : In(task[a].todo, c) => c = h \/ In(task'[a].todo, c)
      BY <1>3, <2>3, <2>6, InTail
    <2>8. \A c \in Clients : Owed(c, a) => Owed(c, a)' \/ (c = h /\ About(m, a))
      BY <1>1, <2>1, <2>3, <2>7 DEF Owed, About, In
    <2> HIDE DEF h
    <2> QED
      BY <1>0, <1>1, <2>1, <2>2, <2>3, <2>5, <2>8, SendSees
  <1> QED
    BY <1>2, <1>3 DEF SendJoin

(* Hello is the first message of a clean connection. *)
LEMMA SayHelloSees ==
    ASSUME IInv, NEW a \in Clients, SayHello(a)
    PROVE  (OneHello /\ FirstTells /\ WillSee)'
  <1>0. RoomInv /\ OneHello /\ FirstTells
    BY DEF IInv
  <1> DEFINE m == HelloMsg(a, task[a].peers)
  <1>1. /\ task[a].pc = "hello" /\ UNCHANGED <<room, count, link, up, client, late>>
        /\ task' = [task EXCEPT ![a] = [@ EXCEPT !.pc = "run", !.peers = NoPeers]]
        /\ chan' = [chan EXCEPT ![a] = Append(chan[a], m)]
        /\ rx' = [rx EXCEPT ![a] = "task"] /\ recv' = [recv EXCEPT ![a] = Idle("read", a)]
    BY DEF SayHello
  <1>2. /\ task \in [Clients -> TaskRecords] /\ task[a].peers \in [Clients -> 0..MaxInfo]
        /\ chan \in [Clients -> Seq(Messages)] /\ rx \in [Clients -> {"held", "task", "gone"}]
    BY <1>0, RecordsTyped DEF RoomInv, TaskRecords
  <1>3. task'[a].pc = "run" /\ \A x \in Clients : x # a => task'[x] = task[x]
    BY <1>1, <1>2 DEF TaskRecords
  <1>4. \A x \in Clients : x # a => chan'[x] = chan[x] /\ rx'[x] = rx[x] /\ recv'[x] = recv[x]
    BY <1>0, <1>1, <1>2, RecvIdles DEF RoomInv
  <1>5. m \in Messages /\ m.kind = "Hello" /\ m.peers = task[a].peers
    BY <1>2, Bounds, MessageTypes
  <1> HIDE DEF m
  <1>6. chan'[a] = Append(chan[a], m) /\ rx[a] = "held"
    BY <1>0, <1>1, <1>2 DEF RoomInv, Reading, Starting
  <1>7. ASSUME Clean(a)' PROVE Clean(a) /\ HelloOnce(a) /\ link[a] = <<>> /\ chan[a] = <<>>
    <2>1. chan[a] # <<>> => Head(chan'[a]) = Head(chan[a]) /\ chan'[a] # <<>>
      <3>1. \A s \in Seq(Messages) : Append(s, m) # <<>>
        BY <1>5
      <3>2. chan[a] \in Seq(Messages)
        BY <1>2
      <3>3. chan[a] # <<>> => Head(Append(chan[a], m)) = Head(chan[a])
        BY <1>5, <3>2, NoHelloKept
      <3> QED
        BY <1>6, <3>1, <3>2, <3>3
    <2>2. Clean(a)
      BY <1>1, <1>6, <1>7, <2>1 DEF Clean
    <2>3. HelloOnce(a)
      BY <1>0, <2>2 DEF OneHello
    <2> QED
      BY <1>1, <2>2, <2>3 DEF HelloOnce, Clean
  <1>8. ASSUME Clean(a)'
        PROVE  HelloOnce(a)' /\ \A q, v : Told(a, q, v) => Told(a, q, v)'
    <2>0. \A x \in Messages : Append(<<>>, x) # <<>> /\ Head(Append(<<>>, x)) = x /\ Tail(Append(<<>>, x)) = <<>>
      OBVIOUS
    <2>1. link'[a] = <<>> /\ chan'[a] # <<>> /\ Head(chan'[a]) = m /\ Tail(chan'[a]) = <<>>
      BY <1>1, <1>5, <1>6, <1>7, <1>8, <2>0
    <2>2. HelloOnce(a)'
      BY <1>1, <1>3, <1>7, <1>8, <2>1, EmptyReads DEF HelloOnce, Clean
    <2>3. Base(a)' = Base(a)
      BY <1>1, <1>5, <1>7, <1>8, <2>1 DEF Base, HelloOnce
    <2>4. ASSUME NEW q, NEW v, Told(a, q, v) PROVE Told(a, q, v)'
      <3>1. PICK w \in 0 .. MaxInfo : Reads(link[a], q, Base(a)[q], w) /\ Reads(chan[a], q, w, v)
        BY <2>4 DEF Told
      <3>2. ~About(m, q)
        BY <1>5 DEF About
      <3>3. Reads(chan'[a], q, w, v)
        BY <1>2, <1>5, <1>6, <3>1, <3>2, AppendOther
      <3> QED
        BY <1>1, <2>3, <3>1, <3>3 DEF Told
    <2> QED
      BY <2>2, <2>4
  <1>9. \A c \in Clients : ~Owed(c, a)
    BY <1>1 DEF Owed
  <1>10. client'[a].pc = "connecting" => client'[a].first # "hello"
    BY <1>0, <1>1 DEF FirstTells
  <1> QED
    BY <1>1, <1>3, <1>4, <1>7, <1>8, <1>9, <1>10, AloneSees

(* A handler that is going to leave owes everybody its Left. *)
LEMMA SelectSees ==
    ASSUME IInv, NEW a \in Clients, Select(a)
    PROVE  (OneHello /\ FirstTells /\ WillSee)'
  <1>0. RoomInv /\ FirstTells
    BY DEF IInv
  <1>1. /\ UNCHANGED <<room, count, link, up, client, late>> /\ task' = [task EXCEPT ![a].pc = "leave"]
        /\ rx' = [rx EXCEPT ![a] = "gone"] /\ chan' = [chan EXCEPT ![a] = <<>>]
    BY DEF Select
  <1>2. task'[a].pc = "leave" /\ \A x \in Clients : x # a => task'[x] = task[x]
    BY <1>0, <1>1, TaskMoves DEF RoomInv
  <1>3. \A x \in Clients : x # a => rx'[x] = rx[x] /\ chan'[x] = chan[x] /\ recv'[x] = recv[x]
    <2>1. /\ rx \in [Clients -> {"held", "task", "gone"}] /\ chan \in [Clients -> Seq(Messages)]
          /\ recv \in [Clients -> RecvRecords]
      BY <1>0, RecordsTyped DEF RoomInv
    <2>2. \A x \in Clients : x # a => recv'[x] = recv[x]
      BY <2>1 DEF Select
    <2> QED
      BY <1>1, <2>1, <2>2
  <1>4. ~Clean(a)' /\ \A c : Owed(c, a)'
    BY <1>2 DEF Clean, Owed
  <1>5. client'[a].pc = "connecting" => client'[a].first # "hello"
    BY <1>0, <1>1 DEF FirstTells
  <1> QED
    BY <1>1, <1>2, <1>3, <1>4, <1>5, AloneSees

(* The peers it is owed to are the members it leaves behind. *)
LEMMA LeaveSees ==
    ASSUME IInv, NEW a \in Clients, Leave(a)
    PROVE  (OneHello /\ FirstTells /\ WillSee)'
  <1>0. RoomInv /\ FirstTells
    BY DEF IInv
  <1>1. room' = [room EXCEPT ![a] = 0] /\ UNCHANGED <<count, recv, chan, rx, link, up, client, late>>
    BY DEF Leave
  <1>2. PICK order \in Orders(Members \ {a}) : task' = [task EXCEPT ![a] = [@ EXCEPT !.pc = "left", !.todo = order]]
    BY Zenon DEF Leave
  <1>3. order \in Seq(Clients) /\ \A x : In(order, x) <=> x \in Members \ {a}
    BY <1>0, OthersOrder
  <1>4. task \in [Clients -> TaskRecords] /\ room \in [Clients -> 0..MaxInfo]
    BY <1>0, RecordsTyped DEF RoomInv
  <1>5. task'[a].pc = "left" /\ task'[a].todo = order /\ \A x \in Clients : x # a => task'[x] = task[x]
    BY <1>2, <1>3, <1>4 DEF TaskRecords
  <1>6. \A x \in Clients : x # a => room'[x] = room[x]
    BY <1>1, <1>4
  <1>7. ~Clean(a)'
    BY <1>5 DEF Clean
  <1>8. ASSUME NEW c \in Clients \ {a}, Clean(c)
        PROVE  Owed(c, a)'
    <2>1. In(task'[a].todo, c)
      BY <1>0, <1>3, <1>5, <1>8, CleanMember
    <2> QED
      BY <1>5, <2>1 DEF Owed, In
  <1>9. client'[a].pc = "connecting" => client'[a].first # "hello"
    BY <1>0, <1>1 DEF FirstTells
  <1> QED
    BY <1>1, <1>5, <1>6, <1>7, <1>8, <1>9, AloneSees

(* Left: who has gone is no longer seen once the message is read. *)
LEMMA SendLeftSees ==
    ASSUME IInv, NEW a \in Clients, SendLeft(a)
    PROVE  (OneHello /\ FirstTells /\ WillSee)'
  <1>0. RoomInv
    BY DEF IInv
  <1>1. task[a].pc = "left" /\ UNCHANGED <<room, count, recv, rx, late>>
    BY DEF SendLeft
  <1>2. CASE /\ task[a].todo = <<>> /\ task' = [task EXCEPT ![a].pc = "done"]
             /\ up' = [up EXCEPT ![a] = FALSE] /\ link' = [link EXCEPT ![a] = <<>>]
             /\ client' = [client EXCEPT ![a] = NoClient("closed", a)] /\ UNCHANGED chan
    <2>1. task'[a].pc = "done" /\ \A x \in Clients : x # a => task'[x] = task[x]
      BY <1>0, <1>2, TaskMoves DEF RoomInv
    <2>2. /\ \A x \in Clients : x # a => up'[x] = up[x] /\ link'[x] = link[x] /\ client'[x] = client[x]
          /\ client'[a].pc = "closed"
      BY <1>0, <1>2, ClosedTypes DEF RoomInv
    <2>3. ~Clean(a)'
      BY <2>1 DEF Clean
    <2>4. \A c \in Clients : ~Owed(c, a)
      BY <1>1, <1>2, EmptyReads DEF Owed
    <2> QED
      BY <1>1, <1>2, <2>1, <2>2, <2>3, <2>4, AloneSees
  <1>3. CASE /\ task[a].todo # <<>> /\ SendTo(Head(task[a].todo), Msg("Left", a, 0))
             /\ task' = [task EXCEPT ![a].todo = Tail(@)] /\ UNCHANGED <<up, link, client>>
    <2> DEFINE m == Msg("Left", a, 0)
               h == Head(task[a].todo)
    <2>0. 0 \in 0..MaxInfo
      BY Bounds
    <2>1. m \in Messages /\ m.kind = "Left" /\ m.of = a
      BY <2>0, MessageTypes
    <2> HIDE DEF m
    <2>2. SendTo(h, m) /\ UNCHANGED <<up, link, client>>
      BY <1>3 DEF m
    <2>3. /\ h \in Clients /\ task'[a].pc = task[a].pc /\ task'[a].peers = task[a].peers
          /\ task'[a].todo = Tail(task[a].todo) /\ \A x \in Clients : x # a => task'[x] = task[x]
      BY <1>0, <1>3, <2>1, <2>2, SendStep
    <2>4. room[a] = 0
      BY <1>0, <1>1 DEF RoomInv, NoGhosts, Members
    <2>5. Says(m) = room[a]
      BY <2>1, <2>4 DEF Says
    <2>6. task[a].todo \in Seq(Clients)
      BY <1>0, RecordsTyped DEF RoomInv, TaskRecords
    <2>7. \A c \in Clients : In(task[a].todo, c) => c = h \/ In(task'[a].todo, c)
      BY <1>3, <2>3, <2>6, InTail
    <2>8. \A c \in Clients : Owed(c, a) => Owed(c, a)' \/ (c = h /\ About(m, a))
      BY <1>1, <2>1, <2>3, <2>7 DEF Owed, About, In
    <2> HIDE DEF h
    <2> QED
      BY <1>0, <1>1, <2>1, <2>2, <2>3, <2>5, <2>8, SendSees
  <1> QED
    BY <1>2, <1>3 DEF SendLeft

(* The first message of the queue becomes the last one of the link. *)
LEMMA SendTaskSees ==
    ASSUME IInv, NEW a \in Clients, SendTask(a) \/ SendTaskFails(a)
    PROVE  (OneHello /\ FirstTells /\ WillSee)'
  <1>0. RoomInv /\ OneHello /\ FirstTells
    BY DEF IInv
  <1>1. UNCHANGED <<room, count, task, recv, up, client, late>> /\ chan[a] # <<>>
    BY DEF SendTask, SendTaskFails
  <1>2. /\ chan \in [Clients -> Seq(Messages)] /\ link \in [Clients -> Seq(Messages)]
        /\ rx \in [Clients -> {"held", "task", "gone"}] /\ chan[a] \in Seq(Messages) /\ link[a] \in Seq(Messages)
    BY <1>0, RecordsTyped DEF RoomInv
  <1>3. client'[a].pc = "connecting" => client'[a].first # "hello"
    BY <1>0, <1>1 DEF FirstTells
  <1>4. \A c \in Clients : Owed(c, a) => Owed(c, a)'
    BY <1>1 DEF Owed
  <1>5. CASE SendTaskFails(a)
    <2>1. /\ ~up[a] /\ link' = link
          /\ rx' = [rx EXCEPT ![a] = "gone"] /\ chan' = [chan EXCEPT ![a] = <<>>]
      BY <1>5 DEF SendTaskFails
    <2>2. \A x \in Clients : x # a => chan'[x] = chan[x] /\ rx'[x] = rx[x]
      BY <1>2, <2>1
    <2>3. ~Clean(a)'
      BY <1>1, <2>1 DEF Clean
    <2> QED
      BY <1>1, <1>3, <1>4, <2>1, <2>2, <2>3, AloneSees
  <1>6. CASE SendTask(a)
    <2> DEFINE m == Head(chan[a])
    <2>1. /\ rx' = rx
          /\ link' = [link EXCEPT ![a] = Append(link[a], m)] /\ chan' = [chan EXCEPT ![a] = Tail(chan[a])]
      BY <1>6 DEF SendTask
    <2>2. /\ \A x \in Clients : x # a => chan'[x] = chan[x] /\ link'[x] = link[x]
          /\ link'[a] = Append(link[a], m) /\ chan'[a] = Tail(chan[a])
      BY <1>2, <2>1
    <2>3. m \in Messages /\ Tail(chan[a]) \in Seq(Messages)
      BY <1>1, <1>2
    <2>4. link[a] # <<>> => /\ Head(link'[a]) = Head(link[a])
                            /\ Tail(link'[a]) = Append(Tail(link[a]), m) /\ Tail(link[a]) \in Seq(Messages)
      BY <1>2, <2>2, <2>3, NoHelloKept
    <2>5. link[a] = <<>> => Head(link'[a]) = m /\ Tail(link'[a]) = <<>>
      <3>1. \A x \in Messages : Head(Append(<<>>, x)) = x /\ Tail(Append(<<>>, x)) = <<>>
        OBVIOUS
      <3> QED
        BY <2>2, <2>3, <3>1
    <2>6. link'[a] # <<>>
      <3> HIDE DEF m
      <3>1. \A s \in Seq(Messages) : Append(s, m) # <<>>
        BY <2>3
      <3> QED
        BY <1>2, <2>2, <3>1
    <2>7. NoHello(chan[a]) => NoHello(chan'[a]) /\ m.kind # "Hello"
      BY <1>1, <1>2, <2>2, NoHelloKept
    <2>8. NoHello(link[a]) /\ m.kind # "Hello" => NoHello(link'[a])
      BY <1>2, <2>2, <2>3, NoHelloKept
    <2>9. link[a] # <<>> /\ NoHello(Tail(link[a])) /\ m.kind # "Hello" => NoHello(Tail(link'[a]))
      <3> SUFFICES ASSUME link[a] # <<>>, NoHello(Tail(link[a])), m.kind # "Hello" PROVE NoHello(Tail(link'[a]))
        OBVIOUS
      <3>1. NoHello(Append(Tail(link[a]), m))
        BY <2>3, <2>4, NoHelloKept
      <3> QED
        BY <2>4, <3>1
    <2>10. ASSUME NEW q, NEW w, NEW v, NEW b, Reads(link[a], q, b, w), Reads(chan[a], q, w, v), w \in 0 .. MaxInfo
           PROVE  \E u \in 0 .. MaxInfo : Reads(link'[a], q, b, u) /\ Reads(chan'[a], q, u, v)
      <3>1. Reads(chan'[a], q, IF About(m, q) THEN Says(m) ELSE w, v)
        BY <1>1, <1>2, <2>2, <2>10, TailReads
      <3>2. Reads(link'[a], q, b, IF About(m, q) THEN Says(m) ELSE w)
        BY <1>2, <2>2, <2>3, <2>10, AppendAbout, AppendOther
      <3>3. Says(m) \in 0 .. MaxInfo
        BY <2>3, Bounds DEF Says, Messages
      <3> QED
        BY <2>10, <3>1, <3>2, <3>3
    <2> HIDE DEF m
    <2>11. Clean(a)' => Clean(a) /\ HelloOnce(a)
      <3> SUFFICES ASSUME Clean(a)' PROVE Clean(a)
        BY <1>0 DEF OneHello
      <3>1. link[a] = <<>> => m.kind = "Hello" \/ client[a].pc # "connecting"
        BY <1>1, <2>5, <2>6 DEF Clean
      <3> QED
        BY <1>1, <2>1, <2>4, <2>6, <3>1 DEF Clean, m
    <2>12. ASSUME Clean(a)' PROVE HelloOnce(a)'
      <3>1. CASE client[a].pc = "open"
        BY <1>1, <2>7, <2>8, <2>11, <2>12, <3>1 DEF HelloOnce
      <3>2. CASE client[a].pc = "connecting" /\ link[a] # <<>>
        BY <1>1, <2>6, <2>7, <2>9, <2>11, <2>12, <3>2 DEF HelloOnce
      <3>3. CASE client[a].pc = "connecting" /\ link[a] = <<>>
        BY <1>1, <2>2, <2>5, <2>6, <2>11, <2>12, <3>3, EmptyReads DEF HelloOnce
      <3> QED
        BY <2>11, <2>12, <3>1, <3>2, <3>3 DEF Clean
    <2>13. Base(a)' = Base(a)
      BY <1>1, <2>4, <2>5, <2>6 DEF Base, m
    <2>14. \A q, v : Told(a, q, v) => Told(a, q, v)'
      BY <2>10, <2>13 DEF Told
    <2> QED
      BY <1>1, <1>3, <1>4, <2>1, <2>2, <2>11, <2>12, <2>14, AloneSees
  <1> QED
    BY <1>5, <1>6

(* A reading task that owed nobody anything, or whose handler is leaving. *)
LEMMA RecvSees ==
    ASSUME IInv, NEW a \in Clients, UNCHANGED <<room, task, chan, rx, link, up, client, late>>,
           \A x \in Clients : x # a => recv'[x] = recv[x],
           task[a].pc = "run" => recv[a].todo = <<>>
    PROVE  (OneHello /\ FirstTells /\ WillSee)'
  <1>0. OneHello /\ FirstTells
    BY DEF IInv
  <1>1. /\ Clean(a)' => Clean(a)
        /\ Clean(a)' /\ HelloOnce(a) => HelloOnce(a)'
        /\ \A q, v : Told(a, q, v) => Told(a, q, v)'
    BY PathSame
  <1>2. Clean(a)' => HelloOnce(a)'
    BY <1>0, <1>1 DEF OneHello
  <1>3. client'[a].pc = "connecting" => client'[a].first # "hello"
    BY <1>0 DEF FirstTells
  <1>4. \A c \in Clients : Owed(c, a) => Owed(c, a)'
    BY EmptyReads DEF Owed
  <1> QED
    BY <1>1, <1>2, <1>3, <1>4, AloneSees

(* A request is read by a task that has nothing to send. *)
LEMMA RequestSees ==
    ASSUME IInv, NEW a \in Clients, Request(a) \/ RecvSdp(a) \/ RecvEnds(a)
    PROVE  (OneHello /\ FirstTells /\ WillSee)'
  <1>0. RoomInv
    BY DEF IInv
  <1>1. recv \in [Clients -> RecvRecords]
    BY <1>0, RecordsTyped DEF RoomInv
  <1>2. CASE Request(a)
    <2>1. recv[a].pc = "read" /\ UNCHANGED <<room, task, chan, rx, link, up, client, late>>
      BY <1>2 DEF Request, RecvRequest, RecvLimited, CanRequest
    <2>2. \A x \in Clients : x # a => recv'[x] = recv[x]
      BY <1>1, <1>2 DEF Request, RecvRequest, RecvLimited
    <2>3. recv[a].todo = <<>>
      BY <1>0, <2>1 DEF RoomInv, Reading
    <2> QED
      BY <2>1, <2>2, <2>3, RecvSees
  <1>3. CASE RecvSdp(a)
    <2>1. recv[a].pc = "sdp" /\ UNCHANGED <<room, task, chan, rx, link, up, client, late>>
      BY <1>3, Zenon DEF RecvSdp
    <2>2. PICK q \in Clients :
            recv' = [recv EXCEPT ![a] =
                       IF q \in Members
                       THEN [@ EXCEPT !.pc = "fan", !.todo = <<q>>, !.msg = Msg("Sdp", a, 1)]
                       ELSE [@ EXCEPT !.pc = "read"]]
      BY <1>3, Zenon DEF RecvSdp
    <2>3. \A x \in Clients : x # a => recv'[x] = recv[x]
      <3>1. CASE q \in Members
        <4>1. recv' = [recv EXCEPT ![a] = [@ EXCEPT !.pc = "fan", !.todo = <<q>>, !.msg = Msg("Sdp", a, 1)]]
          BY <2>2, <3>1
        <4> QED
          BY <1>1, <4>1
      <3>2. CASE q \notin Members
        <4>1. recv' = [recv EXCEPT ![a].pc = "read"]
          BY <2>2, <3>2
        <4> QED
          BY <1>1, <4>1
      <3> QED
        BY <3>1, <3>2
    <2>4. recv[a].todo = <<>>
      BY <1>0, <2>1 DEF RoomInv, Reading
    <2> QED
      BY <2>1, <2>3, <2>4, RecvSees
  <1>4. CASE RecvEnds(a)
    <2>1. recv[a].pc = "read" \/ recv[a].aborted
      BY <1>4 DEF RecvEnds
    <2>2. UNCHANGED <<room, task, chan, rx, link, up, client, late>> /\ \A x \in Clients : x # a => recv'[x] = recv[x]
      BY <1>1, <1>4 DEF RecvEnds
    <2>3. task[a].pc = "run" => recv[a].todo = <<>>
      BY <1>0, <2>1 DEF RoomInv, Reading, Leaving
    <2> QED
      BY <2>2, <2>3, RecvSees
  <1> QED
    BY <1>2, <1>3, <1>4

(* An update is owed to every other member. *)
LEMMA UpdateSees ==
    ASSUME IInv, NEW a \in Clients, RecvUpdate(a)
    PROVE  (OneHello /\ FirstTells /\ WillSee)'
  <1>0. RoomInv /\ OneHello /\ FirstTells
    BY DEF IInv
  <1>1. /\ UNCHANGED <<count, task, chan, rx, link, up, client, late>>
        /\ ~Starting(a) /\ recv[a].todo = <<>>
        /\ \A x \in Clients : x # a => recv'[x] = recv[x] /\ room'[x] = room[x]
    BY <1>0, UpdateIs
  <1>2. CASE a \notin Members /\ room' = room
    BY <1>1, <1>2, RecvSees
  <1>3. CASE /\ a \in Members /\ room'[a] = room[a] + 1 /\ room'[a] \in 0..MaxInfo
             /\ recv'[a].msg = Msg("Update", a, room[a] + 1)
             /\ \A x : In(recv'[a].todo, x) <=> x \in Members \ {a}
    <2>1. task[a].pc \in {"run", "leave"}
      BY <1>0, <1>1, <1>3 DEF RoomInv, NoGhosts, Starting
    <2>2. recv'[a].msg.kind = "Update"
      BY <1>3, MessageTypes
    <2>3. ASSUME NEW c \in Clients \ {a}, Clean(c)
          PROVE  Owed(c, a)'
      <3>1. In(recv'[a].todo, c)
        BY <1>0, <1>3, <2>3, CleanMember
      <3> QED
        BY <1>1, <2>1, <2>2, <3>1 DEF Owed, In
    <2>4. /\ Clean(a)' => Clean(a)
          /\ Clean(a)' /\ HelloOnce(a) => HelloOnce(a)'
          /\ \A q, v : Told(a, q, v) => Told(a, q, v)'
      BY <1>1, PathSame
    <2>5. Clean(a)' => HelloOnce(a)'
      BY <1>0, <2>4 DEF OneHello
    <2>6. client'[a].pc = "connecting" => client'[a].first # "hello"
      BY <1>0, <1>1 DEF FirstTells
    <2> QED
      BY <1>1, <2>3, <2>4, <2>5, <2>6, AloneSees
  <1> QED
    BY <1>0, <1>2, <1>3, UpdateIs

(* Each of them is told in turn: what the room holds while the handler      *)
(* runs, and after that by a task that had been aborted.                    *)
LEMMA FanSees ==
    ASSUME IInv, NEW a \in Clients, RecvSend(a)
    PROVE  (OneHello /\ FirstTells /\ WillSee)'
  <1>0. RoomInv
    BY DEF IInv
  <1>1. /\ recv[a].pc \in {"fan", "err"} /\ UNCHANGED <<room, count, task, rx, link, up, client>> /\ ~Starting(a)
        /\ \A x \in Clients : x # a => recv'[x] = recv[x]
    BY <1>0, FanIs
  <1>2. CASE recv[a].todo = <<>> /\ UNCHANGED <<chan, late>>
    BY <1>1, <1>2, RecvSees
  <1>3. CASE /\ recv[a].todo # <<>> /\ Head(recv[a].todo) \in Clients
             /\ SendTo(Head(recv[a].todo), recv[a].msg)
             /\ recv'[a].todo = Tail(recv[a].todo) /\ recv'[a].msg = recv[a].msg
             /\ late' = IF recv[a].aborted THEN late \cup {a} ELSE late
    <2> DEFINE m == recv[a].msg
               h == Head(recv[a].todo)
    <2>1. m.of = a /\ m.kind \in {"None", "Update", "Sdp", "Error"} /\ (Leaving(a) => recv[a].aborted)
      BY <1>0, <1>1 DEF RoomInv, Reading
    <2>2. m \in Messages /\ recv[a].todo \in Seq(Clients)
      BY <1>0, RecordsTyped DEF RoomInv, RecvRecords
    <2>3. ASSUME About(m, a) PROVE Says(m) = room[a] \/ a \in late'
      <3>1. CASE task[a].pc = "run"
        BY <1>0, <2>1, <2>3, <3>1 DEF RoomInv, Current, About, Says
      <3>2. CASE task[a].pc # "run"
        <4>1. Leaving(a)
          BY <1>0, <1>1, <3>2, RecordsTyped DEF RoomInv, Starting, Leaving, TaskRecords
        <4> QED
          BY <1>3, <2>1, <4>1
      <3> QED
        BY <3>1, <3>2
    <2>4. \A c \in Clients : In(recv[a].todo, c) => c = h \/ In(recv'[a].todo, c)
      BY <1>3, <2>2, InTail
    <2>5. \A c \in Clients : Owed(c, a) => Owed(c, a)' \/ (c = h /\ About(m, a))
      BY <1>1, <1>3, <2>1, <2>4 DEF Owed, About, In
    <2>6. h \in Clients /\ SendTo(h, m) /\ late \subseteq late'
      BY <1>3
    <2> HIDE DEF h, m
    <2> QED
      BY <1>1, <2>1, <2>2, <2>3, <2>5, <2>6, SendSees
  <1> QED
    BY <1>0, <1>2, <1>3, FanIs

(* What a client makes of a message that is not Hello. *)
LEMMA ApplyIs ==
    ASSUME NEW view \in [Clients -> 0..MaxInfo], NEW m \in Messages, NEW q \in Clients
    PROVE  /\ m.kind # "Hello" => Apply(view, m)[q] = IF About(m, q) THEN Says(m) ELSE view[q]
           /\ m.kind = "Hello" => Apply(view, m)[q] = IF m.peers[q] # 0 THEN m.peers[q] ELSE view[q]
           /\ m.kind = "None" => Apply(view, m) = view
  <1>1. m.kind \in {"None", "Hello", "Join", "Update", "Left", "Sdp", "Error"} /\ m.of \in Clients
    BY DEF Messages
  <1>2. CASE m.kind = "Hello"
    BY <1>2 DEF Apply
  <1>3. CASE m.kind \in {"Join", "Update"}
    BY <1>1, <1>3 DEF Apply, About, Says
  <1>4. CASE m.kind = "Left"
    BY <1>1, <1>4 DEF Apply, About, Says
  <1>5. CASE m.kind \in {"None", "Sdp", "Error"}
    BY <1>5 DEF Apply, About
  <1> QED
    BY <1>1, <1>2, <1>3, <1>4, <1>5

(* The client reads one message. *)
LEMMA ReadSees ==
    ASSUME IInv, NEW a \in Clients, ClientRead(a)
    PROVE  (OneHello /\ FirstTells /\ WillSee)'
  <1>0. RoomInv /\ OneHello /\ FirstTells
    BY DEF IInv
  <1> DEFINE m == Head(link[a])
             k == client[a]
  <1>1. /\ link[a] # <<>> /\ link' = [link EXCEPT ![a] = Tail(@)]
        /\ UNCHANGED <<room, count, task, recv, chan, rx, up, late>>
    BY DEF ClientRead
  <1>2. /\ client \in [Clients -> ClientRecords] /\ link \in [Clients -> Seq(Messages)] /\ k \in ClientRecords
        /\ link[a] \in Seq(Messages)
    BY <1>0, RecordsTyped DEF RoomInv
  <1>3. /\ m \in Messages /\ link'[a] = Tail(link[a]) /\ \A x \in Clients : x # a => link'[x] = link[x]
        /\ k.view \in [Clients -> 0..MaxInfo] /\ k.buf \in Messages
    BY <1>1, <1>2 DEF ClientRecords
  <1>4. \A c \in Clients : Owed(c, a) => Owed(c, a)'
    BY <1>1 DEF Owed
  <1>5. NoHello(link[a]) => NoHello(link'[a]) /\ m.kind # "Hello"
    BY <1>1, <1>2, <1>3, NoHelloKept
  <1>6. ASSUME NEW q, NEW b, NEW v,
               \E w \in 0 .. MaxInfo : Reads(link[a], q, b, w) /\ Reads(chan[a], q, w, v)
        PROVE  \E w \in 0 .. MaxInfo : /\ Reads(link'[a], q, IF About(m, q) THEN Says(m) ELSE b, w)
                                       /\ Reads(chan[a], q, w, v)
    BY <1>1, <1>2, <1>3, <1>6, TailReads
  <1> HIDE DEF m
  <1>7. CASE k.pc = "open" /\ client' = [client EXCEPT ![a].view = Apply(@, m)]
    <2>1. /\ client'[a].pc = "open" /\ client'[a].first = k.first /\ client'[a].view = Apply(k.view, m)
          /\ \A x \in Clients : x # a => client'[x] = client[x]
      BY <1>2, <1>7 DEF ClientRecords
    <2>2. Clean(a)' => Clean(a) /\ HelloOnce(a)
      BY <1>0, <1>1, <1>7, <2>1 DEF Clean, OneHello
    <2>3. Clean(a)' => HelloOnce(a)' /\ m.kind # "Hello"
      BY <1>1, <1>5, <1>7, <2>1, <2>2 DEF HelloOnce
    <2>4. ASSUME NEW q \in Clients \ {a}, NEW v \in 0 .. MaxInfo, Clean(a)', Told(a, q, v)
          PROVE  Told(a, q, v)'
      <3>1. Base(a)'[q] = IF About(m, q) THEN Says(m) ELSE Base(a)[q]
        <4>1. Base(a)' = Apply(k.view, m) /\ Base(a) = k.view
          BY <1>7, <2>1 DEF Base
        <4> QED
          BY <1>3, <2>3, <2>4, <4>1, ApplyIs
      <3> QED
        BY <1>1, <1>6, <2>4, <3>1 DEF Told
    <2> QED
      BY <1>1, <1>3, <1>4, <2>1, <2>2, <2>3, <2>4, AloneSees
  <1>8. CASE /\ k.pc = "connecting" /\ m.kind = "Hello"
             /\ client' = [client EXCEPT ![a] =
                             [pc |-> "open", buf |-> NoMsg(a), view |-> Apply(Apply(k.view, k.buf), m),
                              first |-> IF k.first = "none" THEN "hello" ELSE k.first]]
    <2>1. /\ client'[a].pc = "open" /\ client'[a].first = (IF k.first = "none" THEN "hello" ELSE k.first)
          /\ client'[a].view = Apply(Apply(k.view, k.buf), m)
          /\ \A x \in Clients : x # a => client'[x] = client[x]
      BY <1>2, <1>8
    <2>2. Clean(a)' => Clean(a) /\ HelloOnce(a)
      BY <1>0, <1>1, <1>8, <2>1 DEF Clean, OneHello, FirstTells, m
    <2>3. Clean(a)' => HelloOnce(a)'
      BY <1>1, <1>3, <1>8, <2>1, <2>2 DEF HelloOnce
    <2>4. ASSUME NEW q \in Clients \ {a}, NEW v \in 0 .. MaxInfo, Clean(a)', Told(a, q, v)
          PROVE  Told(a, q, v)'
      <3>1. Base(a)[q] = m.peers[q] /\ ~About(m, q)
        BY <1>1, <1>8 DEF Base, About, m
      <3>2. Base(a)'[q] = m.peers[q]
        <4>1. k.view = NoPeers /\ k.buf.kind = "None"
          BY <1>8, <2>2, <2>4 DEF HelloOnce
        <4>2. Apply(k.view, k.buf) = k.view
          BY <1>3, <4>1, ApplyIs
        <4>3. Base(a)' = Apply(k.view, m)
          BY <2>1, <4>2 DEF Base
        <4>4. Apply(k.view, m)[q] = IF m.peers[q] # 0 THEN m.peers[q] ELSE k.view[q]
          BY <1>3, <1>8, ApplyIs
        <4> QED
          BY <4>1, <4>3, <4>4 DEF NoPeers
      <3> QED
        BY <1>1, <1>6, <2>4, <3>1, <3>2 DEF Told
    <2> QED
      BY <1>1, <1>3, <1>4, <2>1, <2>2, <2>3, <2>4, AloneSees
  <1>9. CASE k.pc = "connecting" /\ client' = [client EXCEPT ![a] = [@ EXCEPT !.buf = m, !.first = "other"]]
    <2>1. /\ client'[a].pc = "connecting" /\ client'[a].first = "other"
          /\ \A x \in Clients : x # a => client'[x] = client[x]
      BY <1>2, <1>9 DEF ClientRecords
    <2>2. ~Clean(a)'
      BY <2>1 DEF Clean
    <2> QED
      BY <1>1, <1>3, <1>4, <2>1, <2>2, AloneSees
  <1> QED
    BY <1>7, <1>8, <1>9 DEF ClientRead, m

(* A closed connection: its client reads nothing any more. *)
LEMMA DisconnectSees ==
    ASSUME IInv, NEW a \in Clients, Disconnect(a)
    PROVE  (OneHello /\ FirstTells /\ WillSee)'
  <1>1. /\ up' = [up EXCEPT ![a] = FALSE] /\ link' = [link EXCEPT ![a] = <<>>]
        /\ client' = [client EXCEPT ![a] = NoClient("closed", a)]
        /\ UNCHANGED <<room, count, task, recv, chan, rx, late>>
    BY DEF Disconnect
  <1>2. /\ \A x \in Clients : x # a => up'[x] = up[x] /\ link'[x] = link[x] /\ client'[x] = client[x]
        /\ ~up'[a] /\ client'[a].pc = "closed"
    BY <1>1, ClosedTypes DEF IInv, RoomInv
  <1>3. ~Clean(a)'
    BY <1>2 DEF Clean
  <1>4. \A c \in Clients : Owed(c, a) => Owed(c, a)'
    BY <1>1 DEF Owed
  <1> QED
    BY <1>1, <1>2, <1>3, <1>4, AloneSees

(* A step that leaves room, channels and clients alone. *)
LEMMA NothingSees ==
    ASSUME IInv, UNCHANGED <<room, task, recv, chan, rx, link, up, client, late>>
    PROVE  (OneHello /\ FirstTells /\ WillSee)'
  <1>0. OneHello /\ FirstTells /\ WillSee
    BY DEF IInv
  <1>1. \A c \in Clients :
           /\ Clean(c)' => Clean(c)
           /\ Clean(c)' /\ HelloOnce(c) => HelloOnce(c)'
           /\ \A q, v : Told(c, q, v) => Told(c, q, v)'
    BY PathSame
  <1>2. \A c, q \in Clients : Owed(c, q) => Owed(c, q)'
    BY DEF Owed
  <1>3. \A c, q \in Clients : Clean(c)' /\ Sees(c, q) => Sees(c, q)'
    BY <1>1, <1>2, SourceSame
  <1> QED
    BY <1>0, <1>1, <1>3 DEF OneHello, FirstTells, WillSee

(* Every step keeps the whole invariant. *)
LEMMA Step == IInv /\ [Next]_vars => IInv'
  <1> SUFFICES ASSUME IInv, [Next]_vars PROVE IInv'
    OBVIOUS
  <1>0. RoomInv'
    BY RoomStep DEF IInv
  <1>1. ASSUME UNCHANGED vars PROVE (OneHello /\ FirstTells /\ WillSee)'
    <2>1. UNCHANGED <<room, task, recv, chan, rx, link, up, client, late>>
      BY <1>1 DEF vars
    <2> QED
      BY <2>1, NothingSees
  <1>2. ASSUME NEW c \in Clients, HandlerStep(c) PROVE (OneHello /\ FirstTells /\ WillSee)'
    BY <1>2, SendJoinSees, SayHelloSees, SelectSees, LeaveSees, SendLeftSees DEF HandlerStep
  <1>3. ASSUME NEW c \in Clients, TaskStep(c) PROVE (OneHello /\ FirstTells /\ WillSee)'
    BY <1>3, SendTaskSees, UpdateSees, RequestSees, FanSees DEF TaskStep
  <1>4. ASSUME ResetCount PROVE (OneHello /\ FirstTells /\ WillSee)'
    <2>1. UNCHANGED <<room, task, recv, chan, rx, link, up, client, late>>
      BY <1>4 DEF ResetCount
    <2> QED
      BY <2>1, NothingSees
  <1>5. ASSUME NEW c \in Clients,
               \/ Enter(c) \/ EnterRefused(c) \/ EnterMalformed(c)
               \/ Disconnect(c) \/ Request(c) \/ ClientRead(c)
        PROVE  (OneHello /\ FirstTells /\ WillSee)'
    BY <1>5, EnterSees, RefusedSees, RequestSees, ReadSees, DisconnectSees
  <1>6. (OneHello /\ FirstTells /\ WillSee)'
    BY <1>1, <1>2, <1>3, <1>4, <1>5 DEF Next
  <1> QED
    BY <1>0, <1>6 DEF IInv

(* Nothing on its way and nothing owed: what is seen is what the room holds. *)
LEMMA SettledFollows == IInv => ViewSettled
  <1> SUFFICES ASSUME IInv, NEW c \in Clients, NEW q \in Clients,
                      c # q, q \notin late, client[c].pc = "open", client[c].first = "hello",
                      up[c], task[c].pc = "run", rx[c] = "task", ~InFlight(c, q)
               PROVE  client[c].view[q] = room[q]
    BY DEF ViewSettled
  <1>1. Clean(c)
    BY DEF Clean
  <1>2. ~Owed(c, q)
    BY DEF Owed, InFlight, In
  <1>3. PICK v \in 0 .. MaxInfo : Told(c, q, v) /\ v = room[q]
    BY <1>1, <1>2 DEF IInv, WillSee, Sees
  <1>4. PICK w \in 0 .. MaxInfo : Reads(link[c], q, client[c].view[q], w) /\ Reads(chan[c], q, w, v)
    BY <1>3 DEF Told, Base
  <1>5. /\ \A i \in DOMAIN link[c] : ~About(link[c][i], q)
        /\ \A i \in DOMAIN chan[c] : ~About(chan[c][i], q)
    BY DEF InFlight, About
  <1>6. w = client[c].view[q] /\ v = w
    BY <1>4, <1>5 DEF Reads
  <1> QED
    BY <1>3, <1>6

(* In every reachable state, once nothing about a peer is on its way to a   *)
(* connected client, the client sees of it exactly what the room holds.     *)
THEOREM ViewsSettle == Spec => []ViewSettled
  <1> QED
    BY InitInv, Step, SettledFollows, PTL DEF Spec
=============================================================================
