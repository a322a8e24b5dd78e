------------------------- MODULE SendTransferProofs -------------------------
(***************************************************************************)
(* Proofs about SendTransfer, for every set of files, every number of sends *)
(* and every capacity of the app's channels.                                *)
(***************************************************************************)
EXTENDS SendTransfer, FiniteSetTheorems, WellFoundedInduction, TLAPS

(* The files of the peer's session that have not ended yet. *)
Unfinished(p) == {f \in Files : p.file[f] \in {"pending", "busy"}}
HasSession(p, n) == p.st = "active" /\ p.session = n

(* A send n: its task t, its request w, the peer p, and how the process has *)
(* exited, x.  The request is the one the task's program counter names.     *)
Waits(t, w, x) ==
  /\ x = "gone" => w.kind = "none"
  /\ w.kind = "none" => w.st = "none"
  /\ w.kind = "prepare" => t.pc = "preparing"
  /\ w.kind = "upload" => t.pc = "uploading"
  /\ w.kind = "cancel" => t.pc = "cancelling"
  /\ w.kind = "upload" /\ w.st = "sent" => w.files # {}
  /\ t.unheard => t.pc \in {"end", "over"}

(* What is no longer to be uploaded is on the peer's disk. *)
Saves(n, t, w, p) ==
  /\ t.pc \in {"announce", "next", "uploading"} => t.accepted \subseteq p.saved[n] \cup t.left
  /\ t.ok => t.pc \in {"end", "over"} /\ t.accepted \subseteq p.saved[n]
  /\ w.kind = "upload" /\ w.st = "answered" /\ w.answer = "ok" => w.files \subseteq p.saved[n]

(* The peer has no slot for a send that has not reached it, that it refused, *)
(* or that its user cancelled; it decides only on one that still asks, or   *)
(* that gave up without hearing of it.                                      *)
Asks(n, t, w, p, x) ==
  /\ t.pc \in {"none", "prepare"} \/ (w.kind = "prepare" /\ w.st = "sent") =>
       p.session # n /\ n \notin p.cancelled
  /\ n \in p.cancelled => p.session # n
  /\ w.kind = "prepare" /\ w.st = "answered" /\ w.answer # "accepted" => p.session # n
  /\ p.st = "pending" /\ p.session = n =>
       t.unheard \/ (t.pc = "preparing" /\ (x = "gone" \/ (w.kind = "prepare" /\ w.st = "held")))

(* A session that is open on the peer has only files the task still sends,  *)
(* and none is open once the task has ended it.                             *)
Leaves(n, t, w, p) ==
  HasSession(p, n) =>
    /\ w.kind = "prepare" /\ w.st = "answered" => Unfinished(p) \subseteq w.files
    /\ t.pc \in {"announce", "next", "uploading"} => Unfinished(p) \subseteq t.left
    /\ w.kind = "upload" /\ w.st = "answered" /\ w.answer = "ok" => Unfinished(p) \cap w.files = {}
    /\ ~(w.kind = "cancel" /\ w.st = "answered")
    /\ t.pc \in {"end", "over"} => t.unheard

Sound(n, t, w, p, x) ==
  Waits(t, w, x) /\ Saves(n, t, w, p) /\ Asks(n, t, w, p, x) /\ Leaves(n, t, w, p)

SoundSends == \A n \in Sends : Sound(n, task[n], wire[n], peer, exit)

(* The peer's slot: a session under way has a file that is. *)
SlotSound(p) ==
  /\ p.st # "free" => p.session # 0
  /\ p.st = "active" => Unfinished(p) # {}

(* The app: sends start in their order, and the event that ends one is its  *)
(* last.                                                                    *)
InOrder == \A n, k \in Sends : k < n /\ task[n].pc # "none" => task[k].pc # "none"

EventsOrdered ==
  /\ \A i \in DOMAIN events : task[events[i].n].pc # "none"
  /\ \A i \in DOMAIN events : events[i].type = "SendEnded" => task[events[i].n].pc = "over"
  /\ \A i, j \in DOMAIN events : i < j /\ events[i].type = "SendEnded" => events[i].n # events[j].n

OwnSession == exit = "running" => send.session \in {0, send.n}

(* Only sessions the peer's user cancelled are cancelled from afar. *)
FromAfar ==
  /\ notices \subseteq peer.cancelled
  /\ \A i \in DOMAIN server : server[i] \in peer.cancelled

AppInv == InOrder /\ EventsOrdered /\ OwnSession /\ SendTracked /\ FromAfar /\ PeerCancelsOwn

IInv == TypeOK /\ SoundSends /\ SlotSound(peer) /\ AppInv
-----------------------------------------------------------------------------
(* The first file in the order of the names is one of them. *)
LEMMA MinIn ==
    ASSUME NEW S, S \subseteq Nat, S # {}
    PROVE  Min(S) \in S
  <1> DEFINE Below == {ss \in Nat \X Nat : ss[1] < ss[2]}
  <1>1. IsWellFoundedOn(Below, Nat)
    BY NatLessThanWellFounded, Zenon DEF OpToRel
  <1>2. PICK x \in S : \A y \in S : <<y, x>> \notin Below
    <2> HIDE DEF Below
    <2> QED
      BY <1>1, WFMin
  <1>3. \A y \in S : ~ (y < x)
    <2> TAKE y \in S
    <2>1. x \in Nat /\ y \in Nat
      OBVIOUS
    <2>2. ASSUME y < x PROVE <<y, x>> \in Below
      <3>1. <<y, x>> \in Nat \X Nat
        BY <2>1, Zenon
      <3>2. <<y, x>>[1] = y /\ <<y, x>>[2] = x
        OBVIOUS
      <3> QED
        BY <2>2, <3>1, <3>2, Zenon
    <2> QED
      BY <1>2, <2>2, Zenon
  <1>4. \A y \in S : x =< y
    BY <1>3
  <1> QED
    BY <1>4 DEF Min

(* No send is number 0, the number of none. *)
LEMMA SendsAreNumbers ==
    /\ Sends \subseteq Nat /\ 0 \notin Sends
    /\ MaxSends \in Nat \ {0} /\ EventCap \in Nat \ {0}
    /\ 1 \in Sends /\ 0 \in 0..MaxSends
    /\ \A n \in Sends : n \in 0..MaxSends /\ n >= 1
  BY SendAssumption DEF Sends

(* A step of the peer that gives n nothing keeps n sound: the slot is n's   *)
(* only as it was, and with no more files.                                  *)
LEMMA PeerElsewhere ==
    ASSUME NEW n \in Sends, NEW t, NEW w, NEW x, NEW p \in PeerType, NEW q \in PeerType,
           Sound(n, t, w, p, x),
           p.saved[n] \subseteq q.saved[n], n \in q.cancelled => n \in p.cancelled,
           q.session = n => /\ p.session = n /\ q.st = p.st
                            /\ Unfinished(q) \subseteq Unfinished(p)
    PROVE  Sound(n, t, w, q, x)
  <1>1. Saves(n, t, w, q)
    BY DEF Sound, Saves
  <1>2. Asks(n, t, w, q, x)
    BY DEF Sound, Asks
  <1>3. Leaves(n, t, w, q)
    BY DEF Sound, Leaves, HasSession
  <1> QED
    BY <1>1, <1>2, <1>3 DEF Sound

(* A step of the peer, which changes at most the request of one send. *)
LEMMA PeerStepInv ==
    ASSUME IInv, NEW n \in Sends, NEW p \in PeerType, NEW w \in WireType,
           peer' = p, wire' = [wire EXCEPT ![n] = w],
           Sound(n, task[n], w, p, exit), SlotSound(p),
           \A m \in Sends \ {n} :
               /\ peer.saved[m] \subseteq p.saved[m]
               /\ m \in p.cancelled => m \in peer.cancelled
               /\ p.session = m => /\ peer.session = m /\ p.st = peer.st
                                   /\ Unfinished(p) \subseteq Unfinished(peer),
           peer.cancelled \subseteq p.cancelled, notices' \subseteq p.cancelled,
           UNCHANGED <<mode, exit, overlay, send, cancel, task, events, server>>
    PROVE  IInv'
  <1> USE DEF IInv
  <1>1. TypeOK'
    <2>1. wire' \in [Sends -> WireType] /\ notices' \subseteq Sends
      BY DEF TypeOK, PeerType
    <2> QED
      BY <2>1 DEF TypeOK
  <1>2. SoundSends'
    <2> SUFFICES ASSUME NEW m \in Sends PROVE Sound(m, task[m], wire'[m], p, exit)
      BY DEF SoundSends
    <2>1. wire'[m] = IF m = n THEN w ELSE wire[m]
      BY DEF TypeOK
    <2>2. CASE m = n
      BY <2>1, <2>2
    <2>3. CASE m # n
      <3>1. Sound(m, task[m], wire[m], peer, exit) /\ peer \in PeerType
        BY DEF SoundSends, TypeOK
      <3> QED
        BY <2>1, <2>3, <3>1, PeerElsewhere
    <2> QED
      BY <2>2, <2>3
  <1>3. InOrder' /\ EventsOrdered' /\ OwnSession' /\ SendTracked'
    BY DEF AppInv, InOrder, EventsOrdered, OwnSession, SendTracked
  <1>4. FromAfar' /\ PeerCancelsOwn'
    BY DEF AppInv, FromAfar, PeerCancelsOwn
  <1> QED
    BY <1>1, <1>2, <1>3, <1>4 DEF AppInv

-----------------------------------------------------------------------------
(* The receiving device *)

(* A freed slot is nobody's and keeps what was saved. *)
LEMMA FreedIs ==
    ASSUME NEW p \in PeerType
    PROVE  /\ Freed(p) \in PeerType
           /\ Freed(p).st = "free" /\ Freed(p).session = 0
           /\ Freed(p).saved = p.saved /\ Freed(p).cancelled = p.cancelled
           /\ Freed(p).handler = p.handler
  BY SendsAreNumbers DEF Freed, PeerType

(* A send whose slot is freed stays sound, also when its user cancelled it. *)
LEMMA FreedSound ==
    ASSUME NEW n \in Sends, NEW t, NEW w, NEW x, NEW p \in PeerType, NEW q \in PeerType,
           Sound(n, t, w, p, x),
           q.session = 0, p.saved[n] \subseteq q.saved[n],
           n \in q.cancelled => n \in p.cancelled \/ p.session = n
    PROVE  Sound(n, t, w, q, x)
  <1>0. n # 0
    BY SendsAreNumbers
  <1>1. Saves(n, t, w, q)
    BY DEF Sound, Saves
  <1>2. Asks(n, t, w, q, x)
    BY <1>0 DEF Sound, Asks
  <1>3. Leaves(n, t, w, q)
    BY <1>0 DEF Sound, Leaves, HasSession
  <1> QED
    BY <1>1, <1>2, <1>3 DEF Sound

(* The request v becomes w by an answer to one of that kind and state. *)
Answers(v, w, kind, st, answer, files) ==
  IF v.kind = kind /\ v.st = st
  THEN w.kind = kind /\ w.st = "answered" /\ w.answer = answer /\ w.files = files
  ELSE w = v

(* What a reply makes of the request of send n. *)
LEMMA ReplyIs ==
    ASSUME TypeOK, NEW n \in Sends, NEW kind, NEW st,
           NEW answer \in {"refused", "declined", "empty", "accepted", "ok", "failed"},
           NEW files \in SUBSET Files, Reply(n, kind, st, answer, files)
    PROVE  \E w \in WireType :
               /\ wire' = [wire EXCEPT ![n] = w]
               /\ Answers(wire[n], w, kind, st, answer, files)
  <1>0. wire[n] \in WireType /\ wire \in [Sends -> WireType]
    BY DEF TypeOK
  <1>1. CASE wire[n].kind = kind /\ wire[n].st = st
    <2> DEFINE w == [wire[n] EXCEPT !.st = "answered", !.answer = answer, !.files = files]
    <2>1. /\ w \in WireType /\ w.kind = kind /\ w.st = "answered"
          /\ w.answer = answer /\ w.files = files
      BY <1>0, <1>1 DEF WireType
    <2>2. wire' = [wire EXCEPT ![n] = w]
      BY <1>1, Zenon DEF Reply
    <2> HIDE DEF w
    <2> QED
      BY <1>1, <2>1, <2>2 DEF Answers
  <1>2. CASE ~(wire[n].kind = kind /\ wire[n].st = st)
    <2>1. wire' = wire
      BY <1>2 DEF Reply
    <2>2. wire' = [wire EXCEPT ![n] = wire[n]]
      BY <1>0, <2>1
    <2> QED
      BY <1>0, <1>2, <2>2 DEF Answers
  <1> QED
    BY <1>1, <1>2

(* A request is refused, or takes the free slot. *)
LEMMA PeerPrepareInv ==
    ASSUME IInv, NEW n \in Sends, PeerPrepare(n)
    PROVE  IInv'
  <1> USE DEF IInv
  <1>1. /\ wire[n] \in WireType /\ wire \in [Sends -> WireType] /\ peer \in PeerType
        /\ Sound(n, task[n], wire[n], peer, exit)
        /\ wire[n].kind = "prepare" /\ wire[n].st = "sent"
        /\ UNCHANGED <<mode, exit, overlay, send, cancel, task, events, server, notices>>
        /\ notices \subseteq peer.cancelled
        /\ SlotSound(peer)
    BY DEF TypeOK, SoundSends, PeerPrepare, Arrived, PeerFrame, AppInv, FromAfar
  <1>2. CASE Reply(n, "prepare", "sent", "refused", {}) /\ UNCHANGED peer
    <2>1. {} \in SUBSET Files /\ TypeOK
      OBVIOUS
    <2>2. PICK w \in WireType : /\ wire' = [wire EXCEPT ![n] = w]
                                /\ Answers(wire[n], w, "prepare", "sent", "refused", {})
      BY <1>2, <2>1, ReplyIs
    <2>3. Saves(n, task[n], w, peer) /\ Waits(task[n], w, exit)
      BY <1>1, <2>2 DEF Sound, Saves, Waits, Answers
    <2>4. Asks(n, task[n], w, peer, exit) /\ Leaves(n, task[n], w, peer)
      BY <1>1, <2>2 DEF Sound, Asks, Leaves, HasSession, Answers
    <2>5. Sound(n, task[n], w, peer, exit)
      BY <2>3, <2>4 DEF Sound
    <2> QED
      BY <1>1, <1>2, <2>2, <2>5, PeerStepInv
  <1>3. CASE /\ peer.st = "free"
             /\ peer' = [peer EXCEPT !.st = "pending", !.session = n,
                            !.file = [f \in Files |-> IF f \in wire[n].files THEN "pending" ELSE "off"]]
             /\ wire' = [wire EXCEPT ![n].st = "held"]
    <2> DEFINE w == [wire[n] EXCEPT !.st = "held"]
               p == [peer EXCEPT !.st = "pending", !.session = n,
                       !.file = [f \in Files |-> IF f \in wire[n].files THEN "pending" ELSE "off"]]
    <2>1. w \in WireType /\ w.kind = "prepare" /\ w.st = "held"
      BY <1>1 DEF WireType
    <2>2. /\ p \in PeerType /\ p.st = "pending" /\ p.session = n
          /\ p.saved = peer.saved /\ p.cancelled = peer.cancelled
      BY <1>1, SendsAreNumbers DEF PeerType
    <2>3. wire' = [wire EXCEPT ![n] = w] /\ peer' = p
      BY <1>1, <1>3
    <2> HIDE DEF w, p
    <2>4. Sound(n, task[n], w, p, exit)
      BY <1>1, <2>1, <2>2 DEF Sound, Waits, Saves, Asks, Leaves, HasSession
    <2>5. SlotSound(p)
      BY <2>2, SendsAreNumbers DEF SlotSound
    <2> QED
      BY <1>1, <2>1, <2>2, <2>3, <2>4, <2>5, PeerStepInv
  <1> QED
    BY <1>2, <1>3 DEF PeerPrepare

(* The peer's user declines, or accepts some of the files: a sender that    *)
(* still asks is told, another one does not hear of it.                     *)
LEMMA PeerDecidesInv ==
    ASSUME IInv, PeerDecides
    PROVE  IInv'
  <1> USE DEF IInv
  <1>1. PICK n : n = peer.session
    OBVIOUS
  <1>2. n \in Sends /\ peer.st = "pending" /\ peer \in PeerType
    <2>1. peer.st = "pending" /\ peer \in PeerType
      BY DEF PeerDecides, TypeOK
    <2>2. n \in 0..MaxSends /\ n # 0
      BY <1>1, <2>1 DEF SlotSound, PeerType
    <2> QED
      BY <2>1, <2>2, SendsAreNumbers DEF Sends
  <1>3. /\ wire[n] \in WireType /\ TypeOK /\ {} \in SUBSET Files
        /\ Sound(n, task[n], wire[n], peer, exit)
        /\ UNCHANGED <<mode, exit, overlay, send, cancel, task, events, server, notices>>
        /\ notices \subseteq peer.cancelled
        /\ SlotSound(peer)
    BY <1>2 DEF TypeOK, SoundSends, PeerDecides, PeerFrame, AppInv, FromAfar
  <1>4. ASSUME peer' = Freed(peer), NEW answer \in {"declined", "empty"},
               Reply(n, "prepare", "held", answer, {})
        PROVE  IInv'
    <2>1. PICK w \in WireType : /\ wire' = [wire EXCEPT ![n] = w]
                                /\ Answers(wire[n], w, "prepare", "held", answer, {})
      BY <1>2, <1>3, <1>4, ReplyIs
    <2>2. PICK p : p = Freed(peer)
      OBVIOUS
    <2>3. /\ p \in PeerType /\ p.st = "free" /\ p.session = 0 /\ peer' = p
          /\ p.saved = peer.saved /\ p.cancelled = peer.cancelled
      BY <1>2, <1>4, <2>2, FreedIs
    <2>4. Waits(task[n], w, exit) /\ Saves(n, task[n], w, p)
      BY <1>3, <2>1, <2>3 DEF Sound, Waits, Saves, Answers
    <2>5. Asks(n, task[n], w, p, exit) /\ Leaves(n, task[n], w, p)
      BY <1>2, <1>3, <2>1, <2>3, SendsAreNumbers DEF Sound, Asks, Leaves, HasSession, Answers
    <2>6. Sound(n, task[n], w, p, exit) /\ SlotSound(p)
      BY <2>3, <2>4, <2>5 DEF Sound, SlotSound
    <2> QED
      BY <1>2, <1>3, <2>1, <2>3, <2>6, PeerStepInv, SendsAreNumbers
  <1>5. ASSUME NEW files \in (SUBSET {f \in Files : peer.file[f] = "pending"}) \ {{}},
               peer' = [peer EXCEPT !.st = "active",
                            !.file = [f \in Files |-> IF f \in files THEN @[f] ELSE "off"]],
               Reply(n, "prepare", "held", "accepted", files)
        PROVE  IInv'
    <2>0. files \in SUBSET Files /\ files # {}
      OBVIOUS
    <2>1. PICK w \in WireType : /\ wire' = [wire EXCEPT ![n] = w]
                                /\ Answers(wire[n], w, "prepare", "held", "accepted", files)
      BY <1>2, <1>3, <1>5, <2>0, ReplyIs
    <2> DEFINE file == [f \in Files |-> IF f \in files THEN peer.file[f] ELSE "off"]
               p == [peer EXCEPT !.st = "active", !.file = file]
    <2>2. peer' = p
      BY <1>5, Zenon
    <2>3. file \in [Files -> {"off", "pending", "busy", "final"}]
      BY <1>2 DEF PeerType
    <2>4. /\ p \in PeerType /\ p.st = "active" /\ p.session = n /\ p.file = file
          /\ p.saved = peer.saved /\ p.cancelled = peer.cancelled
      BY <1>1, <1>2, <2>3 DEF PeerType
    <2> HIDE DEF p
    <2>5. Unfinished(p) = files
      BY <2>4 DEF Unfinished
    <2> HIDE DEF file
    <2>6. Waits(task[n], w, exit) /\ Saves(n, task[n], w, p)
      BY <1>3, <2>1, <2>4 DEF Sound, Waits, Saves, Answers
    <2>7. Asks(n, task[n], w, p, exit)
      BY <1>1, <1>2, <1>3, <2>1, <2>4 DEF Sound, Asks, Answers
    <2>8. Leaves(n, task[n], w, p)
      BY <1>1, <1>2, <1>3, <2>1, <2>4, <2>5 DEF Sound, Asks, Waits, Leaves, HasSession, Answers
    <2>9. Sound(n, task[n], w, p, exit) /\ SlotSound(p)
      BY <1>2, <2>0, <2>4, <2>5, <2>6, <2>7, <2>8, SendsAreNumbers DEF Sound, SlotSound
    <2> QED
      BY <1>2, <1>3, <2>1, <2>2, <2>4, <2>9, PeerStepInv, SendsAreNumbers
  <1> QED
    BY <1>1, <1>4, <1>5 DEF PeerDecides

(* The peer's server drops a request whose sender has gone. *)
LEMMA PeerAbortsInv ==
    ASSUME IInv, PeerAborts
    PROVE  IInv'
  <1> USE DEF IInv
  <1>1. PICK n : n = peer.session
    OBVIOUS
  <1>2. n \in Sends /\ peer \in PeerType
    <2>1. n \in 0..MaxSends /\ n # 0 /\ peer \in PeerType
      BY <1>1 DEF SlotSound, PeerType, TypeOK, PeerAborts
    <2> QED
      BY <2>1, SendsAreNumbers DEF Sends
  <1>3. /\ wire[n] \in WireType /\ wire \in [Sends -> WireType]
        /\ Sound(n, task[n], wire[n], peer, exit)
        /\ UNCHANGED <<mode, exit, overlay, send, cancel, task, wire, events, server, notices>>
        /\ notices \subseteq peer.cancelled
    BY <1>2 DEF TypeOK, SoundSends, PeerAborts, PeerFrame, AppInv, FromAfar
  <1>4. PICK p : p = Freed(peer)
    OBVIOUS
  <1>5. /\ p \in PeerType /\ p.st = "free" /\ p.session = 0 /\ peer' = p
        /\ p.saved = peer.saved /\ p.cancelled = peer.cancelled
    BY <1>2, <1>4, FreedIs DEF PeerAborts
  <1>6. Sound(n, task[n], wire[n], p, exit) /\ SlotSound(p)
    BY <1>2, <1>3, <1>5, FreedSound DEF SlotSound
  <1>7. wire' = [wire EXCEPT ![n] = wire[n]]
    BY <1>3
  <1>8. \A m \in Sends \ {n} : p.session # m
    BY <1>5, SendsAreNumbers
  <1>9. wire[n] \in WireType /\ peer.cancelled \subseteq p.cancelled /\ notices' \subseteq p.cancelled
    BY <1>3, <1>5
  <1> QED
    BY <1>2, <1>3, <1>5, <1>6, <1>7, <1>8, <1>9, PeerStepInv

(* The peer's user cancels: the session ends and a notice is on its way. *)
LEMMA PeerUserCancelsInv ==
    ASSUME IInv, PeerUserCancels
    PROVE  IInv'
  <1> USE DEF IInv
  <1>1. PICK n : n = peer.session
    OBVIOUS
  <1>2. n \in Sends /\ peer \in PeerType
    <2>1. n \in 0..MaxSends /\ n # 0 /\ peer \in PeerType
      BY <1>1 DEF SlotSound, PeerType, TypeOK, PeerUserCancels
    <2> QED
      BY <2>1, SendsAreNumbers DEF Sends
  <1>3. /\ wire[n] \in WireType /\ wire \in [Sends -> WireType]
        /\ Sound(n, task[n], wire[n], peer, exit)
        /\ UNCHANGED <<mode, exit, overlay, send, cancel, task, wire, events, server>>
        /\ notices \subseteq peer.cancelled
        /\ notices' = notices \cup {n}
    BY <1>1, <1>2 DEF TypeOK, SoundSends, PeerUserCancels, PeerFrame, AppInv, FromAfar
  <1>4. PICK f : f = Freed(peer)
    OBVIOUS
  <1>5. /\ f \in PeerType /\ f.st = "free" /\ f.session = 0
        /\ f.saved = peer.saved /\ f.cancelled = peer.cancelled
    BY <1>2, <1>4, FreedIs
  <1> DEFINE p == [f EXCEPT !.cancelled = f.cancelled \cup {n}]
  <1>6. peer' = p
    BY <1>1, <1>4 DEF PeerUserCancels
  <1>7. /\ p \in PeerType /\ p.st = "free" /\ p.session = 0
        /\ p.saved = peer.saved /\ p.cancelled = peer.cancelled \cup {n}
    BY <1>2, <1>5 DEF PeerType
  <1> HIDE DEF p
  <1>8. Sound(n, task[n], wire[n], p, exit) /\ SlotSound(p)
    BY <1>1, <1>2, <1>3, <1>7, FreedSound DEF SlotSound
  <1>9. wire' = [wire EXCEPT ![n] = wire[n]]
    BY <1>3
  <1>10. \A m \in Sends \ {n} : p.session # m
    BY <1>7, SendsAreNumbers
  <1>11. wire[n] \in WireType /\ peer.cancelled \subseteq p.cancelled /\ notices' \subseteq p.cancelled
    BY <1>3, <1>7
  <1> QED
    BY <1>2, <1>3, <1>6, <1>7, <1>8, <1>9, <1>10, <1>11, PeerStepInv

(* The cancel endpoint frees the slot of its session, whoever has it now. *)
LEMMA PeerCancelInv ==
    ASSUME IInv, NEW n \in Sends, PeerCancel(n)
    PROVE  IInv'
  <1> USE DEF IInv
  <1>1. /\ wire[n] \in WireType /\ peer \in PeerType /\ TypeOK
        /\ {} \in SUBSET Files /\ "ok" \in {"ok"}
        /\ Sound(n, task[n], wire[n], peer, exit)
        /\ wire[n].kind = "cancel" /\ wire[n].st = "sent"
        /\ UNCHANGED <<mode, exit, overlay, send, cancel, task, events, server, notices>>
        /\ notices \subseteq peer.cancelled
        /\ SlotSound(peer)
        /\ Reply(n, "cancel", "sent", "ok", {})
    BY DEF TypeOK, SoundSends, PeerCancel, Arrived, PeerFrame, AppInv, FromAfar
  <1>2. PICK w \in WireType : /\ wire' = [wire EXCEPT ![n] = w]
                              /\ Answers(wire[n], w, "cancel", "sent", "ok", {})
    BY <1>1, ReplyIs
  <1>3. PICK p : p = IF InSession(n) THEN Freed(peer) ELSE peer
    OBVIOUS
  <1>4. /\ p \in PeerType /\ peer' = p
        /\ p.saved = peer.saved /\ p.cancelled = peer.cancelled
        /\ \/ p.session = 0 /\ p.st = "free"
           \/ p = peer /\ ~HasSession(peer, n)
    <2>1. peer' = p
      BY <1>3 DEF PeerCancel
    <2>2. CASE InSession(n)
      BY <1>1, <1>3, <2>1, <2>2, FreedIs
    <2>3. CASE ~InSession(n)
      BY <1>1, <1>3, <2>1, <2>3 DEF InSession, HasSession
    <2> QED
      BY <2>2, <2>3
  <1>5. Waits(task[n], w, exit) /\ Saves(n, task[n], w, p)
    BY <1>1, <1>2, <1>4 DEF Sound, Waits, Saves, Answers
  <1>6. Asks(n, task[n], w, p, exit)
    BY <1>1, <1>2, <1>4, SendsAreNumbers DEF Sound, Asks, Answers
  <1>7. ~HasSession(p, n)
    BY <1>4, SendsAreNumbers DEF HasSession
  <1>8. Sound(n, task[n], w, p, exit) /\ SlotSound(p)
    BY <1>1, <1>4, <1>5, <1>6, <1>7 DEF Sound, Leaves, SlotSound
  <1> QED
    BY <1>1, <1>2, <1>4, <1>8, PeerStepInv, SendsAreNumbers

(* An upload starts in its active session, or fails. *)
LEMMA PeerUploadInv ==
    ASSUME IInv, NEW n \in Sends, PeerUpload(n)
    PROVE  IInv'
  <1> USE DEF IInv
  <1>1. /\ wire[n] \in WireType /\ wire \in [Sends -> WireType] /\ peer \in PeerType /\ TypeOK
        /\ {} \in SUBSET Files /\ "failed" \in {"failed"}
        /\ Sound(n, task[n], wire[n], peer, exit)
        /\ wire[n].kind = "upload" /\ wire[n].st = "sent"
        /\ UNCHANGED <<mode, exit, overlay, send, cancel, task, events, server, notices>>
        /\ notices \subseteq peer.cancelled
        /\ SlotSound(peer)
    BY DEF TypeOK, SoundSends, PeerUpload, Arrived, PeerFrame, AppInv, FromAfar
  <1>2. PICK f : f = Min(wire[n].files)
    OBVIOUS
  <1>3. f \in Files
    <2>1. wire[n].files \subseteq Files /\ wire[n].files # {} /\ Files \subseteq Nat
      BY <1>1, SendAssumption DEF WireType, Sound, Waits
    <2> QED
      BY <1>2, <2>1, MinIn
  <1>4. \/ /\ InSession(n) /\ peer.file[f] = "pending"
           /\ peer' = [peer EXCEPT !.file[f] = "busy", !.handler[n] = f]
           /\ wire' = [wire EXCEPT ![n].st = "held"]
        \/ Reply(n, "upload", "sent", "failed", {}) /\ UNCHANGED peer
    BY <1>2, Zenon DEF PeerUpload
  <1>5. CASE /\ InSession(n) /\ peer.file[f] = "pending"
             /\ peer' = [peer EXCEPT !.file[f] = "busy", !.handler[n] = f]
             /\ wire' = [wire EXCEPT ![n].st = "held"]
    <2> DEFINE file == [peer.file EXCEPT ![f] = "busy"]
               handler == [peer.handler EXCEPT ![n] = f]
               p == [peer EXCEPT !.file = file, !.handler = handler]
               w == [wire[n] EXCEPT !.st = "held"]
    <2>1. file \in [Files -> {"off", "pending", "busy", "final"}] /\ handler \in [Sends -> Files \cup {0}]
      BY <1>1, <1>3 DEF PeerType
    <2>2. peer' = p /\ wire' = [wire EXCEPT ![n] = w]
      BY <1>5, Zenon
    <2>3. /\ p \in PeerType /\ p.st = peer.st /\ p.session = peer.session /\ p.file = file
          /\ p.saved = peer.saved /\ p.cancelled = peer.cancelled
      BY <1>1, <2>1 DEF PeerType
    <2>4. w \in WireType /\ w.kind = "upload" /\ w.st = "held"
      BY <1>1 DEF WireType
    <2> HIDE DEF p, w
    <2>5. Unfinished(p) = Unfinished(peer)
      BY <1>1, <1>3, <1>5, <2>3 DEF Unfinished, PeerType
    <2> HIDE DEF file, handler
    <2>6. Waits(task[n], w, exit) /\ Saves(n, task[n], w, p)
      BY <1>1, <2>3, <2>4 DEF Sound, Waits, Saves
    <2>7. Asks(n, task[n], w, p, exit) /\ Leaves(n, task[n], w, p)
      BY <1>1, <2>3, <2>4, <2>5 DEF Sound, Asks, Waits, Leaves, HasSession
    <2>8. Sound(n, task[n], w, p, exit) /\ SlotSound(p)
      BY <1>1, <2>3, <2>5, <2>6, <2>7 DEF Sound, SlotSound
    <2> QED
      BY <1>1, <2>2, <2>3, <2>4, <2>5, <2>8, PeerStepInv
  <1>6. CASE Reply(n, "upload", "sent", "failed", {}) /\ UNCHANGED peer
    <2>1. PICK w \in WireType : /\ wire' = [wire EXCEPT ![n] = w]
                                /\ Answers(wire[n], w, "upload", "sent", "failed", {})
      BY <1>1, <1>6, ReplyIs
    <2>2. Waits(task[n], w, exit) /\ Saves(n, task[n], w, peer)
      BY <1>1, <2>1 DEF Sound, Waits, Saves, Answers
    <2>3. Asks(n, task[n], w, peer, exit) /\ Leaves(n, task[n], w, peer)
      BY <1>1, <2>1 DEF Sound, Asks, Waits, Leaves, HasSession, Answers
    <2>4. Sound(n, task[n], w, peer, exit)
      BY <2>2, <2>3 DEF Sound
    <2> QED
      BY <1>1, <1>6, <2>1, <2>4, PeerStepInv
  <1> QED
    BY <1>4, <1>5, <1>6

(* A finished file leaves a session that still has one under way, or none. *)
LEMMA FinalizedIs ==
    ASSUME peer \in PeerType, SlotSound(peer), NEW n \in Sends, NEW f \in Files
    PROVE  LET q == Finalized(n, f)
           IN  /\ q \in PeerType /\ SlotSound(q)
               /\ q.saved = peer.saved /\ q.cancelled = peer.cancelled /\ q.handler = peer.handler
               /\ \/ q.session = 0
                  \/ /\ q.session = peer.session /\ q.st = peer.st
                     /\ Unfinished(q) \subseteq Unfinished(peer)
               /\ HasSession(q, n) => f \notin Unfinished(q)
  <1> DEFINE file == [peer.file EXCEPT ![f] = "final"]
  <1>1. PICK q : q = Finalized(n, f)
    OBVIOUS
  <1>2. CASE ~InSession(n)
    <2>1. q = peer
      BY <1>1, <1>2, Zenon DEF Finalized
    <2> QED
      BY <1>1, <1>2, <2>1 DEF InSession, HasSession
  <1>3. CASE InSession(n) /\ \A g \in Files : file[g] \in {"off", "final"}
    <2>1. q = Freed(peer)
      BY <1>1, <1>3, Zenon DEF Finalized
    <2>2. /\ q \in PeerType /\ q.st = "free" /\ q.session = 0
          /\ q.saved = peer.saved /\ q.cancelled = peer.cancelled /\ q.handler = peer.handler
      BY <2>1, FreedIs
    <2>3. SlotSound(q) /\ ~HasSession(q, n)
      BY <2>2 DEF SlotSound, HasSession
    <2> QED
      BY <1>1, <2>2, <2>3
  <1>4. CASE InSession(n) /\ ~ \A g \in Files : file[g] \in {"off", "final"}
    <2>1. q = [peer EXCEPT !.file = file]
      BY <1>1, <1>4, Zenon DEF Finalized
    <2>2. file \in [Files -> {"off", "pending", "busy", "final"}]
      BY DEF PeerType
    <2>3. /\ q \in PeerType /\ q.st = peer.st /\ q.session = peer.session /\ q.file = file
          /\ q.saved = peer.saved /\ q.cancelled = peer.cancelled /\ q.handler = peer.handler
      BY <2>1, <2>2 DEF PeerType
    <2>4. Unfinished(q) \subseteq Unfinished(peer) /\ f \notin Unfinished(q)
      BY <2>3 DEF Unfinished, PeerType
    <2>5. Unfinished(q) # {}
      BY <1>4, <2>2, <2>3 DEF Unfinished
    <2>6. SlotSound(q)
      BY <2>3, <2>5 DEF SlotSound
    <2> QED
      BY <1>1, <2>3, <2>4, <2>6
  <1> QED
    BY <1>2, <1>3, <1>4

(* The handler of an upload ends.  Only what was saved whole is reported     *)
(* saved, and the session no longer waits for a file reported saved.        *)
LEMMA PeerSavesInv ==
    ASSUME IInv, NEW n \in Sends, PeerSaves(n)
    PROVE  IInv'
  <1> USE DEF IInv
  <1>1. /\ wire[n] \in WireType /\ wire \in [Sends -> WireType] /\ peer \in PeerType /\ TypeOK
        /\ Sound(n, task[n], wire[n], peer, exit)
        /\ UNCHANGED <<mode, exit, overlay, send, cancel, task, events, server, notices>>
        /\ notices \subseteq peer.cancelled
        /\ SlotSound(peer)
    BY DEF TypeOK, SoundSends, PeerSaves, PeerFrame, AppInv, FromAfar
  <1>2. PICK f : f = peer.handler[n]
    OBVIOUS
  <1>3. f \in Files
    BY <1>1, <1>2 DEF PeerSaves, PeerType
  <1>4. PICK q : q = Finalized(n, f)
    OBVIOUS
  <1>5. /\ q \in PeerType /\ SlotSound(q)
        /\ q.saved = peer.saved /\ q.cancelled = peer.cancelled /\ q.handler = peer.handler
        /\ \/ q.session = 0
           \/ /\ q.session = peer.session /\ q.st = peer.st
              /\ Unfinished(q) \subseteq Unfinished(peer)
        /\ HasSession(q, n) => f \notin Unfinished(q)
    BY <1>1, <1>3, <1>4, FinalizedIs
  <1>6. \/ /\ wire[n].kind = "upload" /\ wire[n].st = "held" /\ wire[n].whole
           /\ peer' = [q EXCEPT !.handler[n] = 0, !.saved[n] = IF wire[n].whole THEN @ \cup {f} ELSE @]
           /\ Reply(n, "upload", "held", "ok", {f})
        \/ /\ peer' = [q EXCEPT !.handler[n] = 0]
           /\ Reply(n, "upload", "held", "failed", {})
    BY <1>2, <1>4, Zenon DEF PeerSaves, SizeMatches
  <1> DEFINE handler == [q.handler EXCEPT ![n] = 0]
  <1>7. handler \in [Sends -> Files \cup {0}]
    BY <1>5 DEF PeerType
  <1>8. ASSUME NEW saved \in [Sends -> SUBSET Files], NEW w \in WireType,
               peer' = [q EXCEPT !.handler = handler, !.saved = saved],
               wire' = [wire EXCEPT ![n] = w],
               \A m \in Sends : peer.saved[m] \subseteq saved[m],
               \/ w = wire[n]
               \/ w.kind = "upload" /\ w.st = "answered" /\ wire[n].kind = "upload" /\ wire[n].st = "held",
               w # wire[n] /\ w.answer = "ok" => w.files = {f} /\ f \in saved[n]
        PROVE  IInv'
    <2> DEFINE p == [q EXCEPT !.handler = handler, !.saved = saved]
    <2>1. /\ p \in PeerType /\ p.st = q.st /\ p.session = q.session /\ p.file = q.file
          /\ p.saved = saved /\ p.cancelled = peer.cancelled
      BY <1>5, <1>7, <1>8 DEF PeerType
    <2>2. peer' = p
      BY <1>8
    <2> HIDE DEF p
    <2>3. Unfinished(p) = Unfinished(q) /\ (HasSession(p, n) <=> HasSession(q, n))
      BY <2>1 DEF Unfinished, HasSession
    <2>4. /\ p.session \in {0, peer.session}
          /\ p.session # 0 => p.st = peer.st /\ Unfinished(p) \subseteq Unfinished(peer)
      BY <1>5, <2>1, <2>3
    <2>5. Waits(task[n], w, exit)
      BY <1>1, <1>8 DEF Sound, Waits
    <2>6. Saves(n, task[n], w, p)
      BY <1>1, <1>8, <2>1 DEF Sound, Saves
    <2>7. Asks(n, task[n], w, p, exit)
      BY <1>1, <1>8, <2>1, <2>4, SendsAreNumbers DEF Sound, Asks
    <2>8. Leaves(n, task[n], w, p)
      <3>1. SUFFICES ASSUME HasSession(p, n) PROVE Leaves(n, task[n], w, p)
        BY DEF Leaves
      <3>2. HasSession(peer, n) /\ Unfinished(p) \subseteq Unfinished(peer) /\ f \notin Unfinished(p)
        BY <1>5, <2>3, <2>4, <3>1, SendsAreNumbers DEF HasSession
      <3> QED
        BY <1>1, <1>8, <3>2 DEF Sound, Leaves
    <2>9. Sound(n, task[n], w, p, exit)
      BY <2>5, <2>6, <2>7, <2>8 DEF Sound
    <2>10. SlotSound(p)
      BY <1>5, <2>1, <2>3 DEF SlotSound
    <2>11. \A m \in Sends \ {n} :
               /\ peer.saved[m] \subseteq p.saved[m]
               /\ m \in p.cancelled => m \in peer.cancelled
               /\ p.session = m => /\ peer.session = m /\ p.st = peer.st
                                   /\ Unfinished(p) \subseteq Unfinished(peer)
      BY <1>8, <2>1, <2>4, SendsAreNumbers
    <2>12. peer.cancelled \subseteq p.cancelled /\ notices' \subseteq p.cancelled
      BY <1>1, <2>1
    <2> QED
      BY <1>1, <1>8, <2>1, <2>2, <2>9, <2>10, <2>11, <2>12, PeerStepInv
  <1>9. CASE /\ wire[n].kind = "upload" /\ wire[n].st = "held" /\ wire[n].whole
             /\ peer' = [q EXCEPT !.handler[n] = 0, !.saved[n] = IF wire[n].whole THEN @ \cup {f} ELSE @]
             /\ Reply(n, "upload", "held", "ok", {f})
    <2>1. {f} \in SUBSET Files
      BY <1>3
    <2>2. PICK w \in WireType : /\ wire' = [wire EXCEPT ![n] = w]
                                /\ Answers(wire[n], w, "upload", "held", "ok", {f})
      BY <1>1, <1>9, <2>1, ReplyIs
    <2> DEFINE saved == [q.saved EXCEPT ![n] = q.saved[n] \cup {f}]
    <2>3. /\ saved \in [Sends -> SUBSET Files] /\ f \in saved[n]
          /\ \A m \in Sends : peer.saved[m] \subseteq saved[m]
      BY <1>3, <1>5 DEF PeerType
    <2>4. peer' = [q EXCEPT !.handler = handler, !.saved = saved]
      BY <1>9, Zenon
    <2> HIDE DEF saved, handler
    <2>5. w.kind = "upload" /\ w.st = "answered" /\ w.answer = "ok" /\ w.files = {f}
      BY <1>9, <2>2 DEF Answers
    <2> QED
      BY <1>8, <1>9, <2>2, <2>3, <2>4, <2>5
  <1>10. CASE peer' = [q EXCEPT !.handler[n] = 0] /\ Reply(n, "upload", "held", "failed", {})
    <2>1. {} \in SUBSET Files
      OBVIOUS
    <2>2. PICK w \in WireType : /\ wire' = [wire EXCEPT ![n] = w]
                                /\ Answers(wire[n], w, "upload", "held", "failed", {})
      BY <1>1, <1>10, <2>1, ReplyIs
    <2>3. q.saved \in [Sends -> SUBSET Files] /\ \A m \in Sends : peer.saved[m] \subseteq q.saved[m]
      BY <1>5 DEF PeerType
    <2>4. peer' = [q EXCEPT !.handler = handler, !.saved = q.saved]
      BY <1>5, <1>10 DEF PeerType
    <2> HIDE DEF handler
    <2>5. \/ w = wire[n]
          \/ /\ w.kind = "upload" /\ w.st = "answered" /\ w.answer = "failed"
             /\ wire[n].kind = "upload" /\ wire[n].st = "held"
      BY <2>2 DEF Answers
    <2> QED
      BY <1>8, <2>2, <2>3, <2>4, <2>5
  <1> QED
    BY <1>6, <1>9, <1>10

-----------------------------------------------------------------------------
(* The send task *)

(* A step of a task that is under way.  It sends an event when it announces *)
(* the session, and its last one when it is over.                           *)
LEMMA TaskStepInv ==
    ASSUME IInv, NEW n \in Sends, NEW t \in TaskType, NEW w \in WireType,
           task[n].pc \notin {"none", "over"}, t.pc # "none",
           task' = [task EXCEPT ![n] = t], wire' = [wire EXCEPT ![n] = w],
           Sound(n, t, w, peer, exit),
           \/ events' = events /\ t.pc # "over"
           \/ \E e \in EventType : /\ e.n = n /\ (e.type = "SendEnded" <=> t.pc = "over")
                                   /\ Room(events) /\ events' = Append(events, e),
           UNCHANGED <<mode, exit, overlay, send, cancel, server, peer, notices>>
    PROVE  IInv'
  <1> USE DEF IInv
  <1>0. /\ events \in Seq(EventType) /\ task \in [Sends -> TaskType] /\ Len(events) \in Nat
        /\ Len(events) <= EventCap /\ EventCap \in Nat
    BY SendsAreNumbers DEF TypeOK
  <1>a. \A i \in DOMAIN events : events[i] \in EventType
    BY <1>0
  <1>1. \A m \in Sends : /\ task'[m] = IF m = n THEN t ELSE task[m]
                         /\ wire'[m] = IF m = n THEN w ELSE wire[m]
    BY DEF TypeOK
  <1>2. CASE events' = events /\ t.pc # "over"
    <2>1. TypeOK'
      BY <1>2 DEF TypeOK
    <2>2. \A i \in DOMAIN events : events[i].n \in Sends
      BY <1>a DEF EventType
    <2>3. EventsOrdered'
      BY <1>1, <1>2, <2>2 DEF AppInv, EventsOrdered
    <2>4. SendTracked'
      BY <1>1, <1>2 DEF AppInv, SendTracked
    <2> QED
      <3>1. SoundSends' /\ InOrder' /\ OwnSession' /\ FromAfar' /\ PeerCancelsOwn'
        BY <1>1 DEF SoundSends, AppInv, InOrder, OwnSession, FromAfar, PeerCancelsOwn
      <3> QED
        BY <2>1, <2>3, <2>4, <3>1 DEF AppInv
  <1>3. ASSUME NEW e \in EventType, e.n = n, e.type = "SendEnded" <=> t.pc = "over",
               Len(events) < EventCap, events' = Append(events, e)
        PROVE  IInv'
    <2>0. /\ events' \in Seq(EventType) /\ Len(events') = Len(events) + 1
          /\ DOMAIN events' = 1..(Len(events) + 1) /\ DOMAIN events = 1..Len(events)
          /\ \A i \in DOMAIN events' : events'[i] = IF i = Len(events) + 1 THEN e ELSE events[i]
      BY <1>0, <1>3
    <2>1. TypeOK'
      <3>0. PICK k \in Nat : k = Len(events)
        BY <1>0
      <3>1. Len(events') <= EventCap
        <4>1. Len(events') = k + 1 /\ k < EventCap /\ EventCap \in Nat
          BY <1>0, <1>3, <2>0, <3>0
        <4> QED
          BY <4>1
      <3> QED
        BY <2>0, <3>1 DEF TypeOK
    <2>2. \A i \in DOMAIN events : events[i].n \in Sends
      BY <1>a DEF EventType
    <2>3. ASSUME NEW i \in DOMAIN events'
          PROVE  \/ i \in DOMAIN events /\ events'[i] = events[i]
                 \/ i = Len(events) + 1 /\ events'[i] = e
      <3>1. i \in 1..(Len(events) + 1)
        BY <2>0
      <3> QED
        BY <1>0, <2>0, <3>1
    <2>4. EventsOrdered'
      <3>1. \A i \in DOMAIN events' : task'[events'[i].n].pc # "none"
        BY <1>1, <1>3, <2>2, <2>3 DEF AppInv, EventsOrdered
      <3>2. \A i \in DOMAIN events' : events'[i].type = "SendEnded" => task'[events'[i].n].pc = "over"
        BY <1>1, <1>3, <2>2, <2>3 DEF AppInv, EventsOrdered
      <3>3. ASSUME NEW i \in DOMAIN events', NEW j \in DOMAIN events', i < j,
                   events'[i].type = "SendEnded"
            PROVE  events'[i].n # events'[j].n
        <4>1. i \in DOMAIN events /\ events'[i] = events[i]
          BY <1>0, <2>0, <2>3, <3>3
        <4>2. task[events[i].n].pc = "over"
          BY <3>3, <4>1 DEF AppInv, EventsOrdered
        <4>3. events[i].n # n
          BY <4>2
        <4> QED
          BY <1>3, <2>3, <3>3, <4>1, <4>3 DEF AppInv, EventsOrdered
      <3> QED
        BY <3>1, <3>2, <3>3 DEF EventsOrdered
    <2>5. SendTracked'
      BY <1>1, <1>3, <2>2, <2>3 DEF AppInv, SendTracked
    <2> QED
      <3>1. SoundSends' /\ InOrder' /\ OwnSession' /\ FromAfar' /\ PeerCancelsOwn'
        BY <1>1 DEF SoundSends, AppInv, InOrder, OwnSession, FromAfar, PeerCancelsOwn
      <3> QED
        BY <2>1, <2>4, <2>5, <3>1 DEF AppInv
  <1> QED
    BY <1>2, <1>3 DEF Room

(* What every step of a task starts from. *)
LEMMA TaskFacts ==
    ASSUME IInv, NEW n \in Sends, TaskFrame
    PROVE  /\ task \in [Sends -> TaskType] /\ task[n] \in TaskType
           /\ wire \in [Sends -> WireType] /\ wire[n] \in WireType
           /\ peer \in PeerType /\ Sound(n, task[n], wire[n], peer, exit) /\ SlotSound(peer)
           /\ UNCHANGED <<mode, exit, overlay, send, cancel, server, peer, notices>>
           /\ exit' = exit
           /\ Quiet \in WireType /\ Quiet.kind = "none" /\ Quiet.st = "none"
  <1>1. Quiet \in WireType /\ Quiet.kind = "none" /\ Quiet.st = "none"
    BY DEF Quiet, WireType
  <1> QED
    BY <1>1 DEF IInv, TypeOK, SoundSends, TaskFrame

(* A request that leaves the task. *)
LEMMA PostIs ==
    ASSUME wire \in [Sends -> WireType], NEW n \in Sends,
           NEW kind \in {"prepare", "upload", "cancel"},
           NEW files \in SUBSET Files, \E whole \in BOOLEAN : Post(n, kind, files, whole)
    PROVE  \E w \in WireType : /\ wire' = [wire EXCEPT ![n] = w]
                               /\ w.kind = kind /\ w.st = "sent" /\ w.files = files
  <1>0. PICK whole \in BOOLEAN : Post(n, kind, files, whole)
    OBVIOUS
  <1> DEFINE w == [kind |-> kind, st |-> "sent", files |-> files, whole |-> whole, answer |-> "none"]
  <1>1. w \in WireType /\ w.kind = kind /\ w.st = "sent" /\ w.files = files
    BY DEF WireType
  <1>2. wire' = [wire EXCEPT ![n] = w]
    BY <1>0, Zenon DEF Post
  <1> HIDE DEF w
  <1> QED
    BY <1>1, <1>2

(* The prepare-upload request leaves. *)
LEMMA PrepareInv ==
    ASSUME IInv, NEW n \in Sends, Prepare(n)
    PROVE  IInv'
  <1>1. TaskFrame /\ exit # "gone"
    BY DEF Prepare, Step, Alive
  <1>2. /\ task \in [Sends -> TaskType] /\ task[n] \in TaskType
        /\ wire \in [Sends -> WireType] /\ Sound(n, task[n], wire[n], peer, exit)
        /\ UNCHANGED <<mode, exit, overlay, send, cancel, server, peer, notices, events>>
        /\ task[n].pc = "prepare"
    BY <1>1, TaskFacts DEF Prepare, Step
  <1> DEFINE t == [task[n] EXCEPT !.pc = "preparing"]
  <1>3. /\ t \in TaskType /\ t.pc = "preparing" /\ t.ok = task[n].ok /\ t.unheard = task[n].unheard
        /\ t.left = task[n].left /\ t.accepted = task[n].accepted
    BY <1>2 DEF TaskType
  <1>4. task' = [task EXCEPT ![n] = t]
    BY <1>2 DEF Prepare
  <1> HIDE DEF t
  <1>5. PICK w \in WireType : /\ wire' = [wire EXCEPT ![n] = w]
                              /\ w.kind = "prepare" /\ w.st = "sent"
    <2>1. PICK files : files = task[n].left
      OBVIOUS
    <2>2. files \in SUBSET Files
      BY <1>2, <2>1 DEF TaskType
    <2>3. \E whole \in BOOLEAN : Post(n, "prepare", files, whole)
      BY <2>1, Zenon DEF Prepare
    <2> QED
      BY <1>2, <2>2, <2>3, PostIs
  <1>6. Waits(t, w, exit) /\ Saves(n, t, w, peer)
    BY <1>1, <1>2, <1>3, <1>5 DEF Sound, Waits, Saves
  <1>7. Asks(n, t, w, peer, exit) /\ Leaves(n, t, w, peer)
    BY <1>2, <1>3, <1>5 DEF Sound, Asks, Leaves, HasSession
  <1>8. Sound(n, t, w, peer, exit)
    BY <1>6, <1>7 DEF Sound
  <1> QED
    BY <1>2, <1>3, <1>4, <1>5, <1>8, TaskStepInv

(* The answer to it: an accepted session has only the granted files. *)
LEMMA PreparedInv ==
    ASSUME IInv, NEW n \in Sends, Prepared(n)
    PROVE  IInv'
  <1>1. TaskFrame
    BY DEF Prepared
  <1>2. /\ task \in [Sends -> TaskType] /\ task[n] \in TaskType /\ wire[n] \in WireType
        /\ Sound(n, task[n], wire[n], peer, exit)
        /\ UNCHANGED <<mode, exit, overlay, send, cancel, server, peer, notices, events>>
        /\ task[n].pc = "preparing" /\ wire[n].st = "answered"
        /\ Quiet \in WireType /\ Quiet.kind = "none" /\ Quiet.st = "none"
        /\ wire' = [wire EXCEPT ![n] = Quiet]
    BY <1>1, TaskFacts DEF Prepared, Step
  <1>3. wire[n].kind = "prepare"
    BY <1>2 DEF Sound, Waits, WireType
  <1>4. ASSUME NEW t \in TaskType, task' = [task EXCEPT ![n] = t],
               t.ok = task[n].ok, t.unheard = task[n].unheard,
               \/ /\ t.pc = "announce" /\ wire[n].answer = "accepted"
                  /\ t.accepted = wire[n].files /\ t.left = wire[n].files
               \/ t.pc = "end" /\ wire[n].answer # "accepted"
        PROVE  IInv'
    <2>1. Waits(t, Quiet, exit) /\ Saves(n, t, Quiet, peer)
      BY <1>2, <1>3, <1>4 DEF Sound, Waits, Saves
    <2>2. Asks(n, t, Quiet, peer, exit)
      BY <1>2, <1>3, <1>4 DEF Sound, Waits, Asks
    <2>3. Leaves(n, t, Quiet, peer)
      BY <1>2, <1>3, <1>4 DEF Sound, Asks, Leaves, HasSession
    <2>4. Sound(n, t, Quiet, peer, exit)
      BY <2>1, <2>2, <2>3 DEF Sound
    <2> QED
      BY <1>2, <1>4, <2>4, TaskStepInv
  <1>5. CASE wire[n].answer = "accepted"
    <2> DEFINE t == [task[n] EXCEPT !.pc = "announce", !.accepted = wire[n].files, !.left = wire[n].files]
    <2>1. wire[n].files \in SUBSET Files
      BY <1>2 DEF WireType
    <2>2. /\ t \in TaskType /\ t.pc = "announce" /\ t.ok = task[n].ok /\ t.unheard = task[n].unheard
          /\ t.left = wire[n].files /\ t.accepted = wire[n].files
      BY <1>2, <2>1 DEF TaskType
    <2>3. task' = [task EXCEPT ![n] = t]
      BY <1>5, Zenon DEF Prepared
    <2> HIDE DEF t
    <2> QED
      BY <1>4, <1>5, <2>2, <2>3
  <1>6. CASE wire[n].answer # "accepted"
    <2> DEFINE t == [task[n] EXCEPT !.pc = "end"]
    <2>1. t \in TaskType /\ t.pc = "end" /\ t.ok = task[n].ok /\ t.unheard = task[n].unheard
      BY <1>2 DEF TaskType
    <2>2. task' = [task EXCEPT ![n] = t]
      BY <1>6, Zenon DEF Prepared
    <2> HIDE DEF t
    <2> QED
      BY <1>4, <1>6, <2>1, <2>2
  <1> QED
    BY <1>5, <1>6

(* A task that gives up, or goes on to tell the peer: it may end only       *)
(* without an open session, or without having heard the last answer.        *)
LEMMA StopInv ==
    ASSUME IInv, NEW n \in Sends, TaskFrame, UNCHANGED events, NEW t \in TaskType,
           task[n].pc \in {"preparing", "uploading", "cancelling"},
           task' = [task EXCEPT ![n] = t], wire' = [wire EXCEPT ![n] = Quiet],
           t.pc \in {"cancel", "end"}, t.ok = task[n].ok,
           t.unheard => t.pc = "end",
           \/ t.unheard
           \/ /\ ~(peer.st = "pending" /\ peer.session = n)
              /\ t.pc = "end" => ~HasSession(peer, n)
    PROVE  IInv'
  <1>1. /\ Sound(n, task[n], wire[n], peer, exit)
        /\ UNCHANGED <<mode, exit, overlay, send, cancel, server, peer, notices>>
        /\ Quiet \in WireType /\ Quiet.kind = "none" /\ Quiet.st = "none"
    BY TaskFacts
  <1>2. Waits(t, Quiet, exit) /\ Saves(n, t, Quiet, peer)
    BY <1>1 DEF Sound, Waits, Saves
  <1>3. Asks(n, t, Quiet, peer, exit) /\ Leaves(n, t, Quiet, peer)
    BY <1>1 DEF Sound, Asks, Leaves, HasSession
  <1>4. Sound(n, t, Quiet, peer, exit)
    BY <1>2, <1>3 DEF Sound
  <1> QED
    BY <1>1, <1>4, TaskStepInv

(* The token ends the wait for the answer. *)
LEMMA PrepareCancelledInv ==
    ASSUME IInv, NEW n \in Sends, PrepareCancelled(n)
    PROVE  IInv'
  <1>1. TaskFrame /\ UNCHANGED events /\ task[n].pc = "preparing"
    BY DEF PrepareCancelled, Step
  <1>2. task[n] \in TaskType
    BY <1>1, TaskFacts
  <1> DEFINE t == [task[n] EXCEPT !.pc = "end", !.unheard = TRUE]
  <1>3. t \in TaskType /\ t.pc = "end" /\ t.ok = task[n].ok /\ t.unheard
    BY <1>2 DEF TaskType
  <1>4. task' = [task EXCEPT ![n] = t] /\ wire' = [wire EXCEPT ![n] = Quiet]
    BY Zenon DEF PrepareCancelled
  <1> HIDE DEF t
  <1> QED
    BY <1>1, <1>3, <1>4, StopInv

(* SendSessionStarted. *)
LEMMA AnnounceInv ==
    ASSUME IInv, NEW n \in Sends, Announce(n)
    PROVE  IInv'
  <1>1. TaskFrame /\ wire' = wire /\ task[n].pc = "announce" /\ Room(events)
    BY DEF Announce, Step
  <1>2. /\ task[n] \in TaskType /\ wire \in [Sends -> WireType] /\ wire[n] \in WireType
        /\ Sound(n, task[n], wire[n], peer, exit)
        /\ UNCHANGED <<mode, exit, overlay, send, cancel, server, peer, notices>>
    BY <1>1, TaskFacts
  <1> DEFINE t == [task[n] EXCEPT !.pc = "next"]
             e == [type |-> "SendSessionStarted", n |-> n, ok |-> FALSE]
  <1>3. /\ t \in TaskType /\ t.pc = "next" /\ t.ok = task[n].ok /\ t.unheard = task[n].unheard
        /\ t.left = task[n].left /\ t.accepted = task[n].accepted
    BY <1>2 DEF TaskType
  <1>4. e \in EventType /\ e.n = n /\ e.type = "SendSessionStarted"
    BY DEF EventType
  <1>5. task' = [task EXCEPT ![n] = t] /\ events' = Append(events, e)
    BY Zenon DEF Announce
  <1>6. wire' = [wire EXCEPT ![n] = wire[n]]
    BY <1>1, <1>2
  <1> HIDE DEF t, e
  <1>7. Waits(t, wire[n], exit) /\ Saves(n, t, wire[n], peer)
    BY <1>1, <1>2, <1>3 DEF Sound, Waits, Saves
  <1>8. Asks(n, t, wire[n], peer, exit) /\ Leaves(n, t, wire[n], peer)
    BY <1>1, <1>2, <1>3 DEF Sound, Waits, Asks, Leaves, HasSession
  <1>9. Sound(n, t, wire[n], peer, exit)
    BY <1>7, <1>8 DEF Sound
  <1> QED
    BY <1>1, <1>2, <1>3, <1>4, <1>5, <1>6, <1>9, TaskStepInv

(* The next upload, or the end of a send that succeeded: then the peer's    *)
(* session waits for no file, so it is over.                                *)
LEMMA NextFileInv ==
    ASSUME IInv, NEW n \in Sends, NextFile(n)
    PROVE  IInv'
  <1>1. TaskFrame /\ UNCHANGED events /\ task[n].pc = "next" /\ exit # "gone"
    BY DEF NextFile, Step, Alive
  <1>2. /\ task[n] \in TaskType /\ wire \in [Sends -> WireType] /\ wire[n] \in WireType
        /\ Sound(n, task[n], wire[n], peer, exit) /\ SlotSound(peer)
        /\ UNCHANGED <<mode, exit, overlay, send, cancel, server, peer, notices>>
    BY <1>1, TaskFacts
  <1>3. CASE task[n].left = {}
    <2> DEFINE t == [task[n] EXCEPT !.pc = "end", !.ok = TRUE]
    <2>1. /\ t \in TaskType /\ t.pc = "end" /\ t.ok /\ t.unheard = task[n].unheard
          /\ t.left = task[n].left /\ t.accepted = task[n].accepted
      BY <1>2 DEF TaskType
    <2>2. task' = [task EXCEPT ![n] = t] /\ wire' = wire
      BY <1>3, Zenon DEF NextFile
    <2>3. wire' = [wire EXCEPT ![n] = wire[n]]
      BY <1>2, <2>2
    <2> HIDE DEF t
    <2>4. Waits(t, wire[n], exit) /\ Saves(n, t, wire[n], peer)
      BY <1>1, <1>2, <1>3, <2>1 DEF Sound, Waits, Saves
    <2>5. ~HasSession(peer, n)
      BY <1>1, <1>2, <1>3 DEF Sound, Leaves, SlotSound, HasSession
    <2>6. Asks(n, t, wire[n], peer, exit) /\ Leaves(n, t, wire[n], peer)
      BY <1>1, <1>2, <2>1, <2>5 DEF Sound, Waits, Asks, Leaves
    <2>7. Sound(n, t, wire[n], peer, exit)
      BY <2>4, <2>6 DEF Sound
    <2> QED
      BY <1>1, <1>2, <2>1, <2>2, <2>3, <2>7, TaskStepInv
  <1>4. CASE task[n].left # {}
    <2> DEFINE t == [task[n] EXCEPT !.pc = "uploading"]
    <2>1. /\ t \in TaskType /\ t.pc = "uploading" /\ t.ok = task[n].ok /\ t.unheard = task[n].unheard
          /\ t.left = task[n].left /\ t.accepted = task[n].accepted
      BY <1>2 DEF TaskType
    <2>2. task' = [task EXCEPT ![n] = t] /\ Upload(n)
      BY <1>4, Zenon DEF NextFile
    <2> HIDE DEF t
    <2>3. PICK files : files = {Min(task[n].left)}
      OBVIOUS
    <2>4. files \in SUBSET Files /\ files # {}
      <3>1. task[n].left \subseteq Files /\ Files \subseteq Nat
        BY <1>2, SendAssumption DEF TaskType
      <3>2. Min(task[n].left) \in task[n].left
        BY <1>4, <3>1, MinIn
      <3> QED
        BY <2>3, <3>1, <3>2
    <2>5. \E whole \in BOOLEAN : Post(n, "upload", files, whole)
      <3>1. PICK read \in Reads : Post(n, "upload", files, read = "complete")
        BY <2>2, <2>3, Zenon DEF Upload
      <3> QED
        BY <3>1, Zenon
    <2>6. PICK w \in WireType : /\ wire' = [wire EXCEPT ![n] = w]
                                /\ w.kind = "upload" /\ w.st = "sent" /\ w.files = files
      BY <1>2, <2>4, <2>5, PostIs
    <2>7. Waits(t, w, exit) /\ Saves(n, t, w, peer)
      BY <1>1, <1>2, <2>1, <2>4, <2>6 DEF Sound, Waits, Saves
    <2>8. Asks(n, t, w, peer, exit) /\ Leaves(n, t, w, peer)
      BY <1>1, <1>2, <2>1, <2>6 DEF Sound, Waits, Asks, Leaves, HasSession
    <2>9. Sound(n, t, w, peer, exit)
      BY <2>7, <2>8 DEF Sound
    <2> QED
      BY <1>1, <1>2, <2>1, <2>2, <2>6, <2>9, TaskStepInv
  <1> QED
    BY <1>3, <1>4

(* An upload the peer has confirmed is on its disk, and its session no      *)
(* longer waits for it.                                                     *)
LEMMA UploadedInv ==
    ASSUME IInv, NEW n \in Sends, Uploaded(n)
    PROVE  IInv'
  <1>1. /\ TaskFrame /\ UNCHANGED events /\ task[n].pc = "uploading"
        /\ wire[n].st = "answered" /\ wire[n].answer = "ok"
        /\ wire' = [wire EXCEPT ![n] = Quiet]
    BY DEF Uploaded, Step
  <1>2. /\ task[n] \in TaskType /\ wire[n] \in WireType
        /\ Sound(n, task[n], wire[n], peer, exit)
        /\ UNCHANGED <<mode, exit, overlay, send, cancel, server, peer, notices>>
        /\ Quiet \in WireType /\ Quiet.kind = "none" /\ Quiet.st = "none"
    BY <1>1, TaskFacts
  <1>3. wire[n].kind = "upload" /\ wire[n].files \subseteq Files
    BY <1>1, <1>2 DEF Sound, Waits, WireType
  <1> DEFINE t == [task[n] EXCEPT !.pc = "next", !.left = task[n].left \ wire[n].files]
  <1>4. /\ t \in TaskType /\ t.pc = "next" /\ t.ok = task[n].ok /\ t.unheard = task[n].unheard
        /\ t.left = task[n].left \ wire[n].files /\ t.accepted = task[n].accepted
    BY <1>2 DEF TaskType
  <1>5. task' = [task EXCEPT ![n] = t]
    BY Zenon DEF Uploaded
  <1> HIDE DEF t
  <1>6. Waits(t, Quiet, exit) /\ Saves(n, t, Quiet, peer)
    BY <1>1, <1>2, <1>3, <1>4 DEF Sound, Waits, Saves
  <1>7. Asks(n, t, Quiet, peer, exit) /\ Leaves(n, t, Quiet, peer)
    BY <1>1, <1>2, <1>3, <1>4 DEF Sound, Waits, Asks, Leaves, HasSession
  <1>8. Sound(n, t, Quiet, peer, exit)
    BY <1>6, <1>7 DEF Sound
  <1> QED
    BY <1>1, <1>2, <1>4, <1>5, <1>8, TaskStepInv

(* An upload that failed makes the task tell the peer. *)
LEMMA UploadFailedInv ==
    ASSUME IInv, NEW n \in Sends, UploadFailed(n)
    PROVE  IInv'
  <1>1. TaskFrame /\ UNCHANGED events /\ task[n].pc = "uploading"
    BY DEF UploadFailed, Step
  <1>2. task[n] \in TaskType /\ Sound(n, task[n], wire[n], peer, exit)
    BY <1>1, TaskFacts
  <1> DEFINE t == [task[n] EXCEPT !.pc = "cancel"]
  <1>3. t \in TaskType /\ t.pc = "cancel" /\ t.ok = task[n].ok /\ t.unheard = task[n].unheard
    BY <1>2 DEF TaskType
  <1>4. task' = [task EXCEPT ![n] = t] /\ wire' = [wire EXCEPT ![n] = Quiet]
    BY Zenon DEF UploadFailed, Leave
  <1> HIDE DEF t
  <1>5. ~task[n].unheard /\ ~(peer.st = "pending" /\ peer.session = n)
    BY <1>1, <1>2 DEF Sound, Waits, Asks
  <1> QED
    BY <1>1, <1>3, <1>4, <1>5, StopInv

(* The token during an upload: a session the peer has cancelled itself is   *)
(* no longer open there.                                                    *)
LEMMA UploadCancelledInv ==
    ASSUME IInv, NEW n \in Sends, UploadCancelled(n)
    PROVE  IInv'
  <1>1. TaskFrame /\ UNCHANGED events /\ task[n].pc = "uploading"
    BY DEF UploadCancelled, Step
  <1>2. task[n] \in TaskType /\ Sound(n, task[n], wire[n], peer, exit)
    BY <1>1, TaskFacts
  <1>3. PICK pc : pc = IF cancel[n].byPeer THEN "end" ELSE "cancel"
    OBVIOUS
  <1> DEFINE t == [task[n] EXCEPT !.pc = pc]
  <1>4. t \in TaskType /\ t.pc = pc /\ t.ok = task[n].ok /\ t.unheard = task[n].unheard
    BY <1>2, <1>3 DEF TaskType
  <1>5. task' = [task EXCEPT ![n] = t] /\ wire' = [wire EXCEPT ![n] = Quiet]
    BY <1>3, Zenon DEF UploadCancelled, Leave
  <1> HIDE DEF t
  <1>6. ~task[n].unheard /\ ~(peer.st = "pending" /\ peer.session = n)
    BY <1>1, <1>2 DEF Sound, Waits, Asks
  <1>7. pc = "end" => ~HasSession(peer, n)
    BY <1>2, <1>3 DEF IInv, AppInv, PeerCancelsOwn, Sound, Asks, HasSession
  <1> QED
    BY <1>1, <1>3, <1>4, <1>5, <1>6, <1>7, StopInv

(* The cancel request leaves. *)
LEMMA CancelInv ==
    ASSUME IInv, NEW n \in Sends, Cancel(n)
    PROVE  IInv'
  <1>1. TaskFrame /\ UNCHANGED events /\ task[n].pc = "cancel" /\ exit # "gone"
    BY DEF Cancel, Step, Alive
  <1>2. /\ task[n] \in TaskType /\ wire \in [Sends -> WireType]
        /\ Sound(n, task[n], wire[n], peer, exit)
        /\ UNCHANGED <<mode, exit, overlay, send, cancel, server, peer, notices>>
    BY <1>1, TaskFacts
  <1> DEFINE t == [task[n] EXCEPT !.pc = "cancelling"]
  <1>3. t \in TaskType /\ t.pc = "cancelling" /\ t.ok = task[n].ok /\ t.unheard = task[n].unheard
    BY <1>2 DEF TaskType
  <1>4. task' = [task EXCEPT ![n] = t]
    BY Zenon DEF Cancel
  <1> HIDE DEF t
  <1>5. PICK w \in WireType : /\ wire' = [wire EXCEPT ![n] = w]
                              /\ w.kind = "cancel" /\ w.st = "sent"
    <2>1. {} \in SUBSET Files /\ \E whole \in BOOLEAN : Post(n, "cancel", {}, whole)
      BY Zenon DEF Cancel
    <2> QED
      BY <1>2, <2>1, PostIs
  <1>6. Waits(t, w, exit) /\ Saves(n, t, w, peer)
    BY <1>1, <1>2, <1>3, <1>5 DEF Sound, Waits, Saves
  <1>7. Asks(n, t, w, peer, exit) /\ Leaves(n, t, w, peer)
    BY <1>1, <1>2, <1>3, <1>5 DEF Sound, Waits, Asks, Leaves, HasSession
  <1>8. Sound(n, t, w, peer, exit)
    BY <1>6, <1>7 DEF Sound
  <1> QED
    BY <1>1, <1>2, <1>3, <1>4, <1>5, <1>8, TaskStepInv

(* The peer has answered it: its session is gone. *)
LEMMA CancelledInv ==
    ASSUME IInv, NEW n \in Sends, Cancelled(n)
    PROVE  IInv'
  <1>1. TaskFrame /\ UNCHANGED events /\ task[n].pc = "cancelling" /\ wire[n].st = "answered"
    BY DEF Cancelled, Step
  <1>2. task[n] \in TaskType /\ wire[n] \in WireType /\ Sound(n, task[n], wire[n], peer, exit)
    BY <1>1, TaskFacts
  <1> DEFINE t == [task[n] EXCEPT !.pc = "end"]
  <1>3. t \in TaskType /\ t.pc = "end" /\ t.ok = task[n].ok /\ t.unheard = task[n].unheard
    BY <1>2 DEF TaskType
  <1>4. task' = [task EXCEPT ![n] = t] /\ wire' = [wire EXCEPT ![n] = Quiet]
    BY Zenon DEF Cancelled, Leave
  <1> HIDE DEF t
  <1>5. wire[n].kind = "cancel"
    BY <1>1, <1>2 DEF Sound, Waits, WireType
  <1>6. ~HasSession(peer, n) /\ ~(peer.st = "pending" /\ peer.session = n)
    BY <1>1, <1>2, <1>5 DEF Sound, Waits, Asks, Leaves
  <1> QED
    BY <1>1, <1>3, <1>4, <1>6, StopInv

(* A connection that breaks: after a lost answer to prepare-upload or       *)
(* cancel the task ends without knowing, after an upload it cancels.        *)
LEMMA BrokenInv ==
    ASSUME IInv, NEW n \in Sends, Broken(n)
    PROVE  IInv'
  <1>1. /\ TaskFrame /\ UNCHANGED events /\ wire[n].kind # "none"
        /\ wire' = [wire EXCEPT ![n] = Quiet]
    BY DEF Broken
  <1>2. task[n] \in TaskType /\ wire[n] \in WireType /\ Sound(n, task[n], wire[n], peer, exit)
    BY <1>1, TaskFacts
  <1>3. task[n].pc \in {"preparing", "uploading", "cancelling"} /\ ~task[n].unheard
    BY <1>1, <1>2 DEF Sound, Waits, WireType
  <1>4. CASE wire[n].kind = "upload"
    <2> DEFINE t == [task[n] EXCEPT !.pc = "cancel"]
    <2>1. t \in TaskType /\ t.pc = "cancel" /\ t.ok = task[n].ok /\ t.unheard = task[n].unheard
      BY <1>2 DEF TaskType
    <2>2. task' = [task EXCEPT ![n] = t]
      <3>1. PICK u : u = task[n]
        OBVIOUS
      <3>2. task' = [task EXCEPT ![n] = [u EXCEPT !.pc = "cancel", !.unheard = u.unheard \/ FALSE]]
        BY <1>4, <3>1, Zenon DEF Broken
      <3>3. [u EXCEPT !.pc = "cancel", !.unheard = u.unheard \/ FALSE] = [u EXCEPT !.pc = "cancel"]
        BY <1>2, <3>1 DEF TaskType
      <3> QED
        BY <3>1, <3>2, <3>3, Zenon
    <2> HIDE DEF t
    <2>3. ~(peer.st = "pending" /\ peer.session = n)
      BY <1>2, <1>3, <1>4 DEF Sound, Waits, Asks
    <2> QED
      BY <1>1, <1>3, <2>1, <2>2, <2>3, StopInv
  <1>5. CASE wire[n].kind # "upload"
    <2> DEFINE t == [task[n] EXCEPT !.pc = "end", !.unheard = task[n].unheard \/ TRUE]
    <2>1. t \in TaskType /\ t.pc = "end" /\ t.ok = task[n].ok /\ t.unheard
      BY <1>2 DEF TaskType
    <2>2. task' = [task EXCEPT ![n] = t]
      BY <1>5, Zenon DEF Broken
    <2> HIDE DEF t
    <2> QED
      BY <1>1, <1>3, <2>1, <2>2, StopInv
  <1> QED
    BY <1>4, <1>5

(* SendEnded. *)
LEMMA EndInv ==
    ASSUME IInv, NEW n \in Sends, End(n)
    PROVE  IInv'
  <1>1. TaskFrame /\ wire' = wire /\ task[n].pc = "end" /\ Room(events)
    BY DEF End, Step
  <1>2. /\ task[n] \in TaskType /\ wire \in [Sends -> WireType] /\ wire[n] \in WireType
        /\ Sound(n, task[n], wire[n], peer, exit)
        /\ UNCHANGED <<mode, exit, overlay, send, cancel, server, peer, notices>>
    BY <1>1, TaskFacts
  <1> DEFINE t == [task[n] EXCEPT !.pc = "over", !.left = {}, !.accepted = {}]
             e == [type |-> "SendEnded", n |-> n, ok |-> task[n].ok]
  <1>3. /\ t \in TaskType /\ t.pc = "over" /\ t.ok = task[n].ok /\ t.unheard = task[n].unheard
        /\ t.accepted = {}
    BY <1>2 DEF TaskType
  <1>4. e \in EventType /\ e.n = n /\ e.type = "SendEnded"
    BY <1>2 DEF EventType, TaskType
  <1>5. task' = [task EXCEPT ![n] = t] /\ events' = Append(events, e)
    BY Zenon DEF End
  <1>6. wire' = [wire EXCEPT ![n] = wire[n]]
    BY <1>1, <1>2
  <1> HIDE DEF t, e
  <1>7. Waits(t, wire[n], exit) /\ Saves(n, t, wire[n], peer)
    BY <1>1, <1>2, <1>3 DEF Sound, Waits, Saves
  <1>8. Asks(n, t, wire[n], peer, exit) /\ Leaves(n, t, wire[n], peer)
    BY <1>1, <1>2, <1>3 DEF Sound, Waits, Asks, Leaves, HasSession
  <1>9. Sound(n, t, wire[n], peer, exit)
    BY <1>7, <1>8 DEF Sound
  <1> QED
    BY <1>1, <1>2, <1>3, <1>4, <1>5, <1>6, <1>9, TaskStepInv

-----------------------------------------------------------------------------
(* The app *)

(* A step of the app that starts no send and takes no event of one. *)
LEMMA AppStepInv ==
    ASSUME IInv,
           exit' = exit \/ (exit = "running" /\ exit' \in {"ok", "error"}),
           overlay' \in {"none", "list", "picker"},
           cancel' \in [Sends -> [token : BOOLEAN, byPeer : BOOLEAN]],
           \A m \in Sends : cancel'[m].byPeer => m \in peer.cancelled,
           server' \in Seq(Sends), Len(server') <= EventCap,
           \A i \in DOMAIN server' : server'[i] \in peer.cancelled,
           notices' \subseteq notices,
           UNCHANGED <<mode, send, task, wire, events, peer>>
    PROVE  IInv'
  <1> USE DEF IInv
  <1>1. TypeOK'
    BY DEF TypeOK
  <1>2. SoundSends'
    <2> SUFFICES ASSUME NEW n \in Sends PROVE Sound(n, task[n], wire[n], peer, exit')
      BY DEF SoundSends
    <2>1. Sound(n, task[n], wire[n], peer, exit)
      BY DEF SoundSends
    <2> QED
      BY <2>1 DEF Sound, Waits, Asks
  <1>3. InOrder' /\ EventsOrdered' /\ OwnSession' /\ SendTracked'
    BY DEF AppInv, InOrder, EventsOrdered, OwnSession, SendTracked
  <1>4. FromAfar' /\ PeerCancelsOwn'
    BY DEF AppInv, FromAfar, PeerCancelsOwn
  <1> QED
    BY <1>1, <1>2, <1>3, <1>4 DEF AppInv

(* What the app's steps leave alone keeps its part of the invariant. *)
LEMMA AppFacts ==
    ASSUME IInv
    PROVE  /\ overlay \in {"none", "list", "picker"}
           /\ cancel \in [Sends -> [token : BOOLEAN, byPeer : BOOLEAN]]
           /\ \A m \in Sends : cancel[m].byPeer => m \in peer.cancelled
           /\ server \in Seq(Sends) /\ Len(server) <= EventCap
           /\ \A i \in DOMAIN server : server[i] \in peer.cancelled
           /\ notices \subseteq notices /\ notices \subseteq peer.cancelled
           /\ send \in [n : 0..MaxSends, session : 0..MaxSends]
           /\ NoSend \in [n : 0..MaxSends, session : 0..MaxSends]
  BY SendsAreNumbers DEF IInv, TypeOK, AppInv, FromAfar, PeerCancelsOwn, NoSend

(* A spawned send is the only one, so the app may forget any other. *)
LEMMA SpawnInv ==
    ASSUME IInv, NEW files \in SUBSET Files, Spawn(files),
           send.n = 0 \/ task[1].pc = "none", exit = "running",
           overlay' \in {"none", "list", "picker"},
           UNCHANGED <<mode, exit, cancel, wire, events, server, peer, notices>>
    PROVE  IInv'
  <1> USE DEF IInv
  <1>1. PICK n \in Sends :
            /\ task[n].pc = "none" /\ \A k \in 1..(n - 1) : task[k].pc # "none"
            /\ send' = [n |-> n, session |-> 0]
            /\ task' = [task EXCEPT ![n] = [NoTask EXCEPT !.pc = "prepare", !.left = files]]
    BY DEF Spawn
  <1> DEFINE t == [NoTask EXCEPT !.pc = "prepare", !.left = files]
  <1>2. t \in TaskType /\ t.pc = "prepare" /\ ~t.ok /\ ~t.unheard
    BY DEF NoTask, TaskType
  <1>3. task' = [task EXCEPT ![n] = t]
    BY <1>1
  <1> HIDE DEF t
  <1>4. \A m \in Sends : task'[m] = IF m = n THEN t ELSE task[m]
    BY <1>3 DEF TypeOK
  <1>5. send'.n = n /\ send'.session = 0 /\ send' \in [n : 0..MaxSends, session : 0..MaxSends]
    BY <1>1, SendsAreNumbers
  <1>6. \A i \in DOMAIN events : events[i].n \in Sends /\ events[i].n # n
    <2>1. \A i \in DOMAIN events : events[i] \in EventType
      BY DEF TypeOK
    <2>2. \A i \in DOMAIN events : events[i].n \in Sends
      BY <2>1 DEF EventType
    <2> QED
      BY <1>1, <2>2 DEF AppInv, EventsOrdered
  <1>7. TypeOK'
    BY <1>2, <1>3, <1>5 DEF TypeOK
  <1>8. SoundSends'
    <2> SUFFICES ASSUME NEW m \in Sends PROVE Sound(m, task'[m], wire[m], peer, exit)
      BY DEF SoundSends
    <2>1. Sound(m, task[m], wire[m], peer, exit)
      BY DEF SoundSends
    <2>2. CASE m = n
      <3>1. Waits(t, wire[n], exit) /\ Saves(n, t, wire[n], peer)
        BY <1>1, <1>2, <2>1, <2>2 DEF Sound, Waits, Saves
      <3>2. Asks(n, t, wire[n], peer, exit) /\ Leaves(n, t, wire[n], peer)
        BY <1>1, <1>2, <2>1, <2>2 DEF Sound, Asks, Leaves, HasSession
      <3> QED
        BY <1>4, <2>2, <3>1, <3>2 DEF Sound
    <2>3. CASE m # n
      BY <1>4, <2>1, <2>3
    <2> QED
      BY <2>2, <2>3
  <1>9. InOrder'
    <2> SUFFICES ASSUME NEW m \in Sends, NEW k \in Sends, k < m, task'[m].pc # "none"
                 PROVE  task'[k].pc # "none"
      BY DEF InOrder
    <2>1. CASE m = n
      <3>1. k \in 1..(n - 1)
        BY <2>1, SendsAreNumbers DEF Sends
      <3> QED
        BY <1>1, <1>2, <1>4, <3>1
    <2>2. CASE m # n
      BY <1>2, <1>4, <2>2 DEF AppInv, InOrder
    <2> QED
      BY <2>1, <2>2
  <1>10. EventsOrdered'
    BY <1>4, <1>6 DEF AppInv, EventsOrdered
  <1>11. SendTracked'
    <2> SUFFICES ASSUME NEW m \in Sends, m # n,
                        \/ task[m].pc \notin {"none", "over"}
                        \/ \E i \in DOMAIN events : events[i].n = m
                 PROVE  FALSE
      BY <1>4, <1>5 DEF SendTracked
    <2>1. task[m].pc # "none" /\ send.n = m
      BY DEF AppInv, EventsOrdered, SendTracked
    <2>2. send.n # 0
      BY <2>1, SendsAreNumbers
    <2>3. task[1].pc # "none"
      BY <2>1, SendsAreNumbers DEF AppInv, InOrder
    <2> QED
      BY <2>2, <2>3
  <1>12. OwnSession' /\ FromAfar' /\ PeerCancelsOwn'
    BY <1>5 DEF AppInv, OwnSession, FromAfar, PeerCancelsOwn
  <1> QED
    BY <1>7, <1>8, <1>9, <1>10, <1>11, <1>12 DEF AppInv

(* The files of a send are files on disk. *)
LEMMA CollectedFiles == Collected \subseteq SUBSET Files
  BY DEF Collected, Expanded

(* A step that starts a send, or is refused because one is under way. *)
LEMMA StartSendInv ==
    ASSUME IInv, StartSend, exit = "running", overlay' \in {"none", "list", "picker"},
           UNCHANGED <<mode, exit, cancel, wire, events, server, peer, notices>>
    PROVE  IInv'
  <1>1. CASE send.n = 0 /\ \E files \in Collected \ {{}} : Spawn(files)
    <2>1. PICK files \in Collected \ {{}} : Spawn(files)
      BY <1>1
    <2>2. files \in SUBSET Files
      BY CollectedFiles
    <2> QED
      BY <1>1, <2>1, <2>2, SpawnInv
  <1>2. CASE UNCHANGED <<send, task>>
    BY <1>2, AppStepInv, AppFacts
  <1> QED
    BY <1>1, <1>2 DEF StartSend

(* D opens the list. *)
LEMMA OpenDeviceListInv ==
    ASSUME IInv, OpenDeviceList
    PROVE  IInv'
  BY AppStepInv, AppFacts DEF OpenDeviceList

(* A device is chosen, which starts the send in `send` mode. *)
LEMMA PickDeviceInv ==
    ASSUME IInv, PickDevice
    PROVE  IInv'
  <1>1. /\ exit = "running" /\ UNCHANGED <<mode, exit, cancel, wire, events, server, peer, notices>>
        /\ overlay' \in {"none", "picker"}
        /\ StartSend \/ UNCHANGED <<send, task>>
    BY DEF PickDevice
  <1>2. CASE UNCHANGED <<send, task>>
    BY <1>1, <1>2, AppStepInv, AppFacts
  <1> QED
    BY <1>1, <1>2, StartSendInv

(* The picker closes, and may start a send. *)
LEMMA PickerKeyInv ==
    ASSUME IInv, PickerKey
    PROVE  IInv'
  <1>1. /\ exit = "running" /\ UNCHANGED <<mode, exit, cancel, wire, events, server, peer, notices>>
        /\ overlay' = "none"
        /\ StartSend \/ UNCHANGED <<send, task>>
    BY DEF PickerKey
  <1>2. CASE UNCHANGED <<send, task>>
    BY <1>1, <1>2, AppStepInv, AppFacts
  <1> QED
    BY <1>1, <1>2, StartSendInv

(* The headless mode sends once. *)
LEMMA DiscoveryFinishedInv ==
    ASSUME IInv, DiscoveryFinished
    PROVE  IInv'
  <1>1. /\ exit = "running" /\ task[1].pc = "none" /\ overlay' = overlay
        /\ UNCHANGED <<mode, cancel, wire, events, server, peer, notices>>
        /\ \E files \in Collected : \/ Spawn(files) /\ UNCHANGED exit
                                    \/ exit' = "error" /\ UNCHANGED <<send, task>>
    BY DEF DiscoveryFinished
  <1>2. PICK files \in Collected : \/ Spawn(files) /\ UNCHANGED exit
                                   \/ exit' = "error" /\ UNCHANGED <<send, task>>
    BY <1>1
  <1>3. CASE Spawn(files) /\ UNCHANGED exit
    <2>1. files \in SUBSET Files
      BY CollectedFiles
    <2> QED
      BY <1>1, <1>3, <2>1, SpawnInv, AppFacts
  <1>4. CASE exit' = "error" /\ UNCHANGED <<send, task>>
    BY <1>1, <1>4, AppStepInv, AppFacts
  <1> QED
    BY <1>2, <1>3, <1>4

(* Ctrl-C cancels, closes the overlay or quits. *)
LEMMA CtrlCInv ==
    ASSUME IInv, CtrlC
    PROVE  IInv'
  <1>1. /\ exit = "running" /\ overlay' = "none"
        /\ exit' \in {exit, "ok"}
        /\ \/ cancel' = cancel
           \/ send.n # 0 /\ cancel' = [cancel EXCEPT ![send.n].token = TRUE]
        /\ UNCHANGED <<mode, send, task, wire, events, server, peer, notices>>
    <2>1. cancel' = IF overlay = "none" /\ send.n # 0
                    THEN [cancel EXCEPT ![send.n].token = TRUE] ELSE cancel
      BY DEF CtrlC
    <2>2. \/ cancel' = cancel
          \/ send.n # 0 /\ cancel' = [cancel EXCEPT ![send.n].token = TRUE]
      BY <2>1, Zenon
    <2> QED
      BY <2>2 DEF CtrlC
  <1>2. /\ cancel' \in [Sends -> [token : BOOLEAN, byPeer : BOOLEAN]]
        /\ \A m \in Sends : cancel'[m].byPeer => m \in peer.cancelled
    <2>1. CASE cancel' = cancel
      BY <2>1, AppFacts
    <2>2. CASE send.n # 0 /\ cancel' = [cancel EXCEPT ![send.n].token = TRUE]
      <3>1. PICK n \in Sends : n = send.n
        BY <2>2, AppFacts, SendsAreNumbers DEF Sends
      <3> DEFINE c == [cancel[n] EXCEPT !.token = TRUE]
      <3>2. c \in [token : BOOLEAN, byPeer : BOOLEAN] /\ c.byPeer = cancel[n].byPeer
        BY AppFacts
      <3>3. cancel' = [cancel EXCEPT ![n] = c]
        BY <2>2, <3>1
      <3> HIDE DEF c
      <3> QED
        BY <3>2, <3>3, AppFacts
    <2> QED
      BY <1>1, <2>1, <2>2
  <1> QED
    BY <1>1, <1>2, AppStepInv, AppFacts

(* The list closes. *)
LEMMA CloseDeviceListInv ==
    ASSUME IInv, CloseDeviceList
    PROVE  IInv'
  <1>1. /\ exit = "running" /\ overlay' = "none"
        /\ exit' \in {exit, "ok"}
        /\ UNCHANGED <<mode, cancel, send, task, wire, events, server, peer, notices>>
    BY DEF CloseDeviceList
  <1> QED
    BY <1>1, AppStepInv, AppFacts

(* A CancelReceived counts for the send whose session it names, which the   *)
(* peer's user has cancelled.                                               *)
LEMMA HandleCancelReceivedInv ==
    ASSUME IInv, HandleCancelReceived
    PROVE  IInv'
  <1>1. /\ exit = "running" /\ server # <<>> /\ server' = Tail(server)
        /\ UNCHANGED <<mode, exit, overlay, send, task, wire, events, peer, notices>>
    BY DEF HandleCancelReceived
  <1>2. /\ server \in Seq(Sends) /\ Len(server) <= EventCap
        /\ \A i \in DOMAIN server : server[i] \in peer.cancelled
    BY AppFacts
  <1>3. /\ Head(server) \in Sends /\ Head(server) = server[1] /\ 1 \in DOMAIN server
        /\ Tail(server) \in Seq(Sends) /\ Len(Tail(server)) = Len(server) - 1
        /\ \A i \in DOMAIN Tail(server) : Tail(server)[i] = server[i + 1] /\ i + 1 \in DOMAIN server
    BY <1>1, <1>2
  <1>4. Len(server') <= EventCap
    BY <1>1, <1>2, <1>3, SendsAreNumbers
  <1>5. \A i \in DOMAIN server' : server'[i] \in peer.cancelled
    BY <1>1, <1>2, <1>3
  <1>6. /\ cancel' \in [Sends -> [token : BOOLEAN, byPeer : BOOLEAN]]
        /\ \A m \in Sends : cancel'[m].byPeer => m \in peer.cancelled
    <2>1. CASE Cancels(Head(server))
      <3>1. PICK n : n = send.n
        OBVIOUS
      <3>2. n = Head(server)
        BY <1>1, <1>3, <2>1, <3>1, SendsAreNumbers DEF Cancels, IInv, AppInv, OwnSession
      <3>3. n \in Sends /\ n \in peer.cancelled
        BY <1>2, <1>3, <3>2
      <3> DEFINE c == [token |-> TRUE, byPeer |-> TRUE]
      <3>4. c \in [token : BOOLEAN, byPeer : BOOLEAN]
        OBVIOUS
      <3>5. cancel' = [cancel EXCEPT ![n] = c]
        BY <2>1, <3>1, Zenon DEF HandleCancelReceived
      <3> HIDE DEF c
      <3> QED
        BY <3>3, <3>4, <3>5, AppFacts
    <2>2. CASE ~Cancels(Head(server))
      BY <2>2, AppFacts DEF HandleCancelReceived
    <2> QED
      BY <2>1, <2>2
  <1> QED
    BY <1>1, <1>3, <1>4, <1>5, <1>6, AppStepInv, AppFacts

(* The peer's notice arrives or is lost. *)
LEMMA NoticeInv ==
    ASSUME IInv, NEW n \in Sends, Notice(n)
    PROVE  IInv'
  <1>1. /\ n \in notices /\ notices' = notices \ {n}
        /\ \/ Len(server) < EventCap /\ server' = Append(server, n)
           \/ server' = server
        /\ UNCHANGED <<mode, exit, overlay, send, cancel, task, wire, events, peer>>
    BY DEF Notice, Room
  <1>2. /\ server \in Seq(Sends) /\ Len(server) <= EventCap /\ n \in peer.cancelled
        /\ \A i \in DOMAIN server : server[i] \in peer.cancelled
    BY <1>1, AppFacts
  <1>3. /\ server' \in Seq(Sends) /\ Len(server') <= EventCap
        /\ \A i \in DOMAIN server' : server'[i] \in peer.cancelled
    <2>1. CASE Len(server) < EventCap /\ server' = Append(server, n)
      <3>1. /\ server' \in Seq(Sends) /\ Len(server') = Len(server) + 1
            /\ DOMAIN server' = 1..(Len(server) + 1) /\ DOMAIN server = 1..Len(server)
            /\ Len(server) \in Nat
            /\ \A i \in 1..(Len(server) + 1) : server'[i] = IF i = Len(server) + 1 THEN n ELSE server[i]
        BY <1>2, <2>1
      <3>2. Len(server') <= EventCap
        BY <2>1, <3>1, SendsAreNumbers
      <3> QED
        BY <1>2, <3>1, <3>2
    <2>2. CASE server' = server
      BY <1>2, <2>2
    <2> QED
      BY <1>1, <2>1, <2>2
  <1> QED
    BY <1>1, <1>3, AppStepInv, AppFacts

(* The process is gone, and its connections with it. *)
LEMMA DieInv ==
    ASSUME IInv, Die
    PROVE  IInv'
  <1> USE DEF IInv
  <1>1. /\ exit \in {"ok", "error"} /\ exit' = "gone" /\ wire' = [n \in Sends |-> Quiet]
        /\ UNCHANGED <<mode, overlay, send, cancel, task, events, server, peer, notices>>
    BY DEF Die
  <1>2. Quiet \in WireType /\ Quiet.kind = "none" /\ Quiet.st = "none"
    BY DEF Quiet, WireType
  <1>3. TypeOK'
    BY <1>1, <1>2 DEF TypeOK
  <1>4. SoundSends'
    <2> SUFFICES ASSUME NEW n \in Sends PROVE Sound(n, task[n], Quiet, peer, exit')
      BY <1>1 DEF SoundSends
    <2>1. Sound(n, task[n], wire[n], peer, exit)
      BY DEF SoundSends
    <2>2. Waits(task[n], Quiet, exit') /\ Saves(n, task[n], Quiet, peer)
      BY <1>1, <1>2, <2>1 DEF Sound, Waits, Saves
    <2>3. Asks(n, task[n], Quiet, peer, exit')
      BY <1>1, <1>2, <2>1 DEF Sound, Asks
    <2>4. Leaves(n, task[n], Quiet, peer)
      BY <1>2, <2>1 DEF Sound, Leaves
    <2> QED
      BY <2>2, <2>3, <2>4 DEF Sound
  <1>5. InOrder' /\ EventsOrdered' /\ OwnSession' /\ SendTracked'
    BY <1>1 DEF AppInv, InOrder, EventsOrdered, OwnSession, SendTracked
  <1>6. FromAfar' /\ PeerCancelsOwn'
    BY <1>1 DEF AppInv, FromAfar, PeerCancelsOwn
  <1>7. SlotSound(peer)'
    BY <1>1 DEF SlotSound, Unfinished
  <1> QED
    BY <1>3, <1>4, <1>5, <1>6, <1>7 DEF AppInv

(* The first of the waiting events. *)
LEMMA FirstEvent ==
    ASSUME IInv, events # <<>>
    PROVE  /\ Head(events) = events[1] /\ 1 \in DOMAIN events
           /\ Head(events) \in EventType /\ Head(events).n \in Sends
           /\ Tail(events) \in Seq(EventType) /\ Len(Tail(events)) <= EventCap
           /\ \A i \in DOMAIN Tail(events) : /\ Tail(events)[i] = events[i + 1]
                                             /\ i + 1 \in DOMAIN events /\ 1 < i + 1
  <1>1. events \in Seq(EventType) /\ Len(events) <= EventCap
    BY DEF IInv, TypeOK
  <1>2. /\ Head(events) = events[1] /\ 1 \in DOMAIN events /\ Head(events) \in EventType
        /\ Tail(events) \in Seq(EventType) /\ Len(Tail(events)) = Len(events) - 1
    BY <1>1
  <1>3. \A i \in DOMAIN Tail(events) : /\ Tail(events)[i] = events[i + 1]
                                       /\ i + 1 \in DOMAIN events /\ 1 < i + 1
    BY <1>1
  <1>4. Len(Tail(events)) <= EventCap
    BY <1>1, <1>2, SendsAreNumbers
  <1>5. Head(events).n \in Sends
    BY <1>2 DEF EventType
  <1> QED
    BY <1>2, <1>3, <1>4, <1>5

(* The app takes an event of the send task: the session it names is that of *)
(* its record, and the end of a send is the last it hears of it.            *)
LEMMA EventInv ==
    ASSUME IInv, exit = "running", events # <<>>, events' = Tail(events),
           exit' \in {"running", "ok", "error"},
           \/ Head(events).type = "SendSessionStarted" /\ send' = SessionStarted(Head(events))
           \/ Head(events).type = "SendEnded" /\ send' = NoSend
           \/ exit' # "running" /\ send' = send,
           UNCHANGED <<mode, overlay, cancel, task, wire, server, peer, notices>>
    PROVE  IInv'
  <1> USE DEF IInv
  <1>1. PICK e : e = Head(events)
    OBVIOUS
  <1>2. /\ e = events[1] /\ 1 \in DOMAIN events /\ e \in EventType /\ e.n \in Sends
        /\ Tail(events) \in Seq(EventType) /\ Len(Tail(events)) <= EventCap
        /\ \A i \in DOMAIN Tail(events) : /\ Tail(events)[i] = events[i + 1]
                                          /\ i + 1 \in DOMAIN events /\ 1 < i + 1
    BY <1>1, FirstEvent
  <1>3. \A i \in DOMAIN events : events[i] \in EventType /\ events[i].n \in Sends
    <2>1. \A i \in DOMAIN events : events[i] \in EventType
      BY DEF TypeOK
    <2> QED
      BY <2>1 DEF EventType
  <1>4. send.n = e.n
    BY <1>2 DEF AppInv, SendTracked
  <1>5. send' \in [n : 0..MaxSends, session : 0..MaxSends]
    <2>1. CASE send' = SessionStarted(e)
      <3>1. send' = send \/ send' = [send EXCEPT !.session = e.n]
        BY <2>1 DEF SessionStarted
      <3> QED
        BY <1>2, <3>1, AppFacts, SendsAreNumbers
    <2> QED
      BY <1>1, <2>1, AppFacts
  <1>6. \/ send'.n = send.n /\ send'.session = send.n
        \/ e.type = "SendEnded" /\ send' = NoSend
        \/ exit' # "running" /\ send' = send
    <2>1. CASE send' = SessionStarted(e)
      <3>1. send.n # 0
        BY <1>2, <1>4, SendsAreNumbers
      <3>2. send' = [send EXCEPT !.session = e.n]
        BY <2>1, <3>1 DEF SessionStarted
      <3>3. send'.n = send.n /\ send'.session = e.n
        BY <3>2, AppFacts
      <3> QED
        BY <1>4, <3>3
    <2> QED
      BY <1>1, <2>1
  <1>7. TypeOK'
    BY <1>2, <1>5 DEF TypeOK
  <1>8. SoundSends'
    <2> SUFFICES ASSUME NEW n \in Sends PROVE Sound(n, task[n], wire[n], peer, exit')
      BY DEF SoundSends
    <2>1. Sound(n, task[n], wire[n], peer, exit)
      BY DEF SoundSends
    <2> QED
      BY <2>1 DEF Sound, Waits, Asks
  <1>9. EventsOrdered'
    <2>1. \A i \in DOMAIN events' : task'[events'[i].n].pc # "none"
      BY <1>2 DEF AppInv, EventsOrdered
    <2>2. \A i \in DOMAIN events' : events'[i].type = "SendEnded" => task'[events'[i].n].pc = "over"
      BY <1>2 DEF AppInv, EventsOrdered
    <2>3. ASSUME NEW i \in DOMAIN events', NEW j \in DOMAIN events', i < j,
                 events'[i].type = "SendEnded"
          PROVE  events'[i].n # events'[j].n
      <3>1. i \in Int /\ j \in Int /\ i + 1 < j + 1
        BY <1>2, <2>3
      <3>2. /\ events'[i] = events[i + 1] /\ i + 1 \in DOMAIN events
            /\ events'[j] = events[j + 1] /\ j + 1 \in DOMAIN events
        BY <1>2, <2>3
      <3> QED
        BY <2>3, <3>1, <3>2 DEF AppInv, EventsOrdered
    <2> QED
      BY <2>1, <2>2, <2>3 DEF EventsOrdered
  <1>10. SendTracked'
    <2> SUFFICES ASSUME NEW m \in Sends, exit' = "running",
                        \/ task[m].pc \notin {"none", "over"}
                        \/ \E i \in DOMAIN Tail(events) : Tail(events)[i].n = m
                 PROVE  send'.n = m /\ send'.session \in {0, m}
      BY DEF SendTracked
    <2>1. send.n = m
      BY <1>2 DEF AppInv, SendTracked
    <2>2. e.type # "SendEnded"
      <3>1. ASSUME e.type = "SendEnded" PROVE FALSE
        <4>1. task[m].pc = "over"
          BY <1>2, <1>4, <2>1, <3>1 DEF AppInv, EventsOrdered
        <4>2. PICK i \in DOMAIN Tail(events) : Tail(events)[i].n = m
          BY <4>1
        <4>3. events[i + 1].n = m /\ i + 1 \in DOMAIN events /\ 1 < i + 1
          BY <1>2, <4>2
        <4> QED
          BY <1>2, <1>4, <2>1, <3>1, <4>3 DEF AppInv, EventsOrdered
      <3> QED
        BY <3>1
    <2> QED
      BY <1>6, <2>1, <2>2
  <1>11. OwnSession'
    BY <1>6 DEF OwnSession, NoSend
  <1>12. InOrder' /\ FromAfar' /\ PeerCancelsOwn'
    BY DEF AppInv, InOrder, FromAfar, PeerCancelsOwn
  <1>13. SlotSound(peer)'
    BY DEF SlotSound, Unfinished
  <1> QED
    BY <1>7, <1>8, <1>9, <1>10, <1>11, <1>12, <1>13 DEF AppInv

(* Both event loops keep the invariant. *)
LEMMA HandleEventInv ==
    ASSUME IInv, HandleEvent \/ HeadlessEvent
    PROVE  IInv'
  <1>1. PICK e : e = Head(events)
    OBVIOUS
  <1>2. /\ exit = "running" /\ events # <<>> /\ events' = Tail(events)
        /\ UNCHANGED <<mode, overlay, cancel, task, wire, server, peer, notices>>
    BY DEF HandleEvent, HeadlessEvent
  <1>3. e \in EventType
    BY <1>1, <1>2, FirstEvent
  <1>4. e.type \in {"SendSessionStarted", "SendEnded"} /\ Result(e) \in {"ok", "error"}
    BY <1>3 DEF EventType, Result
  <1>5. CASE HandleEvent
    <2>1. IF e.type = "SendSessionStarted"
          THEN send' = SessionStarted(e) /\ UNCHANGED exit
          ELSE send' = NoSend /\ exit' = IF mode = "send" THEN Result(e) ELSE exit
      BY <1>1, <1>5, Zenon DEF HandleEvent
    <2> QED
      BY <1>1, <1>2, <1>4, <2>1, EventInv
  <1>6. CASE HeadlessEvent
    <2>1. IF e.type = "SendSessionStarted"
          THEN send' = SessionStarted(e) /\ UNCHANGED exit
          ELSE exit' = Result(e) /\ UNCHANGED send
      BY <1>1, <1>6, Zenon DEF HeadlessEvent
    <2> QED
      BY <1>1, <1>2, <1>4, <2>1, EventInv
  <1> QED
    BY <1>5, <1>6

-----------------------------------------------------------------------------
(* The invariant *)

(* The invariant holds initially. *)
LEMMA InitInv == Init => IInv
  <1> SUFFICES ASSUME Init PROVE IInv
    OBVIOUS
  <1>1. NoTask \in TaskType /\ NoTask.pc = "none" /\ ~NoTask.ok /\ ~NoTask.unheard
    BY DEF NoTask, TaskType
  <1>2. Quiet \in WireType /\ Quiet.kind = "none" /\ Quiet.st = "none"
    BY DEF Quiet, WireType
  <1>3. /\ peer \in PeerType /\ peer.st = "free" /\ peer.session = 0 /\ peer.cancelled = {}
    BY SendsAreNumbers DEF Init, PeerType
  <1>4. TypeOK
    <2>1. events \in Seq(EventType) /\ server \in Seq(Sends) /\ Len(events) = 0 /\ Len(server) = 0
      BY DEF Init
    <2>2. Len(events) <= EventCap /\ Len(server) <= EventCap
      BY <2>1, SendsAreNumbers
    <2>3. send \in [n : 0..MaxSends, session : 0..MaxSends]
      BY SendsAreNumbers DEF Init, NoSend
    <2>4. /\ mode \in {"interactive", "send", "headless"} /\ exit = "running"
          /\ overlay \in {"none", "list", "picker"}
          /\ cancel \in [Sends -> [token : BOOLEAN, byPeer : BOOLEAN]]
          /\ notices = {}
      BY DEF Init
    <2>5. task \in [Sends -> TaskType] /\ wire \in [Sends -> WireType]
      BY <1>1, <1>2 DEF Init
    <2> QED
      BY <1>3, <2>1, <2>2, <2>3, <2>4, <2>5 DEF TypeOK
  <1>5. SoundSends
    <2> SUFFICES ASSUME NEW n \in Sends PROVE Sound(n, NoTask, Quiet, peer, exit)
      BY DEF Init, SoundSends
    <2>1. n # 0
      BY SendsAreNumbers
    <2>2. Waits(NoTask, Quiet, exit) /\ Saves(n, NoTask, Quiet, peer)
      BY <1>1, <1>2 DEF Waits, Saves
    <2>3. Asks(n, NoTask, Quiet, peer, exit) /\ Leaves(n, NoTask, Quiet, peer)
      BY <1>1, <1>2, <1>3, <2>1 DEF Asks, Leaves, HasSession
    <2> QED
      BY <2>2, <2>3 DEF Sound
  <1>6. SlotSound(peer)
    BY <1>3 DEF SlotSound
  <1>7. InOrder /\ EventsOrdered /\ OwnSession
    BY <1>1 DEF Init, InOrder, EventsOrdered, OwnSession, NoSend
  <1>8. SendTracked /\ FromAfar /\ PeerCancelsOwn
    BY <1>1 DEF Init, SendTracked, FromAfar, PeerCancelsOwn
  <1> QED
    BY <1>4, <1>5, <1>6, <1>7, <1>8 DEF IInv, AppInv

(* Every step keeps the invariant. *)
LEMMA NextInv ==
    ASSUME IInv, [Next]_vars
    PROVE  IInv'
  <1>1. ASSUME NEW n \in Sends, TaskStep(n)
        PROVE  IInv'
    BY <1>1, PrepareInv, PreparedInv, PrepareCancelledInv, AnnounceInv, NextFileInv, UploadedInv,
       UploadFailedInv, UploadCancelledInv, CancelInv, CancelledInv, EndInv DEF TaskStep
  <1>2. ASSUME NEW n \in Sends, PeerStep(n)
        PROVE  IInv'
    BY <1>2, PeerPrepareInv, PeerUploadInv, PeerSavesInv, PeerCancelInv DEF PeerStep
  <1>3. CASE UNCHANGED vars
    BY <1>3 DEF vars, IInv, TypeOK, SoundSends, SlotSound, Unfinished, AppInv, InOrder,
       EventsOrdered, OwnSession, SendTracked, FromAfar, PeerCancelsOwn
  <1> QED
    BY <1>1, <1>2, <1>3, OpenDeviceListInv, PickDeviceInv, PickerKeyInv, DiscoveryFinishedInv,
       CtrlCInv, CloseDeviceListInv, HandleEventInv, HandleCancelReceivedInv, DieInv,
       PeerDecidesInv, PeerAbortsInv, PeerUserCancelsInv, BrokenInv, NoticeInv
       DEF Next

(* The inductive invariant holds in every state of the app, its send tasks  *)
(* and the receiving device.                                                *)
THEOREM Invariance == Spec => []IInv
  <1>1. Init => IInv
    BY InitInv
  <1>2. IInv /\ [Next]_vars => IInv'
    BY NextInv
  <1> QED
    BY <1>1, <1>2, PTL DEF Spec

(* The app's record is that of the send under way, a late CancelReceived    *)
(* never stops another send, and a send that ended without losing the last  *)
(* answer leaves no session on the peer (send_transfer.rs, app.rs).         *)
THEOREM SendsAreSound == Spec => []SendsSound
  <1>1. IInv => SendsSound
    BY DEF IInv, SendsSound, AppInv, SoundSends, Sound, Leaves, HasSession, NoSessionLeft, InSession
  <1> QED
    BY <1>1, Invariance, PTL

(* run_send reports success only when the peer has every accepted file      *)
(* whole: cancels of either side, bodies cut short and a session that ended *)
(* under the uploads all end in a failure.                                  *)
THEOREM SuccessIsSaved == Spec => []SuccessMeansSaved
  <1>1. IInv => SuccessMeansSaved
    BY DEF IInv, SoundSends, Sound, Saves, SuccessMeansSaved
  <1> QED
    BY <1>1, Invariance, PTL
=============================================================================
