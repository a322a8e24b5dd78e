----------------------- MODULE ServerLifecycleProofs -----------------------
(***************************************************************************)
(* Proofs about ServerLifecycle, for every number of connections, restarts,*)
(* sessions, files and errors, and every capacity of the event channel.    *)
(***************************************************************************)
EXTENDS ServerLifecycle, FiniteSetTheorems, TLAPS

(* A listener that is not closed counts exactly the errors in a row.        *)
Listening ==
  \A g \in Gens, f \in Families : lsn[g][f].st # "closed" =>
    srv[g].st = "up" /\ lsn[g][f].fails = lsn[g][f].streak /\ lsn[g][f].fails < FailureLimit

(* A connection belongs to a server that has not ended, a request to a session. *)
Serving ==
  \A c \in Conns :
    /\ conn[c].st = "free" <=> conn[c].g = 0
    /\ conn[c].g # 0 => srv[conn[c].g].st \in {"up", "closing"}
    /\ conn[c].st \notin {"free", "idle"} => conn[c].s # 0

(* Every server but the last was told to stop, and so was the last one while *)
(* the loop restarts it.                                                     *)
Replaced ==
  /\ \A g \in Gens : g > gen => srv[g].st = "none"
  /\ \A g \in Gens : g < gen \/ srv[g].st = "stopped" => srv[g].stop
  /\ pc \in {"stopping", "binding"} => srv[gen].stop

ServerInv == Listening /\ Serving /\ Replaced /\ GivesUpInARow /\ LinkMatchesServer

-----------------------------------------------------------------------------
(* No session is older than the last one asked for. *)
Fresh ==
  /\ \A c \in Conns : conn[c].s <= asked
  /\ \A t \in spawned : t.k # "cancel" => t.s <= asked
  /\ \A g \in Gens : slot[g].of <= asked
  /\ \A i \in DOMAIN queue : queue[i].s <= asked
  /\ \A s \in Sessions : s > asked => decision[s] = "open"
  /\ pending <= asked

Holds(c) == conn[c].st \in {"asking", "waiting"}

(* The pending slot belongs to one request, or to the guard it left behind. *)
SlotHeld ==
  /\ \A c \in Conns : Holds(c) => slot[conn[c].g].st = "pending" /\ slot[conn[c].g].of = conn[c].s
  /\ \A t \in spawned : t.k = "clear" => slot[t.g].st = "pending" /\ slot[t.g].of = t.s
  /\ \A c, d \in Conns : Holds(c) /\ Holds(d) /\ conn[c].s = conn[d].s => c = d
  /\ \A c \in Conns, t \in spawned : Holds(c) /\ t.k = "clear" => t.s # conn[c].s

Uploading(g, s) == {c \in Conns : conn[c].st = "uploading" /\ conn[c].g = g /\ conn[c].s = s}
Fails(g, s) == \E t \in spawned : t.k = "fail" /\ t.g = g /\ t.s = s

(* Every upload and every guard of a dropped upload has a busy file of its  *)
(* session; a session that is still to be decided has none.                 *)
Counted(sl, up, fails) ==
  /\ sl.todo + sl.busy <= FilesPer
  /\ sl.st # "free" => sl.of # 0
  /\ sl.st # "active" => sl.busy = 0 /\ sl.todo = 0
  /\ sl.st = "pending" => up = {} /\ ~fails
  /\ sl.st = "active" => IsFiniteSet(up) /\ Cardinality(up) + (IF fails THEN 1 ELSE 0) <= sl.busy

FilesAt(g) == Counted(slot[g], Uploading(g, slot[g].of), Fails(g, slot[g].of))

FilesCounted == \A g \in Gens : FilesAt(g)

Withdrawing(s) == \E t \in spawned : t.k \in {"clear", "abort"} /\ t.s = s
Told(i, s) == \E j \in DOMAIN queue : j > i /\ queue[j].k = "aborted" /\ queue[j].s = s
Announced(s) == \E i \in DOMAIN queue : queue[i].k = "prepare" /\ queue[i].s = s

(* A prompt, shown or still in the queue, is undecided, and its request     *)
(* waits or its withdrawal comes after it.                                  *)
Prompts ==
  /\ pending # 0 =>
       decision[pending] = "open" /\ (Waiting(pending) \/ Withdrawing(pending) \/ Told(0, pending))
  /\ \A i \in DOMAIN queue : queue[i].k = "prepare" =>
       /\ queue[i].s # 0 /\ queue[i].s # pending /\ decision[queue[i].s] = "open"
       /\ Waiting(queue[i].s) \/ Withdrawing(queue[i].s) \/ Told(i, queue[i].s)
  /\ \A i, j \in DOMAIN queue :
       queue[i].k = "prepare" /\ queue[j].k = "prepare" /\ queue[i].s = queue[j].s => i = j
  /\ \A c \in Conns : conn[c].st = "asking" =>
       decision[conn[c].s] = "open" /\ conn[c].s # pending /\ ~Announced(conn[c].s)

IInv == TypeOK /\ ServerInv /\ Fresh /\ SlotHeld /\ FilesCounted /\ Prompts

-----------------------------------------------------------------------------
(* Types *)

ConnRecords == [g : 0..MaxGen, st : Requests, s : 0..MaxSessions]

(* TypeOK with its records named. *)
Typed ==
  /\ srv \in [Gens -> Servers] /\ lsn \in [Gens -> [Families -> Listeners]]
  /\ errors \in 0..MaxErrors /\ early \in BOOLEAN
  /\ slot \in [Gens -> Slots] /\ conn \in [Conns -> ConnRecords] /\ spawned \subseteq Spawned
  /\ queue \in Seq(Events) /\ Len(queue) =< EventCap
  /\ decision \in [Sessions -> Decisions] /\ asked \in 0..MaxSessions
  /\ gen \in Gens /\ pc \in {"loop", "stopping", "binding", "quit"}
  /\ want \in Links /\ web \in Links
  /\ pending \in 0..MaxSessions /\ receive \in 0..MaxSessions /\ overlay \in BOOLEAN

(* The typing by functions is the type invariant, also after a step. *)
LEMMA TypedIs == (TypeOK <=> Typed) /\ (TypeOK' <=> Typed')
  BY DEF Typed, TypeOK, ConnRecords

(* The bounds are numbers. *)
LEMMA Bounds ==
  /\ MaxGen \in Nat \ {0} /\ MaxSessions \in Nat \ {0} /\ FilesPer \in Nat \ {0}
  /\ FailureLimit \in Nat \ {0} /\ EventCap \in Nat \ {0} /\ MaxErrors \in Nat
  BY LifecycleAssumption

(* Fixed records. *)
LEMMA Fixed ==
  /\ StoppedServer \in Servers /\ StoppedServer.st = "stopped" /\ StoppedServer.stop
  /\ Closed \in Listeners /\ Closed.st = "closed"
  /\ Open \in Listeners /\ Open.st = "open" /\ Open.fails = 0 /\ Open.streak = 0
  /\ FreeSlot \in Slots /\ FreeSlot.st = "free" /\ FreeSlot.of = 0 /\ FreeSlot.todo = 0 /\ FreeSlot.busy = 0
  /\ FreeConn \in ConnRecords /\ FreeConn.g = 0 /\ FreeConn.st = "free" /\ FreeConn.s = 0
  <1>1. StoppedServer \in Servers /\ StoppedServer.st = "stopped" /\ StoppedServer.stop
    BY DEF StoppedServer, Servers, Links
  <1>2. Closed \in Listeners /\ Closed.st = "closed" /\ Closed.fails = 0 /\ Closed.streak = 0
    BY Bounds DEF Closed, Listeners
  <1>3. Open \in Listeners /\ Open.st = "open" /\ Open.fails = 0 /\ Open.streak = 0
    BY <1>2 DEF Open, Listeners
  <1>4. FreeSlot \in Slots /\ FreeSlot.st = "free" /\ FreeSlot.of = 0 /\ FreeSlot.todo = 0 /\ FreeSlot.busy = 0
    BY Bounds DEF FreeSlot, Slots
  <1>5. FreeConn \in ConnRecords /\ FreeConn.g = 0 /\ FreeConn.st = "free" /\ FreeConn.s = 0
    BY Bounds DEF FreeConn, ConnRecords, Requests
  <1> QED
    BY <1>1, <1>2, <1>3, <1>4, <1>5

(* The slot of a new session, and of one that was accepted. *)
LEMMA NewSlots ==
  ASSUME NEW s \in 0..MaxSessions,
         NEW sl \in {[FreeSlot EXCEPT !.st = "pending", !.of = s],
                     [FreeSlot EXCEPT !.st = "active", !.of = s, !.todo = FilesPer]}
  PROVE  /\ sl \in Slots /\ sl.of = s /\ sl.busy = 0
         /\ \/ sl = [FreeSlot EXCEPT !.st = "pending", !.of = s] /\ sl.st = "pending" /\ sl.todo = 0
            \/ sl = [FreeSlot EXCEPT !.st = "active", !.of = s, !.todo = FilesPer] /\ sl.st = "active" /\ sl.todo = FilesPer
  <1>1. FilesPer \in 0..FilesPer /\ 0 \in 0..FilesPer
    BY Bounds
  <1>2. FreeSlot \in Slots /\ FreeSlot.todo = 0 /\ FreeSlot.busy = 0
    BY Fixed
  <1>3. CASE sl = [FreeSlot EXCEPT !.st = "pending", !.of = s]
    BY <1>1, <1>2, <1>3 DEF Slots
  <1>4. CASE sl = [FreeSlot EXCEPT !.st = "active", !.of = s, !.todo = FilesPer]
    BY <1>1, <1>2, <1>4 DEF Slots
  <1> QED
    BY <1>3, <1>4

(* A connection goes on to another point of its request. *)
LEMMA ConnMoves ==
  ASSUME TypeOK, NEW c \in Conns, NEW st \in Requests, NEW s \in 0..MaxSessions,
         \/ conn' = [conn EXCEPT ![c].st = st, ![c].s = s]
         \/ conn' = [conn EXCEPT ![c].st = st] /\ s = conn[c].s
         \/ conn' = [conn EXCEPT ![c] = [g |-> conn[c].g, st |-> st, s |-> s]]
  PROVE  /\ conn' \in [Conns -> ConnRecords]
         /\ conn'[c].st = st /\ conn'[c].s = s /\ conn'[c].g = conn[c].g
         /\ \A x \in Conns : x # c => conn'[x] = conn[x]
  <1>1. conn \in [Conns -> ConnRecords]
    BY TypedIs DEF Typed
  <1>2. CASE conn' = [conn EXCEPT ![c].st = st, ![c].s = s]
    BY <1>1, <1>2 DEF ConnRecords
  <1>3. CASE conn' = [conn EXCEPT ![c].st = st] /\ s = conn[c].s
    BY <1>1, <1>3 DEF ConnRecords
  <1>4. CASE conn' = [conn EXCEPT ![c] = [g |-> conn[c].g, st |-> st, s |-> s]]
    BY <1>1, <1>4 DEF ConnRecords
  <1> QED
    BY <1>2, <1>3, <1>4

(* A connection that ends, and the others. *)
LEMMA ConnFrees ==
  ASSUME TypeOK, NEW c \in Conns, conn' = [conn EXCEPT ![c] = FreeConn]
  PROVE  /\ conn' \in [Conns -> ConnRecords]
         /\ conn'[c].st = "free" /\ conn'[c].s = 0 /\ conn'[c].g = 0
         /\ \A x \in Conns : x # c => conn'[x] = conn[x]
  <1>1. conn \in [Conns -> ConnRecords]
    BY TypedIs DEF Typed
  <1> QED
    BY <1>1, Fixed

-----------------------------------------------------------------------------
(* The initial states *)

(* The invariant holds initially. *)
LEMMA InitInv == Init => IInv
  <1> SUFFICES ASSUME Init PROVE IInv
    OBVIOUS
  <1>1. /\ errors = 0 /\ early = FALSE /\ slot = [g \in Gens |-> FreeSlot]
        /\ conn = [c \in Conns |-> FreeConn] /\ spawned = {} /\ queue = <<>>
        /\ decision = [s \in Sessions |-> "open"] /\ asked = 0 /\ gen = 1 /\ pc = "loop" /\ want = "off"
        /\ pending = 0 /\ receive = 0 /\ overlay = FALSE
    BY DEF Init
  <1>2. PICK link \in Links, v6 \in BOOLEAN :
          /\ web = link
          /\ srv = [g \in Gens |-> [st |-> IF g = 1 THEN "up" ELSE "none", web |-> link,
                                   stop |-> FALSE, waited |-> FALSE]]
          /\ lsn = [g \in Gens |-> [f \in Families |-> IF g = 1 /\ (f = "v4" \/ v6) THEN Open ELSE Closed]]
    BY DEF Init
  <1>3. /\ \A g \in Gens : srv[g].st = IF g = 1 THEN "up" ELSE "none"
        /\ \A g \in Gens : srv[g].web = link
        /\ \A g \in Gens, f \in Families : lsn[g][f] = IF g = 1 /\ (f = "v4" \/ v6) THEN Open ELSE Closed
    BY <1>2
  <1>4. TypeOK
    <2>1. srv \in [Gens -> Servers]
      BY <1>2 DEF Servers
    <2>2. lsn \in [Gens -> [Families -> Listeners]]
      BY <1>2, Fixed
    <2>3. slot \in [Gens -> Slots] /\ conn \in [Conns -> ConnRecords]
      BY <1>1, Fixed
    <2>4. decision \in [Sessions -> Decisions]
      BY <1>1 DEF Decisions
    <2>5. queue \in Seq(Events) /\ Len(queue) =< EventCap
      BY <1>1, Bounds
    <2>6. errors \in 0..MaxErrors /\ asked \in 0..MaxSessions /\ gen \in Gens
          /\ pending \in 0..MaxSessions /\ receive \in 0..MaxSessions
      BY <1>1, Bounds DEF Gens
    <2>7. /\ early \in BOOLEAN /\ spawned \subseteq Spawned /\ pc \in {"loop", "stopping", "binding", "quit"}
          /\ want \in Links /\ web \in Links /\ overlay \in BOOLEAN
      BY <1>1, <1>2 DEF Links
    <2> QED
      BY <2>1, <2>2, <2>3, <2>4, <2>5, <2>6, <2>7, TypedIs DEF Typed
  <1>5. \A c \in Conns : conn[c].st = "free" /\ conn[c].g = 0 /\ conn[c].s = 0
    BY <1>1, Fixed
  <1>6. \A g \in Gens : slot[g].st = "free" /\ slot[g].of = 0 /\ slot[g].todo = 0 /\ slot[g].busy = 0
    BY <1>1, Fixed
  <1>7. ServerInv
    <2>1. ASSUME NEW g \in Gens, NEW f \in Families, lsn[g][f].st # "closed"
          PROVE  srv[g].st = "up" /\ lsn[g][f].fails = lsn[g][f].streak /\ lsn[g][f].fails < FailureLimit
      <3>1. g = 1 /\ lsn[g][f] = Open
        BY <1>3, <2>1, Fixed
      <3> QED
        BY <1>3, <3>1, Fixed, Bounds
    <2>5. Listening
      BY <2>1 DEF Listening
    <2>2. Serving
      BY <1>5 DEF Serving
    <2>3. Replaced
      BY <1>1, <1>3 DEF Replaced, Gens
    <2>4. GivesUpInARow /\ LinkMatchesServer
      BY <1>1, <1>2, <1>3 DEF GivesUpInARow, LinkMatchesServer
    <2> QED
      BY <2>2, <2>3, <2>4, <2>5 DEF ServerInv
  <1>8. Fresh
    BY <1>1, <1>5, <1>6, Bounds DEF Fresh
  <1>9. SlotHeld
    BY <1>1, <1>5 DEF SlotHeld, Holds
  <1>10. FilesCounted
    BY <1>6, Bounds DEF FilesCounted, FilesAt, Counted
  <1>11. Prompts
    BY <1>1, <1>5 DEF Prompts
  <1> QED
    BY <1>4, <1>7, <1>8, <1>9, <1>10, <1>11 DEF IInv

-----------------------------------------------------------------------------
(* The servers: listeners, connections and restarts *)

(* A server stops accepting, and nothing else changes. *)
LEMMA ServersClose ==
  ASSUME TypeOK, ServerInv, UNCHANGED <<conn, gen, pc, web>>, ~early', Listening',
         \A g \in Gens : /\ srv'[g].stop = srv[g].stop /\ srv'[g].web = srv[g].web
                         /\ srv'[g].st = srv[g].st \/ (srv[g].st = "up" /\ srv'[g].st = "closing")
  PROVE  ServerInv'
  <1>0. gen \in Gens /\ \A c \in Conns : conn[c].g \in 0..MaxGen
    BY TypedIs DEF Typed, ConnRecords
  <1>1. Serving'
    <2>1. \A c \in Conns : conn[c].g # 0 => conn[c].g \in Gens
      BY <1>0, Bounds DEF Gens
    <2> QED
      BY <2>1 DEF ServerInv, Serving
  <1>2. Replaced'
    BY <1>0 DEF ServerInv, Replaced
  <1>3. LinkMatchesServer'
    BY DEF ServerInv, LinkMatchesServer
  <1> QED
    BY <1>1, <1>2, <1>3 DEF ServerInv, GivesUpInARow

(* A step of a listener keeps the types. *)
LEMMA TypesListener ==
  ASSUME TypeOK, lsn' \in [Gens -> [Families -> Listeners]], errors' \in 0..MaxErrors,
         UNCHANGED <<srv, early, slot, conn, spawned, decision, asked, queue, app>>
  PROVE  TypeOK'
  BY TypedIs DEF Typed, app

(* accept() gives a connection without a request. *)
LEMMA AcceptOkServer ==
  ASSUME TypeOK, ServerInv, NEW g \in Gens, NEW f \in Families, NEW c \in Conns, AcceptOk(g, f, c)
  PROVE  /\ TypeOK' /\ ServerInv'
         /\ UNCHANGED <<slot, spawned, decision, asked, queue, app>>
         /\ conn[c].st = "free" /\ conn'[c].st = "idle" /\ conn'[c].s = 0 /\ \A x \in Conns : x # c => conn'[x] = conn[x]
  <1>1. /\ srv[g].st = "up" /\ lsn[g][f].st = "open" /\ conn[c].st = "free"
        /\ conn' = [conn EXCEPT ![c] = [g |-> g, st |-> "idle", s |-> 0]]
        /\ lsn' = [lsn EXCEPT ![g][f] = [AfterAccept(lsn[g][f]) EXCEPT !.streak = 0]]
        /\ UNCHANGED <<srv, errors, early, slot, spawned, decision, asked, queue, app>>
    BY DEF AcceptOk, Accepting
  <1>2. /\ lsn \in [Gens -> [Families -> Listeners]] /\ conn \in [Conns -> ConnRecords] /\ srv \in [Gens -> Servers]
        /\ lsn[g][f] \in Listeners /\ g \in 0..MaxGen
    BY Bounds, TypedIs DEF Typed, Gens
  <1> DEFINE l == [AfterAccept(lsn[g][f]) EXCEPT !.streak = 0]
  <1>3. l \in Listeners /\ l.fails = 0 /\ l.streak = 0
    <2>1. 0 \in 0..FailureLimit
      BY Bounds
    <2>2. AfterAccept(lsn[g][f]) \in Listeners /\ AfterAccept(lsn[g][f]).fails = 0
      BY <1>2, <2>1 DEF AfterAccept, Listeners
    <2> QED
      BY <2>1, <2>2 DEF Listeners
  <1> HIDE DEF l
  <1>4. lsn' = [lsn EXCEPT ![g][f] = l]
    BY <1>1 DEF l
  <1>5. /\ lsn' \in [Gens -> [Families -> Listeners]] /\ lsn'[g][f] = l
        /\ \A h \in Gens, k \in Families : h # g \/ k # f => lsn'[h][k] = lsn[h][k]
    BY <1>2, <1>3, <1>4
  <1>6. /\ conn' \in [Conns -> ConnRecords] /\ conn'[c].g = g /\ conn'[c].st = "idle" /\ conn'[c].s = 0
        /\ \A x \in Conns : x # c => conn'[x] = conn[x]
    BY <1>1, <1>2, Bounds DEF ConnRecords, Requests
  <1>7. TypeOK'
    BY <1>1, <1>5, <1>6, TypedIs DEF Typed, app
  <1>8. Listening'
    <2>1. 0 < FailureLimit
      BY Bounds
    <2> QED
      <3> SUFFICES ASSUME NEW h \in Gens, NEW k \in Families, lsn'[h][k].st # "closed"
                   PROVE  /\ srv'[h].st = "up" /\ lsn'[h][k].fails = lsn'[h][k].streak
                          /\ lsn'[h][k].fails < FailureLimit
        BY DEF Listening
      <3>1. CASE h = g /\ k = f
        BY <1>1, <1>3, <1>5, <2>1, <3>1
      <3>2. CASE h # g \/ k # f
        BY <1>1, <1>5, <3>2 DEF ServerInv, Listening
      <3> QED
        BY <3>1, <3>2
  <1>9. Serving'
    BY <1>1, <1>6 DEF ServerInv, Serving, Gens
  <1>10. (Replaced /\ GivesUpInARow /\ LinkMatchesServer)'
    BY <1>1 DEF ServerInv, Replaced, GivesUpInARow, LinkMatchesServer, app
  <1> QED
    BY <1>1, <1>6, <1>7, <1>8, <1>9, <1>10 DEF ServerInv

(* accept() fails for lack of files and the loop sleeps. *)
LEMMA SleepServer ==
  ASSUME TypeOK, ServerInv, NEW g \in Gens, NEW f \in Families, AcceptExhausted(g, f) \/ Slept(g, f)
  PROVE  TypeOK' /\ ServerInv' /\ UNCHANGED <<slot, conn, spawned, decision, asked, queue, app>>
  <1>1. PICK st \in {"open", "sleeping"} :
          /\ srv[g].st = "up" /\ lsn[g][f].st # "closed"
          /\ lsn' = [lsn EXCEPT ![g][f].st = st] /\ errors' \in {errors, errors + 1} /\ errors' \in 0..MaxErrors
          /\ UNCHANGED <<srv, early, slot, conn, spawned, decision, asked, queue, app>>
    BY Bounds, TypedIs DEF AcceptExhausted, Slept, Fault, Accepting, Typed
  <1> DEFINE l == [lsn[g][f] EXCEPT !.st = st]
  <1>2. lsn \in [Gens -> [Families -> Listeners]] /\ lsn[g][f] \in Listeners
    BY TypedIs DEF Typed
  <1>3. l \in Listeners /\ l.fails = lsn[g][f].fails /\ l.streak = lsn[g][f].streak
    BY <1>2 DEF Listeners
  <1>4. lsn' = [lsn EXCEPT ![g][f] = l]
    BY <1>1, <1>2
  <1> HIDE DEF l
  <1>5. /\ lsn' \in [Gens -> [Families -> Listeners]] /\ lsn'[g][f] = l
        /\ \A h \in Gens, k \in Families : h # g \/ k # f => lsn'[h][k] = lsn[h][k]
    BY <1>2, <1>3, <1>4
  <1>6. TypeOK'
    BY <1>1, <1>5, TypesListener
  <1>7. Listening'
    BY <1>1, <1>3, <1>5 DEF ServerInv, Listening
  <1>8. ServerInv'
    BY <1>1, <1>7, ServersClose DEF ServerInv, GivesUpInARow, app
  <1> QED
    BY <1>1, <1>6, <1>8

(* An accept loop that gives up closes its listener; IPv4 ends the server. *)
LEMMA GiveUpIs ==
  ASSUME TypeOK, ServerInv, NEW g \in Gens, NEW f \in Families, Accepting(g, f), GiveUp(g, f)
  PROVE  /\ lsn' \in [Gens -> [Families -> Listeners]] /\ srv' \in [Gens -> Servers]
         /\ Listening'
         /\ \A h \in Gens : /\ srv'[h].stop = srv[h].stop /\ srv'[h].web = srv[h].web
                            /\ srv'[h].st = srv[h].st \/ (srv[h].st = "up" /\ srv'[h].st = "closing")
         /\ queue' = queue \/ (Len(queue) < EventCap /\ queue' = Append(queue, [k |-> "failed", s |-> 0]))
  <1>1. /\ srv[g].st = "up" /\ lsn[g][f].st = "open"
        /\ lsn' = [lsn EXCEPT ![g] = [h \in Families |-> IF f \in {h, "v4"} THEN Closed ELSE lsn[g][h]]]
        /\ srv' = IF f = "v4" THEN [srv EXCEPT ![g].st = "closing"] ELSE srv
        /\ queue' = queue \/ (Len(queue) < EventCap /\ queue' = Append(queue, [k |-> "failed", s |-> 0]))
    BY DEF Accepting, GiveUp
  <1>2. lsn \in [Gens -> [Families -> Listeners]] /\ srv \in [Gens -> Servers]
    BY TypedIs DEF Typed
  <1> DEFINE ls == [h \in Families |-> IF f \in {h, "v4"} THEN Closed ELSE lsn[g][h]]
  <1>3. /\ ls \in [Families -> Listeners] /\ \A h \in Families : ls[h] = IF f \in {h, "v4"} THEN Closed ELSE lsn[g][h]
    BY <1>2, Fixed
  <1>4. lsn' = [lsn EXCEPT ![g] = ls]
    BY <1>1
  <1> HIDE DEF ls
  <1>5. lsn' \in [Gens -> [Families -> Listeners]] /\ lsn'[g] = ls /\ \A h \in Gens : h # g => lsn'[h] = lsn[h]
    BY <1>2, <1>3, <1>4
  <1>6. /\ srv' \in [Gens -> Servers]
        /\ \A h \in Gens : srv'[h].stop = srv[h].stop /\ srv'[h].web = srv[h].web
        /\ \A h \in Gens : h # g \/ f # "v4" => srv'[h].st = srv[h].st
        /\ f = "v4" => srv'[g].st = "closing"
    <2>1. CASE f = "v4"
      <3>1. srv' = [srv EXCEPT ![g].st = "closing"]
        BY <1>1, <2>1
      <3> QED
        BY <1>2, <2>1, <3>1 DEF Servers
    <2>2. CASE f # "v4"
      BY <1>1, <1>2, <2>2
    <2> QED
      BY <2>1, <2>2
  <1>7. ASSUME NEW h \in Gens, NEW k \in Families, lsn'[h][k].st # "closed"
        PROVE  srv'[h].st = "up" /\ lsn'[h][k].fails = lsn'[h][k].streak /\ lsn'[h][k].fails < FailureLimit
    <2>1. CASE h # g
      BY <1>5, <1>6, <1>7, <2>1 DEF ServerInv, Listening
    <2>2. CASE h = g
      <3>1. f # "v4" /\ lsn'[h][k] = lsn[h][k]
        BY <1>3, <1>5, <1>7, <2>2, Fixed
      <3> QED
        BY <1>6, <1>7, <3>1 DEF ServerInv, Listening
    <2> QED
      BY <2>1, <2>2
  <1>8. Listening'
    BY <1>7 DEF Listening
  <1> QED
    BY <1>1, <1>5, <1>6, <1>8

(* The event channel with at most one event more. *)
LEMMA EventTyped ==
  ASSUME TypeOK, NEW e \in Events,
         queue' = queue \/ (Len(queue) < EventCap /\ queue' = Append(queue, e))
  PROVE  queue' \in Seq(Events) /\ Len(queue') =< EventCap
  <1>1. queue \in Seq(Events) /\ Len(queue) =< EventCap /\ EventCap \in Nat
    BY Bounds, TypedIs DEF Typed
  <1> QED
    BY <1>1

(* ListenerFailed is an event. *)
LEMMA FailedEvent == [k |-> "failed", s |-> 0] \in Events
  BY Bounds DEF Events

(* The limit of an accept loop is reached only by errors in a row. *)
LEMMA ErrorServer ==
  ASSUME TypeOK, ServerInv, NEW g \in Gens, NEW f \in Families, AcceptTransient(g, f) \/ AcceptBroken(g, f)
  PROVE  /\ TypeOK' /\ ServerInv'
         /\ UNCHANGED <<slot, conn, spawned, decision, asked, app>>
         /\ queue' = queue \/ (Len(queue) < EventCap /\ queue' = Append(queue, [k |-> "failed", s |-> 0]))
  <1>1. /\ Accepting(g, f) /\ UNCHANGED <<slot, conn, spawned, decision, asked, app>>
        /\ errors' \in 0..MaxErrors
    BY Bounds, TypedIs DEF AcceptTransient, AcceptBroken, Fault, Typed
  <1> DEFINE l == [lsn[g][f] EXCEPT !.fails = @ + 1, !.streak = @ + 1]
  <1>2. /\ lsn \in [Gens -> [Families -> Listeners]] /\ lsn[g][f] \in Listeners
        /\ lsn[g][f].fails = lsn[g][f].streak /\ lsn[g][f].fails < FailureLimit
        /\ lsn[g][f].st = "open" /\ srv[g].st = "up"
    BY <1>1, TypedIs DEF Typed, ServerInv, Listening, Accepting
  <1>3. l \in Listeners /\ l.fails = l.streak /\ l.st = "open"
    <2>1. lsn[g][f].fails + 1 \in 0..FailureLimit /\ lsn[g][f].streak + 1 \in 0..FailureLimit
      BY <1>2, Bounds DEF Listeners
    <2> QED
      BY <1>2, <2>1 DEF Listeners
  <1>4. CASE l.fails < FailureLimit /\ lsn' = [lsn EXCEPT ![g][f] = l] /\ UNCHANGED <<srv, early, queue>>
    <2> HIDE DEF l
    <2>1. /\ lsn' \in [Gens -> [Families -> Listeners]] /\ lsn'[g][f] = l
          /\ \A h \in Gens, k \in Families : h # g \/ k # f => lsn'[h][k] = lsn[h][k]
      BY <1>2, <1>3, <1>4
    <2>2. TypeOK'
      BY <1>1, <1>4, <2>1, TypesListener
    <2>3. Listening'
      BY <1>2, <1>3, <1>4, <2>1 DEF ServerInv, Listening
    <2> QED
      BY <1>1, <1>4, <2>2, <2>3, ServersClose DEF ServerInv, GivesUpInARow, app
  <1>5. CASE GiveUp(g, f) /\ ~early'
    <2>1. /\ lsn' \in [Gens -> [Families -> Listeners]] /\ srv' \in [Gens -> Servers] /\ Listening'
          /\ \A h \in Gens : /\ srv'[h].stop = srv[h].stop /\ srv'[h].web = srv[h].web
                             /\ srv'[h].st = srv[h].st \/ (srv[h].st = "up" /\ srv'[h].st = "closing")
          /\ queue' = queue \/ (Len(queue) < EventCap /\ queue' = Append(queue, [k |-> "failed", s |-> 0]))
      BY <1>1, <1>5, GiveUpIs
    <2>2. queue' \in Seq(Events) /\ Len(queue') =< EventCap
      BY <2>1, EventTyped, FailedEvent
    <2>3. early' \in BOOLEAN
      BY <1>5, TypedIs DEF AcceptTransient, AcceptBroken, Typed
    <2>4. TypeOK'
      BY <1>1, <2>1, <2>2, <2>3, TypedIs DEF Typed, app
    <2>5. ServerInv'
      BY <1>1, <1>5, <2>1, ServersClose DEF app
    <2> QED
      BY <1>1, <2>1, <2>4, <2>5
  <1>6. CASE AcceptTransient(g, f)
    <2>1. CASE l.fails < FailureLimit
      BY <1>4, <1>6, <2>1 DEF AcceptTransient
    <2>2. CASE ~(l.fails < FailureLimit)
      <3>1. ~(l.streak < FailureLimit) /\ ~early
        BY <1>3, <2>2 DEF ServerInv, GivesUpInARow
      <3>2. GiveUp(g, f) /\ ~early'
        BY <1>6, <2>2, <3>1 DEF AcceptTransient
      <3> QED
        BY <1>5, <3>2
    <2> QED
      BY <2>1, <2>2
  <1>7. CASE AcceptBroken(g, f)
    BY <1>5, <1>7 DEF AcceptBroken, ServerInv, GivesUpInARow
  <1> QED
    BY <1>6, <1>7

(* A server that notices the stop closes its listeners; one that has nothing *)
(* left to serve has ended.                                                  *)
LEMMA NoticeServer ==
  ASSUME TypeOK, ServerInv, NEW g \in Gens, NoticeStop(g)
  PROVE  TypeOK' /\ ServerInv' /\ UNCHANGED <<slot, conn, spawned, decision, asked, queue, app>>
  <1>1. /\ srv[g].st = "up" /\ srv' = [srv EXCEPT ![g].st = "closing"]
        /\ lsn' = [lsn EXCEPT ![g] = [f \in Families |-> Closed]]
        /\ UNCHANGED <<errors, early, slot, conn, spawned, decision, asked, queue, app>>
    BY DEF NoticeStop
  <1>2. lsn \in [Gens -> [Families -> Listeners]] /\ srv \in [Gens -> Servers]
    BY TypedIs DEF Typed
  <1>3. /\ lsn' \in [Gens -> [Families -> Listeners]]
        /\ \A f \in Families : lsn'[g][f].st = "closed"
        /\ \A h \in Gens : h # g => lsn'[h] = lsn[h]
    BY <1>1, <1>2, Fixed
  <1>4. /\ srv' \in [Gens -> Servers] /\ srv'[g].st = "closing"
        /\ srv'[g].stop = srv[g].stop /\ srv'[g].web = srv[g].web
        /\ \A h \in Gens : h # g => srv'[h] = srv[h]
    BY <1>1, <1>2 DEF Servers
  <1>5. TypeOK'
    BY <1>1, <1>3, <1>4, TypedIs DEF Typed, app
  <1>6. Listening'
    BY <1>3, <1>4 DEF ServerInv, Listening
  <1>7. ServerInv'
    BY <1>1, <1>4, <1>6, ServersClose DEF ServerInv, GivesUpInARow, app
  <1> QED
    BY <1>1, <1>5, <1>7

(* wait_stopped returns. *)
LEMMA DoneServer ==
  ASSUME TypeOK, ServerInv, NEW g \in Gens, StopDone(g)
  PROVE  TypeOK' /\ ServerInv' /\ UNCHANGED <<slot, conn, spawned, decision, asked, queue, app>>
  <1>1. /\ srv[g].st = "closing" /\ srv' = [srv EXCEPT ![g] = StoppedServer]
        /\ \A c \in Conns : conn[c].g # g
        /\ UNCHANGED <<lsn, errors, early, slot, conn, spawned, decision, asked, queue, app>>
    BY DEF StopDone, Idle
  <1>2. srv \in [Gens -> Servers] /\ gen \in Gens
    BY TypedIs DEF Typed
  <1>3. /\ srv' \in [Gens -> Servers] /\ srv'[g].st = "stopped" /\ srv'[g].stop
        /\ \A h \in Gens : h # g => srv'[h] = srv[h]
    BY <1>1, <1>2, Fixed
  <1>4. TypeOK'
    BY <1>1, <1>3, TypedIs DEF Typed, app
  <1>5. Listening'
    BY <1>1, <1>3 DEF ServerInv, Listening
  <1>6. Serving'
    <2>1. \A c \in Conns : conn[c].g # 0 => conn[c].g \in Gens
      BY Bounds, TypedIs DEF Typed, ConnRecords, Gens
    <2> QED
      BY <1>1, <1>3, <2>1 DEF ServerInv, Serving
  <1>7. Replaced'
    BY <1>1, <1>2, <1>3 DEF ServerInv, Replaced, app
  <1>8. (GivesUpInARow /\ LinkMatchesServer)'
    BY <1>1, <1>3 DEF ServerInv, GivesUpInARow, LinkMatchesServer, app
  <1> QED
    BY <1>1, <1>4, <1>5, <1>6, <1>7, <1>8 DEF ServerInv

(* A request goes on, or the connection ends: nothing of the servers changes. *)
LEMMA ConnServer ==
  ASSUME ServerInv, NEW c \in Conns, UNCHANGED <<srv, lsn, early, gen, pc, web>>,
         \A x \in Conns : x # c => conn'[x] = conn[x],
         \/ conn'[c].g = 0 /\ conn'[c].st = "free"
         \/ /\ conn'[c].g = conn[c].g /\ conn[c].st # "free" /\ conn'[c].st # "free"
            /\ conn'[c].st # "idle" => conn'[c].s # 0
  PROVE  ServerInv'
  <1>1. Serving'
    BY DEF ServerInv, Serving
  <1> QED
    BY <1>1 DEF ServerInv, Listening, Replaced, GivesUpInARow, LinkMatchesServer

(* A step that leaves servers and connections alone keeps their part. *)
LEMMA SameServer ==
  ASSUME ServerInv, UNCHANGED <<srv, lsn, early, conn, gen, pc, web>>
  PROVE  ServerInv'
  BY DEF ServerInv, Listening, Serving, Replaced, GivesUpInARow, LinkMatchesServer

(* The server in use is told to stop before the loop waits for it. *)
LEMMA StopServer ==
  ASSUME TypeOK, ServerInv, pc = "loop", pc' \in {"stopping", "quit"}, srv' = [srv EXCEPT ![gen].stop = TRUE],
         UNCHANGED <<lsn, early, conn, gen>>
  PROVE  ServerInv' /\ srv' \in [Gens -> Servers]
  <1>1. srv \in [Gens -> Servers] /\ gen \in Gens
    BY TypedIs DEF Typed
  <1>2. /\ srv' \in [Gens -> Servers] /\ srv'[gen].stop /\ srv'[gen].st = srv[gen].st
        /\ \A h \in Gens : h # gen => srv'[h] = srv[h]
    BY <1>1 DEF Servers
  <1>3. Listening'
    BY <1>2 DEF ServerInv, Listening
  <1>4. Serving'
    <2>1. \A c \in Conns : conn[c].g # 0 => conn[c].g \in Gens
      BY Bounds, TypedIs DEF Typed, ConnRecords, Gens
    <2> QED
      BY <1>2, <2>1 DEF ServerInv, Serving
  <1>5. Replaced'
    BY <1>1, <1>2 DEF ServerInv, Replaced
  <1> QED
    BY <1>2, <1>3, <1>4, <1>5 DEF ServerInv, GivesUpInARow, LinkMatchesServer

(* The next server is bound: it is the one the loop knows from then on. *)
LEMMA BindServer ==
  ASSUME TypeOK, ServerInv, Bind
  PROVE  TypeOK' /\ ServerInv' /\ UNCHANGED <<slot, conn, spawned, decision, asked, queue, pending>>
  <1>1. /\ pc = "binding" /\ gen < MaxGen /\ gen' = gen + 1 /\ pc' = "loop" /\ web' = want /\ want' = "off"
        /\ UNCHANGED <<errors, early, slot, conn, spawned, decision, asked, queue, pending, receive, overlay>>
    BY DEF Bind
  <1>2. PICK v6 \in BOOLEAN : Bound(gen + 1, want, v6)
    BY DEF Bind
  <1> DEFINE n == gen + 1
             s == [st |-> "up", web |-> want, stop |-> FALSE, waited |-> FALSE]
             ls == [f \in Families |-> IF f = "v4" \/ v6 THEN Open ELSE Closed]
  <1>3. /\ srv \in [Gens -> Servers] /\ lsn \in [Gens -> [Families -> Listeners]]
        /\ gen \in Gens /\ n \in Gens /\ n > gen /\ want \in Links
    BY <1>1, Bounds, TypedIs DEF Typed, Gens
  <1>4. s \in Servers /\ s.st = "up" /\ s.web = want
    BY <1>3 DEF Servers
  <1>5. ls \in [Families -> Listeners] /\ \A f \in Families : ls[f] = Open \/ ls[f] = Closed
    BY Fixed
  <1>6. srv' = [srv EXCEPT ![n] = s] /\ lsn' = [lsn EXCEPT ![n] = ls]
    BY <1>2 DEF Bound
  <1> HIDE DEF s, ls
  <1>7. /\ srv' \in [Gens -> Servers] /\ srv'[n] = s /\ \A h \in Gens : h # n => srv'[h] = srv[h]
        /\ lsn' \in [Gens -> [Families -> Listeners]] /\ lsn'[n] = ls /\ \A h \in Gens : h # n => lsn'[h] = lsn[h]
    BY <1>3, <1>4, <1>5, <1>6
  <1>8. TypeOK'
    BY <1>1, <1>3, <1>7, TypedIs DEF Typed, Links
  <1>9. Listening'
    <2> SUFFICES ASSUME NEW h \in Gens, NEW k \in Families, lsn'[h][k].st # "closed"
                 PROVE  /\ srv'[h].st = "up" /\ lsn'[h][k].fails = lsn'[h][k].streak
                        /\ lsn'[h][k].fails < FailureLimit
      BY DEF Listening
    <2>1. CASE h = n
      <3>1. lsn'[h][k] = Open
        BY <1>5, <1>7, <2>1, Fixed
      <3> QED
        BY <1>4, <1>7, <2>1, <3>1, Fixed, Bounds
    <2>2. CASE h # n
      BY <1>7, <2>2 DEF ServerInv, Listening
    <2> QED
      BY <2>1, <2>2
  <1>10. Serving'
    <2>1. \A c \in Conns : conn[c].g # 0 => conn[c].g \in Gens
      BY Bounds, TypedIs DEF Typed, ConnRecords, Gens
    <2>2. srv[n].st = "none"
      BY <1>3 DEF ServerInv, Replaced
    <2> QED
      BY <1>1, <1>7, <2>1, <2>2 DEF ServerInv, Serving
  <1>11. Replaced'
    <2>1. srv[gen].stop
      BY <1>1 DEF ServerInv, Replaced
    <2>2. \A h \in Gens : h > n => h > gen /\ h # n
      BY <1>3 DEF Gens
    <2>3. \A h \in Gens : h < n => h # n /\ (h < gen \/ h = gen)
      BY <1>3 DEF Gens
    <2> QED
      BY <1>1, <1>4, <1>7, <2>1, <2>2, <2>3 DEF ServerInv, Replaced
  <1>12. LinkMatchesServer'
    <2>1. \A h \in Gens : h # n => srv'[h].stop \/ srv'[h].st = "none"
      <3>1. srv[gen].stop
        BY <1>1 DEF ServerInv, Replaced
      <3>2. \A h \in Gens : h < gen \/ h = gen \/ h > gen
        BY <1>3 DEF Gens
      <3> QED
        BY <1>7, <3>1, <3>2 DEF ServerInv, Replaced
    <2> QED
      BY <1>1, <1>4, <1>7, <2>1 DEF LinkMatchesServer
  <1> QED
    BY <1>1, <1>8, <1>9, <1>10, <1>11, <1>12 DEF ServerInv, GivesUpInARow

(* The loop waits for the server it stopped, and a start fails. *)
LEMMA WaitServer ==
  ASSUME TypeOK, ServerInv, StopWaited \/ StopTimesOut \/ BindFails
  PROVE  TypeOK' /\ ServerInv' /\ UNCHANGED <<slot, conn, spawned, decision, asked, queue, pending>>
  <1>0. srv \in [Gens -> Servers] /\ gen \in Gens
    BY TypedIs DEF Typed
  <1>1. CASE StopWaited
    <2>1. /\ pc = "stopping" /\ pc' = "binding"
          /\ UNCHANGED <<srv, lsn, errors, early, slot, conn, spawned, decision, asked,
                         queue, gen, want, web, pending, receive, overlay>>
      BY <1>1 DEF StopWaited, core
    <2>2. TypeOK'
      BY <2>1, TypedIs DEF Typed
    <2>3. ServerInv'
      BY <2>1 DEF ServerInv, Listening, Serving, Replaced, GivesUpInARow, LinkMatchesServer
    <2> QED
      BY <2>1, <2>2, <2>3
  <1>2. CASE StopTimesOut
    <2>1. /\ pc = "stopping" /\ pc' = "binding" /\ srv' = [srv EXCEPT ![gen].waited = TRUE]
          /\ UNCHANGED <<lsn, errors, early, slot, conn, spawned, decision, asked,
                         queue, gen, want, web, pending, receive, overlay>>
      BY <1>2 DEF StopTimesOut
    <2>2. /\ srv' \in [Gens -> Servers]
          /\ \A g \in Gens : srv'[g].st = srv[g].st /\ srv'[g].stop = srv[g].stop /\ srv'[g].web = srv[g].web
      BY <1>0, <2>1 DEF Servers
    <2>3. TypeOK'
      BY <2>1, <2>2, TypedIs DEF Typed
    <2>4. Listening'
      BY <2>1, <2>2 DEF ServerInv, Listening
    <2>5. Serving'
      <3>1. \A c \in Conns : conn[c].g # 0 => conn[c].g \in Gens
        BY Bounds, TypedIs DEF Typed, ConnRecords, Gens
      <3> QED
        BY <2>1, <2>2, <3>1 DEF ServerInv, Serving
    <2>6. Replaced'
      BY <1>0, <2>1, <2>2 DEF ServerInv, Replaced
    <2> QED
      BY <2>1, <2>3, <2>4, <2>5, <2>6 DEF ServerInv, GivesUpInARow, LinkMatchesServer
  <1>3. CASE BindFails
    <2>1. /\ pc = "binding" /\ pc' = AfterBindFailure(want) /\ want' = "off"
          /\ UNCHANGED <<srv, lsn, errors, early, slot, conn, spawned, decision, asked,
                         queue, gen, web, pending, receive, overlay>>
      BY <1>3 DEF BindFails, core
    <2>2. pc' \in {"loop", "stopping"}
      BY <2>1 DEF AfterBindFailure
    <2>3. TypeOK'
      BY <2>1, <2>2, TypedIs DEF Typed, Links
    <2>4. Replaced' /\ LinkMatchesServer'
      <3>1. srv[gen].stop /\ \A g \in Gens : g < gen => srv[g].stop
        BY <2>1 DEF ServerInv, Replaced
      <3>2. \A g \in Gens : g > gen => srv[g].st = "none"
        BY DEF ServerInv, Replaced
      <3>3. \A g \in Gens : srv[g].st = "up" => srv[g].stop
        <4>1. \A g \in Gens : g < gen \/ g = gen \/ g > gen
          BY <1>0 DEF Gens
        <4> QED
          BY <3>1, <3>2, <4>1
      <3>4. LinkMatchesServer'
        BY <2>1, <3>3 DEF LinkMatchesServer
      <3> QED
        BY <2>1, <3>1, <3>4 DEF ServerInv, Replaced
    <2>5. (Listening /\ Serving /\ GivesUpInARow)'
      BY <2>1 DEF ServerInv, Listening, Serving, GivesUpInARow
    <2> QED
      BY <2>1, <2>3, <2>4, <2>5 DEF ServerInv
  <1> QED
    BY <1>1, <1>2, <1>3

(* A decision reaches only a request that waits for it. *)
LEMMA SentIs ==
  ASSUME TypeOK, NEW s \in 0..MaxSessions, NEW d \in Decisions
  PROVE  /\ Sent(s, d) \in [Sessions -> Decisions]
         /\ \A x \in Sessions : x # s => Sent(s, d)[x] = decision[x]
         /\ ~(s # 0 /\ Waiting(s)) => Sent(s, d) = decision
  <1>1. decision \in [Sessions -> Decisions]
    BY TypedIs DEF Typed
  <1>2. s # 0 => s \in Sessions
    BY Bounds DEF Sessions
  <1> QED
    BY <1>1, <1>2 DEF Sent

(* The part of the state that a key, the picker or an event may change. *)
LEMMA LoopTypes ==
  ASSUME TypeOK, NEW d, decision' = d, d \in [Sessions -> Decisions],
         UNCHANGED <<lsn, errors, early, slot, conn, asked, gen>>,
         srv' \in [Gens -> Servers], pc' \in {"loop", "stopping", "binding", "quit"}, want' \in Links, web' \in Links,
         spawned' \subseteq Spawned, queue' \in Seq(Events), Len(queue') =< EventCap,
         pending' \in 0..MaxSessions, receive' \in 0..MaxSessions, overlay' \in BOOLEAN
  PROVE  TypeOK'
  BY TypedIs DEF Typed

(* Toggling a link stops the server, or changes nothing. *)
LEMMA ToggleIs ==
  ASSUME NEW link \in Links, Toggle(link)
  PROVE  \/ UNCHANGED <<srv, pc, want, web, overlay>>
         \/ /\ srv' = [srv EXCEPT ![gen].stop = TRUE] /\ pc' = "stopping" /\ want' \in Links
            /\ web' \in {web, "off"} /\ UNCHANGED overlay
  BY DEF Toggle, Restart, Links

(* A key may restart the server, and then never answers a prompt. *)
LEMMA KeyServer ==
  ASSUME TypeOK, ServerInv, NEW k \in Intents, Key(k)
  PROVE  /\ TypeOK' /\ ServerInv'
         /\ UNCHANGED <<slot, conn, spawned, asked, queue>>
         /\ \/ UNCHANGED <<pending, decision>>
            \/ pending' = 0 /\ \E d \in Decisions : decision' = Sent(pending, d)
  <1>0. /\ pc = "loop" /\ ~overlay
        /\ UNCHANGED <<lsn, errors, early, slot, conn, spawned, asked, queue, gen>>
    BY Zenon DEF Key
  <1>1. /\ srv \in [Gens -> Servers] /\ decision \in [Sessions -> Decisions] /\ spawned \subseteq Spawned
        /\ queue \in Seq(Events) /\ Len(queue) =< EventCap /\ want \in Links /\ web \in Links
        /\ pending \in 0..MaxSessions /\ receive \in 0..MaxSessions /\ overlay \in BOOLEAN
        /\ pc \in {"loop", "stopping", "binding", "quit"}
    BY TypedIs DEF Typed
  <1>2. CASE k \in {"w s", "w r"}
    <2>1. UNCHANGED <<pending, receive, decision>>
      BY <1>2, Zenon DEF Key
    <2>2. \/ UNCHANGED <<srv, pc, want, web>> /\ overlay' \in BOOLEAN
          \/ /\ srv' = [srv EXCEPT ![gen].stop = TRUE] /\ pc' = "stopping" /\ want' \in Links
             /\ web' \in {web, "off"} /\ UNCHANGED overlay
      <3>1. Toggle("share") \/ OpenPicker \/ Toggle("receive")
        BY <1>2, Zenon DEF Key
      <3> QED
        BY <1>1, <3>1, ToggleIs DEF OpenPicker, Links
    <2>3. CASE UNCHANGED <<srv, pc, want, web>> /\ overlay' \in BOOLEAN
      <3>1. TypeOK'
        BY <1>0, <1>1, <2>1, <2>3, LoopTypes
      <3> QED
        BY <1>0, <2>1, <2>3, <3>1, SameServer
    <2>4. CASE /\ srv' = [srv EXCEPT ![gen].stop = TRUE] /\ pc' = "stopping" /\ want' \in Links
               /\ web' \in {web, "off"} /\ UNCHANGED overlay
      <3>1. ServerInv' /\ srv' \in [Gens -> Servers]
        BY <1>0, <2>4, StopServer
      <3>2. web' \in Links
        BY <1>1, <2>4 DEF Links
      <3>3. TypeOK'
        BY <1>0, <1>1, <2>1, <2>4, <3>1, <3>2, LoopTypes
      <3> QED
        BY <1>0, <2>1, <3>1, <3>3
    <2> QED
      BY <2>2, <2>3, <2>4
  <1>3. CASE k \in {"y", "p", "n"}
    <2>1. Answer(k # "n") /\ UNCHANGED <<srv, pc, want, web, overlay>>
      BY <1>3, Zenon DEF Key
    <2>2. PICK d \in Decisions : decision' = Sent(pending, d)
      BY <2>1 DEF Answer, Decisions
    <2>3. pending' = 0 /\ receive' \in {pending, receive}
      BY <2>1 DEF Answer
    <2>4. decision' \in [Sessions -> Decisions]
      BY <1>1, <2>2, SentIs
    <2>5. pending' \in 0..MaxSessions /\ receive' \in 0..MaxSessions
      BY <1>1, <2>3, Bounds
    <2>6. TypeOK'
      BY <1>0, <1>1, <2>1, <2>4, <2>5, LoopTypes
    <2> QED
      BY <1>0, <2>1, <2>2, <2>3, <2>6, SameServer
  <1> QED
    BY <1>2, <1>3, Zenon DEF Intents

(* The picker closes, with or without files to offer. *)
LEMMA PickerServer ==
  ASSUME TypeOK, ServerInv, Picker
  PROVE  TypeOK' /\ ServerInv' /\ UNCHANGED <<slot, conn, spawned, decision, asked, queue, pending>>
  <1>0. /\ pc = "loop" /\ overlay' = FALSE
        /\ UNCHANGED <<lsn, errors, early, slot, conn, spawned, decision, asked, queue,
                       gen, web, pending, receive>>
    BY DEF Picker
  <1>1. /\ srv \in [Gens -> Servers] /\ decision \in [Sessions -> Decisions] /\ spawned \subseteq Spawned
        /\ queue \in Seq(Events) /\ Len(queue) =< EventCap /\ want \in Links /\ web \in Links
        /\ pending \in 0..MaxSessions /\ receive \in 0..MaxSessions
        /\ pc \in {"loop", "stopping", "binding", "quit"}
    BY TypedIs DEF Typed
  <1>2. CASE UNCHANGED <<srv, pc, want>>
    <2>1. TypeOK'
      BY <1>0, <1>1, <1>2, LoopTypes
    <2> QED
      BY <1>0, <1>2, <2>1, SameServer
  <1>3. CASE Restart("share")
    <2>1. srv' = [srv EXCEPT ![gen].stop = TRUE] /\ pc' = "stopping" /\ want' \in Links
      BY <1>3 DEF Restart, Links
    <2>2. ServerInv' /\ srv' \in [Gens -> Servers]
      BY <1>0, <2>1, StopServer
    <2>3. TypeOK'
      BY <1>0, <1>1, <2>1, <2>2, LoopTypes
    <2> QED
      BY <1>0, <2>2, <2>3
  <1> QED
    BY <1>2, <1>3 DEF Picker

(* Ctrl-C declines the prompt, cancels the receive, or quits. *)
LEMMA CtrlCServer ==
  ASSUME TypeOK, ServerInv, CtrlC
  PROVE  /\ TypeOK' /\ ServerInv' /\ UNCHANGED <<slot, conn, asked, queue>>
         /\ pending' = 0 /\ decision' = Sent(pending, "decline")
         /\ \A t \in spawned' : t \in spawned \/ t.k = "cancel"
         /\ spawned \subseteq spawned'
  <1>0. /\ pc = "loop" /\ pending' = 0 /\ receive' = 0 /\ decision' = Sent(pending, "decline")
        /\ spawned' = IF receive = 0 THEN spawned
                      ELSE spawned \cup {[k |-> "cancel", g |-> gen, s |-> receive]}
        /\ UNCHANGED <<lsn, errors, early, slot, conn, asked, queue, gen, want, web, overlay>>
    BY DEF CtrlC
  <1>1. /\ srv \in [Gens -> Servers] /\ spawned \subseteq Spawned
        /\ queue \in Seq(Events) /\ Len(queue) =< EventCap /\ want \in Links /\ web \in Links
        /\ pending \in 0..MaxSessions /\ receive \in 0..MaxSessions /\ overlay \in BOOLEAN
        /\ gen \in Gens /\ 0 \in 0..MaxSessions
    BY Bounds, TypedIs DEF Typed
  <1>2. /\ spawned' \subseteq Spawned /\ spawned \subseteq spawned'
        /\ \A t \in spawned' : t \in spawned \/ t.k = "cancel"
    <2>1. receive # 0 => [k |-> "cancel", g |-> gen, s |-> receive] \in Spawned
      BY <1>1, Bounds DEF Spawned, Sessions
    <2> QED
      BY <1>0, <1>1, <2>1
  <1>3. decision' \in [Sessions -> Decisions]
    BY <1>0, <1>1, SentIs DEF Decisions
  <1>4. srv' \in [Gens -> Servers] /\ pc' \in {"loop", "stopping", "binding", "quit"} /\ ServerInv'
    <2>1. CASE pc' = "quit" /\ srv' = [srv EXCEPT ![gen].stop = TRUE]
      BY <1>0, <2>1, StopServer
    <2>2. CASE UNCHANGED <<pc, srv>>
      BY <1>0, <1>1, <2>2, SameServer
    <2> QED
      BY <2>1, <2>2 DEF CtrlC
  <1>5. TypeOK'
    BY <1>0, <1>1, <1>2, <1>3, <1>4, LoopTypes
  <1> QED
    BY <1>0, <1>2, <1>4, <1>5

(* What the loop does with the first event. *)
LEMMA HandleIs ==
  ASSUME TypeOK, ServerInv, HandleEvent
  PROVE  /\ TypeOK' /\ ServerInv' /\ UNCHANGED <<slot, conn, spawned, asked>>
         /\ queue # <<>> /\ queue' = Tail(queue)
         /\ \/ /\ Head(queue).k = "prepare" /\ UNCHANGED pending
               /\ \E d \in Decisions : decision' = Sent(Head(queue).s, d)
            \/ /\ Head(queue).k = "prepare" /\ decision' = Sent(pending, "dropped")
               /\ pending' = Head(queue).s
            \/ /\ Head(queue).k = "aborted" /\ UNCHANGED decision
               /\ pending' = IF pending = Head(queue).s THEN 0 ELSE pending
            \/ Head(queue).k \in {"end", "failed"} /\ UNCHANGED <<pending, decision>>
  <1> DEFINE e == Head(queue)
  <1>0. /\ queue # <<>> /\ queue' = Tail(queue)
        /\ UNCHANGED <<srv, lsn, errors, early, slot, conn, spawned, asked, gen, pc, want, web, overlay>>
    BY DEF HandleEvent
  <1>1. /\ srv \in [Gens -> Servers] /\ spawned \subseteq Spawned /\ decision \in [Sessions -> Decisions]
        /\ queue \in Seq(Events) /\ Len(queue) =< EventCap /\ want \in Links /\ web \in Links
        /\ pending \in 0..MaxSessions /\ receive \in 0..MaxSessions /\ overlay \in BOOLEAN
        /\ pc \in {"loop", "stopping", "binding", "quit"} /\ 0 \in 0..MaxSessions
    BY Bounds, TypedIs DEF Typed
  <1>2. e \in Events /\ queue' \in Seq(Events) /\ Len(queue') =< EventCap
    BY <1>0, <1>1, Bounds
  <1>3. e.k \in {"prepare", "aborted", "end", "failed"} /\ e.s \in 0..MaxSessions
    BY <1>2 DEF Events
  <1> HIDE DEF e
  <1>4. CASE e.k = "prepare" /\ HandlePrepare(e.s)
    <2>1. /\ receive' \in {e.s, receive}
          /\ \/ UNCHANGED pending /\ \E d \in Decisions : decision' = Sent(e.s, d)
             \/ pending' = e.s /\ decision' = Sent(pending, "dropped")
      BY <1>4 DEF HandlePrepare, Decisions
    <2>2. decision' \in [Sessions -> Decisions]
      BY <1>1, <1>3, <2>1, SentIs DEF Decisions
    <2>3. pending' \in 0..MaxSessions /\ receive' \in 0..MaxSessions
      BY <1>1, <1>3, <2>1
    <2>4. TypeOK'
      BY <1>0, <1>1, <1>2, <2>2, <2>3, LoopTypes
    <2> QED
      BY <1>0, <1>4, <2>1, <2>4, SameServer DEF e
  <1>5. CASE /\ e.k = "aborted" /\ pending' = IF pending = e.s THEN 0 ELSE pending
             /\ UNCHANGED <<receive, decision>>
    <2>1. TypeOK'
      BY <1>0, <1>1, <1>2, <1>5, LoopTypes
    <2> QED
      BY <1>0, <1>5, <2>1, SameServer DEF e
  <1>6. CASE e.k \in {"end", "failed"} /\ UNCHANGED <<pending, decision>> /\ receive' \in {0, receive}
    <2>1. TypeOK'
      BY <1>0, <1>1, <1>2, <1>6, LoopTypes
    <2> QED
      BY <1>0, <1>6, <2>1, SameServer DEF e
  <1> QED
    BY <1>3, <1>4, <1>5, <1>6 DEF HandleEvent, e

-----------------------------------------------------------------------------
(* Frames: what keeps the slots, the files and the prompts *)

(* What the type invariant says of each variable. *)
LEMMA RecordsTyped ==
  ASSUME TypeOK, ServerInv
  PROVE  /\ slot \in [Gens -> Slots] /\ conn \in [Conns -> ConnRecords] /\ spawned \subseteq Spawned
         /\ queue \in Seq(Events) /\ decision \in [Sessions -> Decisions] /\ asked \in 0..MaxSessions
         /\ pending \in 0..MaxSessions
         /\ \A t \in spawned : t.g \in Gens /\ t.s \in Sessions
         /\ \A c \in Conns : conn[c].st # "free" => conn[c].g \in Gens
         /\ \A c \in Conns : conn[c].st \notin {"free", "idle"} => conn[c].s \in Sessions
  <1>1. /\ slot \in [Gens -> Slots] /\ conn \in [Conns -> ConnRecords] /\ spawned \subseteq Spawned
        /\ queue \in Seq(Events) /\ decision \in [Sessions -> Decisions] /\ asked \in 0..MaxSessions
        /\ pending \in 0..MaxSessions
    BY TypedIs DEF Typed
  <1>2. \A t \in spawned : t.g \in Gens /\ t.s \in Sessions
    BY <1>1 DEF Spawned
  <1>3. \A c \in Conns : conn[c].g \in 0..MaxGen /\ conn[c].s \in 0..MaxSessions
    BY <1>1 DEF ConnRecords
  <1>4. /\ \A c \in Conns : conn[c].st # "free" => conn[c].g # 0
        /\ \A c \in Conns : conn[c].st \notin {"free", "idle"} => conn[c].s # 0
    BY DEF ServerInv, Serving
  <1>5. (\A n \in 0..MaxGen : n # 0 => n \in Gens) /\ (\A n \in 0..MaxSessions : n # 0 => n \in Sessions)
    BY Bounds DEF Gens, Sessions
  <1> QED
    BY <1>1, <1>2, <1>3, <1>4, <1>5

(* A slot that stays pending, or loses its holders, stays accounted for. *)
LEMMA HeldKept ==
  ASSUME TypeOK, ServerInv, SlotHeld,
         \A c \in Conns : Holds(c)' => Holds(c) /\ conn'[c].g = conn[c].g /\ conn'[c].s = conn[c].s,
         \A t \in spawned' : t.k = "clear" => t \in spawned,
         \A g \in Gens : slot[g].st = "pending" =>
            \/ slot'[g].st = "pending" /\ slot'[g].of = slot[g].of
            \/ /\ \A c \in Conns : Holds(c)' => conn[c].g # g
               /\ \A t \in spawned' : t.k = "clear" => t.g # g
  PROVE  SlotHeld'
  <1>0. /\ \A c \in Conns : Holds(c) => conn[c].g \in Gens
        /\ \A t \in spawned : t.g \in Gens
    BY RecordsTyped DEF Holds
  <1>1. \A c \in Conns : Holds(c)' => slot'[conn'[c].g].st = "pending" /\ slot'[conn'[c].g].of = conn'[c].s
    BY <1>0 DEF SlotHeld
  <1>2. \A t \in spawned' : t.k = "clear" => slot'[t.g].st = "pending" /\ slot'[t.g].of = t.s
    BY <1>0 DEF SlotHeld
  <1>3. \A c, d \in Conns : Holds(c)' /\ Holds(d)' /\ conn'[c].s = conn'[d].s => c = d
    BY DEF SlotHeld
  <1>4. \A c \in Conns, t \in spawned' : Holds(c)' /\ t.k = "clear" => t.s # conn'[c].s
    BY DEF SlotHeld
  <1> QED
    BY <1>1, <1>2, <1>3, <1>4 DEF SlotHeld

(* Whoever holds a slot holds it alone. *)
LEMMA HeldAlone ==
  ASSUME TypeOK, ServerInv, SlotHeld, NEW c \in Conns, Holds(c)
  PROVE  /\ conn[c].g \in Gens /\ slot[conn[c].g].st = "pending" /\ slot[conn[c].g].of = conn[c].s
         /\ \A d \in Conns : Holds(d) /\ d # c => conn[d].g # conn[c].g
         /\ \A t \in spawned : t.k = "clear" => t.g # conn[c].g
  <1>0. conn[c].g \in Gens
    BY RecordsTyped DEF Holds
  <1> QED
    BY <1>0 DEF SlotHeld

(* A request that held the slot leaves its guard behind. *)
LEMMA HeldPassedOn ==
  ASSUME TypeOK, ServerInv, SlotHeld, NEW c \in Conns, Holds(c), UNCHANGED slot,
         \A x \in Conns : x # c => conn'[x] = conn[x], ~Holds(c)',
         \A t \in spawned' : t.k = "clear" => t \in spawned \/ (t.g = conn[c].g /\ t.s = conn[c].s)
  PROVE  SlotHeld'
  <1>1. \A x \in Conns : Holds(x)' => x # c /\ Holds(x)
    BY DEF Holds
  <1>2. slot[conn[c].g].st = "pending" /\ slot[conn[c].g].of = conn[c].s
    BY HeldAlone
  <1>3. \A x \in Conns : Holds(x)' => conn'[x].s # conn[c].s
    BY <1>1 DEF SlotHeld
  <1> QED
    BY <1>1, <1>2, <1>3 DEF SlotHeld

(* What the count of a slot is taken from. *)
LEMMA FilesMove ==
  ASSUME NEW g \in Gens, NEW sl, slot'[g] = sl, NEW U, Uploading(g, sl.of)' = U,
         NEW F \in BOOLEAN, Fails(g, sl.of)' => F, sl \in Slots, Counted(sl, U, F)
  PROVE  FilesAt(g)'
  <1>1. Counted(sl, U, Fails(g, sl.of)')
    <2>1. CASE F
      <3>1. (IF Fails(g, sl.of)' THEN 1 ELSE 0) \in Int /\ (IF Fails(g, sl.of)' THEN 1 ELSE 0) <= 1
        OBVIOUS
      <3>2. sl.st = "active" => Cardinality(U) + 1 <= sl.busy /\ IsFiniteSet(U) /\ Cardinality(U) \in Nat /\ sl.busy \in Nat
        BY <2>1, FS_CardinalityType, Bounds DEF Counted, Slots
      <3> QED
        BY <2>1, <3>1, <3>2 DEF Counted
    <2>2. CASE ~F
      BY <2>2 DEF Counted
    <2> QED
      BY <2>1, <2>2
  <1> QED
    BY <1>1 DEF FilesAt

(* A slot that does not change, with no failure more, still counts its files. *)
LEMMA FilesSame ==
  ASSUME NEW g \in Gens, NEW sl, sl = slot[g], sl \in Slots, FilesAt(g), slot'[g] = sl,
         Uploading(g, sl.of)' = Uploading(g, sl.of),
         Fails(g, sl.of)' => Fails(g, sl.of)
  PROVE  FilesAt(g)'
  <1> DEFINE F == Fails(g, sl.of)
             U == Uploading(g, sl.of)
  <1>1. F \in BOOLEAN
    BY DEF Fails
  <1>2. Counted(sl, U, F)
    BY DEF FilesAt
  <1> HIDE DEF F, U
  <1>3. Uploading(g, sl.of)' = U /\ (Fails(g, sl.of)' => F)
    BY DEF F, U
  <1> QED
    BY <1>1, <1>2, <1>3, FilesMove

(* A slot without a session counts nothing. *)
LEMMA FilesFree ==
  ASSUME NEW g \in Gens, slot'[g] = FreeSlot
  PROVE  FilesAt(g)'
  BY Fixed, Bounds DEF FilesAt, Counted

(* A step that announces no request and shows no prompt. *)
LEMMA PromptsSame ==
  ASSUME Prompts, UNCHANGED queue, pending' = pending \/ pending' = 0,
         \A s : Announced(s) \/ (s # 0 /\ s = pending') =>
            /\ decision[s] = "open" => decision'[s] = "open"
            /\ Waiting(s) \/ Withdrawing(s) => Waiting(s)' \/ Withdrawing(s)',
         \A c \in Conns : conn'[c].st = "asking" =>
            decision'[conn'[c].s] = "open" /\ conn'[c].s # pending' /\ ~Announced(conn'[c].s)
  PROVE  Prompts'
  <1>1. \A i, s : Told(i, s)' <=> Told(i, s)
    BY DEF Told
  <1>2. \A s : Announced(s)' <=> Announced(s)
    BY DEF Announced
  <1>3. pending' # 0 => decision'[pending'] = "open" /\ (Waiting(pending)' \/ Withdrawing(pending)' \/ Told(0, pending)')
    BY <1>1 DEF Prompts
  <1>4. \A i \in DOMAIN queue : queue[i].k = "prepare" => Announced(queue[i].s)
    BY DEF Announced
  <1>5. ASSUME NEW i \in DOMAIN queue', queue'[i].k = "prepare"
        PROVE  /\ queue'[i].s # 0 /\ queue'[i].s # pending' /\ decision'[queue'[i].s] = "open"
               /\ Waiting(queue[i].s)' \/ Withdrawing(queue[i].s)' \/ Told(i, queue[i].s)'
    BY <1>1, <1>4, <1>5 DEF Prompts
  <1>6. \A i, j \in DOMAIN queue' :
          queue'[i].k = "prepare" /\ queue'[j].k = "prepare" /\ queue'[i].s = queue'[j].s => i = j
    BY DEF Prompts
  <1>7. \A c \in Conns : conn'[c].st = "asking" =>
          decision'[conn'[c].s] = "open" /\ conn'[c].s # pending' /\ ~Announced(conn[c].s)'
    BY <1>2
  <1> QED
    BY <1>3, <1>5, <1>6, <1>7 DEF Prompts

-----------------------------------------------------------------------------
(* Requests: what a step of a connection or of a detached task keeps *)

(* A step of a connection keeps the types. *)
LEMMA ConnTypes ==
  ASSUME TypeOK, UNCHANGED <<srv, lsn, errors, early, decision, app>>,
         slot' \in [Gens -> Slots], conn' \in [Conns -> ConnRecords], spawned' \subseteq Spawned,
         queue' \in Seq(Events), Len(queue') =< EventCap, asked' \in 0..MaxSessions
  PROVE  TypeOK'
  BY TypedIs DEF Typed, app

(* One slot changes. *)
LEMMA SlotIs ==
  ASSUME TypeOK, NEW g \in Gens, NEW sl \in Slots, slot' = [slot EXCEPT ![g] = sl]
  PROVE  slot' \in [Gens -> Slots] /\ slot'[g] = sl /\ \A h \in Gens : h # g => slot'[h] = slot[h]
  BY TypedIs DEF Typed

(* Uploads and guards elsewhere do not change the count of a slot. *)
LEMMA FilesKept ==
  ASSUME TypeOK, NEW g \in Gens, FilesAt(g), slot'[g] = slot[g],
         \A x \in Conns : \/ conn'[x] = conn[x]
                          \/ /\ conn[x].st = "uploading" => conn[x].g # g \/ conn[x].s # slot[g].of
                             /\ conn'[x].st = "uploading" => conn'[x].g # g \/ conn'[x].s # slot[g].of,
         \A t \in spawned' : t.k = "fail" => t \in spawned \/ t.g # g \/ t.s # slot[g].of
  PROVE  FilesAt(g)'
  <1>1. PICK sl : sl = slot[g]
    OBVIOUS
  <1>2. sl \in Slots
    BY <1>1, TypedIs DEF Typed
  <1>3. Uploading(g, sl.of)' = Uploading(g, sl.of)
    BY <1>1 DEF Uploading
  <1>4. Fails(g, sl.of)' => Fails(g, sl.of)
    BY <1>1 DEF Fails
  <1> QED
    BY <1>1, <1>2, <1>3, <1>4, FilesSame

(* A task whose kind changes. *)
LEMMA TaskIs ==
  ASSUME NEW t \in Spawned, NEW k \in {"clear", "abort", "fail", "end", "cancel"}
  PROVE  /\ [t EXCEPT !.k = k] \in Spawned
         /\ [t EXCEPT !.k = k].k = k /\ [t EXCEPT !.k = k].g = t.g /\ [t EXCEPT !.k = k].s = t.s
  BY DEF Spawned

(* The guards a dropped request leaves. *)
LEMMA LeftIs ==
  ASSUME TypeOK, ServerInv, NEW c \in Conns
  PROVE  /\ LeftBehind(c) \subseteq Spawned
         /\ \A t \in LeftBehind(c) :
              /\ t.g = conn[c].g /\ t.s = conn[c].s
              /\ (t.k = "clear" /\ Holds(c)) \/ (t.k = "fail" /\ conn[c].st = "uploading")
         /\ Holds(c) => \E t \in LeftBehind(c) : t.k = "clear"
  <1>1. CASE Holds(c)
    <2> DEFINE t == [k |-> "clear", g |-> conn[c].g, s |-> conn[c].s]
    <2>1. LeftBehind(c) = {t}
      BY <1>1 DEF LeftBehind, Holds
    <2>2. t \in Spawned
      BY <1>1, RecordsTyped DEF Holds, Spawned
    <2>3. t.k = "clear" /\ t.g = conn[c].g /\ t.s = conn[c].s
      OBVIOUS
    <2> HIDE DEF t
    <2> QED
      BY <1>1, <2>1, <2>2, <2>3
  <1>2. CASE conn[c].st = "uploading"
    <2> DEFINE t == [k |-> "fail", g |-> conn[c].g, s |-> conn[c].s]
    <2>1. LeftBehind(c) = {t}
      BY <1>2 DEF LeftBehind
    <2>2. t \in Spawned
      BY <1>2, RecordsTyped DEF Spawned
    <2>3. t.k = "fail" /\ t.g = conn[c].g /\ t.s = conn[c].s
      OBVIOUS
    <2> HIDE DEF t
    <2> QED
      BY <1>2, <2>1, <2>2, <2>3 DEF Holds
  <1>3. CASE ~Holds(c) /\ conn[c].st # "uploading"
    BY <1>3 DEF LeftBehind, Holds
  <1> QED
    BY <1>1, <1>2, <1>3

(* A connection ends, by the server's end or its peer's: the guards remain. *)
LEMMA DropKeeps ==
  ASSUME IInv, NEW c \in Conns, Cancelled(c) \/ conn[c].st # "free", Drop(c)
  PROVE  IInv'
  <1>0. TypeOK /\ ServerInv /\ Fresh /\ SlotHeld /\ FilesCounted /\ Prompts
    BY DEF IInv
  <1>1. /\ conn[c].st # "free" /\ conn' = [conn EXCEPT ![c] = FreeConn]
        /\ spawned' = spawned \cup LeftBehind(c)
        /\ UNCHANGED <<srv, lsn, errors, early, slot, decision, asked, queue, app>>
    BY DEF Cancelled, Drop
  <1>2. /\ conn' \in [Conns -> ConnRecords] /\ conn'[c].st = "free" /\ conn'[c].s = 0 /\ conn'[c].g = 0
        /\ \A x \in Conns : x # c => conn'[x] = conn[x]
    BY <1>0, <1>1, ConnFrees
  <1>3. /\ slot \in [Gens -> Slots] /\ conn \in [Conns -> ConnRecords] /\ spawned \subseteq Spawned
        /\ queue \in Seq(Events) /\ Len(queue) =< EventCap /\ asked \in 0..MaxSessions
    BY <1>0, TypedIs DEF Typed
  <1>4. /\ LeftBehind(c) \subseteq Spawned
        /\ \A t \in LeftBehind(c) :
             /\ t.g = conn[c].g /\ t.s = conn[c].s
             /\ (t.k = "clear" /\ Holds(c)) \/ (t.k = "fail" /\ conn[c].st = "uploading")
        /\ Holds(c) => \E t \in LeftBehind(c) : t.k = "clear"
    BY <1>0, LeftIs
  <1>5. TypeOK'
    BY <1>0, <1>1, <1>2, <1>3, <1>4, ConnTypes
  <1>6. ServerInv'
    BY <1>0, <1>1, <1>2, ConnServer DEF app
  <1>7. Fresh'
    BY <1>0, <1>1, <1>2, <1>3, <1>4 DEF Fresh, app
  <1>8. SlotHeld'
    <2>1. ~Holds(c)'
      BY <1>2 DEF Holds
    <2>2. CASE Holds(c)
      BY <1>0, <1>1, <1>2, <1>4, <2>1, <2>2, HeldPassedOn
    <2>3. CASE ~Holds(c)
      <3>1. \A x \in Conns : Holds(x)' => Holds(x) /\ conn'[x].g = conn[x].g /\ conn'[x].s = conn[x].s
        BY <1>2, <2>1 DEF Holds
      <3>2. \A t \in spawned' : t.k = "clear" => t \in spawned
        BY <1>1, <1>4, <2>3
      <3> QED
        BY <1>0, <1>1, <3>1, <3>2, HeldKept
    <2> QED
      BY <2>2, <2>3
  <1>9. ASSUME NEW g \in Gens PROVE FilesAt(g)'
    <2>0. FilesAt(g) /\ slot'[g] = slot[g]
      BY <1>0, <1>1 DEF FilesCounted
    <2>1. CASE conn[c].st = "uploading" /\ conn[c].g = g /\ conn[c].s = slot[g].of
      <3>1. PICK sl : sl = slot[g]
        OBVIOUS
      <3> DEFINE U == Uploading(g, sl.of)
                 V == Uploading(g, sl.of) \ {c}
      <3>2. sl \in Slots /\ Counted(sl, U, Fails(g, sl.of)) /\ c \in U
        BY <1>3, <2>0, <2>1, <3>1 DEF FilesAt, Uploading
      <3>3. Uploading(g, sl.of)' = V
        BY <1>2 DEF Uploading
      <3> HIDE DEF U
      <3>4. V = U \ {c}
        BY DEF U
      <3> HIDE DEF V
      <3>5. Counted(sl, V, TRUE)
        <4>1. sl.st # "pending"
          BY <3>2 DEF Counted
        <4>2. ASSUME sl.st = "active"
              PROVE  IsFiniteSet(V) /\ Cardinality(V) + 1 <= sl.busy
          <5>1. IsFiniteSet(U) /\ Cardinality(U) + (IF Fails(g, sl.of) THEN 1 ELSE 0) <= sl.busy
            BY <3>2, <4>2 DEF Counted
          <5>2. IsFiniteSet(V) /\ Cardinality(V) = Cardinality(U) - 1 /\ Cardinality(U) \in Nat
            BY <3>2, <3>4, <5>1, FS_RemoveElement, FS_CardinalityType
          <5>3. sl.busy \in Nat
            BY <3>2, Bounds DEF Slots
          <5> QED
            BY <5>1, <5>2, <5>3
        <4> QED
          BY <3>2, <4>1, <4>2 DEF Counted
      <3> QED
        BY <2>0, <3>1, <3>2, <3>3, <3>5, FilesMove
    <2>2. CASE ~(conn[c].st = "uploading" /\ conn[c].g = g /\ conn[c].s = slot[g].of)
      <3>1. \A x \in Conns : \/ conn'[x] = conn[x]
                             \/ /\ conn[x].st = "uploading" => conn[x].g # g \/ conn[x].s # slot[g].of
                                /\ conn'[x].st = "uploading" => conn'[x].g # g \/ conn'[x].s # slot[g].of
        BY <1>2, <2>2
      <3>2. \A t \in spawned' : t.k = "fail" => t \in spawned \/ t.g # g \/ t.s # slot[g].of
        BY <1>1, <1>4, <2>2
      <3> QED
        BY <1>0, <2>0, <3>1, <3>2, FilesKept
    <2> QED
      BY <2>1, <2>2
  <1>10. Prompts'
    <2>1. \A s : Withdrawing(s) => Withdrawing(s)'
      BY <1>1 DEF Withdrawing
    <2>2. \A s : Waiting(s) => Waiting(s)' \/ Withdrawing(s)'
      <3> SUFFICES ASSUME NEW s, NEW x \in Conns, Holds(x), conn[x].s = s
                   PROVE  Waiting(s)' \/ Withdrawing(s)'
        BY DEF Waiting, Holds
      <3>1. CASE x = c
        BY <1>1, <1>4, <3>1 DEF Withdrawing
      <3>2. CASE x # c
        BY <1>2, <3>2 DEF Waiting, Holds
      <3> QED
        BY <3>1, <3>2
    <2>3. \A x \in Conns : conn'[x].st = "asking" =>
            decision'[conn'[x].s] = "open" /\ conn'[x].s # pending' /\ ~Announced(conn'[x].s)
      <3>1. \A x \in Conns : conn'[x].st = "asking" => conn'[x] = conn[x]
        BY <1>2
      <3> QED
        BY <1>0, <1>1, <3>1 DEF Prompts, app
    <2> QED
      BY <1>0, <1>1, <2>1, <2>2, <2>3, PromptsSame DEF app
  <1> QED
    BY <1>5, <1>6, <1>7, <1>8, <1>9, <1>10 DEF IInv, FilesCounted

(* An event at the end of the queue. *)
LEMMA AppendIs ==
  ASSUME TypeOK, NEW e \in Events, queue' = Append(queue, e)
  PROVE  /\ Len(queue) \in Nat /\ DOMAIN queue = 1..Len(queue)
         /\ DOMAIN queue' = 1..(Len(queue) + 1)
         /\ \A i \in DOMAIN queue : i \in DOMAIN queue' /\ queue'[i] = queue[i]
         /\ queue'[Len(queue) + 1] = e
         /\ \A i \in DOMAIN queue' : i \in DOMAIN queue \/ i = Len(queue) + 1
  <1>1. queue \in Seq(Events)
    BY TypedIs DEF Typed
  <1> QED
    BY <1>1

(* A step that puts an event into the channel. *)
LEMMA PromptsAppended ==
  ASSUME TypeOK, Prompts, NEW e \in Events, queue' = Append(queue, e), UNCHANGED <<pending, decision>>,
         \A s : Announced(s) \/ (s # 0 /\ s = pending) =>
            (Waiting(s) \/ Withdrawing(s) =>
               Waiting(s)' \/ Withdrawing(s)' \/ (e.k = "aborted" /\ e.s = s)),
         e.k = "prepare" => /\ e.s # 0 /\ e.s # pending /\ decision[e.s] = "open"
                            /\ Waiting(e.s)' /\ ~Announced(e.s),
         \A c \in Conns : conn'[c].st = "asking" =>
            /\ decision[conn'[c].s] = "open" /\ conn'[c].s # pending /\ ~Announced(conn'[c].s)
            /\ ~(e.k = "prepare" /\ e.s = conn'[c].s)
  PROVE  Prompts'
  <1> DEFINE n == Len(queue) + 1
  <1>0. /\ Len(queue) \in Nat /\ DOMAIN queue = 1..Len(queue)
        /\ DOMAIN queue' = 1..n /\ n \in DOMAIN queue' /\ n \in Nat /\ queue'[n] = e
        /\ \A i \in DOMAIN queue : i \in DOMAIN queue' /\ queue'[i] = queue[i] /\ i < n /\ i \in Nat
        /\ \A i \in DOMAIN queue' : i \in DOMAIN queue \/ i = n
    BY AppendIs
  <1> HIDE DEF n
  <1>1. ASSUME NEW i \in Nat, i < n, NEW s, Told(i, s) \/ (e.k = "aborted" /\ e.s = s)
        PROVE  Told(i, s)'
    BY <1>0, <1>1 DEF Told
  <1>2. \A s : Announced(s)' => Announced(s) \/ (e.k = "prepare" /\ e.s = s)
    BY <1>0 DEF Announced
  <1>3. ASSUME pending' # 0
        PROVE  /\ decision'[pending'] = "open"
               /\ Waiting(pending)' \/ Withdrawing(pending)' \/ Told(0, pending)'
    <2>1. 0 \in Nat /\ 0 < n
      BY <1>0
    <2>2. \A s : Told(0, s) \/ (e.k = "aborted" /\ e.s = s) => Told(0, s)'
      BY <1>1, <2>1
    <2>3. pending' = pending /\ pending # 0 /\ decision'[pending] = "open"
          /\ (Waiting(pending) \/ Withdrawing(pending) \/ Told(0, pending))
      BY <1>3 DEF Prompts
    <2>4. PICK s : s = pending
      OBVIOUS
    <2>5. Waiting(s)' \/ Withdrawing(s)' \/ Told(0, s)'
      BY <2>2, <2>3, <2>4
    <2> QED
      BY <2>3, <2>4, <2>5
  <1>4. ASSUME NEW i \in DOMAIN queue', queue'[i].k = "prepare", NEW s, s = queue'[i].s
        PROVE  /\ s # 0 /\ s # pending' /\ decision'[s] = "open"
               /\ Waiting(s)' \/ Withdrawing(s)' \/ Told(i, s)'
    <2>1. CASE i \in DOMAIN queue
      <3>1. Announced(s) /\ queue[i] = queue'[i] /\ i \in Nat /\ i < n
        BY <1>0, <1>4, <2>1 DEF Announced
      <3>2. Told(i, s) \/ (e.k = "aborted" /\ e.s = s) => Told(i, s)'
        BY <1>1, <3>1
      <3> QED
        BY <1>4, <2>1, <3>1, <3>2 DEF Prompts
    <2>2. CASE i = n
      BY <1>0, <1>4, <2>2
    <2> QED
      BY <1>0, <2>1, <2>2
  <1>5. ASSUME NEW i \in DOMAIN queue', NEW j \in DOMAIN queue', queue'[i].k = "prepare",
               queue'[j].k = "prepare", queue'[i].s = queue'[j].s
        PROVE  i = j
    <2>1. \A x \in DOMAIN queue : queue'[x].k = "prepare" => Announced(queue'[x].s)
      BY <1>0 DEF Announced
    <2>2. CASE i \in DOMAIN queue /\ j \in DOMAIN queue
      BY <1>0, <1>5, <2>2 DEF Prompts
    <2> QED
      BY <1>0, <1>5, <2>1, <2>2
  <1>6. ASSUME NEW c \in Conns, conn'[c].st = "asking", NEW s, s = conn'[c].s
        PROVE  decision'[s] = "open" /\ s # pending' /\ ~Announced(s)'
    BY <1>2, <1>6
  <1>7. \A i \in DOMAIN queue' : queue'[i].k = "prepare" =>
          /\ queue'[i].s # 0 /\ queue'[i].s # pending' /\ decision'[queue'[i].s] = "open"
          /\ Waiting(queue[i].s)' \/ Withdrawing(queue[i].s)' \/ Told(i, queue[i].s)'
    BY <1>4
  <1>8. \A c \in Conns : conn'[c].st = "asking" =>
          decision'[conn'[c].s] = "open" /\ conn'[c].s # pending' /\ ~Announced(conn[c].s)'
    BY <1>6
  <1> QED
    BY <1>3, <1>5, <1>7, <1>8 DEF Prompts

(* A request takes the free slot for a session nobody has heard of. *)
LEMMA PrepareKeeps ==
  ASSUME IInv, NEW c \in Conns, Prepare(c)
  PROVE  IInv'
  <1> DEFINE g == conn[c].g
             n == asked + 1
             sl == [FreeSlot EXCEPT !.st = "pending", !.of = n]
  <1>0. TypeOK /\ ServerInv /\ Fresh /\ SlotHeld /\ FilesCounted /\ Prompts
    BY DEF IInv
  <1>1. /\ conn[c].st = "idle" /\ slot[g].st = "free" /\ asked < MaxSessions
        /\ asked' = n /\ slot' = [slot EXCEPT ![g] = sl]
        /\ conn' = [conn EXCEPT ![c].st = "asking", ![c].s = n]
        /\ UNCHANGED <<srv, lsn, errors, early, spawned, decision, queue, app>>
    BY DEF Prepare
  <1>2. /\ slot \in [Gens -> Slots] /\ conn \in [Conns -> ConnRecords] /\ spawned \subseteq Spawned
        /\ queue \in Seq(Events) /\ Len(queue) =< EventCap /\ asked \in 0..MaxSessions
        /\ pending \in 0..MaxSessions
    BY <1>0, TypedIs DEF Typed
  <1>3. n \in 0..MaxSessions /\ n # 0 /\ n \in Sessions /\ asked < n /\ asked <= n
    BY <1>1, <1>2, Bounds DEF Sessions
  <1>4. g \in Gens
    BY <1>0, <1>1, RecordsTyped
  <1> HIDE DEF n
  <1>5. sl \in Slots /\ sl.of = n /\ sl.busy = 0 /\ sl.todo = 0 /\ sl.st = "pending"
    BY <1>3, Fixed DEF Slots
  <1> HIDE DEF sl
  <1>6. slot' \in [Gens -> Slots] /\ slot'[g] = sl /\ \A h \in Gens : h # g => slot'[h] = slot[h]
    BY <1>0, <1>1, <1>4, <1>5, SlotIs
  <1>7. /\ conn' \in [Conns -> ConnRecords]
        /\ conn'[c].st = "asking" /\ conn'[c].s = n /\ conn'[c].g = g
        /\ \A x \in Conns : x # c => conn'[x] = conn[x]
    BY <1>0, <1>1, <1>3, ConnMoves DEF Requests
  <1>8. TypeOK'
    BY <1>0, <1>1, <1>2, <1>3, <1>6, <1>7, ConnTypes
  <1>9. ServerInv'
    BY <1>0, <1>1, <1>3, <1>7, ConnServer DEF app
  <1>10. /\ \A x \in Conns : conn[x].s # n /\ conn[x].s <= asked
         /\ \A t \in spawned : t.k # "cancel" => t.s # n /\ t.s <= asked
         /\ \A h \in Gens : slot[h].of <= asked
         /\ \A i \in DOMAIN queue : queue[i].s # n /\ queue[i].s <= asked
         /\ decision[n] = "open" /\ pending <= asked /\ pending # n
    <2>1. /\ \A x \in Conns : conn[x].s <= asked
          /\ \A t \in spawned : t.k # "cancel" => t.s <= asked
          /\ \A h \in Gens : slot[h].of <= asked
          /\ \A i \in DOMAIN queue : queue[i].s <= asked
          /\ decision[n] = "open" /\ pending <= asked
      BY <1>0, <1>3 DEF Fresh
    <2>2. \A x : x <= asked => x # n
      BY <1>2, <1>3
    <2> QED
      BY <2>1, <2>2
  <1>11. Fresh'
    <2>1. asked' = n /\ \A x \in 0..MaxSessions : x <= asked => x <= n
      BY <1>1, <1>2, <1>3
    <2>2. \A x \in Conns : conn'[x].s <= n
      <3>1. \A x \in Conns : conn[x].s \in 0..MaxSessions
        BY <1>2 DEF ConnRecords
      <3> QED
        BY <1>3, <1>7, <1>10, <2>1, <3>1
    <2>3. \A t \in spawned : t.k # "cancel" => t.s <= n
      <3>1. \A t \in spawned : t.s \in 0..MaxSessions
        BY <1>2, Bounds DEF Spawned, Sessions
      <3> QED
        BY <1>10, <2>1, <3>1
    <2>4. \A h \in Gens : slot'[h].of <= n
      <3>1. \A h \in Gens : slot[h].of \in 0..MaxSessions
        BY <1>2 DEF Slots
      <3> QED
        BY <1>3, <1>5, <1>6, <1>10, <2>1, <3>1
    <2>5. \A i \in DOMAIN queue : queue[i].s <= n
      <3>1. \A i \in DOMAIN queue : queue[i] \in Events
        BY <1>2
      <3>2. \A i \in DOMAIN queue : queue[i].s \in 0..MaxSessions
        BY <3>1 DEF Events
      <3> QED
        BY <1>10, <2>1, <3>2
    <2>6. \A s \in Sessions : s > n => decision[s] = "open"
      BY <1>0, <1>2, <1>3 DEF Fresh, Sessions
    <2> QED
      BY <1>1, <1>2, <1>10, <2>1, <2>2, <2>3, <2>4, <2>5, <2>6 DEF Fresh, app
  <1>12. SlotHeld'
    <2>1. \A x \in Conns : x # c => (Holds(x)' <=> Holds(x)) /\ conn'[x] = conn[x]
      BY <1>7 DEF Holds
    <2>2. \A x \in Conns : Holds(x) => x # c /\ conn[x].g # g /\ conn[x].g \in Gens
      BY <1>0, <1>1, RecordsTyped DEF Holds, SlotHeld
    <2>3. \A t \in spawned : t.k = "clear" => t.g # g /\ t.g \in Gens
      BY <1>0, <1>1, RecordsTyped DEF SlotHeld
    <2>4. /\ \A x \in Conns : Holds(x)' => slot'[conn'[x].g].st = "pending" /\ slot'[conn'[x].g].of = conn'[x].s
          /\ \A t \in spawned : t.k = "clear" => slot'[t.g].st = "pending" /\ slot'[t.g].of = t.s
      BY <1>0, <1>5, <1>6, <1>7, <2>1, <2>2, <2>3 DEF SlotHeld
    <2>5. \A x, y \in Conns : Holds(x)' /\ Holds(y)' /\ conn'[x].s = conn'[y].s => x = y
      BY <1>0, <1>7, <1>10, <2>1 DEF SlotHeld
    <2>6. \A x \in Conns, t \in spawned : Holds(x)' /\ t.k = "clear" => t.s # conn'[x].s
      BY <1>0, <1>7, <1>10, <2>1 DEF SlotHeld
    <2> QED
      BY <1>1, <2>4, <2>5, <2>6 DEF SlotHeld
  <1>13. ASSUME NEW h \in Gens PROVE FilesAt(h)'
    <2>1. CASE h = g
      <3>1. PICK x : x = sl
        OBVIOUS
      <3>2. Uploading(h, x.of)' = {}
        BY <1>5, <1>7, <1>10, <3>1 DEF Uploading
      <3>3. ~Fails(h, x.of)'
        BY <1>1, <1>5, <1>10, <3>1 DEF Fails
      <3>4. Counted(x, {}, FALSE)
        BY <1>3, <1>5, <3>1, Bounds DEF Counted
      <3> QED
        BY <1>5, <1>6, <2>1, <3>1, <3>2, <3>3, <3>4, FilesMove
    <2>2. CASE h # g
      BY <1>0, <1>1, <1>6, <1>7, <2>2, FilesKept DEF FilesCounted
    <2> QED
      BY <2>1, <2>2
  <1>14. Prompts'
    <2>1. \A s : Withdrawing(s) => Withdrawing(s)'
      BY <1>1 DEF Withdrawing
    <2>2. \A s : Waiting(s) => Waiting(s)'
      BY <1>1, <1>7 DEF Waiting
    <2>3. ~Announced(n)
      BY <1>10 DEF Announced
    <2>4. \A x \in Conns : conn'[x].st = "asking" =>
            decision'[conn'[x].s] = "open" /\ conn'[x].s # pending' /\ ~Announced(conn'[x].s)
      BY <1>0, <1>1, <1>7, <1>10, <2>3 DEF Prompts, app
    <2> QED
      BY <1>0, <1>1, <2>1, <2>2, <2>4, PromptsSame DEF app
  <1> QED
    BY <1>8, <1>9, <1>11, <1>12, <1>13, <1>14 DEF IInv, FilesCounted

(* The events a connection sends. *)
LEMMA Emits ==
  ASSUME TypeOK, ServerInv, Fresh, NEW c \in Conns, conn[c].st \notin {"free", "idle"}, Room,
         NEW k \in {"prepare", "end"}, NEW e, e = [k |-> k, s |-> conn[c].s], queue' = Append(queue, e),
         UNCHANGED asked
  PROVE  /\ e \in Events /\ e.k = k /\ e.s = conn[c].s /\ e.s # 0
         /\ queue' \in Seq(Events) /\ Len(queue') =< EventCap
         /\ \A i \in DOMAIN queue' : queue'[i].s <= asked'
  <1>1. conn[c].s \in Sessions /\ conn[c].s \in 0..MaxSessions /\ conn[c].s # 0 /\ conn[c].s <= asked
    BY RecordsTyped, Bounds DEF Sessions, Fresh
  <1>2. e \in Events /\ e.k = k /\ e.s = conn[c].s
    BY <1>1 DEF Events
  <1>3. queue' \in Seq(Events) /\ Len(queue') =< EventCap
    BY <1>2, EventTyped DEF Room
  <1>4. \A i \in DOMAIN queue' : (i \in DOMAIN queue /\ queue'[i] = queue[i]) \/ queue'[i] = e
    BY <1>2, AppendIs
  <1> QED
    BY <1>1, <1>2, <1>3, <1>4 DEF Fresh

(* The Prepare event of a request is sent. *)
LEMMA EmitPrepareKeeps ==
  ASSUME IInv, NEW c \in Conns, EmitPrepare(c)
  PROVE  IInv'
  <1>0. TypeOK /\ ServerInv /\ Fresh /\ SlotHeld /\ FilesCounted /\ Prompts
    BY DEF IInv
  <1>1. PICK e : e = [k |-> "prepare", s |-> conn[c].s]
    OBVIOUS
  <1>2. /\ conn[c].st = "asking" /\ Room /\ queue' = Append(queue, e)
        /\ conn' = [conn EXCEPT ![c].st = "waiting"]
        /\ UNCHANGED <<srv, lsn, errors, early, slot, spawned, decision, asked, app>>
    BY <1>1 DEF EmitPrepare
  <1>3. /\ slot \in [Gens -> Slots] /\ conn \in [Conns -> ConnRecords] /\ spawned \subseteq Spawned
        /\ asked \in 0..MaxSessions /\ conn[c].s \in 0..MaxSessions /\ conn[c].s # 0
    <2>1. conn[c].s \in Sessions
      BY <1>0, <1>2, RecordsTyped
    <2> QED
      BY <1>0, <2>1, RecordsTyped, Bounds DEF Sessions
  <1>4. /\ e \in Events /\ e.k = "prepare" /\ e.s = conn[c].s /\ e.s # 0
        /\ queue' \in Seq(Events) /\ Len(queue') =< EventCap
        /\ \A i \in DOMAIN queue' : queue'[i].s <= asked'
    BY <1>0, <1>1, <1>2, Emits
  <1>5. /\ conn' \in [Conns -> ConnRecords]
        /\ conn'[c].st = "waiting" /\ conn'[c].s = conn[c].s /\ conn'[c].g = conn[c].g
        /\ \A x \in Conns : x # c => conn'[x] = conn[x]
    <2>1. conn' = [conn EXCEPT ![c].st = "waiting"]
      BY <1>2
    <2>2. "waiting" \in Requests
      BY DEF Requests
    <2> QED
      BY <1>0, <1>3, <2>1, <2>2, ConnMoves, Zenon
  <1>6. TypeOK'
    BY <1>0, <1>2, <1>3, <1>4, <1>5, ConnTypes
  <1>7. ServerInv'
    BY <1>0, <1>2, <1>3, <1>5, ConnServer DEF app
  <1>8. Fresh'
    BY <1>0, <1>2, <1>4, <1>5 DEF Fresh, app
  <1>9. SlotHeld'
    <2>1. \A x \in Conns : Holds(x)' => Holds(x) /\ conn'[x].g = conn[x].g /\ conn'[x].s = conn[x].s
      BY <1>2, <1>5 DEF Holds
    <2> QED
      BY <1>0, <1>2, <2>1, HeldKept
  <1>10. ASSUME NEW g \in Gens PROVE FilesAt(g)'
    BY <1>0, <1>2, <1>5, FilesKept DEF FilesCounted
  <1>11. Prompts'
    <2>1. \A s : Withdrawing(s) => Withdrawing(s)'
      BY <1>2 DEF Withdrawing
    <2>2. \A s : Waiting(s) => Waiting(s)'
      BY <1>2, <1>5 DEF Waiting
    <2>3. decision[e.s] = "open" /\ e.s # pending /\ ~Announced(e.s) /\ Waiting(e.s)'
      BY <1>0, <1>2, <1>4, <1>5 DEF Prompts, Waiting
    <2>4. \A x \in Conns : conn'[x].st = "asking" =>
            /\ decision[conn'[x].s] = "open" /\ conn'[x].s # pending /\ ~Announced(conn'[x].s)
            /\ e.s # conn'[x].s
      <3>1. \A x \in Conns : conn'[x].st = "asking" => x # c /\ conn'[x] = conn[x]
        BY <1>5
      <3>2. \A x \in Conns : conn[x].st = "asking" /\ x # c => conn[x].s # conn[c].s
        BY <1>0, <1>2 DEF SlotHeld, Holds
      <3> QED
        BY <1>0, <1>4, <3>1, <3>2 DEF Prompts
    <2> QED
      BY <1>0, <1>2, <1>4, <2>1, <2>2, <2>3, <2>4, PromptsAppended DEF app
  <1> QED
    BY <1>6, <1>7, <1>8, <1>9, <1>10, <1>11 DEF IInv, FilesCounted

(* The end of a session is reported. *)
LEMMA EmitEndKeeps ==
  ASSUME IInv, NEW c \in Conns, EmitEnd(c)
  PROVE  IInv'
  <1>0. TypeOK /\ ServerInv /\ Fresh /\ SlotHeld /\ FilesCounted /\ Prompts
    BY DEF IInv
  <1>1. PICK e : e = [k |-> "end", s |-> conn[c].s]
    OBVIOUS
  <1>2. /\ conn[c].st = "ending" /\ Room /\ queue' = Append(queue, e)
        /\ conn' = [conn EXCEPT ![c].st = "idle", ![c].s = 0]
        /\ UNCHANGED <<srv, lsn, errors, early, slot, spawned, decision, asked, app>>
    BY <1>1 DEF EmitEnd
  <1>3. /\ slot \in [Gens -> Slots] /\ conn \in [Conns -> ConnRecords] /\ spawned \subseteq Spawned
        /\ asked \in 0..MaxSessions /\ 0 \in 0..MaxSessions
    BY <1>0, <1>2, RecordsTyped, Bounds
  <1>4. /\ e \in Events /\ e.k = "end"
        /\ queue' \in Seq(Events) /\ Len(queue') =< EventCap
        /\ \A i \in DOMAIN queue' : queue'[i].s <= asked'
    BY <1>0, <1>1, <1>2, Emits
  <1>5. /\ conn' \in [Conns -> ConnRecords]
        /\ conn'[c].st = "idle" /\ conn'[c].s = 0 /\ conn'[c].g = conn[c].g
        /\ \A x \in Conns : x # c => conn'[x] = conn[x]
    <2>1. conn' = [conn EXCEPT ![c].st = "idle", ![c].s = 0]
      BY <1>2
    <2>2. "idle" \in Requests
      BY DEF Requests
    <2> QED
      BY <1>0, <1>3, <2>1, <2>2, ConnMoves, Zenon
  <1>6. TypeOK'
    BY <1>0, <1>2, <1>3, <1>4, <1>5, ConnTypes
  <1>7. ServerInv'
    BY <1>0, <1>2, <1>5, ConnServer DEF app
  <1>8. Fresh'
    BY <1>0, <1>2, <1>3, <1>4, <1>5 DEF Fresh, app
  <1>9. SlotHeld'
    <2>1. \A x \in Conns : Holds(x)' => Holds(x) /\ conn'[x].g = conn[x].g /\ conn'[x].s = conn[x].s
      BY <1>2, <1>5 DEF Holds
    <2> QED
      BY <1>0, <1>2, <2>1, HeldKept
  <1>10. ASSUME NEW g \in Gens PROVE FilesAt(g)'
    BY <1>0, <1>2, <1>5, FilesKept DEF FilesCounted
  <1>11. Prompts'
    <2>1. \A s : Withdrawing(s) => Withdrawing(s)'
      BY <1>2 DEF Withdrawing
    <2>2. \A s : Waiting(s) => Waiting(s)'
      BY <1>2, <1>5 DEF Waiting
    <2>3. \A x \in Conns : conn'[x].st = "asking" =>
            decision[conn'[x].s] = "open" /\ conn'[x].s # pending /\ ~Announced(conn'[x].s)
      <3>1. \A x \in Conns : conn'[x].st = "asking" => conn'[x] = conn[x]
        BY <1>5
      <3> QED
        BY <1>0, <3>1 DEF Prompts
    <2> QED
      BY <1>0, <1>2, <1>4, <2>1, <2>2, <2>3, PromptsAppended DEF app
  <1> QED
    BY <1>6, <1>7, <1>8, <1>9, <1>10, <1>11 DEF IInv, FilesCounted

(* A request that holds no slot changes at most one that is past its prompt. *)
LEMMA UploadStep ==
  ASSUME IInv, NEW c \in Conns, NEW g \in Gens, g = conn[c].g, NEW sl \in Slots,
         conn[c].st \in {"idle", "uploading"}, slot[g].st = "active" \/ sl = slot[g],
         sl.of \in {0, slot[g].of}, slot' = [slot EXCEPT ![g] = sl],
         NEW st \in {"idle", "uploading", "ending"}, NEW s \in 0..MaxSessions,
         st # "idle" => s # 0, s \in {0, slot[g].of},
         conn'[c].st = st, conn'[c].s = s, conn'[c].g = g, conn' \in [Conns -> ConnRecords],
         \A x \in Conns : x # c => conn'[x] = conn[x],
         FilesAt(g)',
         UNCHANGED <<srv, lsn, errors, early, spawned, decision, asked, queue, app>>
  PROVE  IInv'
  <1>0. TypeOK /\ ServerInv /\ Fresh /\ SlotHeld /\ FilesCounted /\ Prompts
    BY DEF IInv
  <1>1. /\ slot \in [Gens -> Slots] /\ conn \in [Conns -> ConnRecords] /\ spawned \subseteq Spawned
        /\ queue \in Seq(Events) /\ Len(queue) =< EventCap /\ asked \in 0..MaxSessions
    BY <1>0, TypedIs DEF Typed
  <1>2. slot' \in [Gens -> Slots] /\ slot'[g] = sl /\ \A h \in Gens : h # g => slot'[h] = slot[h]
    BY <1>0, SlotIs
  <1>3. TypeOK'
    BY <1>0, <1>1, <1>2, ConnTypes
  <1>4. ServerInv'
    BY <1>0, ConnServer DEF app
  <1>5. Fresh'
    <2>1. slot[g].of <= asked /\ 0 <= asked
      BY <1>0, <1>1 DEF Fresh
    <2> QED
      BY <1>0, <1>2, <2>1 DEF Fresh, app
  <1>6. SlotHeld'
    <2>1. \A x \in Conns : Holds(x)' => Holds(x) /\ conn'[x].g = conn[x].g /\ conn'[x].s = conn[x].s
      BY DEF Holds
    <2> QED
      BY <1>0, <1>2, <2>1, HeldKept
  <1>7. ASSUME NEW h \in Gens PROVE FilesAt(h)'
    <2>1. CASE h = g
      BY <2>1
    <2>2. CASE h # g
      <3>1. \A x \in Conns : \/ conn'[x] = conn[x]
                             \/ /\ conn[x].st = "uploading" => conn[x].g # h \/ conn[x].s # slot[h].of
                                /\ conn'[x].st = "uploading" => conn'[x].g # h \/ conn'[x].s # slot[h].of
        BY <2>2
      <3> QED
        BY <1>0, <1>2, <2>2, <3>1, FilesKept DEF FilesCounted
    <2> QED
      BY <2>1, <2>2
  <1>8. Prompts'
    <2>1. \A z : Withdrawing(z) => Withdrawing(z)'
      BY DEF Withdrawing
    <2>2. \A z : Waiting(z) => Waiting(z)'
      BY DEF Waiting
    <2>3. \A x \in Conns : conn'[x].st = "asking" =>
            decision'[conn'[x].s] = "open" /\ conn'[x].s # pending' /\ ~Announced(conn'[x].s)
      <3>1. \A x \in Conns : conn'[x].st = "asking" => conn'[x] = conn[x]
        OBVIOUS
      <3> QED
        BY <1>0, <3>1 DEF Prompts, app
    <2> QED
      BY <1>0, <2>1, <2>2, <2>3, PromptsSame DEF app
  <1> QED
    BY <1>3, <1>4, <1>5, <1>6, <1>7, <1>8 DEF IInv, FilesCounted

(* The cancel endpoint. *)
LEMMA CancelKeeps ==
  ASSUME IInv, NEW c \in Conns, CancelEndpoint(c)
  PROVE  IInv'
  <1>0. TypeOK /\ ServerInv /\ FilesCounted
    BY DEF IInv
  <1>1. PICK g : g = conn[c].g
    OBVIOUS
  <1>2. /\ conn[c].st = "idle" /\ slot[g].st = "active" /\ slot' = [slot EXCEPT ![g] = FreeSlot]
        /\ conn' = [conn EXCEPT ![c].st = "ending", ![c].s = slot[g].of]
        /\ UNCHANGED <<srv, lsn, errors, early, spawned, decision, asked, queue, app>>
    BY <1>1 DEF CancelEndpoint
  <1>3. g \in Gens
    BY <1>0, <1>1, <1>2, RecordsTyped
  <1>4. slot[g].of # 0 /\ slot[g].of \in 0..MaxSessions
    <2>1. slot[g] \in Slots
      BY <1>0, <1>3, TypedIs DEF Typed
    <2> QED
      BY <1>0, <1>2, <1>3, <2>1 DEF FilesCounted, FilesAt, Counted, Slots
  <1>5. PICK s \in 0..MaxSessions : s = slot[g].of
    BY <1>4
  <1>6. /\ conn' \in [Conns -> ConnRecords]
        /\ conn'[c].st = "ending" /\ conn'[c].s = s /\ conn'[c].g = g
        /\ \A x \in Conns : x # c => conn'[x] = conn[x]
    <2>1. conn' = [conn EXCEPT ![c].st = "ending", ![c].s = s]
      BY <1>2, <1>5
    <2>2. "ending" \in Requests
      BY DEF Requests
    <2>3. /\ conn' \in [Conns -> ConnRecords]
          /\ conn'[c].st = "ending" /\ conn'[c].s = s /\ conn'[c].g = conn[c].g
          /\ \A x \in Conns : x # c => conn'[x] = conn[x]
      BY <1>0, <2>1, <2>2, ConnMoves, Zenon
    <2> QED
      BY <1>1, <2>3
  <1>7. FreeSlot \in Slots /\ FreeSlot.of = 0
    BY Fixed
  <1>8. slot'[g] = FreeSlot
    BY <1>0, <1>2, <1>3, <1>7, SlotIs
  <1>9. FilesAt(g)'
    BY <1>3, <1>8, FilesFree
  <1> QED
    BY <1>1, <1>2, <1>3, <1>4, <1>5, <1>6, <1>7, <1>9, UploadStep

(* A file starts: a free place becomes a busy one with an upload of its own. *)
LEMMA UploadKeeps ==
  ASSUME IInv, NEW c \in Conns, Upload(c)
  PROVE  IInv'
  <1>0. TypeOK /\ ServerInv /\ FilesCounted
    BY DEF IInv
  <1>1. PICK g : g = conn[c].g
    OBVIOUS
  <1>2. /\ conn[c].st = "idle" /\ slot[g].st = "active" /\ slot[g].todo > 0
        /\ slot' = [slot EXCEPT ![g].todo = slot[g].todo - 1, ![g].busy = slot[g].busy + 1]
        /\ conn' = [conn EXCEPT ![c].st = "uploading", ![c].s = slot[g].of]
        /\ UNCHANGED <<srv, lsn, errors, early, spawned, decision, asked, queue, app>>
    BY <1>1 DEF Upload
  <1>3. g \in Gens /\ slot \in [Gens -> Slots] /\ slot[g] \in Slots
    BY <1>0, <1>1, <1>2, RecordsTyped
  <1>4. slot[g].of # 0 /\ slot[g].of \in 0..MaxSessions
    BY <1>0, <1>2, <1>3 DEF FilesCounted, FilesAt, Counted, Slots
  <1>5. PICK s \in 0..MaxSessions : s = slot[g].of /\ s # 0
    BY <1>4
  <1>6. /\ conn' \in [Conns -> ConnRecords]
        /\ conn'[c].st = "uploading" /\ conn'[c].s = s /\ conn'[c].g = g
        /\ \A x \in Conns : x # c => conn'[x] = conn[x]
    <2>1. conn' = [conn EXCEPT ![c].st = "uploading", ![c].s = s]
      BY <1>2, <1>5
    <2>2. "uploading" \in Requests
      BY DEF Requests
    <2>3. /\ conn' \in [Conns -> ConnRecords]
          /\ conn'[c].st = "uploading" /\ conn'[c].s = s /\ conn'[c].g = conn[c].g
          /\ \A x \in Conns : x # c => conn'[x] = conn[x]
      BY <1>0, <2>1, <2>2, ConnMoves, Zenon
    <2> QED
      BY <1>1, <2>3
  <1>7. Counted(slot[g], Uploading(g, s), Fails(g, s)) /\ FilesPer \in Nat
    BY <1>0, <1>3, <1>5, Bounds DEF FilesCounted, FilesAt
  <1>8. slot[g].todo \in 0..FilesPer /\ slot[g].busy \in 0..FilesPer
    BY <1>3 DEF Slots
  <1>9. slot[g].todo + slot[g].busy <= FilesPer
    BY <1>7 DEF Counted
  <1>10. PICK td \in 0..FilesPer, bs \in 0..FilesPer :
           td = slot[g].todo - 1 /\ bs = slot[g].busy + 1 /\ td + bs <= FilesPer
    <2>1. slot[g].todo > 0
      BY <1>2
    <2>2. /\ slot[g].todo - 1 \in 0..FilesPer /\ slot[g].busy + 1 \in 0..FilesPer
          /\ (slot[g].todo - 1) + (slot[g].busy + 1) <= FilesPer
      BY <2>1, <1>7, <1>8, <1>9
    <2> QED
      BY <2>2
  <1>11. PICK sl : sl = [slot[g] EXCEPT !.todo = td, !.busy = bs]
    OBVIOUS
  <1>12. sl \in Slots /\ sl.st = "active" /\ sl.of = s /\ sl.todo = td /\ sl.busy = bs
    BY <1>2, <1>3, <1>5, <1>11 DEF Slots
  <1>13. slot' = [slot EXCEPT ![g] = sl]
    <2>1. slot' = [slot EXCEPT ![g].todo = td, ![g].busy = bs]
      BY <1>2, <1>10
    <2> QED
      BY <1>3, <1>11, <2>1
  <1>14. FilesAt(g)'
    <2>1. PICK U : U = Uploading(g, s)
      OBVIOUS
    <2>2. PICK F \in BOOLEAN : F = Fails(g, s)
      BY DEF Fails
    <2>3. c \notin U
      BY <1>2, <2>1 DEF Uploading
    <2>4. Uploading(g, sl.of)' = U \cup {c}
      BY <1>6, <1>12, <2>1 DEF Uploading
    <2>5. Fails(g, sl.of)' => F
      BY <1>2, <1>12, <2>2 DEF Fails
    <2>6. IsFiniteSet(U) /\ Cardinality(U) + (IF F THEN 1 ELSE 0) <= slot[g].busy
      BY <1>2, <1>7, <2>1, <2>2 DEF Counted
    <2>7. IsFiniteSet(U \cup {c}) /\ Cardinality(U \cup {c}) = Cardinality(U) + 1 /\ Cardinality(U) \in Nat
      BY <2>3, <2>6, FS_AddElement, FS_CardinalityType
    <2>8. Cardinality(U \cup {c}) + (IF F THEN 1 ELSE 0) <= bs
      BY <1>8, <1>10, <2>6, <2>7
    <2>9. Counted(sl, U \cup {c}, F)
      BY <1>5, <1>10, <1>12, <2>7, <2>8 DEF Counted
    <2>10. slot'[g] = sl
      BY <1>0, <1>3, <1>12, <1>13, SlotIs
    <2> QED
      BY <1>3, <1>12, <2>4, <2>5, <2>9, <2>10, FilesMove
  <1>15. sl.of \in {0, slot[g].of} /\ s \in {0, slot[g].of}
    BY <1>5, <1>12
  <1>16. /\ conn[c].st \in {"idle", "uploading"} /\ slot[g].st = "active"
         /\ UNCHANGED <<srv, lsn, errors, early, spawned, decision, asked, queue, app>>
    BY <1>2
  <1> QED
    BY <1>1, <1>3, <1>5, <1>6, <1>12, <1>13, <1>14, <1>15, <1>16, UploadStep

(* The slot after the end of a file. *)
LEMMA FinalizedIs ==
  ASSUME NEW sl \in Slots, NEW s, NEW U, NEW F \in BOOLEAN, Counted(sl, U, F),
         sl.st = "active" /\ sl.of = s => sl.busy >= 1
  PROVE  /\ Finalized(sl, s) \in Slots /\ Finalized(sl, s).of \in {0, sl.of}
         /\ sl.st = "active" \/ Finalized(sl, s) = sl
         /\ \/ Finalized(sl, s) = FreeSlot
            \/ Finalized(sl, s) = sl /\ ~(sl.st = "active" /\ sl.of = s)
            \/ /\ sl.st = "active" /\ sl.of = s /\ Finalized(sl, s) = [sl EXCEPT !.busy = sl.busy - 1]
               /\ Finalized(sl, s).of = sl.of /\ Finalized(sl, s).st = "active"
               /\ Finalized(sl, s).todo = sl.todo /\ Finalized(sl, s).busy = sl.busy - 1
  <1>1. CASE sl.st # "active" \/ sl.of # s
    BY <1>1 DEF Finalized
  <1>2. CASE sl.st = "active" /\ sl.of = s /\ sl.todo = 0 /\ sl.busy = 1
    <2>1. Finalized(sl, s) = FreeSlot
      BY <1>2 DEF Finalized
    <2> QED
      BY <1>2, <2>1, Fixed
  <1>3. CASE sl.st = "active" /\ sl.of = s /\ ~(sl.todo = 0 /\ sl.busy = 1)
    <2>1. Finalized(sl, s) = [sl EXCEPT !.busy = sl.busy - 1]
      BY <1>3 DEF Finalized
    <2>2. PICK b \in 0..FilesPer : b = sl.busy - 1
      BY <1>3, Bounds DEF Slots
    <2>3. PICK r : r = [sl EXCEPT !.busy = b]
      OBVIOUS
    <2>4. r \in Slots /\ r.of = sl.of /\ r.st = sl.st /\ r.todo = sl.todo /\ r.busy = b
      BY <2>3 DEF Slots
    <2>5. r = Finalized(sl, s)
      BY <2>1, <2>2, <2>3
    <2> QED
      BY <1>3, <2>1, <2>2, <2>4, <2>5
  <1> QED
    BY <1>1, <1>2, <1>3

(* One upload or guard less, and one busy file less. *)
LEMMA FinalizedCounted ==
  ASSUME NEW sl \in Slots, NEW s, NEW U, NEW F \in BOOLEAN, Counted(sl, U, F),
         NEW V, NEW G \in BOOLEAN,
         sl.st = "active" /\ sl.of = s =>
           /\ sl.busy >= 1 /\ IsFiniteSet(V)
           /\ Cardinality(V) + (IF G THEN 1 ELSE 0) <= sl.busy - 1,
         ~(sl.st = "active" /\ sl.of = s) => Counted(sl, V, G)
  PROVE  Counted(Finalized(sl, s), V, G)
  <1>1. CASE Finalized(sl, s) = FreeSlot
    BY <1>1, Fixed, Bounds DEF Counted
  <1>2. CASE Finalized(sl, s) = sl /\ ~(sl.st = "active" /\ sl.of = s)
    BY <1>2
  <1>3. CASE /\ sl.st = "active" /\ sl.of = s
             /\ Finalized(sl, s).of = sl.of /\ Finalized(sl, s).st = "active"
             /\ Finalized(sl, s).todo = sl.todo /\ Finalized(sl, s).busy = sl.busy - 1
    <2>1. PICK r : r = Finalized(sl, s)
      OBVIOUS
    <2>2. sl.todo + sl.busy <= FilesPer /\ sl.of # 0 /\ sl.todo \in Nat /\ sl.busy \in Nat /\ FilesPer \in Nat
      BY <1>3, Bounds DEF Counted, Slots
    <2> QED
      BY <1>3, <2>1, <2>2 DEF Counted
  <1> QED
    BY <1>1, <1>2, <1>3, FinalizedIs

(* An upload ends with its file saved or failed. *)
LEMMA UploadDoneKeeps ==
  ASSUME IInv, NEW c \in Conns, UploadDone(c)
  PROVE  IInv'
  <1>0. TypeOK /\ ServerInv /\ FilesCounted
    BY DEF IInv
  <1>1. PICK g, s, sl : g = conn[c].g /\ s = conn[c].s /\ sl = slot[g]
    OBVIOUS
  <1>2. PICK fin : fin = Finalized(sl, s)
    OBVIOUS
  <1>3. PICK st \in {"idle", "ending"}, z \in {0, s} :
          /\ st = (IF Ends(sl, s) THEN "ending" ELSE "idle") /\ z = (IF Ends(sl, s) THEN s ELSE 0)
    OBVIOUS
  <1>4. /\ conn[c].st = "uploading" /\ slot' = [slot EXCEPT ![g] = fin]
        /\ conn' = [conn EXCEPT ![c] = [g |-> conn[c].g, st |-> st, s |-> z]]
        /\ UNCHANGED <<srv, lsn, errors, early, spawned, decision, asked, queue, app>>
    <2>1. slot' = [slot EXCEPT ![g] = Finalized(slot[g], s)]
      BY <1>1 DEF UploadDone
    <2>2. conn' = [conn EXCEPT ![c] = [g |-> g, st |-> IF Ends(slot[g], s) THEN "ending" ELSE "idle",
                                       s |-> IF Ends(slot[g], s) THEN s ELSE 0]]
      BY <1>1 DEF UploadDone
    <2>3. /\ conn[c].st = "uploading"
          /\ UNCHANGED <<srv, lsn, errors, early, spawned, decision, asked, queue, app>>
      BY DEF UploadDone
    <2> QED
      BY <1>1, <1>2, <1>3, <2>1, <2>2, <2>3
  <1>5. g \in Gens /\ s \in Sessions /\ s \in 0..MaxSessions /\ s # 0 /\ 0 \in 0..MaxSessions
        /\ slot \in [Gens -> Slots] /\ sl \in Slots
    BY <1>0, <1>1, <1>4, RecordsTyped, Bounds DEF Sessions
  <1>6. PICK U : U = Uploading(g, sl.of)
    OBVIOUS
  <1>f. PICK F \in BOOLEAN : F = Fails(g, sl.of)
    BY DEF Fails
  <1>7. Counted(sl, U, F)
    BY <1>0, <1>1, <1>5, <1>6, <1>f DEF FilesCounted, FilesAt
  <1>8. /\ conn' \in [Conns -> ConnRecords]
        /\ conn'[c].st = st /\ conn'[c].s = z /\ conn'[c].g = g
        /\ \A x \in Conns : x # c => conn'[x] = conn[x]
    <2>1. st \in Requests /\ z \in 0..MaxSessions
      BY <1>3, <1>5 DEF Requests
    <2>2. /\ conn' \in [Conns -> ConnRecords]
          /\ conn'[c].st = st /\ conn'[c].s = z /\ conn'[c].g = conn[c].g
          /\ \A x \in Conns : x # c => conn'[x] = conn[x]
      BY <1>0, <1>4, <2>1, ConnMoves, Zenon
    <2> QED
      BY <1>1, <2>2
  <1>9. ASSUME sl.of = s
        PROVE  /\ c \in U /\ sl.st # "pending"
               /\ sl.st = "active" => /\ sl.busy >= 1 /\ IsFiniteSet(U \ {c})
                                      /\ Cardinality(U \ {c}) + (IF F THEN 1 ELSE 0) <= sl.busy - 1
    <2>1. c \in U /\ sl.st # "pending"
      BY <1>1, <1>4, <1>6, <1>7, <1>9 DEF Uploading, Counted
    <2>2. ASSUME sl.st = "active"
          PROVE  /\ sl.busy >= 1 /\ IsFiniteSet(U \ {c})
                 /\ Cardinality(U \ {c}) + (IF F THEN 1 ELSE 0) <= sl.busy - 1
      <3>1. IsFiniteSet(U) /\ Cardinality(U) + (IF F THEN 1 ELSE 0) <= sl.busy
        BY <1>7, <2>2 DEF Counted
      <3>2. IsFiniteSet(U \ {c}) /\ Cardinality(U \ {c}) = Cardinality(U) - 1
            /\ Cardinality(U) \in Nat /\ Cardinality(U \ {c}) \in Nat
        BY <2>1, <3>1, FS_RemoveElement, FS_CardinalityType
      <3>3. sl.busy \in Nat
        BY <1>5, Bounds DEF Slots
      <3> QED
        BY <3>1, <3>2, <3>3
    <2> QED
      BY <2>1, <2>2
  <1>10. /\ fin \in Slots /\ fin.of \in {0, sl.of} /\ (sl.st = "active" \/ fin = sl)
         /\ fin.of = sl.of \/ fin = FreeSlot
    BY <1>2, <1>5, <1>7, <1>9, FinalizedIs
  <1>11. slot'[g] = fin
    BY <1>0, <1>4, <1>5, <1>10, SlotIs
  <1>12. FilesAt(g)'
    <2>1. CASE fin = FreeSlot
      BY <1>5, <1>11, <2>1, FilesFree
    <2>2. CASE fin.of = sl.of
      <3>1. PICK V : V = (IF sl.of = s THEN U \ {c} ELSE U)
        OBVIOUS
      <3>2. Uploading(g, fin.of)' = V
        <4>1. Uploading(g, fin.of)' = Uploading(g, fin.of) \ {c}
          BY <1>3, <1>8 DEF Uploading
        <4>2. sl.of # s => c \notin U
          BY <1>1, <1>6 DEF Uploading
        <4> QED
          BY <1>6, <2>2, <3>1, <4>1, <4>2
      <3>3. Fails(g, fin.of)' => F
        BY <1>4, <1>f, <2>2 DEF Fails
      <3>4. Counted(fin, V, F)
        <4>1. sl.st = "active" /\ sl.of = s => /\ sl.busy >= 1 /\ IsFiniteSet(V)
                                               /\ Cardinality(V) + (IF F THEN 1 ELSE 0) <= sl.busy - 1
          BY <1>9, <3>1
        <4>2. ~(sl.st = "active" /\ sl.of = s) => Counted(sl, V, F)
          <5>1. CASE sl.of # s
            BY <1>7, <3>1, <5>1
          <5>2. CASE sl.of = s /\ sl.st # "active"
            BY <1>7, <1>9, <5>2 DEF Counted
          <5> QED
            BY <5>1, <5>2
        <4> QED
          BY <1>2, <1>5, <1>7, <4>1, <4>2, FinalizedCounted
      <3> QED
        BY <1>5, <1>10, <1>11, <3>2, <3>3, <3>4, FilesMove
    <2> QED
      BY <1>10, <2>1, <2>2
  <1>13. z \in {0, sl.of} /\ (st # "idle" => z # 0)
    <2>1. Ends(sl, s) => sl.of = s
      BY Fixed DEF Ends, Finalized
    <2> QED
      BY <1>3, <1>5, <2>1
  <1>14. /\ st \in {"idle", "uploading", "ending"} /\ z \in 0..MaxSessions
         /\ conn[c].st \in {"idle", "uploading"} /\ (slot[g].st = "active" \/ fin = slot[g])
         /\ fin.of \in {0, slot[g].of} /\ z \in {0, slot[g].of}
    BY <1>1, <1>3, <1>4, <1>5, <1>10, <1>13
  <1> QED
    BY <1>1, <1>4, <1>5, <1>8, <1>10, <1>12, <1>13, <1>14, UploadStep

(* A decision ends the prompt of a request: its slot becomes a session, is   *)
(* freed, or is left to the guard.                                          *)
LEMMA DecidedKeeps ==
  ASSUME IInv, NEW c \in Conns, Decided(c)
  PROVE  IInv'
  <1>0. TypeOK /\ ServerInv /\ Fresh /\ SlotHeld /\ FilesCounted /\ Prompts
    BY DEF IInv
  <1>1. PICK g, s, d : g = conn[c].g /\ s = conn[c].s /\ d = decision[s]
    OBVIOUS
  <1>2. PICK sl : sl = (CASE d = "accept" -> [FreeSlot EXCEPT !.st = "active", !.of = s, !.todo = FilesPer]
                          [] d = "dropped" -> slot[g]
                          [] OTHER -> Freed(slot[g]))
    OBVIOUS
  <1>3. /\ conn[c].st = "waiting" /\ d # "open" /\ slot' = [slot EXCEPT ![g] = sl]
        /\ conn' = [conn EXCEPT ![c].st = "idle", ![c].s = 0]
        /\ spawned' = (IF d = "dropped" THEN spawned \cup LeftBehind(c) ELSE spawned)
        /\ UNCHANGED <<srv, lsn, errors, early, decision, asked, queue, app>>
    BY <1>1, <1>2 DEF Decided
  <1>4. /\ g \in Gens /\ s \in Sessions /\ s \in 0..MaxSessions /\ s # 0 /\ 0 \in 0..MaxSessions
        /\ slot \in [Gens -> Slots] /\ slot[g] \in Slots /\ Holds(c)
        /\ spawned \subseteq Spawned /\ queue \in Seq(Events) /\ asked \in 0..MaxSessions
    BY <1>0, <1>1, <1>3, RecordsTyped, Bounds DEF Sessions, Holds
  <1>5. /\ slot[g].st = "pending" /\ slot[g].of = s
        /\ \A x \in Conns : Holds(x) /\ x # c => conn[x].g # g
        /\ \A t \in spawned : t.k = "clear" => t.g # g
    BY <1>0, <1>1, <1>4, HeldAlone
  <1>6. /\ conn' \in [Conns -> ConnRecords]
        /\ conn'[c].st = "idle" /\ conn'[c].s = 0 /\ conn'[c].g = g
        /\ \A x \in Conns : x # c => conn'[x] = conn[x]
    <2>1. conn' = [conn EXCEPT ![c].st = "idle", ![c].s = 0]
      BY <1>3
    <2>2. "idle" \in Requests /\ 0 \in 0..MaxSessions
      BY <1>4 DEF Requests
    <2>3. /\ conn' \in [Conns -> ConnRecords]
          /\ conn'[c].st = "idle" /\ conn'[c].s = 0 /\ conn'[c].g = conn[c].g
          /\ \A x \in Conns : x # c => conn'[x] = conn[x]
      BY <1>0, <2>1, <2>2, ConnMoves, Zenon
    <2> QED
      BY <1>1, <2>3
  <1>7. \/ d = "accept" /\ sl.st = "active" /\ sl.of = s /\ sl.todo = FilesPer /\ sl.busy = 0 /\ sl \in Slots
        \/ d = "dropped" /\ sl = slot[g]
        \/ d \notin {"accept", "dropped"} /\ sl = FreeSlot
    <2>1. CASE d = "accept"
      <3>1. sl = [FreeSlot EXCEPT !.st = "active", !.of = s, !.todo = FilesPer]
        BY <1>2, <2>1
      <3>2. FilesPer \in 0..FilesPer
        BY Bounds
      <3> QED
        BY <1>4, <2>1, <3>1, <3>2, Fixed DEF Slots
    <2>2. CASE d # "accept"
      BY <1>2, <1>5, <2>2 DEF Freed
    <2> QED
      BY <2>1, <2>2
  <1>8. sl \in Slots /\ sl.of \in {0, s}
    BY <1>4, <1>5, <1>7, Fixed
  <1>9. slot' \in [Gens -> Slots] /\ slot'[g] = sl /\ \A h \in Gens : h # g => slot'[h] = slot[h]
    BY <1>0, <1>3, <1>4, <1>8, SlotIs
  <1>10. /\ LeftBehind(c) \subseteq Spawned
         /\ \A t \in LeftBehind(c) : t.k = "clear" /\ t.g = g /\ t.s = s
    BY <1>0, <1>1, <1>3, LeftIs
  <1>11. /\ spawned' \subseteq Spawned /\ spawned \subseteq spawned'
         /\ \A t \in spawned' : t \in spawned \/ (d = "dropped" /\ t.k = "clear" /\ t.g = g /\ t.s = s)
    BY <1>3, <1>4, <1>10
  <1>12. TypeOK'
    <2>1. queue' \in Seq(Events) /\ Len(queue') =< EventCap /\ asked' \in 0..MaxSessions
      BY <1>0, <1>3, TypedIs DEF Typed
    <2> QED
      BY <1>0, <1>3, <1>6, <1>9, <1>11, <2>1, ConnTypes
  <1>13. ServerInv'
    BY <1>0, <1>1, <1>3, <1>6, ConnServer DEF app
  <1>14. Fresh'
    <2>1. s <= asked /\ 0 <= asked
      BY <1>0, <1>1, <1>4 DEF Fresh
    <2> QED
      BY <1>0, <1>3, <1>6, <1>8, <1>9, <1>11, <2>1 DEF Fresh, app
  <1>15. SlotHeld'
    <2>1. \A x \in Conns : Holds(x)' => x # c /\ Holds(x) /\ conn'[x] = conn[x]
      BY <1>6 DEF Holds
    <2>2. CASE d = "dropped"
      <3>1. UNCHANGED slot
        BY <1>3, <1>4, <1>7, <2>2
      <3> QED
        BY <1>0, <1>1, <1>4, <1>6, <1>11, <2>1, <3>1, HeldPassedOn
    <2>3. CASE d # "dropped"
      <3>1. \A t \in spawned' : t.k = "clear" => t \in spawned /\ t.g # g
        BY <1>5, <1>11, <2>3
      <3>2. \A x \in Conns : Holds(x)' => conn[x].g # g
        BY <1>5, <2>1
      <3> QED
        BY <1>0, <1>9, <2>1, <3>1, <3>2, HeldKept
    <2> QED
      BY <2>2, <2>3
  <1>16. ASSUME NEW h \in Gens PROVE FilesAt(h)'
    <2>0. /\ \A x \in Conns : \/ conn'[x] = conn[x]
                              \/ conn[x].st # "uploading" /\ conn'[x].st # "uploading"
          /\ \A t \in spawned' : t.k = "fail" => t \in spawned
      BY <1>3, <1>6, <1>11
    <2>1. CASE slot'[h] = slot[h]
      BY <1>0, <2>0, <2>1, FilesKept DEF FilesCounted
    <2>2. CASE h = g /\ sl = FreeSlot
      BY <1>9, <2>2, FilesFree
    <2>3. CASE h = g /\ sl.st = "active" /\ sl.of = s /\ sl.todo = FilesPer /\ sl.busy = 0
      <3>1. FilesAt(g)
        BY <1>0, <1>4 DEF FilesCounted
      <3>2. Uploading(g, s) = {} /\ ~Fails(g, s)
        BY <1>5, <3>1 DEF FilesAt, Counted
      <3>3. Uploading(g, sl.of)' = {}
        BY <1>6, <2>0, <2>3, <3>2 DEF Uploading
      <3>4. ~Fails(g, sl.of)'
        BY <2>0, <2>3, <3>2 DEF Fails
      <3>5. Counted(sl, {}, FALSE)
        <4>1. IsFiniteSet({}) /\ Cardinality({}) = 0
          BY FS_EmptySet
        <4> QED
          BY <1>4, <2>3, <4>1, Bounds DEF Counted
      <3> QED
        BY <1>4, <1>8, <1>9, <2>3, <3>3, <3>4, <3>5, FilesMove
    <2> QED
      BY <1>7, <1>9, <2>1, <2>2, <2>3
  <1>17. Prompts'
    <2>1. \A z : Withdrawing(z) => Withdrawing(z)'
      BY <1>11 DEF Withdrawing
    <2>2. \A z : Waiting(z) /\ z # s => Waiting(z)'
      BY <1>1, <1>6 DEF Waiting
    <2>3. ASSUME NEW z, Announced(z) \/ (z # 0 /\ z = pending')
          PROVE  z # s /\ decision[z] = "open" /\ decision'[z] = "open"
      BY <1>0, <1>1, <1>3, <2>3 DEF Prompts, Announced, app
    <2>4. \A x \in Conns : conn'[x].st = "asking" =>
            decision'[conn'[x].s] = "open" /\ conn'[x].s # pending' /\ ~Announced(conn'[x].s)
      <3>1. \A x \in Conns : conn'[x].st = "asking" => conn'[x] = conn[x]
        BY <1>6
      <3> QED
        BY <1>0, <1>3, <3>1 DEF Prompts, app
    <2> QED
      BY <1>0, <1>3, <2>1, <2>2, <2>3, <2>4, PromptsSame DEF app
  <1> QED
    BY <1>12, <1>13, <1>14, <1>15, <1>16, <1>17 DEF IInv, FilesCounted

-----------------------------------------------------------------------------
(* Detached tasks *)

(* A task left behind is its kind, server and session. *)
LEMMA SameTask ==
  ASSUME NEW t \in Spawned, NEW u \in Spawned, t.k = u.k, t.g = u.g, t.s = u.s
  PROVE  t = u
  BY DEF Spawned

(* A task that works on the slot of its server, and may leave another to    *)
(* tell the event loop.                                                     *)
LEMMA TaskStep ==
  ASSUME IInv, NEW t \in spawned, NEW g \in Gens, g = t.g, NEW sl \in Slots,
         slot' = [slot EXCEPT ![g] = sl], sl.of \in {0, slot[g].of}, FilesAt(g)',
         sl = slot[g] \/ slot[g].st = "active" \/ t.k = "clear",
         NEW N, N \subseteq Spawned, spawned' = (spawned \ {t}) \cup N,
         \A u \in N : u.s = t.s /\ u.k \in {"abort", "end"} /\ t.k # "cancel",
         t.k = "clear" => \E u \in N : u.k = "abort", t.k # "abort",
         UNCHANGED <<srv, lsn, errors, early, conn, decision, asked, queue, app>>
  PROVE  IInv'
  <1>0. TypeOK /\ ServerInv /\ Fresh /\ SlotHeld /\ FilesCounted /\ Prompts
    BY DEF IInv
  <1>1. /\ slot \in [Gens -> Slots] /\ conn \in [Conns -> ConnRecords] /\ spawned \subseteq Spawned
        /\ queue \in Seq(Events) /\ Len(queue) =< EventCap /\ asked \in 0..MaxSessions
    BY <1>0, TypedIs DEF Typed
  <1>2. slot' \in [Gens -> Slots] /\ slot'[g] = sl /\ \A h \in Gens : h # g => slot'[h] = slot[h]
    BY <1>0, SlotIs
  <1>3. TypeOK'
    <2>1. spawned' \subseteq Spawned
      BY <1>1
    <2> QED
      BY <1>0, <1>1, <1>2, <2>1, ConnTypes
  <1>4. ServerInv'
    BY <1>0, SameServer DEF app
  <1>5. Fresh'
    <2>1. slot[g].of <= asked /\ 0 <= asked /\ (t.k # "cancel" => t.s <= asked)
      BY <1>0, <1>1 DEF Fresh
    <2>2. \A u \in spawned' : u.k # "cancel" => u.s <= asked
      BY <1>0, <2>1 DEF Fresh
    <2> QED
      BY <1>0, <1>2, <2>1, <2>2 DEF Fresh, app
  <1>6. \A u \in spawned' : u.k \in {"clear", "fail", "cancel"} => u \in spawned /\ u # t
    OBVIOUS
  <1>7. SlotHeld'
    <2>1. \A x \in Conns : Holds(x)' => Holds(x) /\ conn'[x].g = conn[x].g /\ conn'[x].s = conn[x].s
      BY DEF Holds
    <2>2. \A u \in spawned' : u.k = "clear" => u \in spawned /\ u # t
      BY <1>6
    <2>3. ASSUME t.k = "clear"
          PROVE  /\ \A x \in Conns : Holds(x)' => conn[x].g # g
                 /\ \A u \in spawned' : u.k = "clear" => u.g # g
      <3>1. slot[g].of = t.s
        BY <1>0, <2>3 DEF SlotHeld
      <3>2. \A x \in Conns : Holds(x)' => conn[x].g # g
        BY <1>0, <2>1, <2>3, <3>1 DEF SlotHeld
      <3>3. \A u \in spawned' : u.k = "clear" => u.g # g
        <4> SUFFICES ASSUME NEW u \in spawned', u.k = "clear", u.g = g PROVE FALSE
          OBVIOUS
        <4>1. u \in spawned /\ u # t /\ u \in Spawned /\ t \in Spawned
          BY <1>1, <2>2
        <4>2. u.s = t.s
          BY <1>0, <3>1, <4>1 DEF SlotHeld
        <4> QED
          BY <2>3, <4>1, <4>2, SameTask
      <3> QED
        BY <3>2, <3>3
    <2>4. \A h \in Gens : slot[h].st = "pending" =>
            \/ slot'[h].st = "pending" /\ slot'[h].of = slot[h].of
            \/ /\ \A x \in Conns : Holds(x)' => conn[x].g # h
               /\ \A u \in spawned' : u.k = "clear" => u.g # h
      BY <1>2, <2>3
    <2> QED
      BY <1>0, <2>1, <2>2, <2>4, HeldKept
  <1>8. ASSUME NEW h \in Gens PROVE FilesAt(h)'
    <2>1. CASE h = g
      BY <2>1
    <2>2. CASE h # g
      BY <1>0, <1>2, <1>6, <2>2, FilesKept DEF FilesCounted
    <2> QED
      BY <2>1, <2>2
  <1>9. Prompts'
    <2>1. \A z : Withdrawing(z) => Withdrawing(z)'
      <3> SUFFICES ASSUME NEW z, NEW u \in spawned, u.k \in {"clear", "abort"}, u.s = z
                   PROVE  Withdrawing(z)'
        BY DEF Withdrawing
      <3>1. CASE u = t
        BY <3>1 DEF Withdrawing
      <3>2. CASE u # t
        BY <3>2 DEF Withdrawing
      <3> QED
        BY <3>1, <3>2
    <2>2. \A z : Waiting(z) => Waiting(z)'
      BY DEF Waiting
    <2>3. \A x \in Conns : conn'[x].st = "asking" =>
            decision'[conn'[x].s] = "open" /\ conn'[x].s # pending' /\ ~Announced(conn'[x].s)
      BY <1>0 DEF Prompts, app
    <2> QED
      BY <1>0, <2>1, <2>2, <2>3, PromptsSame DEF app
  <1> QED
    BY <1>3, <1>4, <1>5, <1>7, <1>8, <1>9 DEF IInv, FilesCounted

(* A task that tells the event loop. *)
LEMMA TaskEmits ==
  ASSUME IInv, NEW t \in spawned, t.k \in {"abort", "end"}, Room, UNCHANGED slot,
         NEW e, e = [k |-> IF t.k = "end" THEN "end" ELSE "aborted", s |-> t.s],
         queue' = Append(queue, e), spawned' = spawned \ {t},
         UNCHANGED <<srv, lsn, errors, early, conn, decision, asked, app>>
  PROVE  IInv'
  <1>0. TypeOK /\ ServerInv /\ Fresh /\ SlotHeld /\ FilesCounted /\ Prompts
    BY DEF IInv
  <1>1. /\ slot \in [Gens -> Slots] /\ conn \in [Conns -> ConnRecords] /\ spawned \subseteq Spawned
        /\ asked \in 0..MaxSessions
    BY <1>0, TypedIs DEF Typed
  <1>2. t.s \in 0..MaxSessions /\ t.s <= asked
    BY <1>0, <1>1, Bounds DEF Spawned, Sessions, Fresh
  <1>3. e \in Events /\ e.s = t.s /\ e.k \in {"end", "aborted"} /\ (t.k = "abort" => e.k = "aborted")
    BY <1>2 DEF Events
  <1>4. queue' \in Seq(Events) /\ Len(queue') =< EventCap
    BY <1>0, <1>3, EventTyped DEF Room
  <1>5. \A i \in DOMAIN queue' : (i \in DOMAIN queue /\ queue'[i] = queue[i]) \/ queue'[i] = e
    BY <1>0, <1>3, AppendIs
  <1>6. TypeOK'
    BY <1>0, <1>1, <1>4, ConnTypes
  <1>7. ServerInv'
    BY <1>0, SameServer DEF app
  <1>8. Fresh'
    BY <1>0, <1>2, <1>3, <1>5 DEF Fresh, app
  <1>9. SlotHeld'
    <2>1. \A x \in Conns : Holds(x)' => Holds(x) /\ conn'[x].g = conn[x].g /\ conn'[x].s = conn[x].s
      BY DEF Holds
    <2> QED
      BY <1>0, <2>1, HeldKept
  <1>10. ASSUME NEW h \in Gens PROVE FilesAt(h)'
    BY <1>0, FilesKept DEF FilesCounted
  <1>11. Prompts'
    <2>1. \A z : Withdrawing(z) => Withdrawing(z)' \/ (e.k = "aborted" /\ e.s = z)
      <3> SUFFICES ASSUME NEW z, NEW u \in spawned, u.k \in {"clear", "abort"}, u.s = z
                   PROVE  Withdrawing(z)' \/ (e.k = "aborted" /\ e.s = z)
        BY DEF Withdrawing
      <3>1. CASE u = t
        BY <1>3, <3>1
      <3>2. CASE u # t
        BY <3>2 DEF Withdrawing
      <3> QED
        BY <3>1, <3>2
    <2>2. \A z : Waiting(z) => Waiting(z)'
      BY DEF Waiting
    <2>3. \A x \in Conns : conn'[x].st = "asking" =>
            decision[conn'[x].s] = "open" /\ conn'[x].s # pending /\ ~Announced(conn'[x].s)
      BY <1>0 DEF Prompts
    <2> QED
      BY <1>0, <1>3, <2>1, <2>2, <2>3, PromptsAppended DEF app
  <1> QED
    BY <1>6, <1>7, <1>8, <1>9, <1>10, <1>11 DEF IInv, FilesCounted

(* A task left behind by a dropped connection runs. *)
LEMMA RunSpawnedKeeps ==
  ASSUME IInv, NEW t \in spawned, RunSpawned(t)
  PROVE  IInv'
  <1>0. TypeOK /\ ServerInv /\ SlotHeld /\ FilesCounted
    BY DEF IInv
  <1>1. PICK g, sl : g = t.g /\ sl = slot[g]
    OBVIOUS
  <1>2. /\ g \in Gens /\ t \in Spawned /\ t.s \in Sessions /\ slot \in [Gens -> Slots] /\ sl \in Slots
    BY <1>0, <1>1, RecordsTyped
  <1>3. UNCHANGED <<srv, lsn, errors, early, conn, decision, asked, app>>
    BY DEF RunSpawned
  <1>4. PICK U : U = Uploading(g, sl.of)
    OBVIOUS
  <1>5. PICK F \in BOOLEAN : F = Fails(g, sl.of)
    BY DEF Fails
  <1>6. Counted(sl, U, F)
    BY <1>0, <1>1, <1>2, <1>4, <1>5 DEF FilesCounted, FilesAt
  <1>7. Uploading(g, sl.of)' = U
    BY <1>3, <1>4 DEF Uploading
  <1>8. CASE t.k = "clear"
    <2>1. PICK u : u = [t EXCEPT !.k = "abort"]
      OBVIOUS
    <2>2. u \in Spawned /\ u.k = "abort" /\ u.s = t.s
      BY <1>2, <2>1, TaskIs
    <2>3. slot' = [slot EXCEPT ![g] = Freed(slot[g])] /\ spawned' = (spawned \ {t}) \cup {u} /\ UNCHANGED queue
      BY <1>1, <1>8, <2>1 DEF RunSpawned, AfterClear
    <2>4. Freed(slot[g]) = FreeSlot
      BY <1>0, <1>1, <1>8 DEF SlotHeld, Freed
    <2>5. slot' = [slot EXCEPT ![g] = FreeSlot] /\ FreeSlot \in Slots /\ FreeSlot.of = 0
      BY <2>3, <2>4, Fixed
    <2>6. FilesAt(g)'
      BY <1>2, <2>5, FilesFree
    <2>7. PICK N : N = {u}
      OBVIOUS
    <2>8. /\ N \subseteq Spawned /\ spawned' = (spawned \ {t}) \cup N
          /\ \A x \in N : x.s = t.s /\ x.k \in {"abort", "end"} /\ t.k # "cancel"
          /\ \E x \in N : x.k = "abort"
      BY <1>8, <2>2, <2>3, <2>7
    <2>9. FreeSlot.of \in {0, slot[g].of} /\ t.k # "abort"
      BY <1>8, <2>5
    <2> QED
      BY <1>1, <1>2, <1>3, <1>8, <2>3, <2>5, <2>6, <2>8, <2>9, TaskStep
  <1>9. CASE t.k = "fail"
    <2>1. PICK fin : fin = Finalized(sl, t.s)
      OBVIOUS
    <2>2. PICK N : N = (IF Ends(sl, t.s) THEN {[t EXCEPT !.k = "end"]} ELSE {})
      OBVIOUS
    <2>3. slot' = [slot EXCEPT ![g] = fin] /\ spawned' = (spawned \ {t}) \cup N /\ UNCHANGED queue
      <3>1. slot' = [slot EXCEPT ![g] = Finalized(slot[g], t.s)]
        BY <1>1, <1>9 DEF RunSpawned
      <3>2. spawned' = (spawned \ {t}) \cup (IF Ends(slot[g], t.s) THEN {[t EXCEPT !.k = "end"]} ELSE {})
            /\ UNCHANGED queue
        BY <1>1, <1>9 DEF RunSpawned
      <3> QED
        BY <1>1, <2>1, <2>2, <3>1, <3>2
    <2>4. N \subseteq Spawned /\ \A u \in N : u.s = t.s /\ u.k = "end"
      <3>1. PICK u : u = [t EXCEPT !.k = "end"]
        OBVIOUS
      <3>2. u \in Spawned /\ u.k = "end" /\ u.s = t.s
        BY <1>2, <3>1, TaskIs
      <3> QED
        BY <2>2, <3>1, <3>2
    <2>5. sl.of = t.s => F /\ ~Fails(g, sl.of)'
      <3>1. sl.of = t.s => F
        BY <1>1, <1>5, <1>9 DEF Fails
      <3>2. \A u \in spawned' : u.k = "fail" => u \in spawned /\ u # t /\ u \in Spawned
        BY <1>0, <2>3, <2>4, RecordsTyped
      <3>3. \A u \in spawned' : u.k = "fail" /\ u.g = g => u.s # t.s
        BY <1>1, <1>2, <1>9, <3>2, SameTask
      <3> QED
        BY <3>1, <3>3 DEF Fails
    <2>6. sl.of # t.s /\ Fails(g, sl.of)' => F
      BY <1>5, <2>3, <2>4 DEF Fails
    <2>7. PICK G \in BOOLEAN : G = (F /\ sl.of # t.s)
      OBVIOUS
    <2>8. sl.st = "active" /\ sl.of = t.s =>
            sl.busy >= 1 /\ IsFiniteSet(U) /\ Cardinality(U) + (IF G THEN 1 ELSE 0) <= sl.busy - 1
      <3> SUFFICES ASSUME sl.st = "active", sl.of = t.s
                   PROVE  sl.busy >= 1 /\ IsFiniteSet(U) /\ Cardinality(U) + (IF G THEN 1 ELSE 0) <= sl.busy - 1
        OBVIOUS
      <3>1. IsFiniteSet(U) /\ Cardinality(U) + 1 <= sl.busy
        BY <1>6, <2>5 DEF Counted
      <3>2. Cardinality(U) \in Nat /\ sl.busy \in Nat
        BY <1>2, <3>1, FS_CardinalityType, Bounds DEF Slots
      <3>3. ~G
        BY <2>7
      <3> QED
        BY <3>1, <3>2, <3>3
    <2>9. ~(sl.st = "active" /\ sl.of = t.s) => Counted(sl, U, G)
      BY <1>6, <2>7 DEF Counted
    <2>10. /\ fin \in Slots /\ fin.of \in {0, sl.of} /\ (sl.st = "active" \/ fin = sl)
           /\ fin.of = sl.of \/ fin = FreeSlot
      BY <1>2, <1>6, <2>1, <2>8, FinalizedIs
    <2>11. Counted(fin, U, G)
      BY <1>2, <1>6, <2>1, <2>8, <2>9, FinalizedCounted
    <2>12. slot'[g] = fin
      BY <1>0, <1>2, <2>3, <2>10, SlotIs
    <2>13. FilesAt(g)'
      <3>1. CASE fin = FreeSlot
        BY <1>2, <2>12, <3>1, FilesFree
      <3>2. CASE fin.of = sl.of
        <4>1. Uploading(g, fin.of)' = U /\ (Fails(g, fin.of)' => G)
          BY <1>7, <2>5, <2>6, <2>7, <3>2
        <4> QED
          BY <1>2, <2>10, <2>11, <2>12, <4>1, FilesMove
      <3> QED
        BY <2>10, <3>1, <3>2
    <2>14. /\ fin.of \in {0, slot[g].of} /\ (fin = slot[g] \/ slot[g].st = "active")
           /\ \A u \in N : u.s = t.s /\ u.k \in {"abort", "end"} /\ t.k # "cancel"
      BY <1>1, <1>9, <2>4, <2>10
    <2> QED
      BY <1>1, <1>2, <1>3, <1>9, <2>3, <2>4, <2>10, <2>13, <2>14, TaskStep
  <1>10. CASE t.k = "cancel"
    <2>1. PICK new \in {FreeSlot, sl} : new = (IF sl.st = "active" /\ sl.of = t.s THEN FreeSlot ELSE sl)
      OBVIOUS
    <2>2. slot' = [slot EXCEPT ![g] = new] /\ spawned' = (spawned \ {t}) \cup {} /\ UNCHANGED queue
      <3>1. slot' = [slot EXCEPT ![g] = IF slot[g].st = "active" /\ slot[g].of = t.s THEN FreeSlot ELSE slot[g]]
        BY <1>1, <1>10 DEF RunSpawned
      <3>2. spawned' = spawned \ {t} /\ UNCHANGED queue
        BY <1>1, <1>10 DEF RunSpawned
      <3> QED
        BY <1>1, <2>1, <3>1, <3>2
    <2>3. new \in Slots /\ new.of \in {0, slot[g].of} /\ (new = slot[g] \/ slot[g].st = "active")
      BY <1>1, <1>2, <2>1, Fixed
    <2>4. slot'[g] = new
      BY <1>0, <1>2, <2>2, <2>3, SlotIs
    <2>5. FilesAt(g)'
      <3>1. CASE new = FreeSlot
        BY <1>2, <2>4, <3>1, FilesFree
      <3>2. CASE new = sl
        <4>1. Fails(g, sl.of)' => F
          BY <1>5, <2>2 DEF Fails
        <4> QED
          BY <1>2, <1>6, <1>7, <2>4, <3>2, <4>1, FilesMove
      <3> QED
        BY <2>1, <3>1, <3>2
    <2>6. PICK N : N = {}
      OBVIOUS
    <2>7. /\ N \subseteq Spawned /\ spawned' = (spawned \ {t}) \cup N
          /\ \A x \in N : x.s = t.s /\ x.k \in {"abort", "end"} /\ t.k # "cancel"
      BY <2>2, <2>6
    <2> QED
      BY <1>1, <1>2, <1>3, <1>10, <2>2, <2>3, <2>5, <2>7, TaskStep
  <1>11. CASE t.k \in {"abort", "end"}
    <2>1. PICK e : e = [k |-> IF t.k = "end" THEN "end" ELSE "aborted", s |-> t.s]
      OBVIOUS
    <2>2. Room /\ queue' = Append(queue, e) /\ spawned' = spawned \ {t} /\ UNCHANGED slot
      BY <1>11, <2>1 DEF RunSpawned
    <2> QED
      BY <1>3, <1>11, <2>1, <2>2, TaskEmits
  <1> QED
    BY <1>2, <1>8, <1>9, <1>10, <1>11 DEF Spawned

-----------------------------------------------------------------------------
(* The servers and the event loop, as far as requests see them *)

(* A step of the servers or the keys that touches no request. *)
LEMMA SameRequests ==
  ASSUME IInv, TypeOK', ServerInv', UNCHANGED <<slot, conn, spawned, decision, asked, queue, pending>>
  PROVE  IInv'
  <1>0. Fresh /\ SlotHeld /\ FilesCounted /\ Prompts /\ TypeOK /\ ServerInv
    BY DEF IInv
  <1>1. Fresh'
    BY <1>0 DEF Fresh
  <1>2. SlotHeld'
    <2>1. \A x \in Conns : Holds(x)' => Holds(x) /\ conn'[x].g = conn[x].g /\ conn'[x].s = conn[x].s
      BY DEF Holds
    <2> QED
      BY <1>0, <2>1, HeldKept
  <1>3. FilesCounted'
    BY <1>0, FilesKept DEF FilesCounted
  <1>4. Prompts'
    <2>1. \A s : (Waiting(s) => Waiting(s)') /\ (Withdrawing(s) => Withdrawing(s)')
      BY DEF Waiting, Withdrawing
    <2>2. \A x \in Conns : conn'[x].st = "asking" =>
            decision'[conn'[x].s] = "open" /\ conn'[x].s # pending' /\ ~Announced(conn'[x].s)
      BY <1>0 DEF Prompts
    <2> QED
      BY <1>0, <2>1, <2>2, PromptsSame
  <1> QED
    BY <1>1, <1>2, <1>3, <1>4 DEF IInv

(* A new connection. *)
LEMMA AcceptOkKeeps ==
  ASSUME IInv, NEW g \in Gens, NEW f \in Families, NEW c \in Conns, AcceptOk(g, f, c)
  PROVE  IInv'
  <1>0. Fresh /\ SlotHeld /\ FilesCounted /\ Prompts /\ TypeOK /\ ServerInv
    BY DEF IInv
  <1>1. /\ TypeOK' /\ ServerInv'
        /\ UNCHANGED <<slot, spawned, decision, asked, queue, app>>
        /\ conn[c].st = "free" /\ conn'[c].st = "idle" /\ conn'[c].s = 0 /\ \A x \in Conns : x # c => conn'[x] = conn[x]
    BY <1>0, AcceptOkServer
  <1>2. Fresh'
    <2>1. 0 <= asked
      BY <1>0, TypedIs DEF Typed
    <2> QED
      BY <1>0, <1>1, <2>1 DEF Fresh, app
  <1>3. SlotHeld'
    <2>1. \A x \in Conns : Holds(x)' => Holds(x) /\ conn'[x].g = conn[x].g /\ conn'[x].s = conn[x].s
      BY <1>1 DEF Holds
    <2> QED
      BY <1>0, <1>1, <2>1, HeldKept
  <1>4. ASSUME NEW h \in Gens PROVE FilesAt(h)'
    BY <1>0, <1>1, FilesKept DEF FilesCounted
  <1>5. Prompts'
    <2>1. \A s : (Waiting(s) => Waiting(s)') /\ (Withdrawing(s) => Withdrawing(s)')
      BY <1>1 DEF Waiting, Withdrawing
    <2>2. \A x \in Conns : conn'[x].st = "asking" =>
            decision'[conn'[x].s] = "open" /\ conn'[x].s # pending' /\ ~Announced(conn'[x].s)
      <3>1. \A x \in Conns : conn'[x].st = "asking" => conn'[x] = conn[x]
        BY <1>1
      <3> QED
        BY <1>0, <1>1, <3>1 DEF Prompts, app
    <2> QED
      BY <1>0, <1>1, <2>1, <2>2, PromptsSame DEF app
  <1> QED
    BY <1>1, <1>2, <1>3, <1>4, <1>5 DEF IInv, FilesCounted

(* A failing accept(), which may end the loop. *)
LEMMA ErrorKeeps ==
  ASSUME IInv, NEW g \in Gens, NEW f \in Families, AcceptTransient(g, f) \/ AcceptBroken(g, f)
  PROVE  IInv'
  <1>0. Fresh /\ SlotHeld /\ FilesCounted /\ Prompts /\ TypeOK /\ ServerInv
    BY DEF IInv
  <1>1. PICK e \in Events : e = [k |-> "failed", s |-> 0]
    BY FailedEvent
  <1>2. /\ TypeOK' /\ ServerInv'
        /\ UNCHANGED <<slot, conn, spawned, decision, asked, app>>
        /\ queue' = queue \/ queue' = Append(queue, e)
    BY <1>0, <1>1, ErrorServer
  <1>3. CASE queue' = queue
    BY <1>2, <1>3, SameRequests DEF app
  <1>4. CASE queue' = Append(queue, e)
    <2>1. Fresh'
      <3>1. \A i \in DOMAIN queue' : (i \in DOMAIN queue /\ queue'[i] = queue[i]) \/ queue'[i] = e
        BY <1>0, <1>4, AppendIs
      <3>2. e.s = 0 /\ 0 <= asked
        BY <1>0, <1>1, TypedIs DEF Typed
      <3> QED
        BY <1>0, <1>2, <3>1, <3>2 DEF Fresh, app
    <2>2. SlotHeld'
      <3>1. \A x \in Conns : Holds(x)' => Holds(x) /\ conn'[x].g = conn[x].g /\ conn'[x].s = conn[x].s
        BY <1>2 DEF Holds
      <3> QED
        BY <1>0, <1>2, <3>1, HeldKept
    <2>3. FilesCounted'
      BY <1>0, <1>2, FilesKept DEF FilesCounted
    <2>4. Prompts'
      <3>1. \A s : (Waiting(s) => Waiting(s)') /\ (Withdrawing(s) => Withdrawing(s)')
        BY <1>2 DEF Waiting, Withdrawing
      <3>2. \A x \in Conns : conn'[x].st = "asking" =>
              decision[conn'[x].s] = "open" /\ conn'[x].s # pending /\ ~Announced(conn'[x].s)
        BY <1>0, <1>2 DEF Prompts
      <3>3. e.k # "prepare"
        BY <1>1
      <3> QED
        BY <1>0, <1>2, <1>4, <3>1, <3>2, <3>3, PromptsAppended DEF app
    <2> QED
      BY <1>2, <2>1, <2>2, <2>3, <2>4 DEF IInv
  <1> QED
    BY <1>2, <1>3, <1>4

(* The user answers: only the prompt on the screen is decided. *)
LEMMA AnswerKeeps ==
  ASSUME IInv, TypeOK', ServerInv', UNCHANGED <<slot, conn, asked, queue>>, spawned \subseteq spawned',
         \A t \in spawned' : t \in spawned \/ t.k = "cancel",
         pending' = 0, NEW d \in Decisions, decision' = Sent(pending, d)
  PROVE  IInv'
  <1>0. Fresh /\ SlotHeld /\ FilesCounted /\ Prompts /\ TypeOK /\ ServerInv
    BY DEF IInv
  <1>1. /\ \A x \in Sessions : x # pending => decision'[x] = decision[x]
        /\ pending = 0 => decision' = decision
    BY <1>0, SentIs, TypedIs DEF Typed
  <1>2. Fresh'
    <2>1. 0 <= asked /\ asked \in 0..MaxSessions /\ pending \in 0..MaxSessions /\ pending <= asked
      BY <1>0, TypedIs DEF Typed, Fresh
    <2>2. \A s \in Sessions : s > asked => s # pending
      BY <2>1 DEF Sessions
    <2>3. \A s \in Sessions : s > asked => decision'[s] = "open"
      BY <1>0, <1>1, <2>2 DEF Fresh
    <2> QED
      BY <1>0, <2>1, <2>3 DEF Fresh
  <1>3. SlotHeld'
    <2>1. \A x \in Conns : Holds(x)' => Holds(x) /\ conn'[x].g = conn[x].g /\ conn'[x].s = conn[x].s
      BY DEF Holds
    <2> QED
      BY <1>0, <2>1, HeldKept
  <1>4. FilesCounted'
    BY <1>0, FilesKept DEF FilesCounted
  <1>5. Prompts'
    <2>1. \A s : (Waiting(s) => Waiting(s)') /\ (Withdrawing(s) => Withdrawing(s)')
      BY DEF Waiting, Withdrawing
    <2>2. ASSUME NEW s, Announced(s) PROVE decision'[s] = "open"
      <3>1. PICK i \in DOMAIN queue : queue[i].k = "prepare" /\ queue[i].s = s
        BY <2>2 DEF Announced
      <3>2. s # 0 /\ s # pending /\ decision[s] = "open"
        BY <1>0, <3>1 DEF Prompts
      <3>3. s \in Sessions
        <4>1. queue[i] \in Events
          BY <1>0, <3>1, RecordsTyped
        <4> QED
          BY <3>1, <3>2, <4>1, Bounds DEF Events, Sessions
      <3> QED
        BY <1>1, <3>2, <3>3
    <2>3. \A x \in Conns : conn'[x].st = "asking" =>
            decision'[conn'[x].s] = "open" /\ conn'[x].s # pending' /\ ~Announced(conn'[x].s)
      <3> SUFFICES ASSUME NEW x \in Conns, conn[x].st = "asking"
                   PROVE  decision'[conn[x].s] = "open" /\ conn[x].s # 0 /\ ~Announced(conn[x].s)
        OBVIOUS
      <3>1. conn[x].s \in Sessions
        BY <1>0, RecordsTyped
      <3> QED
        BY <1>0, <1>1, <3>1, Bounds DEF Prompts, Sessions
    <2> QED
      BY <1>0, <2>1, <2>2, <2>3, PromptsSame
  <1> QED
    BY <1>2, <1>3, <1>4, <1>5 DEF IInv

(* The first event leaves the queue. *)
LEMMA TailIs ==
  ASSUME TypeOK, Prompts, queue # <<>>, queue' = Tail(queue)
  PROVE  /\ Head(queue) = queue[1] /\ 1 \in DOMAIN queue /\ queue[1] \in Events
         /\ DOMAIN queue \subseteq Nat \ {0}
         /\ \A i \in DOMAIN queue' : i \in Nat /\ i + 1 \in DOMAIN queue /\ queue'[i] = queue[i + 1] /\ i + 1 # 1
         /\ \A i \in DOMAIN queue : i # 1 => i - 1 \in DOMAIN queue' /\ queue'[i - 1] = queue[i]
         /\ \A i \in Nat : \A s : Told(i + 1, s) => Told(i, s)'
         /\ \A s : Told(0, s) /\ ~(queue[1].k = "aborted" /\ queue[1].s = s) => Told(0, s)'
         /\ \A s : Announced(s)' => Announced(s) /\ ~(queue[1].k = "prepare" /\ queue[1].s = s)
  <1>1. queue \in Seq(Events)
    BY TypedIs DEF Typed
  <1>2. /\ Head(queue) = queue[1] /\ 1 \in DOMAIN queue /\ queue[1] \in Events
        /\ DOMAIN queue = 1..Len(queue) /\ Len(queue) \in Nat
        /\ DOMAIN queue' = 1..(Len(queue) - 1)
        /\ \A i \in DOMAIN queue' : queue'[i] = queue[i + 1]
    BY <1>1
  <1>3. /\ \A i \in DOMAIN queue' : i \in Nat /\ i + 1 \in DOMAIN queue /\ queue'[i] = queue[i + 1] /\ i + 1 # 1
        /\ \A i \in DOMAIN queue : i \in Nat \ {0}
    BY <1>2
  <1>4. ASSUME NEW i \in DOMAIN queue, i # 1
        PROVE  i - 1 \in DOMAIN queue' /\ queue'[i - 1] = queue[i]
    <2>1. i - 1 \in DOMAIN queue' /\ (i - 1) + 1 = i
      BY <1>2, <1>4
    <2> QED
      BY <1>2, <2>1
  <1>5. ASSUME NEW i \in Nat, NEW s, Told(i + 1, s)
        PROVE  Told(i, s)'
    <2>1. PICK j \in DOMAIN queue : j > i + 1 /\ queue[j].k = "aborted" /\ queue[j].s = s
      BY <1>5 DEF Told
    <2>2. j # 1 /\ j - 1 > i
      BY <1>3, <2>1
    <2> QED
      BY <1>4, <2>1, <2>2 DEF Told
  <1>6. ASSUME NEW s, Told(0, s), ~(queue[1].k = "aborted" /\ queue[1].s = s)
        PROVE  Told(0, s)'
    <2>1. PICK j \in DOMAIN queue : j > 0 /\ queue[j].k = "aborted" /\ queue[j].s = s
      BY <1>6 DEF Told
    <2>2. j # 1 /\ j - 1 > 0
      BY <1>3, <1>6, <2>1
    <2> QED
      BY <1>4, <2>1, <2>2 DEF Told
  <1>7. ASSUME NEW s, Announced(s)'
        PROVE  Announced(s) /\ ~(queue[1].k = "prepare" /\ queue[1].s = s)
    <2>1. PICK i \in DOMAIN queue' : queue'[i].k = "prepare" /\ queue'[i].s = s
      BY <1>7 DEF Announced
    <2>2. /\ i + 1 \in DOMAIN queue /\ i + 1 # 1
          /\ queue[i + 1].k = "prepare" /\ queue[i + 1].s = s
      BY <1>3, <2>1
    <2>3. Announced(s)
      BY <2>2 DEF Announced
    <2>4. ~(queue[1].k = "prepare" /\ queue[1].s = s)
      BY <1>2, <2>2 DEF Prompts
    <2> QED
      BY <2>3, <2>4
  <1> QED
    BY <1>2, <1>3, <1>4, <1>5, <1>6, <1>7

(* The app takes an event, which may show a prompt or withdraw one. *)
LEMMA PromptsHandled ==
  ASSUME TypeOK, Prompts, queue # <<>>, queue' = Tail(queue), UNCHANGED <<conn, spawned>>,
         NEW p, pending' = p,
         p # 0 => decision'[p] = "open" /\ (Waiting(p) \/ Withdrawing(p) \/ Told(0, p)'),
         \A s : Announced(s)' => s # p /\ (decision[s] = "open" => decision'[s] = "open"),
         \A c \in Conns : conn[c].st = "asking" => conn[c].s # p /\ decision'[conn[c].s] = "open"
  PROVE  Prompts'
  <1>1. /\ \A i \in DOMAIN queue' : i \in Nat /\ i + 1 \in DOMAIN queue /\ queue'[i] = queue[i + 1]
        /\ \A i \in Nat : \A s : Told(i + 1, s) => Told(i, s)'
        /\ \A s : Announced(s)' => Announced(s)
    BY TailIs
  <1>2. \A s : (Waiting(s)' <=> Waiting(s)) /\ (Withdrawing(s)' <=> Withdrawing(s))
    BY DEF Waiting, Withdrawing
  <1>3. pending' # 0 => decision'[pending'] = "open"
                        /\ (Waiting(pending)' \/ Withdrawing(pending)' \/ Told(0, pending)')
    BY <1>2
  <1>4. ASSUME NEW i \in DOMAIN queue', queue'[i].k = "prepare", NEW s, s = queue'[i].s
        PROVE  /\ s # 0 /\ s # pending' /\ decision'[s] = "open"
               /\ Waiting(s)' \/ Withdrawing(s)' \/ Told(i, s)'
    <2>1. Announced(s)'
      BY <1>4 DEF Announced
    <2>2. PICK j \in DOMAIN queue : j = i + 1 /\ queue[j].k = "prepare" /\ queue[j].s = s
      BY <1>1, <1>4
    <2>3. s # 0 /\ decision[s] = "open" /\ (Waiting(s) \/ Withdrawing(s) \/ Told(j, s))
      BY <2>2 DEF Prompts
    <2>4. Told(j, s) => Told(i, s)'
      BY <1>1, <1>4, <2>2
    <2> QED
      BY <1>2, <2>1, <2>3, <2>4
  <1>5. ASSUME NEW i \in DOMAIN queue', NEW j \in DOMAIN queue', queue'[i].k = "prepare",
               queue'[j].k = "prepare", queue'[i].s = queue'[j].s
        PROVE  i = j
    <2>1. i + 1 = j + 1
      BY <1>1, <1>5 DEF Prompts
    <2> QED
      BY <1>1, <2>1
  <1>6. \A i \in DOMAIN queue' : queue'[i].k = "prepare" =>
          /\ queue'[i].s # 0 /\ queue'[i].s # pending' /\ decision'[queue'[i].s] = "open"
          /\ Waiting(queue[i].s)' \/ Withdrawing(queue[i].s)' \/ Told(i, queue[i].s)'
    BY <1>4
  <1>7. \A c \in Conns : conn'[c].st = "asking" =>
          decision'[conn'[c].s] = "open" /\ conn'[c].s # pending' /\ ~Announced(conn[c].s)'
    <2>1. \A s : ~Announced(s) => ~Announced(s)'
      BY <1>1
    <2> QED
      BY <2>1 DEF Prompts
  <1> QED
    BY <1>3, <1>5, <1>6, <1>7 DEF Prompts

(* The app handles an event of the server. *)
LEMMA HandleKeeps ==
  ASSUME IInv, HandleEvent
  PROVE  IInv'
  <1>0. Fresh /\ SlotHeld /\ FilesCounted /\ Prompts /\ TypeOK /\ ServerInv
    BY DEF IInv
  <1>1. PICK e : e = Head(queue)
    OBVIOUS
  <1>2. /\ TypeOK' /\ ServerInv' /\ UNCHANGED <<slot, conn, spawned, asked>>
        /\ queue # <<>> /\ queue' = Tail(queue)
        /\ \/ /\ e.k = "prepare" /\ UNCHANGED pending
              /\ \E d \in Decisions : decision' = Sent(e.s, d)
           \/ /\ e.k = "prepare" /\ decision' = Sent(pending, "dropped")
              /\ pending' = e.s
           \/ /\ e.k = "aborted" /\ UNCHANGED decision
              /\ pending' = IF pending = e.s THEN 0 ELSE pending
           \/ e.k \in {"end", "failed"} /\ UNCHANGED <<pending, decision>>
    BY <1>0, <1>1, HandleIs
  <1>3. /\ e = queue[1] /\ 1 \in DOMAIN queue /\ e \in Events
        /\ \A i \in DOMAIN queue' : i \in Nat /\ i + 1 \in DOMAIN queue /\ queue'[i] = queue[i + 1] /\ i + 1 # 1
        /\ \A i \in Nat : \A s : Told(i + 1, s) => Told(i, s)'
        /\ \A s : Told(0, s) /\ ~(e.k = "aborted" /\ e.s = s) => Told(0, s)'
        /\ \A s : Announced(s)' => Announced(s) /\ ~(e.k = "prepare" /\ e.s = s)
    BY <1>0, <1>1, <1>2, TailIs
  <1>4. e.s \in 0..MaxSessions /\ pending \in 0..MaxSessions /\ asked \in 0..MaxSessions
        /\ 0 \in 0..MaxSessions /\ decision \in [Sessions -> Decisions]
    BY <1>0, <1>3, TypedIs, Bounds DEF Events, Typed
  <1>5. e.s <= asked /\ pending <= asked /\ 0 <= asked
    BY <1>0, <1>3, <1>4 DEF Fresh
  <1>6. \A s \in Sessions : decision'[s] = decision[s] \/ (e.k = "prepare" /\ s \in {e.s, pending})
    BY <1>0, <1>2, <1>4, SentIs DEF Decisions
  <1>7. Fresh'
    <2>1. \A s \in Sessions : s > asked => s # e.s /\ s # pending
      BY <1>4, <1>5 DEF Sessions
    <2>2. \A s \in Sessions : s > asked => decision'[s] = "open"
      BY <1>0, <1>6, <2>1 DEF Fresh
    <2>3. \A i \in DOMAIN queue' : queue'[i].s <= asked
      BY <1>0, <1>3 DEF Fresh
    <2>4. pending' <= asked
      BY <1>2, <1>5
    <2> QED
      BY <1>0, <1>2, <2>2, <2>3, <2>4 DEF Fresh
  <1>8. SlotHeld'
    <2>1. \A x \in Conns : Holds(x)' => Holds(x) /\ conn'[x].g = conn[x].g /\ conn'[x].s = conn[x].s
      BY <1>2 DEF Holds
    <2> QED
      BY <1>0, <1>2, <2>1, HeldKept
  <1>9. FilesCounted'
    BY <1>0, <1>2, FilesKept DEF FilesCounted
  <1>10. Prompts'
    <2>1. \A s : Announced(s)' => s \in Sessions /\ s # pending /\ decision[s] = "open"
                                  /\ ~(e.k = "prepare" /\ s = e.s)
      <3> SUFFICES ASSUME NEW s, Announced(s), ~(e.k = "prepare" /\ e.s = s)
                   PROVE  s \in Sessions /\ s # pending /\ decision[s] = "open"
        BY <1>3
      <3>1. PICK i \in DOMAIN queue : queue[i].k = "prepare" /\ queue[i].s = s
        BY DEF Announced
      <3>2. s # 0 /\ s # pending /\ decision[s] = "open"
        BY <1>0, <3>1 DEF Prompts
      <3>3. queue[i] \in Events
        BY <1>0, <3>1, RecordsTyped
      <3>4. s \in 0..MaxSessions
        BY <3>1, <3>3 DEF Events
      <3> QED
        BY <3>2, <3>4, Bounds DEF Sessions
    <2>2. \A c \in Conns : conn[c].st = "asking" =>
            conn[c].s \in Sessions /\ conn[c].s # pending /\ decision[conn[c].s] = "open"
            /\ conn[c].s # 0 /\ ~(e.k = "prepare" /\ conn[c].s = e.s)
      <3>1. e.k = "prepare" => Announced(e.s)
        BY <1>3 DEF Announced
      <3>2. \A c \in Conns : conn[c].st = "asking" => conn[c].s \in Sessions
        BY <1>0, RecordsTyped
      <3> QED
        BY <1>0, <3>1, <3>2, Bounds DEF Prompts, Sessions
    <2>3. PICK p : p = pending'
      OBVIOUS
    <2>4. ASSUME p # 0
          PROVE  decision'[p] = "open" /\ (Waiting(p) \/ Withdrawing(p) \/ Told(0, p)')
      <3>1. CASE e.k = "prepare" /\ p = e.s
        <4>1. /\ e.s # pending /\ decision[e.s] = "open"
              /\ Waiting(e.s) \/ Withdrawing(e.s) \/ Told(1, e.s)
          BY <1>0, <1>3, <3>1 DEF Prompts
        <4>2. Told(1, e.s) => Told(0, e.s)'
          <5>1. 0 \in Nat /\ 0 + 1 = 1
            OBVIOUS
          <5> QED
            BY <1>3, <5>1
        <4>3. e.s \in Sessions
          BY <1>4, <2>4, <3>1, Bounds DEF Sessions
        <4>4. decision'[e.s] = decision[e.s]
          <5>1. decision' = Sent(pending, "dropped")
            BY <1>2, <2>3, <3>1, <4>1
          <5> QED
            BY <1>0, <1>4, <4>1, <4>3, <5>1, SentIs DEF Decisions
        <4> QED
          BY <3>1, <4>1, <4>2, <4>4
      <3>2. CASE p = pending /\ ~(e.k = "prepare" /\ p = e.s)
        <4>1. decision[p] = "open" /\ (Waiting(p) \/ Withdrawing(p) \/ Told(0, p))
          BY <1>0, <2>4, <3>2 DEF Prompts
        <4>2. Told(0, p) => Told(0, p)'
          BY <1>2, <1>3, <2>3, <2>4, <3>2
        <4>3. p \in Sessions
          BY <1>4, <2>4, <3>2, Bounds DEF Sessions
        <4>4. decision'[p] = decision[p]
          <5>1. CASE e.k # "prepare"
            BY <1>6, <4>3, <5>1
          <5>2. CASE e.k = "prepare"
            <6>1. PICK d \in Decisions : decision' = Sent(e.s, d)
              BY <1>2, <2>3, <3>2, <5>2
            <6> QED
              BY <1>0, <1>4, <3>2, <4>3, <5>2, <6>1, SentIs
          <5> QED
            BY <5>1, <5>2
        <4> QED
          BY <4>1, <4>2, <4>4
      <3> QED
        BY <1>2, <2>3, <2>4, <3>1, <3>2
    <2>5. \A s : Announced(s)' => s # p /\ (decision[s] = "open" => decision'[s] = "open")
      <3> SUFFICES ASSUME NEW s, Announced(s)'
                   PROVE  s # p /\ (decision[s] = "open" => decision'[s] = "open")
        OBVIOUS
      <3>1. s # 0
        BY <2>1, Bounds DEF Sessions
      <3> QED
        BY <1>2, <1>6, <2>1, <2>3, <3>1
    <2>6. \A c \in Conns : conn[c].st = "asking" => conn[c].s # p /\ decision'[conn[c].s] = "open"
      BY <1>2, <1>6, <2>2, <2>3
    <2> QED
      BY <1>0, <1>2, <2>3, <2>4, <2>5, <2>6, PromptsHandled
  <1> QED
    BY <1>2, <1>7, <1>8, <1>9, <1>10 DEF IInv

-----------------------------------------------------------------------------
(* Theorems *)

(* Every step keeps the invariant. *)
LEMMA StepInv == IInv /\ [Next]_vars => IInv'
  <1> SUFFICES ASSUME IInv, [Next]_vars PROVE IInv'
    OBVIOUS
  <1>0. TypeOK /\ ServerInv
    BY DEF IInv
  <1>1. ASSUME NEW g \in Gens, NEW f \in Families, NEW c \in Conns, AcceptOk(g, f, c) PROVE IInv'
    BY <1>1, AcceptOkKeeps
  <1>2. ASSUME NEW g \in Gens, NEW f \in Families, AcceptExhausted(g, f) \/ Slept(g, f) PROVE IInv'
    BY <1>0, <1>2, SleepServer, SameRequests DEF app
  <1>3. ASSUME NEW g \in Gens, NEW f \in Families, AcceptTransient(g, f) \/ AcceptBroken(g, f) PROVE IInv'
    BY <1>3, ErrorKeeps
  <1>4. ASSUME NEW g \in Gens, ServerStep(g) PROVE IInv'
    BY <1>0, <1>4, NoticeServer, DoneServer, SameRequests DEF ServerStep, app
  <1>5. ASSUME NEW c \in Conns, ConnStep(c) PROVE IInv'
    <2>1. CASE HardDrop(c)
      BY <2>1, DropKeeps DEF HardDrop
    <2> QED
      BY <1>5, <2>1, EmitPrepareKeeps, DecidedKeeps, EmitEndKeeps DEF ConnStep
  <1>6. ASSUME NEW c \in Conns, PeerLeaves(c) PROVE IInv'
    BY <1>6, DropKeeps DEF PeerLeaves
  <1>7. ASSUME NEW c \in Conns, Prepare(c) \/ Upload(c) \/ UploadDone(c) \/ CancelEndpoint(c) PROVE IInv'
    BY <1>7, PrepareKeeps, UploadKeeps, UploadDoneKeeps, CancelKeeps
  <1>8. ASSUME NEW t \in spawned, RunSpawned(t) PROVE IInv'
    BY <1>8, RunSpawnedKeeps
  <1>9. CASE HandleEvent
    BY <1>9, HandleKeeps
  <1>10. CASE RestartStep
    <2>1. CASE Bind
      BY <1>0, <2>1, BindServer, SameRequests
    <2>2. CASE StopWaited \/ StopTimesOut \/ BindFails
      BY <1>0, <2>2, WaitServer, SameRequests
    <2> QED
      BY <1>10, <2>1, <2>2 DEF RestartStep
  <1>11. ASSUME NEW k \in Intents, Key(k) PROVE IInv'
    <2>1. /\ TypeOK' /\ ServerInv'
          /\ UNCHANGED <<slot, conn, spawned, asked, queue>>
          /\ \/ UNCHANGED <<pending, decision>>
             \/ pending' = 0 /\ \E d \in Decisions : decision' = Sent(pending, d)
      BY <1>0, <1>11, KeyServer
    <2>2. CASE UNCHANGED <<pending, decision>>
      BY <2>1, <2>2, SameRequests
    <2>3. CASE pending' = 0 /\ \E d \in Decisions : decision' = Sent(pending, d)
      BY <2>1, <2>3, AnswerKeeps
    <2> QED
      BY <2>1, <2>2, <2>3
  <1>12. CASE Picker
    BY <1>0, <1>12, PickerServer, SameRequests
  <1>13. CASE CtrlC
    <2>1. "decline" \in Decisions
      BY DEF Decisions
    <2> QED
      BY <1>0, <1>13, <2>1, CtrlCServer, AnswerKeeps
  <1>14. CASE UNCHANGED vars
    <2>1. UNCHANGED <<srv, lsn, errors, early, slot, conn, spawned, decision, asked, queue, app>>
      BY <1>14 DEF vars, core
    <2>2. TypeOK' /\ ServerInv'
      BY <1>0, <2>1, TypedIs, SameServer DEF Typed, app
    <2> QED
      BY <2>1, <2>2, SameRequests DEF app
  <1> QED
    BY <1>1, <1>2, <1>3, <1>4, <1>5, <1>6, <1>7, <1>8, <1>9, <1>10, <1>11, <1>12, <1>13, <1>14 DEF Next

(* The inductive invariant holds in every state of the servers, their connections and the app. *)
THEOREM Invariance == Spec => []IInv
  <1>1. IInv /\ [Next]_vars => IInv'
    BY StepInv
  <1> QED
    BY InitInv, <1>1, PTL DEF Spec

(* The servers are sound in every state: an accept loop gives up only for   *)
(* errors in a row, a server whose end was reported serves nobody and       *)
(* listens nowhere, and the one in use is the one the CLI shows             *)
(* (start_server_with_listener, restart_server).                            *)
THEOREM ServersAreSound == Spec => []ServersSound
  <1>1. ASSUME IInv PROVE ServersSound
    <2>1. TypeOK /\ ServerInv
      BY <1>1 DEF IInv
    <2>2. StoppedIsQuiet
      <3>1. ASSUME NEW g \in Gens, srv[g].st = "stopped", NEW c \in Conns PROVE conn[c].g # g
        <4>1. g # 0
          BY Bounds DEF Gens
        <4> QED
          BY <2>1, <3>1, <4>1 DEF ServerInv, Serving
      <3>2. ASSUME NEW g \in Gens, srv[g].st = "stopped", NEW f \in Families PROVE lsn[g][f].st = "closed"
        BY <2>1, <3>2 DEF ServerInv, Listening
      <3> QED
        BY <3>1, <3>2 DEF StoppedIsQuiet
    <2> QED
      BY <2>1, <2>2 DEF ServersSound, ServerInv
  <1> QED
    BY <1>1, Invariance, PTL

(* A prompt on the screen belongs to a request that still waits, or the     *)
(* event that takes it away is on its way, whatever servers were restarted  *)
(* in between (handle_event, the guard of prepare_upload).                  *)
THEOREM PromptsAreLive == Spec => []PromptIsLive
  <1>1. ASSUME IInv PROVE PromptIsLive
    <2> SUFFICES ASSUME pending # 0, ~Waiting(pending), ~Withdrawing(pending)
                 PROVE  \E i \in 1..Len(queue) : queue[i] = [k |-> "aborted", s |-> pending]
      BY DEF PromptIsLive, Withdrawing
    <2>1. Told(0, pending)
      BY <1>1 DEF IInv, Prompts
    <2>2. PICK i \in DOMAIN queue : queue[i].k = "aborted" /\ queue[i].s = pending
      BY <2>1 DEF Told
    <2>3. queue \in Seq(Events)
      BY <1>1, TypedIs DEF IInv, Typed
    <2>4. i \in 1..Len(queue) /\ queue[i] \in Events
      BY <2>3
    <2>5. queue[i] = [k |-> "aborted", s |-> pending]
      BY <2>2, <2>4 DEF Events
    <2> QED
      BY <2>4, <2>5
  <1> QED
    BY <1>1, Invariance, PTL
=============================================================================
