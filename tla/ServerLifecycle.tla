--------------------------- MODULE ServerLifecycle ---------------------------
(***************************************************************************)
(* The life of the HTTP server and of the CLI that restarts it: listeners  *)
(* and their accept loops, connections dropped hard when the server stops, *)
(* and the web links (W+S, W+R) that replace the encrypted server by a     *)
(* plain one and back while requests, prompts and receives are under way.  *)
(*                                                                         *)
(* A generation is one call of start_with_port.  A session is the upload   *)
(* session of one generation; the exchange of targets and results of its   *)
(* files is CliReceive's, here a file is only todo, busy or done.          *)
(***************************************************************************)
EXTENDS Naturals, Sequences, FiniteSets

CONSTANTS
  Conns,        \* connections that may be open at once
  MaxGen,       \* bound: servers started
  MaxSessions,  \* bound: upload sessions requested
  FilesPer,     \* files of a session
  FailureLimit, \* ACCEPT_FAILURE_LIMIT
  MaxErrors,    \* bound: accept errors of the operating system
  EventCap      \* capacity of the server event channel

ASSUME LifecycleAssumption ==
  /\ {MaxGen, MaxSessions, FilesPer, FailureLimit, EventCap} \subseteq Nat \ {0}
  /\ MaxErrors \in Nat

Gens == 1..MaxGen
Sessions == 1..MaxSessions
Families == {"v4", "v6"}
Links == {"off", "share", "receive"}

VARIABLES
  srv,      \* per generation: its task, its web mode, the stop channel
  lsn,      \* per generation and family: the listener and its accept loop
  errors,   \* accept errors so far
  early,    \* history: an accept loop ended before FailureLimit errors in a row
  slot,     \* per generation: the session slot of V2State
  conn,     \* per connection: who serves it and what its request awaits
  spawned,  \* detached tasks of dropped guards and of cancel_receive
  queue,    \* server_tx / server_rx, surviving restarts
  decision, \* per session: what the responder of its request was sent
  asked,    \* sessions requested so far
  gen,      \* App.server
  pc,       \* where the CLI's event loop is
  want,     \* the web mode restart_server is starting
  web,      \* App.web
  pending,  \* App.pending, 0 for none
  receive,  \* App.receive, 0 for none
  overlay   \* whether the "share via link" picker is open

core == <<srv, lsn, errors, early, slot, conn, spawned, decision, asked>>
app  == <<gen, pc, want, web, pending, receive, overlay>>
vars == <<core, queue, app>>

Servers == [st : {"none", "up", "closing", "stopped"}, web : Links,
            stop : BOOLEAN, waited : BOOLEAN]
\* streak is history: transient errors since the last accepted connection.
Listeners == [st : {"open", "sleeping", "closed"}, fails : 0..FailureLimit,
              streak : 0..FailureLimit]
Slots == [st : {"free", "pending", "active"}, of : 0..MaxSessions,
          todo : 0..FilesPer, busy : 0..FilesPer]
Requests == {"free", "idle", "asking", "waiting", "uploading", "ending"}
Events == [k : {"prepare", "aborted", "end", "failed"}, s : 0..MaxSessions]
Spawned == [k : {"clear", "abort", "fail", "end", "cancel"}, g : Gens, s : Sessions]
Decisions == {"open", "accept", "nothing", "decline", "dropped"}

StoppedServer == [st |-> "stopped", web |-> "off", stop |-> TRUE, waited |-> FALSE]
Closed == [st |-> "closed", fails |-> 0, streak |-> 0]
Open == [Closed EXCEPT !.st = "open"]
FreeSlot == [st |-> "free", of |-> 0, todo |-> 0, busy |-> 0]
FreeConn == [g |-> 0, st |-> "free", s |-> 0]

TypeOK ==
  /\ srv \in [Gens -> Servers]
  /\ lsn \in [Gens -> [Families -> Listeners]]
  /\ errors \in 0..MaxErrors /\ early \in BOOLEAN
  /\ slot \in [Gens -> Slots]
  /\ conn \in [Conns -> [g : 0..MaxGen, st : Requests, s : 0..MaxSessions]]
  /\ spawned \subseteq Spawned
  /\ queue \in Seq(Events) /\ Len(queue) =< EventCap
  /\ decision \in [Sessions -> Decisions]
  /\ asked \in 0..MaxSessions
  /\ gen \in Gens /\ pc \in {"loop", "stopping", "binding", "quit"}
  /\ want \in Links /\ web \in Links
  /\ pending \in 0..MaxSessions /\ receive \in 0..MaxSessions
  /\ overlay \in BOOLEAN

Bound(g, link, v6) ==
  /\ srv' = [srv EXCEPT ![g] = [st |-> "up", web |-> link, stop |-> FALSE, waited |-> FALSE]]
  /\ lsn' = [lsn EXCEPT ![g] = [f \in Families |-> IF f = "v4" \/ v6 THEN Open ELSE Closed]]

\* The first generation is any server the CLI runs: the encrypted one it starts
\* with, or the plain one of a link turned on before.
Init ==
  /\ \E link \in Links, v6 \in BOOLEAN :
       /\ web = link
       /\ srv = [g \in Gens |-> [st |-> IF g = 1 THEN "up" ELSE "none", web |-> link,
                                stop |-> FALSE, waited |-> FALSE]]
       /\ lsn = [g \in Gens |-> [f \in Families |->
                   IF g = 1 /\ (f = "v4" \/ v6) THEN Open ELSE Closed]]
  /\ errors = 0 /\ early = FALSE
  /\ slot = [g \in Gens |-> FreeSlot]
  /\ conn = [c \in Conns |-> FreeConn]
  /\ spawned = {} /\ queue = <<>>
  /\ decision = [s \in Sessions |-> "open"] /\ asked = 0
  /\ gen = 1 /\ pc = "loop" /\ want = "off"
  /\ pending = 0 /\ receive = 0 /\ overlay = FALSE

-----------------------------------------------------------------------------
(* The accept loops: start_server_with_listener, one per family.           *)

Accepting(g, f) == srv[g].st = "up" /\ lsn[g][f].st = "open"

\* Mutant: a connection does not end the count of failures.
AfterAcceptKeeps(l) == l

AfterAccept(l) == [l EXCEPT !.fails = 0]

AcceptOk(g, f, c) ==
  /\ Accepting(g, f) /\ conn[c].st = "free"
  /\ conn' = [conn EXCEPT ![c] = [g |-> g, st |-> "idle", s |-> 0]]
  /\ lsn' = [lsn EXCEPT ![g][f] = [AfterAccept(@) EXCEPT !.streak = 0]]
  /\ UNCHANGED <<srv, errors, early, slot, spawned, decision, asked, queue, app>>

Fault == errors < MaxErrors /\ errors' = errors + 1

\* An exhausted process waits and tries again, for longer each time, without a limit.
AcceptExhausted(g, f) ==
  /\ Accepting(g, f) /\ Fault
  /\ lsn' = [lsn EXCEPT ![g][f].st = "sleeping"]
  /\ UNCHANGED <<srv, early, slot, conn, spawned, decision, asked, queue, app>>

Slept(g, f) ==
  /\ srv[g].st = "up" /\ lsn[g][f].st = "sleeping"
  /\ lsn' = [lsn EXCEPT ![g][f].st = "open"]
  /\ UNCHANGED <<srv, errors, early, slot, conn, spawned, decision, asked, queue, app>>

\* The IPv4 loop's end ends the server and is told with try_send; IPv6 ends alone.
GiveUp(g, f) ==
  /\ lsn' = [lsn EXCEPT ![g] = [h \in Families |->
                IF f \in {h, "v4"} THEN Closed ELSE @[h]]]
  /\ srv' = IF f = "v4" THEN [srv EXCEPT ![g].st = "closing"] ELSE srv
  /\ queue' = IF f = "v4" /\ Len(queue) < EventCap
                THEN Append(queue, [k |-> "failed", s |-> 0]) ELSE queue

AcceptTransient(g, f) ==
  LET l == [lsn[g][f] EXCEPT !.fails = @ + 1, !.streak = @ + 1] IN
  /\ Accepting(g, f) /\ Fault
  /\ IF l.fails < FailureLimit
       THEN lsn' = [lsn EXCEPT ![g][f] = l] /\ UNCHANGED <<srv, early, queue>>
       ELSE GiveUp(g, f) /\ early' = (early \/ l.streak < FailureLimit)
  /\ UNCHANGED <<slot, conn, spawned, decision, asked, app>>

AcceptBroken(g, f) ==
  /\ Accepting(g, f) /\ Fault /\ GiveUp(g, f)
  /\ UNCHANGED <<early, slot, conn, spawned, decision, asked, app>>

-----------------------------------------------------------------------------
(* The server task: stop request, hard drop, end.                          *)

NoticeStop(g) ==
  /\ srv[g].st = "up" /\ srv[g].stop
  /\ srv' = [srv EXCEPT ![g].st = "closing"]
  /\ lsn' = [lsn EXCEPT ![g] = [f \in Families |-> Closed]]
  /\ UNCHANGED <<errors, early, slot, conn, spawned, decision, asked, queue, app>>

\* What the guards of a dropped request leave behind.
LeftBehind(c) ==
  CASE conn[c].st \in {"asking", "waiting"} -> {[k |-> "clear", g |-> conn[c].g, s |-> conn[c].s]}
    [] conn[c].st = "uploading" -> {[k |-> "fail", g |-> conn[c].g, s |-> conn[c].s]}
    [] OTHER -> {}

Drop(c) ==
  /\ conn' = [conn EXCEPT ![c] = FreeConn]
  /\ spawned' = spawned \cup LeftBehind(c)
  /\ UNCHANGED <<srv, lsn, errors, early, slot, decision, asked, queue, app>>

\* Mutant: a request waiting for the application is not dropped.
CancelledUnlessWaiting(c) ==
  conn[c].st \notin {"free", "waiting"} /\ srv[conn[c].g].st = "closing"

\* cancel.cancel(): the select around serve_connection ends the connection.
Cancelled(c) == conn[c].st # "free" /\ srv[conn[c].g].st = "closing"

HardDrop(c) == Cancelled(c) /\ Drop(c)

PeerLeaves(c) == conn[c].st # "free" /\ Drop(c)

\* Mutant: the server ends without waiting for its connections.
IdleAlways(g) == TRUE

\* connections.wait()
Idle(g) == \A c \in Conns : conn[c].g # g

StopDone(g) ==
  /\ srv[g].st = "closing" /\ Idle(g)
  /\ srv' = [srv EXCEPT ![g] = StoppedServer]
  /\ UNCHANGED <<lsn, errors, early, slot, conn, spawned, decision, asked, queue, app>>

-----------------------------------------------------------------------------
(* Requests, as far as a restart can meet them.                            *)

\* Mutant: the channel holds one event too many.
RoomForOneMore == Len(queue) =< EventCap

Room == Len(queue) < EventCap

Prepare(c) ==
  LET g == conn[c].g IN
  /\ conn[c].st = "idle" /\ slot[g].st = "free" /\ asked < MaxSessions
  /\ asked' = asked + 1
  /\ slot' = [slot EXCEPT ![g] = [FreeSlot EXCEPT !.st = "pending", !.of = asked + 1]]
  /\ conn' = [conn EXCEPT ![c].st = "asking", ![c].s = asked + 1]
  /\ UNCHANGED <<srv, lsn, errors, early, spawned, decision, queue, app>>

EmitPrepare(c) ==
  /\ conn[c].st = "asking" /\ Room
  /\ queue' = Append(queue, [k |-> "prepare", s |-> conn[c].s])
  /\ conn' = [conn EXCEPT ![c].st = "waiting"]
  /\ UNCHANGED <<srv, lsn, errors, early, slot, spawned, decision, asked, app>>

Freed(sl) == IF sl.st = "pending" THEN FreeSlot ELSE sl

\* A dropped responder ends the request with its guard armed.
Decided(c) ==
  LET g == conn[c].g  s == conn[c].s  d == decision[s] IN
  /\ conn[c].st = "waiting" /\ d # "open"
  /\ conn' = [conn EXCEPT ![c].st = "idle", ![c].s = 0]
  /\ slot' = [slot EXCEPT ![g] =
       CASE d = "accept" -> [FreeSlot EXCEPT !.st = "active", !.of = s, !.todo = FilesPer]
         [] d = "dropped" -> @
         [] OTHER -> Freed(@)]
  /\ spawned' = IF d = "dropped" THEN spawned \cup LeftBehind(c) ELSE spawned
  /\ UNCHANGED <<srv, lsn, errors, early, decision, asked, queue, app>>

Upload(c) ==
  LET g == conn[c].g IN
  /\ conn[c].st = "idle" /\ slot[g].st = "active" /\ slot[g].todo > 0
  /\ slot' = [slot EXCEPT ![g].todo = @ - 1, ![g].busy = @ + 1]
  /\ conn' = [conn EXCEPT ![c].st = "uploading", ![c].s = slot[g].of]
  /\ UNCHANGED <<srv, lsn, errors, early, spawned, decision, asked, queue, app>>

\* finalize_file: the slot after a file of session s ended, and whether s did.
Finalized(sl, s) ==
  IF sl.st # "active" \/ sl.of # s THEN sl
  ELSE IF sl.todo = 0 /\ sl.busy = 1 THEN FreeSlot ELSE [sl EXCEPT !.busy = @ - 1]
Ends(sl, s) == sl.st = "active" /\ Finalized(sl, s) = FreeSlot

UploadDone(c) ==
  LET g == conn[c].g  s == conn[c].s IN
  /\ conn[c].st = "uploading"
  /\ slot' = [slot EXCEPT ![g] = Finalized(@, s)]
  /\ conn' = [conn EXCEPT ![c] = [g |-> g, st |-> IF Ends(slot[g], s) THEN "ending" ELSE "idle",
                                  s |-> IF Ends(slot[g], s) THEN s ELSE 0]]
  /\ UNCHANGED <<srv, lsn, errors, early, spawned, decision, asked, queue, app>>

CancelEndpoint(c) ==
  LET g == conn[c].g IN
  /\ conn[c].st = "idle" /\ slot[g].st = "active"
  /\ slot' = [slot EXCEPT ![g] = FreeSlot]
  /\ conn' = [conn EXCEPT ![c].st = "ending", ![c].s = slot[g].of]
  /\ UNCHANGED <<srv, lsn, errors, early, spawned, decision, asked, queue, app>>

EmitEnd(c) ==
  /\ conn[c].st = "ending" /\ Room
  /\ queue' = Append(queue, [k |-> "end", s |-> conn[c].s])
  /\ conn' = [conn EXCEPT ![c].st = "idle", ![c].s = 0]
  /\ UNCHANGED <<srv, lsn, errors, early, slot, spawned, decision, asked, app>>

\* Mutant: the guard frees the slot and tells nobody.
AfterClearSilent(t) == {}

\* A detached task runs on although its server is gone.
AfterClear(t) == {[t EXCEPT !.k = "abort"]}

RunSpawned(t) ==
  LET g == t.g  rest == spawned \ {t} IN
  /\ t \in spawned
  /\ \/ /\ t.k = "clear"
        /\ slot' = [slot EXCEPT ![g] = Freed(@)]
        /\ spawned' = rest \cup AfterClear(t) /\ UNCHANGED queue
     \/ /\ t.k = "fail"
        /\ slot' = [slot EXCEPT ![g] = Finalized(@, t.s)]
        /\ spawned' = rest \cup (IF Ends(slot[g], t.s) THEN {[t EXCEPT !.k = "end"]} ELSE {})
        /\ UNCHANGED queue
     \/ /\ t.k = "cancel"
        /\ slot' = [slot EXCEPT ![g] = IF @.st = "active" /\ @.of = t.s THEN FreeSlot ELSE @]
        /\ spawned' = rest /\ UNCHANGED queue
     \/ /\ t.k \in {"abort", "end"} /\ Room
        /\ queue' = Append(queue, [k |-> IF t.k = "end" THEN "end" ELSE "aborted", s |-> t.s])
        /\ spawned' = rest /\ UNCHANGED slot
  /\ UNCHANGED <<srv, lsn, errors, early, conn, decision, asked, app>>

-----------------------------------------------------------------------------
(* The CLI's event loop.                                                   *)

Waiting(s) == \E c \in Conns : conn[c].st \in {"asking", "waiting"} /\ conn[c].s = s

\* oneshot::Sender::send: only a request that still waits takes a decision.
Sent(s, d) == IF s # 0 /\ Waiting(s) THEN [decision EXCEPT ![s] = d] ELSE decision

HandlePrepare(s) ==
  \/ /\ decision' = Sent(s, "nothing") /\ UNCHANGED <<pending, receive>>   \* a message
  \/ /\ decision' = Sent(s, "accept") /\ UNCHANGED pending                 \* paired sender
     /\ receive' = IF Waiting(s) THEN s ELSE receive
  \/ /\ decision' = Sent(pending, "dropped") /\ UNCHANGED receive          \* prompt
     /\ pending' = s

HandleEvent ==
  LET e == Head(queue) IN
  /\ pc = "loop" /\ queue # <<>>
  /\ queue' = Tail(queue)
  /\ CASE e.k = "prepare" -> HandlePrepare(e.s)
       [] e.k = "aborted" -> /\ pending' = IF pending = e.s THEN 0 ELSE pending
                             /\ UNCHANGED <<receive, decision>>
       [] e.k = "end" -> /\ receive' = IF receive = e.s THEN 0 ELSE receive
                         /\ UNCHANGED <<pending, decision>>
       [] OTHER -> UNCHANGED <<pending, receive, decision>>
  /\ UNCHANGED <<srv, lsn, errors, early, slot, conn, spawned, asked,
                 gen, pc, want, web, overlay>>

\* restart_server up to its wait: the stop channel is used up.
Restart(link) ==
  /\ srv' = [srv EXCEPT ![gen].stop = TRUE]
  /\ pc' = "stopping" /\ want' = link

NoReceive == pending = 0 /\ receive = 0

\* Turning a link on waits for receives; turning it off restarts at once.
Toggle(link) ==
  \/ /\ web = link /\ gen < MaxGen
     /\ web' = "off" /\ Restart("off") /\ UNCHANGED overlay
  \/ /\ web = "off" /\ NoReceive /\ gen < MaxGen
     /\ Restart(link) /\ UNCHANGED <<web, overlay>>
  \/ /\ web # link /\ (web # "off" \/ ~NoReceive)
     /\ UNCHANGED <<srv, pc, want, web, overlay>>

\* Without preselected files "share via link" first asks for them.
OpenPicker ==
  /\ web = "off" /\ NoReceive /\ gen < MaxGen
  /\ overlay' = TRUE /\ UNCHANGED <<srv, pc, want, web>>

Answer(yes) ==
  /\ decision' = Sent(pending, IF yes THEN "accept" ELSE "decline")
  /\ receive' = IF yes /\ pending # 0 /\ Waiting(pending) THEN pending ELSE receive
  /\ pending' = 0

\* KeyDecoder::decode: W is the first half of a chord; Y accepts, P accepts and
\* pairs, N declines.
Intents == {"w s", "w r", "y", "p", "n"}

Key(k) ==
  /\ pc = "loop" /\ ~overlay
  /\ CASE k = "w s" -> (Toggle("share") \/ OpenPicker) /\ UNCHANGED <<pending, receive, decision>>
       [] k = "w r" -> Toggle("receive") /\ UNCHANGED <<pending, receive, decision>>
       [] OTHER -> Answer(k # "n") /\ UNCHANGED <<srv, pc, want, web, overlay>>
  /\ UNCHANGED <<lsn, errors, early, slot, conn, spawned, asked, queue, gen>>

\* The picker: a choice shares it without looking at pending or receive again.
Picker ==
  /\ pc = "loop" /\ overlay
  /\ overlay' = FALSE
  /\ \/ Restart("share")
     \/ UNCHANGED <<srv, pc, want>>
  /\ UNCHANGED <<lsn, errors, early, slot, conn, spawned, decision, asked, queue,
                 gen, web, pending, receive>>

CtrlC ==
  /\ pc = "loop" /\ ~overlay
  /\ pending' = 0 /\ receive' = 0
  /\ decision' = Sent(pending, "decline")
  /\ spawned' = IF receive = 0 THEN spawned
                ELSE spawned \cup {[k |-> "cancel", g |-> gen, s |-> receive]}
  /\ IF NoReceive THEN pc' = "quit" /\ srv' = [srv EXCEPT ![gen].stop = TRUE]
     ELSE UNCHANGED <<pc, srv>>
  /\ UNCHANGED <<lsn, errors, early, slot, conn, asked, queue, gen, want, web, overlay>>

\* wait_stopped: a handle already taken, the end of the task, or three seconds.
StopWaited ==
  /\ pc = "stopping" /\ (srv[gen].waited \/ srv[gen].st = "stopped")
  /\ pc' = "binding"
  /\ UNCHANGED <<core, queue, gen, want, web, pending, receive, overlay>>

StopTimesOut ==
  /\ pc = "stopping" /\ ~srv[gen].waited /\ srv[gen].st # "stopped"
  /\ pc' = "binding" /\ srv' = [srv EXCEPT ![gen].waited = TRUE]
  /\ UNCHANGED <<lsn, errors, early, slot, conn, spawned, decision, asked, queue,
                 gen, want, web, pending, receive, overlay>>

PortFree == \A g \in Gens : lsn[g]["v4"].st = "closed"

\* Mutant: the link is not recorded once its server runs.
BindUnrecorded ==
  /\ pc = "binding" /\ PortFree /\ gen < MaxGen
  /\ \E v6 \in BOOLEAN : Bound(gen + 1, want, v6)
  /\ gen' = gen + 1 /\ pc' = "loop" /\ want' = "off" /\ UNCHANGED web
  /\ UNCHANGED <<errors, early, slot, conn, spawned, decision, asked, queue,
                 pending, receive, overlay>>

Bind ==
  /\ pc = "binding" /\ PortFree /\ gen < MaxGen
  /\ \E v6 \in BOOLEAN : Bound(gen + 1, want, v6)
  /\ gen' = gen + 1 /\ pc' = "loop" /\ web' = want /\ want' = "off"
  /\ UNCHANGED <<errors, early, slot, conn, spawned, decision, asked, queue,
                 pending, receive, overlay>>

\* Mutant: a failed start is tried again for ever.
AfterBindFailureAgain(link) == "stopping"

\* A link that could not start is followed by restore_encrypted_server.
AfterBindFailure(link) == IF link = "off" THEN "loop" ELSE "stopping"

BindFails ==
  /\ pc = "binding"
  /\ pc' = AfterBindFailure(want) /\ want' = "off"
  /\ UNCHANGED <<core, queue, gen, web, pending, receive, overlay>>

-----------------------------------------------------------------------------
ServerStep(g) == NoticeStop(g) \/ StopDone(g)
ConnStep(c) == EmitPrepare(c) \/ Decided(c) \/ EmitEnd(c) \/ HardDrop(c)
RestartStep == StopWaited \/ StopTimesOut \/ Bind \/ BindFails

Next ==
  \/ \E g \in Gens, f \in Families :
       \/ \E c \in Conns : AcceptOk(g, f, c)
       \/ AcceptExhausted(g, f) \/ Slept(g, f) \/ AcceptTransient(g, f) \/ AcceptBroken(g, f)
  \/ \E g \in Gens : ServerStep(g)
  \/ \E c \in Conns : \/ ConnStep(c) \/ PeerLeaves(c)
                      \/ Prepare(c) \/ Upload(c) \/ UploadDone(c) \/ CancelEndpoint(c)
  \/ \E t \in spawned : RunSpawned(t)
  \/ HandleEvent \/ RestartStep
  \/ \E k \in Intents : Key(k)
  \/ Picker \/ CtrlC

Spec == Init /\ [][Next]_vars

\* The runtime runs every ready task and the loop its events; peers, the user
\* and the operating system's errors are not obliged to anything.
FairSpec ==
  /\ Spec
  /\ \A g \in Gens : WF_vars(ServerStep(g))
  /\ \A c \in Conns : WF_vars(ConnStep(c))
  /\ WF_vars(\E t \in spawned : RunSpawned(t))
  /\ WF_vars(HandleEvent) /\ WF_vars(RestartStep)

-----------------------------------------------------------------------------
(* Properties.                                                             *)

\* An accept loop ends for a broken socket or after FailureLimit per-connection
\* errors with no accepted connection between them, whatever exhaustion came between.
GivesUpInARow == ~early

\* A server whose end wait_stopped reports serves no connection, old requests included.
StoppedIsQuiet ==
  \A g \in Gens : srv[g].st = "stopped" =>
    /\ \A c \in Conns : conn[c].g # g
    /\ \A f \in Families : lsn[g][f].st = "closed"

\* While the loop runs, a server that accepts connections and was not told to
\* stop is the one the CLI knows and is plain exactly when a link is on.
LinkMatchesServer ==
  pc = "loop" => \A g \in Gens : (srv[g].st = "up" /\ ~srv[g].stop) => g = gen /\ srv[g].web = web

\* The state invariant of the servers: loops give up only for errors in a row,
\* stopped servers are quiet, and the one in use is the one the CLI shows.
ServersSound == TypeOK /\ GivesUpInARow /\ StoppedIsQuiet /\ LinkMatchesServer

\* A prompt on the screen belongs to a request that still waits, or its
\* withdrawal is on its way, across restarts of the server too.
PromptIsLive ==
  pending # 0 =>
    \/ Waiting(pending)
    \/ \E t \in spawned : t.k \in {"clear", "abort"} /\ t.s = pending
    \/ \E i \in 1..Len(queue) : queue[i] = [k |-> "aborted", s |-> pending]

\* A server told to stop ends, although its requests may wait for a loop that
\* itself waits for the server.
StopsEnd == <>[](\A g \in Gens : srv[g].stop => srv[g].st = "stopped")

\* A restart gives the loop back to the user whether or not the port could be bound.
RestartEnds == []<>(pc \in {"loop", "quit"})

\* The event loop waits for the server and the server's requests for the
\* loop, and both go on.
RestartsSettle == StopsEnd /\ RestartEnds

\* web_link.rs refuses a link "while a receive is active (the server would
\* restart)": no restart begins with a prompt or a receive under way.
RestartSparesReceive == [][pc = "loop" /\ pc' = "stopping" => NoReceive]_vars
=============================================================================
