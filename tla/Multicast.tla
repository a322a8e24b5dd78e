----------------------------- MODULE Multicast -----------------------------
(***************************************************************************)
(* UDP multicast and the life of a discovery instance.                     *)
(*                                                                         *)
(* packages/core/src/multicast/mod.rs: one receive loop per bound socket,  *)
(* and a supervisor that ends them.                                        *)
(* packages/core/src/discovery/mod.rs: the task that reads the multicast   *)
(* channel.  linko_isolates/rust/src/api/discovery.rs: the process-wide    *)
(* RUNNING_DISCOVERY slot, start_discovery, stop and listen as the         *)
(* application uses them, a hot restart of the application included.       *)
(*                                                                         *)
(* Every started discovery is an instance.  What an announcement of a peer *)
(* leads to (register request, device store) is module Discovery's.        *)
(***************************************************************************)
EXTENDS Naturals, Sequences, FiniteSets

CONSTANTS
    Instances,   \* the calls of start_discovery, numbered as they come
    NoInstance,  \* an empty RUNNING_DISCOVERY
    Sockets,     \* the sockets bound by one instance
    MaxErrors,   \* MAX_CONSECUTIVE_RECEIVE_ERRORS
    QueueCap,    \* capacity of the multicast channel (MULTICAST_CHANNEL_SIZE)
    DiscoveryCap \* capacity of the discovery event channel

ASSUME NaturalBounds ==
    /\ {MaxErrors, QueueCap, DiscoveryCap} \subseteq Nat \ {0}
    /\ Instances \subseteq Nat
    /\ NoInstance \notin Instances

VARIABLES
    rx,       \* rx[n][i]: the receive loop of socket i of instance n
    since,    \* history: failed reads of a socket since a datagram came
    queue,    \* queue[n]: the multicast channel
    sup,      \* the supervisor task of multicast::start
    stopTx,   \* the stop_tx slot of DiscoveryInstance: its sender and its lock
    sockets,  \* the sockets MulticastState::send announces on
    events,   \* events[n]: the discovery event channel
    listener, \* RsDiscovery::listen
    cancel,   \* DiscoveryInstance.cancel
    dart,     \* whether the Dart owner of the instance is alive
    running,  \* RUNNING_DISCOVERY: its value and the call holding its lock
    start,    \* pc of start_discovery
    stop,     \* pc of RsDiscovery::stop
    lost      \* history: a failure event that met a full channel

mcVars == <<rx, since, queue, sup, sockets>>
apiVars == <<stopTx, events, listener, cancel, dart, running, start, stop>>
multicastVars == <<mcVars, apiVars, lost>>

(***************************************************************************)
(* The calls that stop an instance: its owner's, and the next start's.     *)
(***************************************************************************)
Stopping(n) == <<"stop", n>>
Starting(n) == <<"start", n>>
Callers == {Stopping(n) : n \in Instances} \cup {Starting(n) : n \in Instances}
Nobody == <<"nobody">>

RxStates == {"none", "read", "send", "failed", "ended"}
SupStates == {"none", "select", "closing", "done"}

MulticastTypeOK ==
    /\ rx \in [Instances -> [Sockets -> [st : RxStates, errs : 0 .. MaxErrors]]]
    /\ since \in [Instances -> [Sockets -> Nat]]
    /\ queue \in [Instances -> Seq({"announced", "failed"})]
    /\ events \in [Instances -> Seq({"device", "failed"})]
    /\ \A n \in Instances : Len(queue[n]) <= QueueCap /\ Len(events[n]) <= DiscoveryCap
    /\ sup \in [Instances -> SupStates]
    /\ stopTx \in [Instances -> [sender : {"none", "held", "sent", "taken"},
                                 lock : Callers \cup {Nobody}]]
    /\ sockets \in [Instances -> SUBSET Sockets]
    /\ listener \in [Instances -> {"none", "listening", "ended"}]
    /\ cancel \in [Instances -> BOOLEAN]
    /\ dart \in [Instances -> BOOLEAN]
    /\ running \in [value : Instances \cup {NoInstance}, lock : Callers \cup {Nobody}]
    /\ start \in [Instances -> {"idle", "lock", "take", "wait", "bind", "done"}]
    /\ stop \in [Instances -> {"idle", "take", "wait", "clear", "done"}]
    /\ lost \in [Instances -> BOOLEAN]

MulticastInit ==
    /\ rx = [n \in Instances |-> [i \in Sockets |-> [st |-> "none", errs |-> 0]]]
    /\ since = [n \in Instances |-> [i \in Sockets |-> 0]]
    /\ queue = [n \in Instances |-> <<>>]
    /\ sup = [n \in Instances |-> "none"]
    /\ stopTx = [n \in Instances |-> [sender |-> "none", lock |-> Nobody]]
    /\ sockets = [n \in Instances |-> {}]
    /\ events = [n \in Instances |-> <<>>]
    /\ listener = [n \in Instances |-> "none"]
    /\ cancel = [n \in Instances |-> FALSE]
    /\ dart = [n \in Instances |-> FALSE]
    /\ running = [value |-> NoInstance, lock |-> Nobody]
    /\ start = [n \in Instances |-> "idle"]
    /\ stop = [n \in Instances |-> "idle"]
    /\ lost = [n \in Instances |-> FALSE]

(***************************************************************************)
(* receive_loop                                                            *)
(***************************************************************************)

\* Mutant: errors are counted over the whole run.
AfterReadCounting(loop, st) == [loop EXCEPT !.st = st]

\* A successful read ends the run of errors.
AfterRead(loop, st) == [loop EXCEPT !.st = st, !.errs = 0]

\* A datagram that cannot be parsed, or this device's own announcement coming
\* back, is skipped ("ignored"); a peer's is to be sent on ("announced").
Receive(n, i, datagram) ==
    /\ rx[n][i].st = "read"
    /\ rx' = [rx EXCEPT ![n][i] =
                 AfterRead(@, IF datagram = "announced" THEN "send" ELSE "read")]
    /\ since' = [since EXCEPT ![n][i] = 0]
    /\ UNCHANGED <<queue, sup, sockets, apiVars, lost>>

\* Mutant: one error too many.
GivesUpLate(errs) == errs > MaxErrors

GivesUp(errs) == errs >= MaxErrors

ReceiveFails(n, i) ==
    LET errs == rx[n][i].errs + 1
    IN  /\ rx[n][i].st = "read"
        /\ rx' = [rx EXCEPT ![n][i] =
                     [st |-> IF GivesUp(errs) THEN "failed" ELSE "read", errs |-> errs]]
        /\ since' = [since EXCEPT ![n][i] = @ + 1]
        /\ UNCHANGED <<queue, sup, sockets, apiVars, lost>>

\* event_tx.send waits for room in the channel, not for a cancellation.
SendEvent(n, i) ==
    /\ rx[n][i].st = "send"
    /\ Len(queue[n]) < QueueCap
    /\ queue' = [queue EXCEPT ![n] = Append(@, "announced")]
    /\ rx' = [rx EXCEPT ![n][i].st = "read"]
    /\ UNCHANGED <<since, sup, sockets, apiVars, lost>>

(***************************************************************************)
(* The supervisor task                                                     *)
(***************************************************************************)
AllEnded(n) == \A i \in Sockets : rx[n][i].st \in {"failed", "ended"}

\* Both branches of the select lead to the same shutdown.
SupFailed(n) ==
    /\ sup[n] = "select"
    /\ AllEnded(n)
    /\ IF Len(queue[n]) < QueueCap
       THEN queue' = [queue EXCEPT ![n] = Append(@, "failed")] /\ UNCHANGED lost
       ELSE lost' = [lost EXCEPT ![n] = TRUE] /\ UNCHANGED queue
    /\ sup' = [sup EXCEPT ![n] = "closing"]
    /\ UNCHANGED <<rx, since, sockets, apiVars>>

SupStopped(n) ==
    /\ sup[n] = "select"
    /\ stopTx[n].sender = "sent"
    /\ sup' = [sup EXCEPT ![n] = "closing"]
    /\ UNCHANGED <<rx, since, queue, sockets, apiVars, lost>>

\* The loops see the cancellation, or receivers.shutdown aborts them wherever
\* they wait, a full channel included; then the announcing side is emptied.
Ended == [st |-> "ended", errs |-> 0]
Shutdown(loop) == IF loop.st \in {"read", "send"} THEN Ended ELSE loop

SupClose(n) ==
    /\ sup[n] = "closing"
    /\ rx' = [rx EXCEPT ![n] = [i \in Sockets |-> Shutdown(@[i])]]
    /\ since' = [since EXCEPT ![n] = [i \in Sockets |-> IF rx[n][i].st = "failed" THEN @[i] ELSE 0]]
    /\ sockets' = [sockets EXCEPT ![n] = {}]
    /\ sup' = [sup EXCEPT ![n] = "done"]
    /\ UNCHANGED <<queue, apiVars, lost>>

(***************************************************************************)
(* discovery::start's task: announcements are answered (module Discovery), *)
(* a failure is passed on with try_send.                                   *)
(***************************************************************************)
EventsOpen(n) == listener[n] # "ended"

Answer(n) ==
    /\ queue[n] # <<>>
    /\ queue' = [queue EXCEPT ![n] = Tail(@)]
    /\ IF Head(queue[n]) = "announced" \/ ~EventsOpen(n)
       THEN UNCHANGED <<events, lost>>
       ELSE IF Len(events[n]) < DiscoveryCap
       THEN events' = [events EXCEPT ![n] = Append(@, "failed")] /\ UNCHANGED lost
       ELSE lost' = [lost EXCEPT ![n] = TRUE] /\ UNCHANGED events
    /\ UNCHANGED <<rx, since, sup, sockets, stopTx, listener, cancel, dart,
                   running, start, stop>>

\* DiscoveryState::found emits with try_send, whatever the multicast side does.
Confirm(n) ==
    /\ start[n] = "done"
    /\ EventsOpen(n) /\ Len(events[n]) < DiscoveryCap
    /\ events' = [events EXCEPT ![n] = Append(@, "device")]
    /\ UNCHANGED <<mcVars, stopTx, listener, cancel, dart, running, start, stop, lost>>

(***************************************************************************)
(* RsDiscovery::listen                                                     *)
(***************************************************************************)
Listen(n) ==
    /\ start[n] = "done" /\ dart[n]
    /\ listener[n] = "none"
    /\ listener' = [listener EXCEPT ![n] = "listening"]
    /\ UNCHANGED <<mcVars, stopTx, events, cancel, dart, running, start, stop, lost>>

\* Mutant: the failure of the sockets is not an end of the stream.
StreamEndsOnGone(n, event) == ~dart[n]

\* The stream ends on a failure, and on a device when Dart is gone.
StreamEnds(n, event) == event = "failed" \/ ~dart[n]

ListenEvent(n) ==
    /\ listener[n] = "listening"
    /\ events[n] # <<>>
    /\ IF StreamEnds(n, Head(events[n]))
       THEN /\ listener' = [listener EXCEPT ![n] = "ended"]
            /\ events' = [events EXCEPT ![n] = <<>>]
       ELSE /\ events' = [events EXCEPT ![n] = Tail(@)]
            /\ UNCHANGED listener
    /\ UNCHANGED <<mcVars, stopTx, cancel, dart, running, start, stop, lost>>

ListenCancelled(n) ==
    /\ listener[n] = "listening"
    /\ cancel[n]
    /\ listener' = [listener EXCEPT ![n] = "ended"]
    /\ events' = [events EXCEPT ![n] = <<>>]
    /\ UNCHANGED <<mcVars, stopTx, cancel, dart, running, start, stop, lost>>

(***************************************************************************)
(* DiscoveryInstance::stop, called by c on instance n.  The guard of the   *)
(* stop_tx lock is a temporary of the `if let`: it lives until its block   *)
(* ends, so the lock is held while the first caller waits.                 *)
(***************************************************************************)
\* Mutant: the guard is dropped before the wait, so a second caller passes.
LockStopTxBriefly(n, c) ==
    stopTx' = [stopTx EXCEPT ![n] = IF @.sender = "held" THEN [sender |-> "sent", lock |-> c] ELSE @]

LockStopTx(n, c) ==
    /\ stopTx[n].lock = Nobody
    /\ stopTx' = [stopTx EXCEPT ![n] = IF @.sender = "held" THEN [sender |-> "sent", lock |-> c] ELSE @]

\* wait_stopped joins the supervisor, unless there never was one.
MulticastStopped(n) == sup[n] \in {"none", "done"}

\* Mutant: the stream is not told of the stop.
WaitedSilently(n, c) ==
    /\ IF stopTx[n].lock = c
       THEN /\ MulticastStopped(n)
            /\ stopTx' = [stopTx EXCEPT ![n] = [sender |-> "taken", lock |-> Nobody]]
       ELSE UNCHANGED stopTx
    /\ UNCHANGED cancel

Waited(n, c) ==
    /\ IF stopTx[n].lock = c
       THEN /\ MulticastStopped(n)
            /\ stopTx' = [stopTx EXCEPT ![n] = [sender |-> "taken", lock |-> Nobody]]
       ELSE UNCHANGED stopTx
    /\ cancel' = [cancel EXCEPT ![n] = TRUE]

(***************************************************************************)
(* RsDiscovery::stop                                                       *)
(***************************************************************************)
Stop(n) ==
    /\ start[n] = "done" /\ dart[n]
    /\ stop[n] = "idle"
    /\ stop' = [stop EXCEPT ![n] = "take"]
    /\ UNCHANGED <<mcVars, stopTx, events, listener, cancel, dart, running, start, lost>>

StopTake(n) ==
    /\ stop[n] = "take"
    /\ LockStopTx(n, Stopping(n))
    /\ stop' = [stop EXCEPT ![n] = "wait"]
    /\ UNCHANGED <<mcVars, events, listener, cancel, dart, running, start, lost>>

StopWait(n) ==
    /\ stop[n] = "wait"
    /\ Waited(n, Stopping(n))
    /\ stop' = [stop EXCEPT ![n] = "clear"]
    /\ UNCHANGED <<mcVars, events, listener, dart, running, start, lost>>

StopClear(n) ==
    /\ stop[n] = "clear"
    /\ running.lock = Nobody
    /\ running' = IF running.value = n THEN [running EXCEPT !.value = NoInstance] ELSE running
    /\ stop' = [stop EXCEPT ![n] = "done"]
    /\ UNCHANGED <<mcVars, stopTx, events, listener, cancel, dart, start, lost>>

(***************************************************************************)
(* start_discovery: everything under the lock of RUNNING_DISCOVERY         *)
(***************************************************************************)
Start(n) ==
    /\ start[n] = "idle"
    /\ \A m \in Instances : m < n => start[m] # "idle"
    /\ start' = [start EXCEPT ![n] = "lock"]
    /\ UNCHANGED <<mcVars, stopTx, events, listener, cancel, dart, running, stop, lost>>

\* Mutant: a leftover instance is left running.
StartLockOnly(n) ==
    /\ start[n] = "lock"
    /\ running.lock = Nobody
    /\ running' = [running EXCEPT !.lock = Starting(n)]
    /\ start' = [start EXCEPT ![n] = "bind"]
    /\ UNCHANGED <<mcVars, stopTx, events, listener, cancel, dart, stop, lost>>

StartLock(n) ==
    /\ start[n] = "lock"
    /\ running.lock = Nobody
    /\ running' = [running EXCEPT !.lock = Starting(n)]
    /\ start' = [start EXCEPT ![n] = IF running.value = NoInstance THEN "bind" ELSE "take"]
    /\ UNCHANGED <<mcVars, stopTx, events, listener, cancel, dart, stop, lost>>

StartTake(n) ==
    /\ start[n] = "take"
    /\ LockStopTx(running.value, Starting(n))
    /\ start' = [start EXCEPT ![n] = "wait"]
    /\ UNCHANGED <<mcVars, events, listener, cancel, dart, running, stop, lost>>

StartWait(n) ==
    /\ start[n] = "wait"
    /\ Waited(running.value, Starting(n))
    /\ start' = [start EXCEPT ![n] = "bind"]
    /\ UNCHANGED <<mcVars, events, listener, dart, running, stop, lost>>

\* multicast::start: a receive loop for each socket, and the supervisor.
Bind(n) ==
    /\ rx' = [rx EXCEPT ![n] = [i \in Sockets |-> [st |-> "read", errs |-> 0]]]
    /\ sup' = [sup EXCEPT ![n] = "select"]
    /\ sockets' = [sockets EXCEPT ![n] = Sockets]

\* bind_multicast_sockets may yield no socket; discovery then runs without
\* multicast.
StartBind(n, bound) ==
    /\ start[n] = "bind"
    /\ IF bound THEN Bind(n) ELSE UNCHANGED <<rx, sup, sockets>>
    /\ stopTx' = [stopTx EXCEPT ![n].sender = "held"]
    /\ running' = [value |-> n, lock |-> Nobody]
    /\ dart' = [dart EXCEPT ![n] = TRUE]
    /\ start' = [start EXCEPT ![n] = "done"]
    /\ UNCHANGED <<since, queue, events, listener, cancel, stop, lost>>

\* A hot restart kills the Dart owner; the Rust side goes on.
HotRestart(n) ==
    /\ dart[n]
    /\ stop[n] = "idle"
    /\ dart' = [dart EXCEPT ![n] = FALSE]
    /\ UNCHANGED <<mcVars, stopTx, events, listener, cancel, running, start, stop, lost>>

----------------------------------------------------------------------------

Supervisor(n) == SupFailed(n) \/ SupStopped(n) \/ SupClose(n)

StopCall(n) == StopTake(n) \/ StopWait(n) \/ StopClear(n)

StartCall(n) ==
    StartLock(n) \/ StartTake(n) \/ StartWait(n) \/ \E b \in BOOLEAN : StartBind(n, b)

Outside(n) ==
    \/ \E i \in Sockets : \/ \E d \in {"ignored", "announced"} : Receive(n, i, d)
                         \/ ReceiveFails(n, i)
    \/ Confirm(n) \/ Listen(n) \/ Stop(n) \/ Start(n) \/ HotRestart(n)

MulticastNext ==
    \E n \in Instances :
        \/ \E i \in Sockets : SendEvent(n, i)
        \/ Supervisor(n) \/ Answer(n) \/ ListenEvent(n) \/ ListenCancelled(n)
        \/ StopCall(n) \/ StartCall(n)
        \/ Outside(n)

MulticastSpec == MulticastInit /\ [][MulticastNext]_multicastVars

(***************************************************************************)
(* The runtime polls every task that can go on; the network, the user and  *)
(* the application are free.                                               *)
(***************************************************************************)
MulticastFairness ==
    \A n \in Instances :
        /\ \A i \in Sockets : WF_multicastVars(SendEvent(n, i))
        /\ WF_multicastVars(Supervisor(n)) /\ WF_multicastVars(Answer(n))
        /\ WF_multicastVars(ListenEvent(n)) /\ WF_multicastVars(ListenCancelled(n))
        /\ WF_multicastVars(StopCall(n)) /\ WF_multicastVars(StartCall(n))

MulticastFairSpec == MulticastSpec /\ MulticastFairness

----------------------------------------------------------------------------
(***************************************************************************)
(* Properties                                                              *)
(***************************************************************************)

\* receive_loop gives up on a socket only when its last MaxErrors reads all
\* failed: errors spread over the run, with datagrams in between, never
\* silence an interface.
GivesUpInARow ==
    \A n \in Instances, i \in Sockets :
        rx[n][i].st = "failed" => since[n][i] = MaxErrors

\* At most one instance answers announcements that nobody has asked to stop:
\* start_discovery stops the leftover of a hot restart, or of a call that
\* raced it, before it binds the sockets again.
OneRunning ==
    \A m, n \in Instances :
        stopTx[m].sender = "held" /\ stopTx[n].sender = "held" => m = n

\* The state invariants of the sockets and their instances: one instance at a
\* time, whose loops end for errors in a row and never queue past a channel.
SocketsSound == MulticastTypeOK /\ GivesUpInARow /\ OneRunning

\* RsDiscovery::stop returns only after the instance's sockets are closed,
\* also when start_discovery is stopping the same instance at that moment.
StopReleases ==
    \A n \in Instances :
        stop[n] \in {"clear", "done"} =>
            /\ sockets[n] = {}
            /\ \A i \in Sockets : rx[n][i].st \notin {"read", "send"}

\* When every socket of an instance has failed, the application learns it:
\* its event stream ends.  Excused are a channel that was full at the moment
\* of the failure, and a stream nobody listens to.
FailureTold ==
    <>[](\A n \in Instances :
            (sup[n] # "none" /\ \A i \in Sockets : rx[n][i].st = "failed")
                => (listener[n] # "listening" \/ lost[n]))

\* Every stop and every start returns: the receive loops may be blocked on a
\* full channel, another call may be stopping the same instance or hold
\* RUNNING_DISCOVERY.  After a stop the event stream is over.
CallsReturn ==
    <>[](\A n \in Instances :
            /\ stop[n] \in {"idle", "done"}
            /\ start[n] \in {"idle", "done"}
            /\ stop[n] = "done" => listener[n] # "listening")

=============================================================================
