---------------------------- MODULE SendTransfer ----------------------------
(***************************************************************************)
(* The CLI sending files to another device: the app (interactive, `send`   *)
(* and headless `send --to` mode), the send task it spawns, the HTTP       *)
(* requests of that task, and the receiving device's v2 endpoints at the   *)
(* granularity of whole requests (UploadSession opens them up).            *)
(*                                                                         *)
(* The n-th send of the process has number n, which also stands for the    *)
(* session id the peer gives it.  Log lines are left out.                  *)
(***************************************************************************)
EXTENDS Integers, Sequences, FiniteSets, FiniteSetsExt

CONSTANTS
    Files,      \* the files on disk; integers, in the order of their names
    MaxSends,   \* bound: sends one process starts
    EventCap    \* capacity of the app's channels (64 and 16 in the code)

ASSUME SendAssumption ==
    /\ Files \subseteq Nat /\ IsFiniteSet(Files) /\ Files # {}
    /\ MaxSends \in Nat \ {0}
    /\ EventCap \in Nat \ {0}

VARIABLES
    mode,     \* how the program was started
    exit,     \* the process: running, left with a result, or gone
    overlay,  \* the modal overlay that owns the keyboard
    send,     \* the app's SendState; n = 0 is None
    cancel,   \* SendCancel of each send
    task,     \* the send task of each send
    wire,     \* the HTTP request each task waits on
    events,   \* the app's own event channel
    server,   \* CancelReceived events of the app's own server, by session
    peer,     \* the receiving device: its session slot and what it saved
    notices   \* cancel requests the peer's app is sending to this device

vars == <<mode, exit, overlay, send, cancel, task, wire, events, server, peer, notices>>

Sends == 1..MaxSends
NoSend == [n |-> 0, session |-> 0]
NoTask == [pc |-> "none", accepted |-> {}, left |-> {}, ok |-> FALSE, unheard |-> FALSE]
Quiet == [kind |-> "none", st |-> "none", files |-> {}, whole |-> TRUE, answer |-> "none"]

\* `left` are the files still to upload; `unheard` says that the last answer
\* of the peer never reached the task.
TaskType == [pc : {"none", "prepare", "preparing", "announce", "next", "uploading",
                   "cancel", "cancelling", "end", "over"},
             accepted : SUBSET Files, left : SUBSET Files, ok : BOOLEAN, unheard : BOOLEAN]

\* `files` are the offered, the granted or the uploaded ones; `whole` says that
\* the body has the announced size.
WireType == [kind : {"none", "prepare", "upload", "cancel"},
             st : {"none", "sent", "held", "answered"},
             files : SUBSET Files, whole : BOOLEAN,
             answer : {"none", "refused", "declined", "empty", "accepted", "ok", "failed"}]

\* The slot of the receiving server, its upload handler for each send (0 is
\* none), the files it saved whole and the sessions its user cancelled.
PeerType == [st : {"free", "pending", "active"}, session : 0..MaxSends,
             file : [Files -> {"off", "pending", "busy", "final"}],
             handler : [Sends -> Files \cup {0}],
             saved : [Sends -> SUBSET Files], cancelled : SUBSET Sends]
EventType == [type : {"SendSessionStarted", "SendEnded"}, n : Sends, ok : BOOLEAN]

Alive == exit # "gone"

Init ==
    /\ mode \in {"interactive", "send", "headless"}
    /\ exit = "running"
    /\ overlay = IF mode = "send" THEN "list" ELSE "none"
    /\ send = NoSend
    /\ cancel = [n \in Sends |-> [token |-> FALSE, byPeer |-> FALSE]]
    /\ task = [n \in Sends |-> NoTask]
    /\ wire = [n \in Sends |-> Quiet]
    /\ events = <<>>
    /\ server = <<>>
    /\ peer = [st |-> "free", session |-> 0, file |-> [f \in Files |-> "off"],
               handler |-> [n \in Sends |-> 0], saved |-> [n \in Sends |-> {}],
               cancelled |-> {}]
    /\ notices = {}

-----------------------------------------------------------------------------
(* Starting a send *)

\* collect_path: a picked directory stands for the regular files below it; a
\* path that vanished, or is neither file nor directory, for none.
Expanded == SUBSET Files

\* collect_files: of those, the ones that are still readable files.
Collected == UNION {SUBSET paths : paths \in Expanded}

\* spawn_send: no dialable address or nothing collected is an error;
\* otherwise the state is recorded and the task spawned.
Spawn(files) ==
    \E n \in Sends :
        /\ task[n].pc = "none" /\ \A k \in 1..(n - 1) : task[k].pc # "none"
        /\ send' = [n |-> n, session |-> 0]
        /\ task' = [task EXCEPT ![n] = [NoTask EXCEPT !.pc = "prepare", !.left = files]]

\* App::start_send: one send at a time; an error only logs.
StartSend ==
    \/ /\ send.n = 0
       /\ \E files \in Collected \ {{}} : Spawn(files)
    \/ UNCHANGED <<send, task>>

\* D opens the device list.  It is offered while a send is running too.
OpenDeviceList ==
    /\ exit = "running" /\ mode # "headless" /\ overlay = "none"
    /\ overlay' = "list"
    /\ UNCHANGED <<mode, exit, send, cancel, task, wire, events, server, peer, notices>>

\* A hotkey, or a device chosen in the list: in `send` mode the preselected
\* files go out, otherwise the picker opens unless a send is in progress.
PickDevice ==
    /\ exit = "running" /\ mode # "headless" /\ overlay \in {"none", "list"}
    /\ IF mode = "send"
       THEN overlay' = "none" /\ StartSend
       ELSE /\ overlay' = IF send.n # 0 THEN "none" ELSE "picker"
            /\ UNCHANGED <<send, task>>
    /\ UNCHANGED <<mode, exit, cancel, wire, events, server, peer, notices>>

\* Picker::handle_key: Enter on a file returns the marked files or that one,
\* Esc without a query gives up; every other key leaves the picker open.
PickerOutcomes == {"Picked", "Cancelled"}

\* handle_picker_key: either outcome closes the picker.
PickerKey ==
    /\ exit = "running" /\ overlay = "picker"
    /\ overlay' = "none"
    /\ \E outcome \in PickerOutcomes :
          IF outcome = "Picked" THEN StartSend ELSE UNCHANGED <<send, task>>
    /\ UNCHANGED <<mode, exit, cancel, wire, events, server, peer, notices>>

\* TargetSelector::resolve: `--to` must single out one discovered device.
Resolved(matching) == matching = 1

\* DiscoveryFinished in headless mode, which comes once: the destination is
\* resolved and files could be collected, or the program ends with the reason.
DiscoveryFinished ==
    /\ exit = "running" /\ mode = "headless" /\ task[1].pc = "none"
    /\ \E matching \in 0..2, files \in Collected :
          IF Resolved(matching) /\ files # {}
          THEN Spawn(files) /\ UNCHANGED exit
          ELSE exit' = "error" /\ UNCHANGED <<send, task>>
    /\ UNCHANGED <<mode, overlay, cancel, wire, events, server, peer, notices>>

\* Mutant: Ctrl-C drops the SendState at once instead of waiting for SendEnded.
CtrlCForgets ==
    /\ exit = "running" /\ mode # "headless"
    /\ overlay' = "none"
    /\ exit' = IF (overlay = "list" /\ mode = "send") \/ (overlay = "none" /\ send.n = 0)
               THEN "ok" ELSE exit
    /\ cancel' = IF overlay = "none" /\ send.n # 0
                 THEN [cancel EXCEPT ![send.n].token = TRUE] ELSE cancel
    /\ send' = IF overlay = "none" THEN NoSend ELSE send
    /\ UNCHANGED <<mode, task, wire, events, server, peer, notices>>

\* handle_ctrl_c (a receive under way is ServerLifecycle's subject): an open
\* overlay closes, which in `send` mode leaves the program when it was the
\* list; otherwise the send is cancelled, or the program quits.
CtrlC ==
    /\ exit = "running" /\ mode # "headless"
    /\ overlay' = "none"
    /\ exit' = IF (overlay = "list" /\ mode = "send") \/ (overlay = "none" /\ send.n = 0)
               THEN "ok" ELSE exit
    /\ cancel' = IF overlay = "none" /\ send.n # 0
                 THEN [cancel EXCEPT ![send.n].token = TRUE] ELSE cancel
    /\ UNCHANGED <<mode, send, task, wire, events, server, peer, notices>>

\* handle_device_list_key, Closed: as Ctrl-C on the open list.
CloseDeviceList ==
    /\ exit = "running" /\ overlay = "list"
    /\ overlay' = "none"
    /\ exit' = IF mode = "send" THEN "ok" ELSE exit
    /\ UNCHANGED <<mode, send, cancel, task, wire, events, server, peer, notices>>

-----------------------------------------------------------------------------
(* The send task *)

Step(n, pc) == Alive /\ task[n].pc = pc

\* A request leaves the task's client.
Post(n, kind, files, whole) ==
    wire' = [wire EXCEPT ![n] = [kind |-> kind, st |-> "sent", files |-> files,
                                 whole |-> whole, answer |-> "none"]]

\* The task goes on at pc and no longer waits on a request.
Leave(n, pc) ==
    /\ task' = [task EXCEPT ![n].pc = pc]
    /\ wire' = [wire EXCEPT ![n] = Quiet]

TaskFrame == UNCHANGED <<mode, exit, overlay, send, cancel, server, peer, notices>>

Prepare(n) ==
    /\ Step(n, "prepare")
    /\ Post(n, "prepare", task[n].left, TRUE)
    /\ task' = [task EXCEPT ![n].pc = "preparing"]
    /\ TaskFrame /\ UNCHANGED events

\* The answer to prepare-upload: only an accepted session goes on.
Prepared(n) ==
    /\ Step(n, "preparing") /\ wire[n].st = "answered"
    /\ wire' = [wire EXCEPT ![n] = Quiet]
    /\ task' = [task EXCEPT ![n] =
            IF wire[n].answer = "accepted"
            THEN [@ EXCEPT !.pc = "announce", !.accepted = wire[n].files,
                           !.left = wire[n].files]
            ELSE [@ EXCEPT !.pc = "end"]]
    /\ TaskFrame /\ UNCHANGED events

\* Mutant: only the peer's answer ends the wait.
PrepareCancelledNever(n) ==
    /\ Step(n, "preparing") /\ wire[n].st = "answered" /\ cancel[n].token
    /\ Leave(n, "end")
    /\ TaskFrame /\ UNCHANGED events

\* The token ends the wait, whatever the peer has decided meanwhile; the task
\* never learns the session id.
PrepareCancelled(n) ==
    /\ Step(n, "preparing") /\ cancel[n].token
    /\ task' = [task EXCEPT ![n].pc = "end", ![n].unheard = TRUE]
    /\ wire' = [wire EXCEPT ![n] = Quiet]
    /\ TaskFrame /\ UNCHANGED events

\* Mutant: the channel takes one event more than it holds.
RoomForOneMore(q) == Len(q) <= EventCap

Room(q) == Len(q) < EventCap

\* SendSessionStarted tells the app the session id.
Announce(n) ==
    /\ Step(n, "announce") /\ Room(events)
    /\ events' = Append(events, [type |-> "SendSessionStarted", n |-> n, ok |-> FALSE])
    /\ task' = [task EXCEPT ![n].pc = "next"]
    /\ TaskFrame /\ UNCHANGED wire

\* FileContent::into_receiver: how reading a file for its body can end.  The
\* stream just closes in each case, and the body is whole only in the first.
Reads == {"complete", "cannot open", "read error", "changed size"}

\* LsHttpClientV2::upload of the first file in the order of the names.
Upload(n) == \E read \in Reads : Post(n, "upload", {Min(task[n].left)}, read = "complete")

\* The next file; without one the send succeeded.
NextFile(n) ==
    /\ Step(n, "next")
    /\ IF task[n].left = {}
       THEN /\ task' = [task EXCEPT ![n].pc = "end", ![n].ok = TRUE]
            /\ UNCHANGED wire
       ELSE /\ Upload(n)
            /\ task' = [task EXCEPT ![n].pc = "uploading"]
    /\ TaskFrame /\ UNCHANGED events

Uploaded(n) ==
    /\ Step(n, "uploading") /\ wire[n].st = "answered" /\ wire[n].answer = "ok"
    /\ wire' = [wire EXCEPT ![n] = Quiet]
    /\ task' = [task EXCEPT ![n].pc = "next", ![n].left = @ \ wire[n].files]
    /\ TaskFrame /\ UNCHANGED events

\* Mutant: a failed upload ends the send without telling the peer.
UploadFailedSilently(n) ==
    /\ Step(n, "uploading") /\ wire[n].st = "answered" /\ wire[n].answer # "ok"
    /\ Leave(n, "end")
    /\ TaskFrame /\ UNCHANGED events

\* An upload the peer refuses or fails to save cancels the session.
UploadFailed(n) ==
    /\ Step(n, "uploading") /\ wire[n].st = "answered" /\ wire[n].answer # "ok"
    /\ Leave(n, "cancel")
    /\ TaskFrame /\ UNCHANGED events

\* The token: the peer is told unless it cancelled itself.
UploadCancelled(n) ==
    /\ Step(n, "uploading") /\ cancel[n].token
    /\ Leave(n, IF cancel[n].byPeer THEN "end" ELSE "cancel")
    /\ TaskFrame /\ UNCHANGED events

Cancel(n) ==
    /\ Step(n, "cancel")
    /\ Post(n, "cancel", {}, TRUE)
    /\ task' = [task EXCEPT ![n].pc = "cancelling"]
    /\ TaskFrame /\ UNCHANGED events

Cancelled(n) ==
    /\ Step(n, "cancelling") /\ wire[n].st = "answered"
    /\ Leave(n, "end")
    /\ TaskFrame /\ UNCHANGED events

\* A connection that breaks, times out or shows the wrong certificate.
Broken(n) ==
    /\ Alive /\ wire[n].kind # "none"
    /\ wire' = [wire EXCEPT ![n] = Quiet]
    /\ task' = [task EXCEPT ![n].pc = IF wire[n].kind = "upload" THEN "cancel" ELSE "end",
                            ![n].unheard = @ \/ wire[n].kind # "upload"]
    /\ TaskFrame /\ UNCHANGED events

\* run_send ends with SendEnded.
End(n) ==
    /\ Step(n, "end") /\ Room(events)
    /\ events' = Append(events, [type |-> "SendEnded", n |-> n, ok |-> task[n].ok])
    /\ task' = [task EXCEPT ![n].pc = "over", ![n].left = {}, ![n].accepted = {}]
    /\ TaskFrame /\ UNCHANGED wire

-----------------------------------------------------------------------------
(* The app's event loop *)

\* The two events of the task come in the order it sent them.
SessionStarted(e) == IF send.n # 0 THEN [send EXCEPT !.session = e.n] ELSE send
Result(e) == IF e.ok THEN "ok" ELSE "error"

\* App::dispatch.  SendEnded is the end of the program in `send` mode.
HandleEvent ==
    /\ exit = "running" /\ mode # "headless" /\ events # <<>>
    /\ events' = Tail(events)
    /\ LET e == Head(events) IN
       IF e.type = "SendSessionStarted"
       THEN send' = SessionStarted(e) /\ UNCHANGED exit
       ELSE send' = NoSend /\ exit' = IF mode = "send" THEN Result(e) ELSE exit
    /\ UNCHANGED <<mode, overlay, cancel, task, wire, server, peer, notices>>

\* The loop of headless::run, which SendEnded breaks with the state in place.
HeadlessEvent ==
    /\ exit = "running" /\ mode = "headless" /\ events # <<>>
    /\ events' = Tail(events)
    /\ LET e == Head(events) IN
       IF e.type = "SendSessionStarted"
       THEN send' = SessionStarted(e) /\ UNCHANGED exit
       ELSE exit' = Result(e) /\ UNCHANGED send
    /\ UNCHANGED <<mode, overlay, cancel, task, wire, server, peer, notices>>

\* Mutant: the session of the cancel is not compared.
CancelsAny(session) == send.n # 0

\* CancelReceived counts for the send under way only, by its session id.
Cancels(session) == send.n # 0 /\ send.session = session

HandleCancelReceived ==
    /\ exit = "running" /\ server # <<>>
    /\ server' = Tail(server)
    /\ cancel' = IF Cancels(Head(server))
                 THEN [cancel EXCEPT ![send.n] = [token |-> TRUE, byPeer |-> TRUE]]
                 ELSE cancel
    /\ UNCHANGED <<mode, exit, overlay, send, task, wire, events, peer, notices>>

\* After the loop the process ends, and every connection with it.
Die ==
    /\ exit \in {"ok", "error"}
    /\ exit' = "gone"
    /\ wire' = [n \in Sends |-> Quiet]
    /\ UNCHANGED <<mode, overlay, send, cancel, task, events, server, peer, notices>>

-----------------------------------------------------------------------------
(* The receiving device *)

\* The slot without a session.
Freed(p) == [p EXCEPT !.st = "free", !.session = 0, !.file = [f \in Files |-> "off"]]

PeerFrame == UNCHANGED <<mode, exit, overlay, send, cancel, task, events, server>>
Arrived(n, kind) == wire[n].kind = kind /\ wire[n].st = "sent"

\* The answer travels back if the client still waits on this request.
Reply(n, kind, st, answer, files) ==
    wire' = IF wire[n].kind = kind /\ wire[n].st = st
            THEN [wire EXCEPT ![n].st = "answered", ![n].answer = answer, ![n].files = files]
            ELSE wire

\* prepare-upload: refused (a PIN, too many requests, a busy slot) or pending.
PeerPrepare(n) ==
    /\ Arrived(n, "prepare")
    /\ \/ /\ Reply(n, "prepare", "sent", "refused", {}) /\ UNCHANGED peer
       \/ /\ peer.st = "free"
          /\ peer' = [peer EXCEPT !.st = "pending", !.session = n,
                         !.file = [f \in Files |-> IF f \in wire[n].files THEN "pending" ELSE "off"]]
          /\ wire' = [wire EXCEPT ![n].st = "held"]
    /\ PeerFrame /\ UNCHANGED notices

Waiting(n) == wire[n].kind = "prepare" /\ wire[n].st = "held"

\* The peer's user decides.  Accepting starts the session, whether or not the
\* sender still waits: the server learns of a closed connection later.
PeerDecides ==
    /\ peer.st = "pending"
    /\ LET n == peer.session IN
       \/ /\ peer' = Freed(peer)
          /\ \E answer \in {"declined", "empty"} : Reply(n, "prepare", "held", answer, {})
       \/ \E files \in (SUBSET {f \in Files : peer.file[f] = "pending"}) \ {{}} :
             /\ peer' = [peer EXCEPT !.st = "active",
                            !.file = [f \in Files |-> IF f \in files THEN @[f] ELSE "off"]]
             /\ Reply(n, "prepare", "held", "accepted", files)
    /\ PeerFrame /\ UNCHANGED notices

\* The server notices that the sender has gone.
PeerAborts ==
    /\ peer.st = "pending" /\ ~Waiting(peer.session)
    /\ peer' = Freed(peer)
    /\ PeerFrame /\ UNCHANGED <<wire, notices>>

InSession(n) == peer.st = "active" /\ peer.session = n

\* An upload starts when its session is active and the file not yet taken.
PeerUpload(n) ==
    /\ Arrived(n, "upload")
    /\ LET f == Min(wire[n].files) IN
       IF InSession(n) /\ peer.file[f] = "pending"
       THEN /\ peer' = [peer EXCEPT !.file[f] = "busy", !.handler[n] = f]
            /\ wire' = [wire EXCEPT ![n].st = "held"]
       ELSE Reply(n, "upload", "sent", "failed", {}) /\ UNCHANGED peer
    /\ PeerFrame /\ UNCHANGED notices

\* Mutant: the size of the body is not compared with the announced one.
SizeMatchesAny(n) == TRUE

\* save_req_to_target: as many bytes as announced.
SizeMatches(n) == wire[n].whole

\* finalize_file: the status counts in the session it belongs to, which ends
\* when no file is left.
Finalized(n, f) ==
    LET file == [peer.file EXCEPT ![f] = "final"]
        done == \A g \in Files : file[g] \in {"off", "final"}
    IN CASE ~InSession(n) -> peer
         [] InSession(n) /\ done -> Freed(peer)
         [] OTHER -> [peer EXCEPT !.file = file]

\* The upload handler ends: saved, failed, or aborted with its connection.
\* A session cancelled meanwhile does not stop it.
PeerSaves(n) ==
    LET f == peer.handler[n]
        connected == wire[n].kind = "upload" /\ wire[n].st = "held"
    IN /\ f # 0
       /\ \/ /\ connected /\ SizeMatches(n)
             /\ peer' = [Finalized(n, f) EXCEPT !.handler[n] = 0,
                            !.saved[n] = IF wire[n].whole THEN @ \cup {f} ELSE @]
             /\ Reply(n, "upload", "held", "ok", {f})
          \/ /\ peer' = [Finalized(n, f) EXCEPT !.handler[n] = 0]
             /\ Reply(n, "upload", "held", "failed", {})
       /\ PeerFrame /\ UNCHANGED notices

\* The cancel endpoint frees the slot of that session.
PeerCancel(n) ==
    /\ Arrived(n, "cancel")
    /\ peer' = IF InSession(n) THEN Freed(peer) ELSE peer
    /\ Reply(n, "cancel", "sent", "ok", {})
    /\ PeerFrame /\ UNCHANGED notices

\* cancel_receive on the peer: its server drops the session, then it sends a
\* cancel request of its own to this device.
PeerUserCancels ==
    /\ peer.st = "active"
    /\ peer' = [Freed(peer) EXCEPT !.cancelled = @ \cup {peer.session}]
    /\ notices' = notices \cup {peer.session}
    /\ PeerFrame /\ UNCHANGED wire

\* It reaches this device's own cancel endpoint, or is lost.
Notice(n) ==
    /\ n \in notices
    /\ notices' = notices \ {n}
    /\ \/ Alive /\ Room(server) /\ server' = Append(server, n)
       \/ UNCHANGED server
    /\ UNCHANGED <<mode, exit, overlay, send, cancel, task, wire, events, peer>>

-----------------------------------------------------------------------------
TaskStep(n) ==
    \/ Prepare(n) \/ Prepared(n) \/ PrepareCancelled(n) \/ Announce(n) \/ NextFile(n)
    \/ Uploaded(n) \/ UploadFailed(n) \/ UploadCancelled(n) \/ Cancel(n) \/ Cancelled(n)
    \/ End(n)

\* What the peer's server does by itself.
PeerStep(n) == PeerPrepare(n) \/ PeerUpload(n) \/ PeerSaves(n) \/ PeerCancel(n)

Next ==
    \/ OpenDeviceList \/ PickDevice \/ PickerKey \/ DiscoveryFinished \/ CtrlC
    \/ CloseDeviceList \/ HandleEvent \/ HeadlessEvent \/ HandleCancelReceived \/ Die
    \/ PeerDecides \/ PeerAborts \/ PeerUserCancels
    \/ \E n \in Sends : TaskStep(n) \/ Broken(n) \/ PeerStep(n) \/ Notice(n)

Spec == Init /\ [][Next]_vars

\* The runtime runs every task and the app's loop, and the peer's server
\* handles the requests that reach it.  Nobody has to press a key or decide.
FairSpec ==
    /\ Spec
    /\ WF_vars(HandleEvent \/ HeadlessEvent) /\ WF_vars(Die) /\ WF_vars(PeerAborts)
    /\ \A n \in Sends : WF_vars(TaskStep(n)) /\ WF_vars(PeerStep(n))

-----------------------------------------------------------------------------
(* Properties *)

\* Every variable has its type and no channel outgrows its capacity.
TypeOK ==
    /\ mode \in {"interactive", "send", "headless"}
    /\ exit \in {"running", "ok", "error", "gone"}
    /\ overlay \in {"none", "list", "picker"}
    /\ send \in [n : 0..MaxSends, session : 0..MaxSends]
    /\ cancel \in [Sends -> [token : BOOLEAN, byPeer : BOOLEAN]]
    /\ task \in [Sends -> TaskType]
    /\ wire \in [Sends -> WireType]
    /\ events \in Seq(EventType) /\ server \in Seq(Sends)
    /\ Len(events) <= EventCap /\ Len(server) <= EventCap
    /\ peer \in PeerType
    /\ notices \subseteq Sends

\* A send that reports success has every accepted file whole on the peer's
\* disk: run_send's `true`, across bodies cut short, cancels of either side
\* and the session ending under the uploads.
SuccessMeansSaved ==
    \A n \in Sends : task[n].ok => task[n].accepted \subseteq peer.saved[n]

\* As long as a send task runs, or its SendEnded is on the way, the app's
\* SendState is that send's: no second one starts, and a session id the app
\* knows is the one the running task uploads to.
SendTracked ==
    \A n \in Sends :
        exit = "running" /\ (\/ task[n].pc \notin {"none", "over"}
                             \/ \E i \in DOMAIN events : events[i].n = n)
            => send.n = n /\ send.session \in {0, n}

\* Only the peer that takes part in a send cancels it from afar: a late
\* CancelReceived of an earlier session never stops the current one.
PeerCancelsOwn == \A n \in Sends : cancel[n].byPeer => n \in peer.cancelled

\* A send that is over leaves no session behind on the peer, unless the answer
\* to its last request was lost: every error path cancels, and the paths that
\* do not (success, cancelled by the receiver) leave a session that has ended.
NoSessionLeft ==
    \A n \in Sends : task[n].pc \in {"end", "over"} /\ ~task[n].unheard => ~InSession(n)

\* The state invariant of sending: the app's record is that of the send under
\* way, only its own peer cancels it, and it leaves no session behind.
SendsSound == TypeOK /\ SendTracked /\ PeerCancelsOwn /\ NoSessionLeft

\* Ctrl-C gets through: once its token is cancelled a send ends, whatever the
\* peer's user does, and so does one the peer has accepted.  A token stays
\* cancelled and a send that is over stays over, so this says `eventually` of
\* every send.
SendEnds ==
    <>[](Alive => \A n \in Sends :
            cancel[n].token \/ task[n].accepted # {} => task[n].pc = "over")

\* handle_ctrl_c quits only when there was nothing to cancel: leaving the
\* program by a key means that no send is under way.
QuitsOnlyIdle == [][exit = "running" /\ exit' = "ok" /\ CtrlC => send.n = 0]_vars
=============================================================================
