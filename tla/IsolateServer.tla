---------------------------- MODULE IsolateServer ----------------------------
(***************************************************************************)
(* The bridge between the HTTP server and the Flutter application:         *)
(* api/server.rs keeps the responders of requests in tables, forwards the  *)
(* events to Dart and answers a request when a later call names it; the    *)
(* file of an accepted upload is written by a task of its own (save.rs).   *)
(* Four parties move independently: the request handlers, the listen loop, *)
(* the Dart isolates and the calls they make, the file writers.            *)
(*                                                                         *)
(* A session has one file.  The Dart side is external: it is modelled from *)
(* the calls it makes and the events it gets.                              *)
(***************************************************************************)
EXTENDS Naturals, Sequences, FiniteSets

CONSTANTS
  Preps,     \* prepare-upload requests, each the session it becomes
  Uploads,   \* attempts to upload the file of a session
  Downloads, \* web requests: a decision or the content of a file
  KeyOf,     \* the table key of a web request
  ChanCap,   \* capacity of the event channels
  MaxTries,  \* MAX_UPLOAD_ATTEMPTS
  MaxCancel, \* bound: sessions the user cancels
  None

ASSUME IsolateAssumption ==
  /\ {ChanCap, MaxTries} \subseteq Nat \ {0} /\ MaxCancel \in Nat
  /\ None \notin Preps \cup Uploads \cup Downloads

Keys == {KeyOf[d] : d \in Downloads}

VARIABLES
  slot,     \* the session slot of the core
  prep,     \* per prepare-upload request: what its handler awaits
  guard,    \* per prepare-upload request: the task of its dropped guard
  dec,      \* per prepare-upload request: what its responder was sent
  up,       \* per upload: stage, session, what its responder was sent, its body
  writer,   \* per upload: the file writer
  result,   \* per upload: what result_tx of its target was sent
  file,     \* per session: status and tries of its file in the core
  dl,       \* per web request: its handler
  chan,     \* event channels "v2" and "web"
  server,   \* "up", "stopping" or "stopped"
  listen,   \* the channels listen() still reads
  pendingDecision, pendingUploads, pendingWeb, \* the tables of RsHttpServer
  sink,     \* events on their way to Dart
  calls,    \* calls of Dart under way
  ui,       \* the request the main isolate shows, and its answer
  holder,   \* the receive session of the server isolate
  cancels,  \* sessions cancelled by the user so far
  astray    \* history: answers that reached another request than the one shown

core   == <<slot, prep, guard, dec, up, writer, result, file, dl, chan, server>>
bridge == <<listen, pendingDecision, pendingUploads, pendingWeb>>
dart   == <<sink, calls, ui, holder, cancels, astray>>
vars   == <<core, bridge, dart>>

Channels == {"v2", "web"}
Ended == {"done", "gone"}
PrepStages == {"idle", "sending", "waiting"} \cup Ended
UpStages == {"idle", "sending", "waiting", "saving"} \cup Ended
Decisions == {"open", "accept", "nothing", "decline"}
Bodies == {"", "coming", "whole", "short"}
Results == {"", "ok", "error", "aborted"}
Event(k, x) == [k |-> k, x |-> x]
Events == [k : {"prepare", "aborted", "end", "upload", "download"}, x : Preps \cup Uploads \cup Downloads]
Calls == [k : {"accept", "decline", "respond", "fail", "save", "cancel", "forget", "content"},
          x : Preps \cup Uploads \cup Downloads]

TypeOK ==
  /\ slot \in [of : Preps \cup {None}, st : {"free", "pending", "active"}]
  /\ prep \in [Preps -> PrepStages]
  /\ guard \in [Preps -> {"", "clear", "abort"}]
  /\ dec \in [Preps -> Decisions]
  /\ up \in [Uploads -> [st : UpStages, of : Preps \cup {None},
                         target : {"open", "given", "dropped"}, body : Bodies]]
  /\ writer \in [Uploads -> {"none", "running", "ok", "error"}]
  /\ result \in [Uploads -> Results]
  /\ file \in [Preps -> [st : {"none", "pending", "busy", "finished", "failed"},
                         tries : 0..MaxTries, end : {"no", "send", "sent"}]]
  /\ dl \in [Downloads -> {"idle", "sending", "waiting", "answered", "failed"}]
  /\ chan \in [Channels -> Seq(Events)] /\ \A q \in Channels : Len(chan[q]) =< ChanCap
  /\ server \in {"up", "stopping", "stopped"}
  /\ listen \subseteq Channels
  /\ pendingDecision \in Preps \cup {None}
  /\ pendingUploads \in [Preps -> Uploads \cup {None}]
  /\ pendingWeb \in [Keys -> Downloads \cup {None}]
  /\ sink \in Seq(Events)
  /\ calls \subseteq Calls
  /\ ui \in [of : Preps \cup {None}, st : {"", "waiting", "receiving"}]
  /\ holder \in Preps \cup {None}
  /\ cancels \in 0..MaxCancel /\ astray \subseteq Preps \cup Downloads

FreeSlot == [of |-> None, st |-> "free"]
NoUi == [of |-> None, st |-> ""]

\* start_server: tables empty, both channels open, nothing listened to before.
Init ==
  /\ slot = FreeSlot
  /\ prep = [r \in Preps |-> "idle"] /\ guard = [r \in Preps |-> ""]
  /\ dec = [r \in Preps |-> "open"]
  /\ up = [u \in Uploads |-> [st |-> "idle", of |-> None, target |-> "open", body |-> ""]]
  /\ writer = [u \in Uploads |-> "none"] /\ result = [u \in Uploads |-> ""]
  /\ file = [r \in Preps |-> [st |-> "none", tries |-> 0, end |-> "no"]]
  /\ dl = [d \in Downloads |-> "idle"]
  /\ chan = [q \in Channels |-> <<>>]
  /\ server = "up" /\ listen = Channels
  /\ pendingDecision = None
  /\ pendingUploads = [r \in Preps |-> None] /\ pendingWeb = [k \in Keys |-> None]
  /\ sink = <<>> /\ calls = {} /\ ui = NoUi /\ holder = None /\ cancels = 0
  /\ astray = {}

\* Mutant: one event more than the channel holds.
RoomForOneMore(q) == Len(chan[q]) =< ChanCap

Room(q) == Len(chan[q]) < ChanCap
Emit(q, e) == Room(q) /\ chan' = [chan EXCEPT ![q] = Append(@, e)]

-----------------------------------------------------------------------------
(* prepare-upload in the core: slot, event, decision, guard.               *)

PrepClaim(r) ==
  /\ server = "up" /\ prep[r] = "idle" /\ slot.st = "free"
  /\ slot' = [of |-> r, st |-> "pending"]
  /\ prep' = [prep EXCEPT ![r] = "sending"]
  /\ UNCHANGED <<guard, dec, up, writer, result, file, dl, chan, server, bridge, dart>>

PrepEmit(r) ==
  /\ prep[r] = "sending" /\ Emit("v2", Event("prepare", r))
  /\ prep' = [prep EXCEPT ![r] = "waiting"]
  /\ UNCHANGED <<slot, guard, dec, up, writer, result, file, dl, server, bridge, dart>>

PrepDecided(r) ==
  /\ prep[r] = "waiting" /\ dec[r] # "open"
  /\ prep' = [prep EXCEPT ![r] = "done"]
  /\ slot' = IF dec[r] = "accept" THEN [slot EXCEPT !.st = "active"] ELSE FreeSlot
  /\ file' = IF dec[r] = "accept" THEN [file EXCEPT ![r].st = "pending"] ELSE file
  /\ UNCHANGED <<guard, dec, up, writer, result, dl, chan, server, bridge, dart>>

\* The sender disconnects or cancels, or the server drops the connection.
PrepGone(r) ==
  /\ prep[r] \in {"sending", "waiting"}
  /\ prep' = [prep EXCEPT ![r] = "gone"] /\ guard' = [guard EXCEPT ![r] = "clear"]
  /\ UNCHANGED <<slot, dec, up, writer, result, file, dl, chan, server, bridge, dart>>

GuardRuns(r) ==
  \/ /\ guard[r] = "clear"
     /\ slot' = IF slot.st = "pending" THEN FreeSlot ELSE slot
     /\ guard' = [guard EXCEPT ![r] = "abort"]
     /\ UNCHANGED <<prep, dec, up, writer, result, file, dl, chan, server, bridge, dart>>
  \/ /\ guard[r] = "abort" /\ Emit("v2", Event("aborted", r))
     /\ guard' = [guard EXCEPT ![r] = ""]
     /\ UNCHANGED <<slot, prep, dec, up, writer, result, file, dl, server, bridge, dart>>

-----------------------------------------------------------------------------
(* upload in the core, and save_req_to_target with its writer task.        *)

UpStart(u, r) ==
  /\ server = "up" /\ up[u].st = "idle"
  /\ slot = [of |-> r, st |-> "active"] /\ file[r].st = "pending"
  /\ file' = [file EXCEPT ![r].st = "busy", ![r].tries = @ + 1]
  /\ up' = [up EXCEPT ![u].st = "sending", ![u].of = r]
  /\ UNCHANGED <<slot, prep, guard, dec, writer, result, dl, chan, server, bridge, dart>>

UpEmit(u) ==
  /\ up[u].st = "sending" /\ Emit("v2", Event("upload", u))
  /\ up' = [up EXCEPT ![u].st = "waiting"]
  /\ UNCHANGED <<slot, prep, guard, dec, writer, result, file, dl, server, bridge, dart>>

\* Mutant: a failed upload may be tried again like a mismatch.
StatusAfterAny(r, outcome) ==
  CASE outcome = "ok" -> "finished"
    [] outcome # "ok" /\ file[r].tries < MaxTries -> "pending"
    [] OTHER -> "failed"

\* finalize_file.
StatusAfter(r, outcome) ==
  CASE outcome = "ok" -> "finished"
    [] outcome = "mismatch" /\ file[r].tries < MaxTries -> "pending"
    [] OTHER -> "failed"

Finalize(r, outcome) ==
  IF slot = [of |-> r, st |-> "active"]
    THEN LET st == StatusAfter(r, outcome) IN
         /\ file' = [file EXCEPT ![r].st = st, ![r].end = IF st = "pending" THEN "no" ELSE "send"]
         /\ slot' = IF st = "pending" THEN slot ELSE FreeSlot
    ELSE UNCHANGED <<file, slot>>

UpTarget(u) ==
  /\ up[u].st = "waiting" /\ up[u].target # "open"
  /\ IF up[u].target = "given"
       THEN /\ up' = [up EXCEPT ![u].st = "saving", ![u].body = "coming"]
            /\ writer' = [writer EXCEPT ![u] = "running"]
            /\ UNCHANGED <<file, slot>>
       ELSE /\ up' = [up EXCEPT ![u].st = "done"]
            /\ Finalize(up[u].of, "failed") /\ UNCHANGED writer
  /\ UNCHANGED <<prep, guard, dec, result, dl, chan, server, bridge, dart>>

\* The body ends complete or not; a writer that failed closes the chunk channel.
UpBody(u) ==
  /\ up[u].st = "saving" /\ up[u].body = "coming"
  /\ \E b \in {"whole", "short"} : up' = [up EXCEPT ![u].body = b]
  /\ UNCHANGED <<slot, prep, guard, dec, writer, result, file, dl, chan, server, bridge, dart>>

WriterFails(u) ==
  /\ writer[u] = "running"
  /\ writer' = [writer EXCEPT ![u] = "error"]
  /\ up' = [up EXCEPT ![u].body = IF @ = "coming" THEN "short" ELSE @]
  /\ UNCHANGED <<slot, prep, guard, dec, result, file, dl, chan, server, bridge, dart>>

\* Mutant: the number of bytes is not compared.
SizeMatchesAny(u) == TRUE

SizeMatches(u) == up[u].body = "whole"

\* The end of the chunks reaches the writer although the request may be gone.
WriterEnds(u) ==
  /\ writer[u] = "running" /\ up[u].body \in {"whole", "short"}
  /\ writer' = [writer EXCEPT ![u] = IF SizeMatches(u) THEN "ok" ELSE "error"]
  /\ UNCHANGED <<slot, prep, guard, dec, up, result, file, dl, chan, server, bridge, dart>>

\* Mutant: the outcome is not told to the application.
ToldLater(u, outcome) == result[u]

Told(u, outcome) == IF outcome = "ok" THEN "ok" ELSE "error"

\* The checksum is known once the body is; a body may still end in an error behind
\* its last byte.  result_tx is answered, then the guard runs.
UpSaved(u) ==
  /\ up[u].st = "saving" /\ up[u].body # "coming" /\ writer[u] \in {"ok", "error"}
  /\ \E outcome \in IF writer[u] = "ok" THEN {"ok", "mismatch", "failed"} ELSE {"failed"} :
       /\ result' = [result EXCEPT ![u] = Told(u, outcome)]
       /\ Finalize(up[u].of, outcome)
  /\ up' = [up EXCEPT ![u].st = "done"]
  /\ UNCHANGED <<prep, guard, dec, writer, dl, chan, server, bridge, dart>>

\* The connection ends: chunks and result_tx are dropped, the guard fails the file.
UpGone(u) ==
  /\ up[u].st \in {"sending", "waiting", "saving"}
  /\ up' = [up EXCEPT ![u].st = "gone", ![u].body = IF @ = "coming" THEN "short" ELSE @]
  /\ result' = [result EXCEPT ![u] = IF up[u].st = "saving" \/ up[u].target = "given"
                                       THEN "aborted" ELSE @]
  /\ Finalize(up[u].of, "failed")
  /\ UNCHANGED <<prep, guard, dec, writer, dl, chan, server, bridge, dart>>

EndEmit(r) ==
  /\ file[r].end = "send" /\ Emit("v2", Event("end", r))
  /\ file' = [file EXCEPT ![r].end = "sent"]
  /\ UNCHANGED <<slot, prep, guard, dec, up, writer, result, dl, server, bridge, dart>>

-----------------------------------------------------------------------------
(* Web requests of the core.                                               *)

DlStart(d) ==
  /\ server = "up" /\ dl[d] = "idle"
  /\ dl' = [dl EXCEPT ![d] = "sending"]
  /\ UNCHANGED <<slot, prep, guard, dec, up, writer, result, file, chan, server, bridge, dart>>

DlEmit(d) ==
  /\ dl[d] = "sending" /\ Emit("web", Event("download", d))
  /\ dl' = [dl EXCEPT ![d] = "waiting"]
  /\ UNCHANGED <<slot, prep, guard, dec, up, writer, result, file, server, bridge, dart>>

DlGone(d) ==
  /\ dl[d] \in {"sending", "waiting"}
  /\ dl' = [dl EXCEPT ![d] = "failed"]
  /\ UNCHANGED <<slot, prep, guard, dec, up, writer, result, file, chan, server, bridge, dart>>

-----------------------------------------------------------------------------
(* Stopping: the requests are dropped, the channels close behind them.     *)

Stop ==
  /\ server = "up" /\ server' = "stopping"
  /\ holder' = None
  /\ UNCHANGED <<slot, prep, guard, dec, up, writer, result, file, dl, chan,
                 bridge, sink, calls, ui, cancels, astray>>

Live ==
  \/ \E r \in Preps : prep[r] \in {"sending", "waiting"}
  \/ \E u \in Uploads : up[u].st \in {"sending", "waiting", "saving"}
  \/ \E d \in Downloads : dl[d] \in {"sending", "waiting"}

StopDone ==
  /\ server = "stopping" /\ ~Live
  /\ server' = "stopped"
  /\ UNCHANGED <<slot, prep, guard, dec, up, writer, result, file, dl, chan, bridge, dart>>

\* A sender of the channel is left.  That of "web" goes with the server task and
\* its connections; ServerHandle keeps one of "v2" for as long as the RsHttpServer
\* lives, which listen() itself borrows, and stop() does not drop it.
SenderLeft(q) == q = "v2" \/ server # "stopped"

-----------------------------------------------------------------------------
(* listen(): handle_server_event and handle_web_event.                     *)

\* Storing a responder drops the one it replaces.  The one of a prepare-upload
\* request is replaced only after the request gave the slot up.
DropUploads(us) == [u \in Uploads |->
  IF u \in us /\ up[u].st = "waiting" /\ up[u].target = "open"
    THEN [up[u] EXCEPT !.target = "dropped"] ELSE up[u]]
DropWeb(d) == IF d # None /\ dl[d] = "waiting" THEN [dl EXCEPT ![d] = "failed"] ELSE dl

\* Mutant: the decision of an aborted request is kept.
AfterAbortedKept(r) == pendingDecision

\* A later request may have stored its own decision before the abort arrives.
AfterAborted(r) == IF pendingDecision = r THEN None ELSE pendingDecision

ListenV2 ==
  LET e == Head(chan["v2"])
      r == IF e.k = "upload" THEN up[e.x].of ELSE e.x IN
  /\ "v2" \in listen /\ chan["v2"] # <<>>
  /\ chan' = [chan EXCEPT !["v2"] = Tail(@)]
  /\ sink' = Append(sink, e)
  /\ \/ /\ e.k = "prepare"
        /\ pendingDecision' = r /\ UNCHANGED <<up, pendingUploads>>
     \/ /\ e.k = "aborted"
        /\ pendingDecision' = AfterAborted(r)
        /\ UNCHANGED <<up, pendingUploads>>
     \/ /\ e.k = "upload"
        /\ up' = DropUploads({pendingUploads[r]})
        /\ pendingUploads' = [pendingUploads EXCEPT ![r] = e.x]
        /\ UNCHANGED pendingDecision
     \/ /\ e.k = "end"
        /\ up' = DropUploads({pendingUploads[r]})
        /\ pendingUploads' = [pendingUploads EXCEPT ![r] = None]
        /\ UNCHANGED pendingDecision
  /\ UNCHANGED <<slot, prep, guard, dec, writer, result, file, dl, server, listen,
                 pendingWeb, calls, ui, holder, cancels, astray>>

ListenWeb ==
  LET e == Head(chan["web"])  k == KeyOf[e.x] IN
  /\ "web" \in listen /\ chan["web"] # <<>>
  /\ chan' = [chan EXCEPT !["web"] = Tail(@)]
  /\ sink' = Append(sink, e)
  /\ dl' = DropWeb(pendingWeb[k]) /\ pendingWeb' = [pendingWeb EXCEPT ![k] = e.x]
  /\ UNCHANGED <<slot, prep, guard, dec, up, writer, result, file, server, listen,
                 pendingDecision, pendingUploads, calls, ui, holder, cancels, astray>>

\* recv returned None: the loop goes on while another channel is open.  That is
\* always "v2", see SenderLeft: its `None => v2_open = false` is never taken.
ListenClosed(q) ==
  /\ q \in listen /\ chan[q] = <<>> /\ ~SenderLeft(q)
  /\ listen' = listen \ {q}
  /\ UNCHANGED <<core, pendingDecision, pendingUploads, pendingWeb, dart>>

-----------------------------------------------------------------------------
(* Dart: events of the stream, the user, and the calls.                    *)

DartEvent ==
  LET e == Head(sink) IN
  /\ sink # <<>> /\ sink' = Tail(sink)
  /\ \/ /\ e.k = "prepare"
        /\ holder' = None /\ ui' = [of |-> e.x, st |-> "waiting"] /\ UNCHANGED calls
     \/ /\ e.k = "aborted"
        /\ ui' = IF ui = [of |-> e.x, st |-> "waiting"] THEN NoUi ELSE ui
        /\ UNCHANGED <<holder, calls>>
     \/ /\ e.k = "end"
        /\ holder' = IF holder = e.x THEN None ELSE holder
        /\ ui' = IF ui.of = e.x THEN NoUi ELSE ui
        /\ UNCHANGED calls
     \/ /\ e.k = "upload" /\ holder = up[e.x].of
        /\ \E k \in {"respond", "fail"} : calls' = calls \cup {Event(k, e.x)}
        /\ UNCHANGED <<holder, ui>>
     \/ /\ e.k = "upload" /\ holder # up[e.x].of
        /\ calls' = calls \cup {Event("cancel", up[e.x].of)}
        /\ UNCHANGED <<holder, ui>>
     \/ /\ e.k = "download"
        /\ calls' = calls \cup {Event("content", e.x)}
        /\ UNCHANGED <<holder, ui>>
  /\ UNCHANGED <<core, bridge, cancels, astray>>

\* The user's answer travels to the server isolate, which records the session first.
UserDecides ==
  /\ ui.st = "waiting" /\ server = "up"
  /\ \/ /\ calls' = calls \cup {Event("accept", ui.of)}
        /\ ui' = [ui EXCEPT !.st = "receiving"]
     \/ /\ calls' = calls \cup {Event("decline", ui.of)} /\ ui' = NoUi
  /\ UNCHANGED <<core, bridge, sink, holder, cancels, astray>>

UserCancels ==
  /\ ui.st = "receiving" /\ cancels < MaxCancel /\ server = "up"
  /\ cancels' = cancels + 1
  /\ calls' = calls \cup {Event("cancel", ui.of)} /\ ui' = NoUi
  /\ UNCHANGED <<core, bridge, sink, holder, astray>>

\* respond_prepare_upload: whichever request holds the responder gets the answer;
\* file ids of another request select none of its files.
CallDecide(c) ==
  LET p == pendingDecision IN
  /\ c \in calls /\ c.k \in {"accept", "decline"}
  /\ calls' = calls \ {c}
  /\ holder' = IF c.k = "accept" THEN c.x ELSE None
  /\ pendingDecision' = None
  /\ dec' = IF p = None \/ prep[p] # "waiting" THEN dec
            ELSE [dec EXCEPT ![p] = IF c.k = "decline" THEN "decline"
                                    ELSE IF p = c.x THEN "accept" ELSE "nothing"]
  /\ astray' = IF p # None /\ prep[p] = "waiting" /\ p # c.x THEN astray \cup {p} ELSE astray
  /\ UNCHANGED <<slot, prep, guard, up, writer, result, file, dl, chan, server, listen,
                 pendingUploads, pendingWeb, sink, ui, cancels>>

\* resolve_upload_target: exactly one of a path and (on Android) a descriptor.
Usable(path, fd) == path # fd

\* respond_file_upload up to its wait for the result; fail_file_upload.  The
\* responder leaves the table before the target is looked at.
CallTarget(c) ==
  LET r == up[c.x].of  u == pendingUploads[r] IN
  /\ c \in calls /\ c.k \in {"respond", "fail"}
  /\ pendingUploads' = [pendingUploads EXCEPT ![r] = None]
  /\ \E path, fd \in BOOLEAN :
       IF c.k = "respond" /\ u # None /\ up[u].st = "waiting" /\ Usable(path, fd)
       THEN /\ up' = [up EXCEPT ![u].target = "given"]
            /\ calls' = (calls \ {c}) \cup {Event("save", u)}
       ELSE /\ up' = DropUploads({u}) /\ calls' = calls \ {c}
  /\ UNCHANGED <<slot, prep, guard, dec, writer, result, file, dl, chan, server, listen,
                 pendingDecision, pendingWeb, sink, ui, holder, cancels, astray>>

CallSaved(c) ==
  /\ c \in calls /\ c.k = "save" /\ result[c.x] # ""
  /\ calls' = calls \ {c}
  /\ UNCHANGED <<core, bridge, sink, ui, holder, cancels, astray>>

\* cancel_session: first the slot, then the responders of the session.
CallCancel(c) ==
  /\ c \in calls /\ c.k = "cancel"
  /\ slot' = IF slot = [of |-> c.x, st |-> "active"] THEN FreeSlot ELSE slot
  /\ holder' = IF holder = c.x THEN None ELSE holder
  /\ calls' = (calls \ {c}) \cup {Event("forget", c.x)}
  /\ UNCHANGED <<prep, guard, dec, up, writer, result, file, dl, chan, server,
                 bridge, sink, ui, cancels, astray>>


Forget(r) == {pendingUploads[r]}

CallForget(c) ==
  /\ c \in calls /\ c.k = "forget"
  /\ up' = DropUploads(Forget(c.x))
  /\ pendingUploads' = [pendingUploads EXCEPT ![c.x] = IF @ \in Forget(c.x) THEN None ELSE @]
  /\ calls' = calls \ {c}
  /\ UNCHANGED <<slot, prep, guard, dec, writer, result, file, dl, chan, server, listen,
                 pendingDecision, pendingWeb, sink, ui, holder, cancels, astray>>

\* resolve_file_content: a usable source answers, any other drops the responder.
Content(path, fd) == IF path # fd THEN "answered" ELSE "failed"

\* respond_prepare_download, respond_file_download, fail_file_download.
CallContent(c) ==
  LET k == KeyOf[c.x]  d == pendingWeb[k] IN
  /\ c \in calls /\ c.k = "content"
  /\ calls' = calls \ {c}
  /\ pendingWeb' = [pendingWeb EXCEPT ![k] = None]
  /\ \E path, fd \in BOOLEAN :
       dl' = IF d # None /\ dl[d] = "waiting" THEN [dl EXCEPT ![d] = Content(path, fd)] ELSE dl
  /\ astray' = IF d # None /\ dl[d] = "waiting" /\ d # c.x THEN astray \cup {d} ELSE astray
  /\ UNCHANGED <<slot, prep, guard, dec, up, writer, result, file, chan, server, listen,
                 pendingDecision, pendingUploads, sink, ui, holder, cancels>>

-----------------------------------------------------------------------------
PrepStep(r) == PrepEmit(r) \/ PrepDecided(r) \/ GuardRuns(r) \/ EndEmit(r)
UpStep(u) == UpEmit(u) \/ UpTarget(u) \/ UpSaved(u) \/ WriterEnds(u)
HardDrop == server = "stopping" /\ (\/ \E r \in Preps : PrepGone(r)
                                    \/ \E u \in Uploads : UpGone(u)
                                    \/ \E d \in Downloads : DlGone(d))
ListenStep == ListenV2 \/ ListenWeb \/ \E q \in Channels : ListenClosed(q)
CallStep == \E c \in calls : \/ CallDecide(c) \/ CallTarget(c) \/ CallSaved(c)
                             \/ CallCancel(c) \/ CallForget(c) \/ CallContent(c)

Next ==
  \/ \E r \in Preps : PrepStep(r) \/ PrepClaim(r) \/ PrepGone(r)
  \/ \E u \in Uploads : \/ UpStep(u) \/ UpGone(u) \/ UpBody(u) \/ WriterFails(u)
                        \/ \E r \in Preps : UpStart(u, r)
  \/ \E d \in Downloads : DlStart(d) \/ DlEmit(d) \/ DlGone(d)
  \/ Stop \/ StopDone \/ ListenStep
  \/ DartEvent \/ UserDecides \/ UserCancels \/ CallStep

Spec == Init /\ [][Next]_vars

\* Tasks and calls that can run do; senders, browsers, the user and Stop are free.
FairSpec ==
  /\ Spec
  /\ \A r \in Preps : WF_vars(PrepStep(r))
  /\ \A u \in Uploads : WF_vars(UpStep(u))
  /\ \A d \in Downloads : WF_vars(DlEmit(d))
  /\ WF_vars(HardDrop) /\ WF_vars(StopDone)
  /\ WF_vars(ListenStep) /\ WF_vars(DartEvent) /\ WF_vars(CallStep)

-----------------------------------------------------------------------------
(* Properties.                                                             *)

\* Two attempts at a file overwrite the same target: no writer of one attempt
\* is still at work, its request dropped or not, when another one's runs.
OneWriterPerTarget ==
  \A u, v \in Uploads : writer[u] = "running" /\ writer[v] = "running" /\ up[u].of = up[v].of => u = v

\* What respond_file_upload reports as received was written whole and closed,
\* and the core has not made the sender believe otherwise.
OkMeansWritten ==
  \A u \in Uploads : result[u] = "ok" =>
    writer[u] = "ok" /\ up[u].body = "whole" /\ up[u].st = "done"

\* The state invariant of the bridge: one writer at a target, and success
\* only for what it wrote whole.
WritersSound == TypeOK /\ OneWriterPerTarget /\ OkMeansWritten

\* No upload request waits for ever for a target: the isolate answers or fails
\* it, and a session cancelled meanwhile takes its waiting uploads along.
TargetsComeOrFail == <>[](\A u \in Uploads : up[u].st \notin {"sending", "waiting"})

\* respond_file_upload returns once the body of its upload ended or was dropped.
CallsReturn == <>[](\A c \in calls : c.k = "save" /\ up[c.x].body = "coming")

\* Neither a request nor a call of Dart is left waiting for the other.
NobodyWaits == TargetsComeOrFail /\ CallsReturn


\* "Emits server events until the server is stopped": listen() of a stopped server
\* returns, once it has read both channels to their end.
StreamEnds == (server = "stopped") ~> (listen = {})

\* "Answers the pending PrepareUpload event": an answer given to a request
\* reaches that request or none.
AnswerReachesItsRequest == astray = {}
=============================================================================
