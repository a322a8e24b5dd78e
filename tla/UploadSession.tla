--------------------------- MODULE UploadSession ---------------------------
(***************************************************************************)
(* The receiving side of the v2 protocol: the handlers of prepare-upload,  *)
(* upload and cancel, which share one session slot behind an async mutex   *)
(* and report to the application over one bounded event channel            *)
(* (packages/core/src/http/server/v2.rs and common/session.rs).            *)
(*                                                                         *)
(* Every handler is a future.  One action runs a handler from one await    *)
(* point to the next, so the control points below are its await points.    *)
(* A future is dropped at the await point where it stands when the peer    *)
(* disconnects or the server stops; its guard then runs the cleanup in a   *)
(* detached task, which nothing drops.                                     *)
(***************************************************************************)
EXTENDS Naturals, Sequences, FiniteSets

CONSTANTS
    Preps,       \* prepare-upload requests; each names the session id it generates
    Uploads,     \* upload requests
    Cancels,     \* cancel requests
    Peers,       \* sender addresses (PeerIp)
    Files,       \* the file ids every prepare-upload request offers
    Foreign,     \* a session id issued by another device
    NoSid,       \* the absent sessionId parameter
    Nobody,      \* the address and session of a free slot
    MaxAttempts, \* MAX_UPLOAD_ATTEMPTS
    Capacity     \* capacity of the event channel

ASSUME ConstantsAssumption ==
    /\ MaxAttempts \in Nat \ {0}
    /\ Capacity \in Nat \ {0}
    /\ Foreign \notin Preps
    /\ NoSid \notin Preps \cup {Foreign}
    /\ Nobody \notin Preps \cup Peers \cup Files

VARIABLES
    slot,     \* V2State::session without its files
    files,    \* the files of the active session
    prep,     \* where each prepare-upload request stands
    upl,      \* where each upload request stands
    can,      \* where each cancel request stands
    events,   \* the event channel
    open,     \* whether the application still holds the receiving end
    how,      \* history: what freed the slot of an active session
    ends      \* history: SessionEnd events emitted per session

vars == <<slot, files, prep, upl, can, events, open, how, ends>>

FreeSlot == [kind |-> "Free", sid |-> Nobody, ip |-> Nobody]
NoFile   == [status |-> "Absent", attempts |-> 0]
NoFiles  == [f \in Files |-> NoFile]

IsActive(s)  == slot.kind = "Active" /\ slot.sid = s
IsPending(s) == slot.kind = "Pending" /\ slot.sid = s

Slots ==
    [kind : {"Free", "Pending", "Active"}, sid : Preps \cup {Nobody}, ip : Peers \cup {Nobody}]
FileEntries ==
    [status : {"Absent", "Pending", "InProgress", "Finished", "Failed"}, attempts : 0..MaxAttempts]

PrepPCs ==
    {"idle", "emit", "decide", "clear", "activate", "abort", "abortEmit", "leaked", "done"}
Decisions == {"none", "queued", "asked", "accept", "decline", "dropped"}
Responses == {"none", "ok", "noContent", "forbidden", "conflict", "error", "lost"}
PrepRecords ==
    [pc : PrepPCs, ip : Peers \cup {Nobody}, decision : Decisions,
     accepted : SUBSET Files, token : BOOLEAN, resp : Responses]

UplPCs ==
    {"idle", "emit", "target", "save", "finish", "guard", "stuck",
     "endEmit", "guardEnd", "endLost", "done"}
SaveResults == {"Success", "Failed", "HashMismatch"}
UplRecords ==
    [pc : UplPCs, sid : Preps \cup {Nobody}, file : Files \cup {Nobody},
     target : {"none", "queued", "asked", "given", "dropped"}, result : SaveResults]

CanPCs == {"idle", "second", "endEmit", "recvEmit", "endLost", "done"}
CanRecords ==
    [pc : CanPCs, ip : Peers \cup {Nobody}, sid : Preps \cup {Foreign, NoSid}]

Events ==
    [kind : {"PrepareUpload", "PrepareUploadAborted", "SessionEnd"}, of : Preps]
        \cup [kind : {"FileUpload"}, of : Uploads]
        \cup [kind : {"CancelReceived"}, of : Preps \cup {Foreign}]

(* Every variable stays in its type; the attempts of a file stay within    *)
(* MAX_UPLOAD_ATTEMPTS although nothing in upload() compares them to it.   *)
TypeOK ==
    /\ slot \in Slots
    /\ files \in [Files -> FileEntries]
    /\ prep \in [Preps -> PrepRecords]
    /\ upl \in [Uploads -> UplRecords]
    /\ can \in [Cancels -> CanRecords]
    /\ events \in Seq(Events)
    /\ open \in BOOLEAN
    /\ how \in [Preps -> {"none", "Finished", "Cancelled", "App"}]
    /\ ends \in [Preps -> Nat]

Init ==
    /\ slot = FreeSlot
    /\ files = NoFiles
    /\ prep = [r \in Preps |->
                 [pc |-> "idle", ip |-> Nobody, decision |-> "none",
                  accepted |-> {}, token |-> FALSE, resp |-> "none"]]
    /\ upl = [u \in Uploads |->
                [pc |-> "idle", sid |-> Nobody, file |-> Nobody, target |-> "none",
                 result |-> "Failed"]]
    /\ can = [c \in Cancels |-> [pc |-> "idle", ip |-> Nobody, sid |-> NoSid]]
    /\ events = <<>>
    /\ open = TRUE
    /\ how = [r \in Preps |-> "none"]
    /\ ends = [r \in Preps |-> 0]

(* The bounded mpsc channel: a sender waits for room while the receiver lives. *)
CanSend == open /\ Len(events) < Capacity
Send(kind, of) == CanSend /\ events' = Append(events, [kind |-> kind, of |-> of])

-----------------------------------------------------------------------------
(* prepare-upload *)

\* clear_pending_session: frees the slot when it is pending, whoever claimed it.
ClearPending == slot' = IF slot.kind = "Pending" THEN FreeSlot ELSE slot

\* Mutant: only an active session blocks a new request.
ClaimOverPending(r) ==
    /\ prep[r].pc = "idle"
    /\ slot.kind # "Active"
    /\ \E ip \in Peers :
         /\ slot' = [kind |-> "Pending", sid |-> r, ip |-> ip]
         /\ prep' = [prep EXCEPT ![r] = [@ EXCEPT !.pc = "emit", !.ip = ip]]
    /\ UNCHANGED <<files, upl, can, events, open, how, ends>>

\* A request that fails the PIN check (WebDownload!CheckPin) or offers no file
\* returns before this and leaves the session alone.
Claim(r) ==
    /\ prep[r].pc = "idle"
    /\ slot.kind = "Free"
    /\ \E ip \in Peers :
         /\ slot' = [kind |-> "Pending", sid |-> r, ip |-> ip]
         /\ prep' = [prep EXCEPT ![r] = [@ EXCEPT !.pc = "emit", !.ip = ip]]
    /\ UNCHANGED <<files, upl, can, events, open, how, ends>>

\* The slot is taken: 409, before a guard exists.
ClaimBlocked(r) ==
    /\ prep[r].pc = "idle"
    /\ slot.kind # "Free"
    /\ prep' = [prep EXCEPT ![r] = [@ EXCEPT !.pc = "done", !.resp = "conflict"]]
    /\ UNCHANGED <<slot, files, upl, can, events, open, how, ends>>

PrepEmit(r) ==
    /\ prep[r].pc = "emit"
    /\ Send("PrepareUpload", r)
    /\ prep' = [prep EXCEPT ![r] = [@ EXCEPT !.pc = "decide", !.decision = "queued"]]
    /\ UNCHANGED <<slot, files, upl, can, open, how, ends>>

PrepEmitFails(r) ==
    /\ prep[r].pc = "emit"
    /\ ~open
    /\ prep' = [prep EXCEPT ![r] = [@ EXCEPT !.pc = "abort", !.resp = "error"]]
    /\ UNCHANGED <<slot, files, upl, can, events, open, how, ends>>

\* select!, the branch of decision_rx.  Declined and empty requests disarm the
\* guard before they wait for the lock; an accepted one stays armed.
PrepDecided(r) ==
    /\ prep[r].pc = "decide"
    /\ \/ /\ prep[r].decision = "dropped"
          /\ prep' = [prep EXCEPT ![r] = [@ EXCEPT !.pc = "abort", !.resp = "error"]]
       \/ /\ \/ prep[r].decision = "decline"
             \/ prep[r].decision = "accept" /\ prep[r].accepted = {}
          /\ prep' = [prep EXCEPT ![r].pc = "clear"]
       \/ /\ prep[r].decision = "accept"
          /\ prep[r].accepted # {}
          /\ prep' = [prep EXCEPT ![r].pc = "activate"]
    /\ UNCHANGED <<slot, files, upl, can, events, open, how, ends>>

\* select!, the branch of the cancellation token.
PrepCancelled(r) ==
    /\ prep[r].pc = "decide"
    /\ prep[r].token
    /\ prep' = [prep EXCEPT ![r] = [@ EXCEPT !.pc = "abort", !.resp = "forbidden"]]
    /\ UNCHANGED <<slot, files, upl, can, events, open, how, ends>>

PrepClear(r) ==
    /\ prep[r].pc = "clear"
    /\ ClearPending
    /\ prep' = [prep EXCEPT ![r] = [@ EXCEPT !.pc = "done",
                  !.resp = IF prep[r].decision = "decline" THEN "forbidden" ELSE "noContent"]]
    /\ UNCHANGED <<files, upl, can, events, open, how, ends>>

\* Mutant: the guard is not disarmed after activation.
PrepActivateStaysArmed(r) ==
    /\ prep[r].pc = "activate"
    /\ slot' = [kind |-> "Active", sid |-> r, ip |-> prep[r].ip]
    /\ files' = [f \in Files |->
                   IF f \in prep[r].accepted
                   THEN [status |-> "Pending", attempts |-> 0] ELSE NoFile]
    /\ prep' = [prep EXCEPT ![r] = [@ EXCEPT !.pc = "abort", !.resp = "ok"]]
    /\ UNCHANGED <<upl, can, events, open, how, ends>>

\* The pending slot becomes the active session; the slot is overwritten unread.
PrepActivate(r) ==
    /\ prep[r].pc = "activate"
    /\ slot' = [kind |-> "Active", sid |-> r, ip |-> prep[r].ip]
    /\ files' = [f \in Files |->
                   IF f \in prep[r].accepted
                   THEN [status |-> "Pending", attempts |-> 0] ELSE NoFile]
    /\ prep' = [prep EXCEPT ![r] = [@ EXCEPT !.pc = "done", !.resp = "ok"]]
    /\ UNCHANGED <<upl, can, events, open, how, ends>>

\* Mutant: there is no guard.
PrepDropUnguarded(r) ==
    /\ prep[r].pc \in {"emit", "decide", "activate", "clear"}
    /\ prep' = [prep EXCEPT ![r] = [@ EXCEPT !.pc = "done", !.resp = "lost"]]
    /\ UNCHANGED <<slot, files, upl, can, events, open, how, ends>>

\* The request future is dropped.  With the guard armed its cleanup is spawned;
\* in clear() the guard is disarmed already and nothing is left to free the slot.
PrepDrop(r) ==
    /\ \/ /\ prep[r].pc \in {"emit", "decide", "activate"}
          /\ prep' = [prep EXCEPT ![r] = [@ EXCEPT !.pc = "abort", !.resp = "lost"]]
       \/ /\ prep[r].pc = "clear"
          /\ prep' = [prep EXCEPT ![r] = [@ EXCEPT !.pc = "leaked", !.resp = "lost"]]
    /\ UNCHANGED <<slot, files, upl, can, events, open, how, ends>>

\* The task that PendingSessionGuard::drop spawns: first the slot ...
AbortClear(r) ==
    /\ prep[r].pc = "abort"
    /\ ClearPending
    /\ prep' = [prep EXCEPT ![r].pc = "abortEmit"]
    /\ UNCHANGED <<files, upl, can, events, open, how, ends>>

\* ... then the event, whose failure it ignores.
AbortEmit(r) ==
    /\ prep[r].pc = "abortEmit"
    /\ \/ Send("PrepareUploadAborted", r)
       \/ ~open /\ UNCHANGED events
    /\ prep' = [prep EXCEPT ![r].pc = "done"]
    /\ UNCHANGED <<slot, files, upl, can, open, how, ends>>

-----------------------------------------------------------------------------
(* upload *)

\* The session and file ids and the token are random and only revealed in the
\* prepare-upload response, so a request that carries them follows that response.
Known(s) == prep[s].resp = "ok"

\* Mutant: the status of the file is not checked.
UploadValidAnyStatus(s, f, ip, token) ==
    /\ slot.kind = "Active"
    /\ slot.sid = s /\ slot.ip = ip
    /\ files[f].status # "Absent"
    /\ token

\* The checks of upload() on a request for file f of session s from ip.
UploadValid(s, f, ip, token) ==
    /\ slot.kind = "Active"
    /\ slot.sid = s /\ slot.ip = ip
    /\ files[f].status # "Absent"
    /\ token /\ files[f].status = "Pending"

\* Mutant: the attempt is not counted.
UploadStartUncounted(u) ==
    /\ upl[u].pc = "idle"
    /\ \E s \in Preps, f \in Files, ip \in Peers :
         /\ Known(s)
         /\ UploadValid(s, f, ip, TRUE)
         /\ files' = [files EXCEPT ![f].status = "InProgress"]
         /\ upl' = [upl EXCEPT ![u] = [@ EXCEPT !.pc = "emit", !.sid = s, !.file = f]]
    /\ UNCHANGED <<slot, prep, can, events, open, how, ends>>

UploadStart(u) ==
    /\ upl[u].pc = "idle"
    /\ \E s \in Preps, f \in Files, ip \in Peers :
         /\ Known(s)
         /\ UploadValid(s, f, ip, TRUE)
         /\ files' = [files EXCEPT ![f] = [status |-> "InProgress", attempts |-> @.attempts + 1]]
         /\ upl' = [upl EXCEPT ![u] = [@ EXCEPT !.pc = "emit", !.sid = s, !.file = f]]
    /\ UNCHANGED <<slot, prep, can, events, open, how, ends>>

\* 403; only requests with the revealed ids, others change nothing either.
UploadRejected(u) ==
    /\ upl[u].pc = "idle"
    /\ \E s \in Preps, f \in Files, ip \in Peers, token \in BOOLEAN :
         Known(s) /\ ~UploadValid(s, f, ip, token)
    /\ upl' = [upl EXCEPT ![u].pc = "done"]
    /\ UNCHANGED <<slot, files, prep, can, events, open, how, ends>>

UploadEmit(u) ==
    /\ upl[u].pc = "emit"
    /\ \/ /\ Send("FileUpload", u)
          /\ upl' = [upl EXCEPT ![u] = [@ EXCEPT !.pc = "target", !.target = "queued"]]
       \/ /\ ~open
          /\ UNCHANGED events
          /\ upl' = [upl EXCEPT ![u] = [@ EXCEPT !.pc = "finish", !.result = "Failed"]]
    /\ UNCHANGED <<slot, files, prep, can, open, how, ends>>

\* Mutant: a dropped responder is never noticed.
UploadTargetWaits(u) ==
    /\ upl[u].pc = "target"
    /\ upl[u].target = "given"
    /\ upl' = [upl EXCEPT ![u].pc = "save"]
    /\ UNCHANGED <<slot, files, prep, can, events, open, how, ends>>

\* target_rx: the body is saved to the target, or the responder was dropped.
UploadTarget(u) ==
    /\ upl[u].pc = "target"
    /\ \/ /\ upl[u].target = "given"
          /\ upl' = [upl EXCEPT ![u].pc = "save"]
       \/ /\ upl[u].target = "dropped"
          /\ upl' = [upl EXCEPT ![u] = [@ EXCEPT !.pc = "finish", !.result = "Failed"]]
    /\ UNCHANGED <<slot, files, prep, can, events, open, how, ends>>

\* save_req_to_target, abstracted to its result; finish() disarms the guard.
UploadSave(u) ==
    /\ upl[u].pc = "save"
    /\ \E result \in SaveResults :
         upl' = [upl EXCEPT ![u] = [@ EXCEPT !.pc = "finish", !.result = result]]
    /\ UNCHANGED <<slot, files, prep, can, events, open, how, ends>>

\* Mutant: off by one in the retry limit.
FinalStatusOneMore(result, attempts) ==
    CASE result = "Success" -> "Finished"
      [] result = "HashMismatch" /\ attempts <= MaxAttempts -> "Pending"
      [] OTHER -> "Failed"

FinalStatus(result, attempts) ==
    CASE result = "Success" -> "Finished"
      [] result = "HashMismatch" /\ attempts < MaxAttempts -> "Pending"
      [] OTHER -> "Failed"

\* UploadSessionV2::is_complete
IsComplete(fs) == \A f \in Files : fs[f].status \in {"Absent", "Finished", "Failed"}

\* Mutant: the session is not looked up again.
FinalizeFileUnchecked(u, result, next) ==
    LET s == upl[u].sid
        f == upl[u].file
        fs == IF files[f].status = "InProgress"
              THEN [files EXCEPT ![f].status = FinalStatus(result, files[f].attempts)]
              ELSE files
    IN  \/ /\ ~IsComplete(fs)
           /\ files' = fs
           /\ upl' = [upl EXCEPT ![u].pc = "done"]
           /\ UNCHANGED <<slot, how>>
        \/ /\ IsComplete(fs)
           /\ slot' = FreeSlot
           /\ files' = NoFiles
           /\ how' = [how EXCEPT ![s] = "Finished"]
           /\ upl' = [upl EXCEPT ![u].pc = next]

\* finalize_file, run by request u; next is where u goes when this ends the session.
FinalizeFile(u, result, next) ==
    LET s == upl[u].sid
        f == upl[u].file
        fs == IF files[f].status = "InProgress"
              THEN [files EXCEPT ![f].status = FinalStatus(result, files[f].attempts)]
              ELSE files
    IN  \/ /\ ~IsActive(s)
           /\ upl' = [upl EXCEPT ![u].pc = "done"]
           /\ UNCHANGED <<slot, files, how>>
        \/ /\ IsActive(s)
           /\ ~IsComplete(fs)
           /\ files' = fs
           /\ upl' = [upl EXCEPT ![u].pc = "done"]
           /\ UNCHANGED <<slot, how>>
        \/ /\ IsActive(s)
           /\ IsComplete(fs)
           /\ slot' = FreeSlot
           /\ files' = NoFiles
           /\ how' = [how EXCEPT ![s] = "Finished"]
           /\ upl' = [upl EXCEPT ![u].pc = next]

UploadFinish(u) ==
    /\ upl[u].pc = "finish"
    /\ FinalizeFile(u, upl[u].result, "endEmit")
    /\ UNCHANGED <<prep, can, events, open, ends>>

\* Mutant: the guard's task ends the session and does not report it.
GuardFinishSilent(u) ==
    /\ upl[u].pc = "guard"
    /\ FinalizeFile(u, "Failed", "done")
    /\ UNCHANGED <<prep, can, events, open, ends>>

\* The task that UploadGuard::drop spawns.
GuardFinish(u) ==
    /\ upl[u].pc = "guard"
    /\ FinalizeFile(u, "Failed", "guardEnd")
    /\ UNCHANGED <<prep, can, events, open, ends>>

\* SessionEnd, sent by the request that finished the session or by its guard's task.
UploadEndEmit(u) ==
    /\ upl[u].pc \in {"endEmit", "guardEnd"}
    /\ \/ /\ Send("SessionEnd", upl[u].sid)
          /\ ends' = [ends EXCEPT ![upl[u].sid] = @ + 1]
       \/ ~open /\ UNCHANGED <<events, ends>>
    /\ upl' = [upl EXCEPT ![u].pc = "done"]
    /\ UNCHANGED <<slot, files, prep, can, open, how>>

\* The request future is dropped: mid-transfer its guard fails the file, but in
\* finish() the guard is disarmed already, and past the slot the event is lost.
UploadDrop(u) ==
    /\ \/ /\ upl[u].pc \in {"emit", "target", "save"}
          /\ upl' = [upl EXCEPT ![u].pc = "guard"]
       \/ /\ upl[u].pc = "finish"
          /\ upl' = [upl EXCEPT ![u].pc = "stuck"]
       \/ /\ upl[u].pc = "endEmit"
          /\ upl' = [upl EXCEPT ![u].pc = "endLost"]
    /\ UNCHANGED <<slot, files, prep, can, events, open, how, ends>>

-----------------------------------------------------------------------------
(* cancel *)

\* The session ids a cancel request can carry.
CancelIds == {NoSid, Foreign} \cup {s \in Preps : Known(s)}

\* A pending request of the same address, named by its id or by none.
MatchesPending(ip, sid) ==
    slot.kind = "Pending" /\ slot.ip = ip /\ sid \in {NoSid, slot.sid}

\* The first critical section of cancel(): the token of the pending request.
CancelPending(c) ==
    /\ can[c].pc = "idle"
    /\ \E ip \in Peers, sid \in CancelIds : MatchesPending(ip, sid)
    /\ prep' = [prep EXCEPT ![slot.sid].token = TRUE]
    /\ can' = [can EXCEPT ![c].pc = "done"]
    /\ UNCHANGED <<slot, files, upl, events, open, how, ends>>

\* No pending request matches; without a session id that is all.
CancelFirst(c) ==
    /\ can[c].pc = "idle"
    /\ \E ip \in Peers, sid \in CancelIds :
         /\ ~MatchesPending(ip, sid)
         /\ can' = [can EXCEPT ![c] = [pc |-> IF sid = NoSid THEN "done" ELSE "second",
                                       ip |-> ip, sid |-> sid]]
    /\ UNCHANGED <<slot, files, prep, upl, events, open, how, ends>>

\* The second critical section: the active session, looked up again.
CancelSecond(c) ==
    /\ can[c].pc = "second"
    /\ \/ /\ IsActive(can[c].sid)
          /\ slot.ip = can[c].ip
          /\ slot' = FreeSlot
          /\ files' = NoFiles
          /\ how' = [how EXCEPT ![can[c].sid] = "Cancelled"]
          /\ can' = [can EXCEPT ![c].pc = "endEmit"]
       \/ /\ ~(IsActive(can[c].sid) /\ slot.ip = can[c].ip)
          /\ can' = [can EXCEPT ![c].pc = "recvEmit"]
          /\ UNCHANGED <<slot, files, how>>
    /\ UNCHANGED <<prep, upl, events, open, ends>>

CancelEndEmit(c) ==
    /\ can[c].pc = "endEmit"
    /\ \/ /\ Send("SessionEnd", can[c].sid)
          /\ ends' = [ends EXCEPT ![can[c].sid] = @ + 1]
       \/ ~open /\ UNCHANGED <<events, ends>>
    /\ can' = [can EXCEPT ![c].pc = "done"]
    /\ UNCHANGED <<slot, files, prep, upl, open, how>>

CancelRecvEmit(c) ==
    /\ can[c].pc = "recvEmit"
    /\ \/ Send("CancelReceived", can[c].sid)
       \/ ~open /\ UNCHANGED events
    /\ can' = [can EXCEPT ![c].pc = "done"]
    /\ UNCHANGED <<slot, files, prep, upl, open, how, ends>>

CancelDrop(c) ==
    /\ can[c].pc \in {"second", "endEmit", "recvEmit"}
    /\ can' = [can EXCEPT ![c].pc = IF @ = "endEmit" THEN "endLost" ELSE "done"]
    /\ UNCHANGED <<slot, files, prep, upl, events, open, how, ends>>

-----------------------------------------------------------------------------
(* The application: it reads the channel, must answer what it is asked, may  *)
(* cancel a session it accepted and may drop the receiving end.              *)

AppReceive ==
    LET e == Head(events)
    IN  /\ open /\ events # <<>>
        /\ events' = Tail(events)
        /\ prep' = IF e.kind = "PrepareUpload"
                   THEN [prep EXCEPT ![e.of].decision = "asked"] ELSE prep
        /\ upl' = IF e.kind = "FileUpload"
                  THEN [upl EXCEPT ![e.of].target = "asked"] ELSE upl
        /\ UNCHANGED <<slot, files, can, open, how, ends>>

\* Accepting names file ids; those not offered are filtered out, which leaves
\* any subset of the offered Files, the empty one included.
AppDecide(r) ==
    /\ open /\ prep[r].decision = "asked"
    /\ \/ \E ids \in SUBSET Files :
            prep' = [prep EXCEPT ![r] = [@ EXCEPT !.decision = "accept", !.accepted = ids]]
       \/ \E answer \in {"decline", "dropped"} :
            prep' = [prep EXCEPT ![r].decision = answer]
    /\ UNCHANGED <<slot, files, upl, can, events, open, how, ends>>

AppTarget(u) ==
    /\ open /\ upl[u].target = "asked"
    /\ \E answer \in {"given", "dropped"} : upl' = [upl EXCEPT ![u].target = answer]
    /\ UNCHANGED <<slot, files, prep, can, events, open, how, ends>>

\* ServerHandle::cancel_v2_session on a session the application accepted; a call
\* that does not find it active changes nothing.
AppCancel(s) ==
    /\ prep[s].decision = "accept"
    /\ IsActive(s)
    /\ slot' = FreeSlot
    /\ files' = NoFiles
    /\ how' = [how EXCEPT ![s] = "App"]
    /\ UNCHANGED <<prep, upl, can, events, open, ends>>

\* The receiving end is dropped, and with it every responder not yet answered.
AppClose ==
    /\ open
    /\ open' = FALSE
    /\ events' = <<>>
    /\ prep' = [r \in Preps |->
                  IF prep[r].decision \in {"queued", "asked"}
                  THEN [prep[r] EXCEPT !.decision = "dropped"] ELSE prep[r]]
    /\ upl' = [u \in Uploads |->
                 IF upl[u].target \in {"queued", "asked"}
                 THEN [upl[u] EXCEPT !.target = "dropped"] ELSE upl[u]]
    /\ UNCHANGED <<slot, files, can, how, ends>>

-----------------------------------------------------------------------------
PrepStep(r) ==
    \/ Claim(r) \/ ClaimBlocked(r) \/ PrepDrop(r)
    \/ PrepEmit(r) \/ PrepEmitFails(r) \/ PrepDecided(r) \/ PrepCancelled(r)
    \/ PrepClear(r) \/ PrepActivate(r) \/ AbortClear(r) \/ AbortEmit(r)

UploadStep(u) ==
    \/ UploadStart(u) \/ UploadRejected(u) \/ UploadDrop(u)
    \/ UploadEmit(u) \/ UploadTarget(u) \/ UploadSave(u)
    \/ UploadFinish(u) \/ GuardFinish(u) \/ UploadEndEmit(u)

CancelStep(c) ==
    \/ CancelPending(c) \/ CancelFirst(c) \/ CancelDrop(c)
    \/ CancelSecond(c) \/ CancelEndEmit(c) \/ CancelRecvEmit(c)

AppStep ==
    \/ AppReceive \/ AppClose
    \/ \E r \in Preps : AppDecide(r) \/ AppCancel(r)
    \/ \E u \in Uploads : AppTarget(u)

Next ==
    \/ \E r \in Preps : PrepStep(r)
    \/ \E u \in Uploads : UploadStep(u)
    \/ \E c \in Cancels : CancelStep(c)
    \/ AppStep

Spec == Init /\ [][Next]_vars

(* tokio polls every woken task, so a started handler that can move does; the *)
(* application reads its channel and answers, as the events' docs demand.     *)
(* Nothing makes requests arrive, connections drop or the application cancel. *)
Fairness ==
    /\ \A r \in Preps :
         /\ WF_vars(PrepEmit(r) \/ PrepEmitFails(r))
         /\ WF_vars(PrepDecided(r) \/ PrepCancelled(r))
         /\ WF_vars(PrepClear(r) \/ PrepActivate(r))
         /\ WF_vars(AbortClear(r) \/ AbortEmit(r))
         /\ WF_vars(AppDecide(r))
    /\ \A u \in Uploads :
         /\ WF_vars(UploadEmit(u) \/ UploadTarget(u) \/ UploadSave(u))
         /\ WF_vars(UploadFinish(u) \/ GuardFinish(u) \/ UploadEndEmit(u))
         /\ WF_vars(AppTarget(u))
    /\ \A c \in Cancels : WF_vars(CancelSecond(c) \/ CancelEndEmit(c) \/ CancelRecvEmit(c))
    /\ WF_vars(AppReceive)

FairSpec == Spec /\ Fairness

-----------------------------------------------------------------------------
(* Properties *)

HoldsSlot(r) == prep[r].pc \in {"emit", "decide", "clear", "activate", "abort", "leaked"}
Writing(u) == upl[u].pc \in {"emit", "target", "save", "finish", "guard", "stuck"}

(* Between claiming the slot and freeing or activating it, a prepare-upload  *)
(* request finds its own claim there, and no claim is there without its      *)
(* request.  Hence clear_pending_session, which compares no session id, and  *)
(* the unread overwrite on activation never hit another request's slot.      *)
SlotOwned ==
    /\ \A r \in Preps : HoldsSlot(r) => IsPending(r)
    /\ slot.kind = "Pending" => \E r \in Preps : HoldsSlot(r) /\ slot.sid = r

(* No two upload requests ever write the same file of the same session, not  *)
(* even across retries, dropped connections and cancelled sessions.          *)
OneWriterPerFile ==
    \A u, v \in Uploads :
        Writing(u) /\ Writing(v) /\ u # v => upl[u].sid # upl[v].sid \/ upl[u].file # upl[v].file

(* Once the session counts as finished, no upload request of it is under way: *)
(* the application is told Finished only after the last file was settled.     *)
FinishedIsFinal ==
    \A s \in Preps : how[s] = "Finished" => \A u \in Uploads : upl[u].sid = s => ~Writing(u)

(* A session is reported ended at most once, only after it left the slot, and *)
(* never when the application cancelled it itself (cancel_v2_session).        *)
EndReportedOnce ==
    \A s \in Preps :
        /\ ends[s] <= 1
        /\ ends[s] = 1 => how[s] \in {"Finished", "Cancelled"} /\ ~IsActive(s)

\* The upload requests for file f of session s that passed the validation.
Starts(s, f) == {u \in Uploads : upl[u].sid = s /\ upl[u].file = f}

(* A sender gets at most MAX_UPLOAD_ATTEMPTS upload requests for a file past  *)
(* the validation, however its attempts end.                                  *)
StartsBounded == \A s \in Preps, f \in Files : Cardinality(Starts(s, f)) <= MaxAttempts

-----------------------------------------------------------------------------
(* The inductive invariant, by parts. *)

(* The active session was created by a request that is done. *)
ActiveCreated ==
    slot.kind = "Active" => slot.sid \in Preps /\ prep[slot.sid].pc = "done"

(* A session whose end is on record was created and is no longer in the slot. *)
EndedGone ==
    \A s \in Preps : how[s] # "none" => prep[s].pc = "done" /\ ~IsActive(s)

(* An upload under way belongs to the active session, where its file is in    *)
(* progress, or to a session whose end is on record.                          *)
WriterOwnsFile ==
    \A u \in Uploads : Writing(u) =>
        /\ upl[u].sid \in Preps /\ upl[u].file \in Files
        /\ how[upl[u].sid] = "none" => IsActive(upl[u].sid)
        /\ IsActive(upl[u].sid) => files[upl[u].file].status = "InProgress"

(* A file that can be uploaded has an attempt left. *)
AttemptLeft ==
    \A f \in Files : files[f].status = "Pending" => files[f].attempts < MaxAttempts

EndsByUpload(u) == upl[u].pc \in {"endEmit", "guardEnd"}
EndsByCancel(c) == can[c].pc = "endEmit"

(* A request about to report the end of a session is the only one, and the    *)
(* report is still due.                                                       *)
OneReporter ==
    /\ \A u \in Uploads : EndsByUpload(u) =>
         /\ upl[u].sid \in Preps
         /\ how[upl[u].sid] = "Finished" /\ ends[upl[u].sid] = 0
         /\ \A v \in Uploads : EndsByUpload(v) /\ upl[v].sid = upl[u].sid => v = u
    /\ \A c \in Cancels : EndsByCancel(c) =>
         /\ can[c].sid \in Preps
         /\ how[can[c].sid] = "Cancelled" /\ ends[can[c].sid] = 0
         /\ \A d \in Cancels : EndsByCancel(d) /\ can[d].sid = can[c].sid => d = c

(* A cancel request past its first critical section carries a session id. *)
CancelNamed ==
    \A c \in Cancels : can[c].pc \in {"second", "recvEmit"} => can[c].sid # NoSid

(* What every step preserves: the invariants above together with the facts    *)
(* about the slot, the writers and the reporters that they rest on.           *)
IInv ==
    /\ TypeOK /\ SlotOwned /\ OneWriterPerFile /\ FinishedIsFinal /\ EndReportedOnce
    /\ ActiveCreated /\ EndedGone /\ WriterOwnsFile /\ AttemptLeft /\ OneReporter
    /\ CancelNamed

(* The attempts of a file of the active session count its upload requests, and *)
(* there is none before the session is created.                               *)
StartsCounted ==
    /\ \A u \in Uploads : upl[u].sid \in Preps => prep[upl[u].sid].pc = "done"
    /\ \A s \in Preps, f \in Files :
         /\ IsFiniteSet(Starts(s, f))
         /\ Cardinality(Starts(s, f)) <= MaxAttempts
         /\ IsActive(s) => Cardinality(Starts(s, f)) <= files[f].attempts

Saved(u) == upl[u].result = "Success"

(* A file of a session is saved once: from then on no other request writes it, *)
(* and none can start while the session is active.                            *)
SavedOnce ==
    /\ \A u \in Uploads : upl[u].pc \in {"idle", "emit", "target", "save"} => ~Saved(u)
    /\ \A u \in Uploads : Saved(u) =>
         /\ upl[u].sid \in Preps /\ upl[u].file \in Files
         /\ IsActive(upl[u].sid) => files[upl[u].file].status # "Pending"
    /\ \A s \in Preps, f \in Files : \A u, v \in Starts(s, f) :
         Saved(u) /\ u # v => ~Saved(v) /\ ~Writing(v)

(* Every step preserves these along with IInv. *)
RetryInv == StartsCounted /\ SavedOnce

-----------------------------------------------------------------------------
(* The session as the abstract slot sees it. *)
Phase(s) ==
    IF IsPending(s) THEN "pending"
    ELSE IF IsActive(s) THEN "active"
    ELSE IF prep[s].pc = "idle" THEN "new" ELSE "gone"

Abstract == INSTANCE SessionSlot WITH Sessions <- Preps, phase <- [s \in Preps |-> Phase(s)]

(* The endpoints implement the single session slot: sessions pass through it  *)
(* one at a time, in order, and never come back.                              *)
ImplementsSlot == Abstract!Spec

(* A request claims the slot once, an upload is written once and a session    *)
(* ends once, so "leads to" is said of all of them at a time by <>[].         *)

(* A claimed slot is freed or activated, unless the request was dropped while *)
(* it waited for the lock in PendingSessionGuard::clear.                      *)
PendingResolved ==
    <>[](\A r \in Preps : IsPending(r) => prep[r].pc = "leaked")

(* An upload under way gets settled, by the request or by its guard, unless   *)
(* it was dropped while it waited for the lock in UploadGuard::finish.        *)
UploadResolved ==
    <>[](\A u \in Uploads : Writing(u) => upl[u].pc = "stuck")

(* A session that finished or was cancelled by the sender is reported, unless *)
(* the reporting request was dropped or the application is gone.              *)
EndReported ==
    <>[](\A s \in Preps :
        how[s] \in {"Finished", "Cancelled"} =>
            \/ ends[s] = 1 \/ ~open
            \/ \E u \in Uploads : upl[u].sid = s /\ upl[u].pc = "endLost"
            \/ \E c \in Cancels : can[c].sid = s /\ can[c].pc = "endLost")

(* What the comments promise and the code does not keep. *)

(* "The cleanup also runs on drop so the slot is not leaked when the request  *)
(* future is cancelled": some task is still going to free or activate a       *)
(* pending slot.                                                              *)
SlotNotLeaked ==
    slot.kind = "Pending" =>
        prep[slot.sid].pc \in {"emit", "decide", "clear", "activate", "abort"}
=============================================================================
