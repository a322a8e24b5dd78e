----------------------------- MODULE WebDownload -----------------------------
(***************************************************************************)
(* Web download: browsers ask for the shared files with prepare-download    *)
(* and fetch them with download (packages/core/src/http/server/web.rs and   *)
(* common/pin.rs).  A session is keyed by the address of the browser, so    *)
(* every request of one address works on the same entry, and a decision of  *)
(* the application reaches the entry whoever put it there.                  *)
(*                                                                         *)
(* As in UploadSession an action runs a handler between two await points,   *)
(* and a future can be dropped at any of them.                              *)
(***************************************************************************)
EXTENDS Naturals, Sequences, FiniteSets

CONSTANTS
    Reqs,        \* prepare-download requests
    Dls,         \* download requests
    Ips,         \* addresses of browsers
    NoReq,       \* no request
    MaxPin,      \* MAX_PIN_ATTEMPTS
    Capacity     \* capacity of the event channel

ASSUME WebAssumption ==
    /\ MaxPin \in Nat \ {0} /\ Capacity \in Nat \ {0}
    /\ NoReq \notin Reqs /\ Reqs \cap Dls = {}

VARIABLES
    sessions,   \* WebDownloadState::sessions, with the request that put the entry there
    attempts,   \* pin_attempts; fewer addresses than its capacity of 200
    req,        \* where each prepare-download request stands
    dl,         \* where each download request stands
    events,     \* the event channel: the requests whose events it holds
    open        \* whether the application still holds the receiving end

vars == <<sessions, attempts, req, dl, events, open>>

NoSession == [state |-> "none", by |-> NoReq]
Valid(ip) == sessions[ip].state = "accepted"

SessionRecords == [state : {"none", "pending", "accepted"}, by : Reqs \cup {NoReq}]

ReqPCs ==
    {"idle", "pin", "insert", "emit", "decide", "clear", "accept", "list", "guard", "leaked", "done"}
Decisions == {"none", "queued", "asked", "accept", "decline", "dropped"}
ReqResponses == {"none", "list", "unauthorized", "blocked", "rejected", "error", "lost"}
ReqRecords == [pc : ReqPCs, ip : Ips, decision : Decisions, resp : ReqResponses]

DlPCs == {"idle", "emit", "content", "done"}
Contents == {"none", "queued", "asked", "given", "dropped"}
DlResponses == {"none", "body", "forbidden", "error", "lost"}
DlRecords == [pc : DlPCs, ip : Ips, content : Contents, resp : DlResponses]

(* Every variable stays in its type, and no address passes the PIN limit. *)
TypeOK ==
    /\ sessions \in [Ips -> SessionRecords]
    /\ attempts \in [Ips -> 0..MaxPin]
    /\ req \in [Reqs -> ReqRecords]
    /\ dl \in [Dls -> DlRecords]
    /\ events \in Seq(Reqs \cup Dls)
    /\ open \in BOOLEAN

Init ==
    /\ sessions = [ip \in Ips |-> NoSession]
    /\ attempts = [ip \in Ips |-> 0]
    /\ \E from \in [Reqs -> Ips] :
         req = [r \in Reqs |-> [pc |-> "idle", ip |-> from[r], decision |-> "none", resp |-> "none"]]
    /\ \E from \in [Dls -> Ips] :
         dl = [d \in Dls |-> [pc |-> "idle", ip |-> from[d], content |-> "none", resp |-> "none"]]
    /\ events = <<>>
    /\ open = TRUE

Send(e) == open /\ Len(events) < Capacity /\ events' = Append(events, e)

Step(r, from, to) == req[r].pc = from /\ req' = [req EXCEPT ![r].pc = to]
Answer(r, resp) == req' = [req EXCEPT ![r] = [@ EXCEPT !.pc = "done", !.resp = resp]]

-----------------------------------------------------------------------------
(* prepare-download *)

\* A browser that names its accepted session gets the list again.  The session of
\* another address is never valid, so only the own address is looked at.
Refetch(r) ==
    /\ req[r].pc = "idle"
    /\ Valid(req[r].ip)
    /\ req' = [req EXCEPT ![r].pc = "list"]
    /\ UNCHANGED <<sessions, attempts, dl, events, open>>

\* No sessionId, or none that is valid.
Prepare(r) ==
    /\ Step(r, "idle", "pin")
    /\ UNCHANGED <<sessions, attempts, dl, events, open>>

\* Mutant: the limit is off by one.
CheckPinOneMore(r) ==
    LET ip == req[r].ip
    IN  /\ req[r].pc = "pin"
        /\ \/ attempts[ip] > MaxPin /\ Answer(r, "blocked") /\ UNCHANGED attempts
           \/ /\ attempts[ip] <= MaxPin
              /\ \/ req' = [req EXCEPT ![r].pc = "insert"] /\ attempts' = [attempts EXCEPT ![ip] = 0]
                 \/ Answer(r, "unauthorized") /\ attempts' = [attempts EXCEPT ![ip] = @ + 1]
                 \/ Answer(r, "unauthorized") /\ UNCHANGED attempts
        /\ UNCHANGED <<sessions, dl, events, open>>

\* check_pin: a right, a wrong and a missing PIN.  Without a required PIN no attempt is
\* ever counted and every request passes like one with the right PIN.
CheckPin(r) ==
    LET ip == req[r].ip
    IN  /\ req[r].pc = "pin"
        /\ \/ attempts[ip] >= MaxPin /\ Answer(r, "blocked") /\ UNCHANGED attempts
           \/ /\ attempts[ip] < MaxPin
              /\ \/ req' = [req EXCEPT ![r].pc = "insert"] /\ attempts' = [attempts EXCEPT ![ip] = 0]
                 \/ Answer(r, "unauthorized") /\ attempts' = [attempts EXCEPT ![ip] = @ + 1]
                 \/ Answer(r, "unauthorized") /\ UNCHANGED attempts
        /\ UNCHANGED <<sessions, dl, events, open>>

\* The entry of the address is replaced, accepted or not.
Insert(r) ==
    /\ Step(r, "insert", "emit")
    /\ sessions' = [sessions EXCEPT ![req[r].ip] = [state |-> "pending", by |-> r]]
    /\ UNCHANGED <<attempts, dl, events, open>>

\* Mutant: when the channel is closed the request goes on waiting for a decision.
EmitIgnoresClosed(r) ==
    /\ req[r].pc = "emit"
    /\ \/ Send(r) /\ req' = [req EXCEPT ![r] = [@ EXCEPT !.pc = "decide", !.decision = "queued"]]
       \/ ~open /\ req' = [req EXCEPT ![r].pc = "decide"] /\ UNCHANGED events
    /\ UNCHANGED <<sessions, attempts, dl, open>>

Emit(r) ==
    /\ req[r].pc = "emit"
    /\ \/ Send(r) /\ req' = [req EXCEPT ![r] = [@ EXCEPT !.pc = "decide", !.decision = "queued"]]
       \/ /\ ~open
          /\ req' = [req EXCEPT ![r] = [@ EXCEPT !.pc = "guard", !.resp = "error"]]
          /\ UNCHANGED events
    /\ UNCHANGED <<sessions, attempts, dl, open>>

\* Mutant: the answer is taken for an acceptance whatever it says.
DecidedAlwaysAccepts(r) ==
    /\ req[r].decision \in {"accept", "decline"}
    /\ Step(r, "decide", "accept")
    /\ UNCHANGED <<sessions, attempts, dl, events, open>>

\* decision_rx: clear() disarms the guard before it waits for the lock.
Decided(r) ==
    /\ req[r].pc = "decide"
    /\ \/ req[r].decision = "accept"  /\ req' = [req EXCEPT ![r].pc = "accept"]
       \/ req[r].decision = "decline" /\ req' = [req EXCEPT ![r].pc = "clear"]
       \/ /\ req[r].decision = "dropped"
          /\ req' = [req EXCEPT ![r] = [@ EXCEPT !.pc = "guard", !.resp = "error"]]
    /\ UNCHANGED <<sessions, attempts, dl, events, open>>

\* Mutant: clear_pending_session removes the entry unconditionally.
ClearAny(ip) == sessions' = [sessions EXCEPT ![ip] = NoSession]

\* clear_pending_session: the entry of the address, whoever put it there.
ClearPending(ip) ==
    sessions' = IF sessions[ip].state = "pending"
                THEN [sessions EXCEPT ![ip] = NoSession] ELSE sessions

Clear(r) ==
    /\ req[r].pc = "clear"
    /\ ClearPending(req[r].ip)
    /\ Answer(r, "rejected")
    /\ UNCHANGED <<attempts, dl, events, open>>

\* get_mut: the entry of the address is accepted if there is one, whoever put it there.
Accept(r) ==
    LET ip == req[r].ip
    IN  /\ Step(r, "accept", "list")
        /\ sessions' = IF sessions[ip].state = "none" THEN sessions
                       ELSE [sessions EXCEPT ![ip].state = "accepted"]
        /\ UNCHANGED <<attempts, dl, events, open>>

\* file_list_response, after its lock.
FileList(r) ==
    /\ req[r].pc = "list"
    /\ Answer(r, "list")
    /\ UNCHANGED <<sessions, attempts, dl, events, open>>

\* The browser disconnects.  An armed guard spawns its cleanup; in clear() nothing
\* is left to do it.
ReqDrop(r) ==
    /\ \/ req[r].pc \in {"pin", "insert", "list"} /\ Answer(r, "lost")
       \/ /\ req[r].pc \in {"emit", "decide", "accept"}
          /\ req' = [req EXCEPT ![r] = [@ EXCEPT !.pc = "guard", !.resp = "lost"]]
       \/ /\ req[r].pc = "clear"
          /\ req' = [req EXCEPT ![r] = [@ EXCEPT !.pc = "leaked", !.resp = "lost"]]
    /\ UNCHANGED <<sessions, attempts, dl, events, open>>

\* The task of PendingWebSessionGuard::drop.
GuardClear(r) ==
    /\ Step(r, "guard", "done")
    /\ ClearPending(req[r].ip)
    /\ UNCHANGED <<attempts, dl, events, open>>

-----------------------------------------------------------------------------
(* download *)

Finish(d, resp) == dl' = [dl EXCEPT ![d] = [@ EXCEPT !.pc = "done", !.resp = resp]]

\* Mutant: a pending session is as good as an accepted one.
DlCheckPending(d) ==
    /\ dl[d].pc = "idle"
    /\ \/ sessions[dl[d].ip].state # "none" /\ dl' = [dl EXCEPT ![d].pc = "emit"]
       \/ Finish(d, "forbidden")
    /\ UNCHANGED <<sessions, attempts, req, events, open>>

\* The session is checked once, before the application is asked; a missing or
\* unknown session or file is refused.
DlCheck(d) ==
    /\ dl[d].pc = "idle"
    /\ \/ Valid(dl[d].ip) /\ dl' = [dl EXCEPT ![d].pc = "emit"]
       \/ Finish(d, "forbidden")
    /\ UNCHANGED <<sessions, attempts, req, events, open>>

DlEmit(d) ==
    /\ dl[d].pc = "emit"
    /\ \/ Send(d) /\ dl' = [dl EXCEPT ![d] = [@ EXCEPT !.pc = "content", !.content = "queued"]]
       \/ ~open /\ Finish(d, "error") /\ UNCHANGED events
    /\ UNCHANGED <<sessions, attempts, req, open>>

DlContent(d) ==
    /\ dl[d].pc = "content"
    /\ \/ dl[d].content = "given" /\ Finish(d, "body")
       \/ dl[d].content = "dropped" /\ Finish(d, "error")
    /\ UNCHANGED <<sessions, attempts, req, events, open>>

DlDrop(d) ==
    /\ dl[d].pc \in {"emit", "content"}
    /\ Finish(d, "lost")
    /\ UNCHANGED <<sessions, attempts, req, events, open>>

-----------------------------------------------------------------------------
(* The application *)

AppReceive ==
    LET e == Head(events)
    IN  /\ open /\ events # <<>>
        /\ events' = Tail(events)
        /\ \/ e \in Reqs /\ req' = [req EXCEPT ![e].decision = "asked"] /\ UNCHANGED dl
           \/ e \in Dls /\ dl' = [dl EXCEPT ![e].content = "asked"] /\ UNCHANGED req
        /\ UNCHANGED <<sessions, attempts, open>>

AppDecide(r) ==
    /\ open /\ req[r].decision = "asked"
    /\ \E answer \in {"accept", "decline", "dropped"} : req' = [req EXCEPT ![r].decision = answer]
    /\ UNCHANGED <<sessions, attempts, dl, events, open>>

AppContent(d) ==
    /\ open /\ dl[d].content = "asked"
    /\ \E answer \in {"given", "dropped"} : dl' = [dl EXCEPT ![d].content = answer]
    /\ UNCHANGED <<sessions, attempts, req, events, open>>

\* The receiving end is dropped with every responder not yet answered.
AppClose ==
    /\ open
    /\ open' = FALSE
    /\ events' = <<>>
    /\ req' = [r \in Reqs |-> IF req[r].decision \in {"queued", "asked"}
                              THEN [req[r] EXCEPT !.decision = "dropped"] ELSE req[r]]
    /\ dl' = [d \in Dls |-> IF dl[d].content \in {"queued", "asked"}
                            THEN [dl[d] EXCEPT !.content = "dropped"] ELSE dl[d]]
    /\ UNCHANGED <<sessions, attempts>>

-----------------------------------------------------------------------------
ReqStep(r) ==
    \/ Refetch(r) \/ Prepare(r) \/ CheckPin(r) \/ Insert(r) \/ Emit(r) \/ Decided(r)
    \/ Clear(r) \/ Accept(r) \/ FileList(r) \/ ReqDrop(r) \/ GuardClear(r)

DlStep(d) == DlCheck(d) \/ DlEmit(d) \/ DlContent(d) \/ DlDrop(d)

AppStep ==
    \/ AppReceive \/ AppClose
    \/ \E r \in Reqs : AppDecide(r)
    \/ \E d \in Dls : AppContent(d)

Next == (\E r \in Reqs : ReqStep(r)) \/ (\E d \in Dls : DlStep(d)) \/ AppStep

Spec == Init /\ [][Next]_vars

(* Started handlers and cleanups that can move do, and the application reads  *)
(* its channel and answers; nothing makes requests arrive or connections drop. *)
Fairness ==
    /\ \A r \in Reqs :
         /\ WF_vars(CheckPin(r) \/ Insert(r) \/ Decided(r) \/ Clear(r) \/ Accept(r)
                        \/ FileList(r) \/ GuardClear(r))
         /\ SF_vars(Emit(r))
         /\ WF_vars(AppDecide(r))
    /\ \A d \in Dls : SF_vars(DlEmit(d)) /\ WF_vars(DlContent(d)) /\ WF_vars(AppContent(d))
    /\ WF_vars(AppReceive)

FairSpec == Spec /\ Fairness

-----------------------------------------------------------------------------
(* Properties *)

(* An address has an accepted session only if the application accepted a      *)
(* request of that address, although entries are shared between requests.     *)
AcceptedByDecision ==
    \A ip \in Ips : Valid(ip) => \E r \in Reqs : req[r].ip = ip /\ req[r].decision = "accept"

(* The application is asked for content only for an address it accepted, even *)
(* if the session was replaced or removed since the check.                    *)
DownloadAuthorized ==
    \A d \in Dls :
        dl[d].pc \in {"emit", "content"} \/ dl[d].resp = "body" =>
            \E r \in Reqs : req[r].ip = dl[d].ip /\ req[r].decision = "accept"

(* The cleanup of one request never takes an accepted session from another:   *)
(* it ends only when a new request of the address replaces it.                *)
AcceptedOnlyReplaced ==
    [][\A ip \in Ips : Valid(ip) /\ ~Valid(ip)' =>
           \E r \in Reqs : req[r].ip = ip /\ req[r].pc = "insert" /\ req'[r].pc = "emit"]_vars

-----------------------------------------------------------------------------
(* The inductive invariant, by parts. *)

(* A request is undecided until its event is sent. *)
EarlyUndecided ==
    \A r \in Reqs : req[r].pc \in {"idle", "pin", "insert", "emit"} => req[r].decision = "none"

(* A request whose event waits in the channel is waiting for its decision,    *)
(* and its event is there once: no decision is ever asked for twice.          *)
QueuedOnce ==
    /\ \A i \in DOMAIN events : events[i] \in Reqs => req[events[i]].decision = "queued"
    /\ \A i, j \in DOMAIN events : events[i] \in Reqs /\ events[i] = events[j] => i = j

(* Only an accepted request gets to accept the session. *)
AcceptDecided == \A r \in Reqs : req[r].pc = "accept" => req[r].decision = "accept"

(* What every step preserves. *)
IInv ==
    /\ TypeOK /\ AcceptedByDecision /\ DownloadAuthorized
    /\ EarlyUndecided /\ QueuedOnce /\ AcceptDecided

-----------------------------------------------------------------------------
(* Every prepare-download request that arrived is over in the end, and its    *)
(* cleanup too, unless it was dropped in clear().                             *)
ReqResolved ==
    \A r \in Reqs : (req[r].pc # "idle") ~> (req[r].pc \in {"done", "leaked"})

(* What the comments promise and the code does not keep. *)

(* "Removes the pending session again if this request is declined or aborted  *)
(* before the application accepted it": a declined request leaves nothing it  *)
(* put there.                                                                 *)
DeclineRemoves ==
    \A r \in Reqs : req[r].resp = "rejected" =>
        ~\E ip \in Ips : sessions[ip].state # "none" /\ sessions[ip].by = r
=============================================================================
