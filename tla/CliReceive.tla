----------------------------- MODULE CliReceive -----------------------------
(***************************************************************************)
(* The interactive CLI as the application behind the upload endpoints      *)
(* (cli/src/app/receive.rs, cli/src/app/mod.rs and the result channel of   *)
(* packages/core/src/http/server/common/save.rs), composed with            *)
(* UploadSession.                                                          *)
(*                                                                         *)
(* The CLI is one loop: an event of the server, the result of a file or a  *)
(* key is handled to the end before the next one is looked at.  It keeps   *)
(* its own record of the session, which it has to keep in step with the    *)
(* slot of the server, of which it only learns through events.             *)
(***************************************************************************)
EXTENDS UploadSession

\* A prepare-upload request lists its files.
ASSUME FilesAssumption == IsFiniteSet(Files)

VARIABLES
    pending,   \* App::pending: the request that waits for Y/N/P
    receive,   \* App::receive: the accepted session
    outcome,   \* the task that passes on the result of each upload
    revoked    \* the sessions cancelled by the user, and whether the server knows

cliVars == <<pending, receive, outcome, revoked>>
allVars == <<vars, cliVars>>

\* in_progress, finished_files and ended of a ReceiveSession.
NewReceive(s) == [sid |-> s, inProgress |-> {}, finished |-> 0, ended |-> FALSE]
NoReceive == NewReceive(Nobody)

Receives ==
    [sid : Preps \cup {Nobody}, inProgress : SUBSET (Files \cup {Nobody}),
     finished : Nat, ended : BOOLEAN]

(* The record is a session of the server or none, and so on for every variable. *)
CliTypeOK ==
    /\ TypeOK
    /\ pending \in Preps \cup {Nobody}
    /\ receive \in Receives
    /\ outcome \in [Uploads -> {"none", "due", "seen"}]
    /\ revoked \in [Preps -> {"no", "task", "done"}]

CliInit ==
    /\ Init
    /\ pending = Nobody
    /\ receive = NoReceive
    /\ outcome = [u \in Uploads |-> "none"]
    /\ revoked = [s \in Preps |-> "no"]

-----------------------------------------------------------------------------
(* Events of the server *)

\* decision_tx.send succeeds while the handler waits in its select!.
Waiting(r) == prep[r].pc = "decide"

Decide(p, r, answer, ids) == [p EXCEPT ![r] = [@ EXCEPT !.decision = answer, !.accepted = ids]]

\* Dropping a PendingReceive drops its decision_tx.
DropPending == IF pending = Nobody THEN prep ELSE Decide(prep, pending, "dropped", {})

\* A text message: nothing is accepted, and nothing recorded.
OnMessage(r) ==
    /\ prep' = Decide(prep, r, "accept", {})
    /\ UNCHANGED <<upl, cliVars>>

\* A paired sender: accepted at once, and recorded if the request still waits.
OnPaired(r) ==
    /\ prep' = Decide(prep, r, "accept", Files)
    /\ receive' = IF Waiting(r) THEN NewReceive(r) ELSE receive
    /\ UNCHANGED <<upl, pending, outcome, revoked>>

\* Anyone else: the user is asked; an earlier question is overwritten.
OnPrompt(r) ==
    /\ prep' = Decide(DropPending, r, "asked", {})
    /\ pending' = r
    /\ UNCHANGED <<upl, receive, outcome, revoked>>

OnFileUpload(u) ==
    /\ \/ /\ receive.sid = upl[u].sid
          /\ receive' = [receive EXCEPT !.inProgress = @ \cup {upl[u].file}]
          /\ outcome' = [outcome EXCEPT ![u] = "due"]
          /\ upl' = [upl EXCEPT ![u].target = "given"]
       \/ /\ receive.sid # upl[u].sid
          /\ upl' = [upl EXCEPT ![u].target = "dropped"]
          /\ UNCHANGED <<receive, outcome>>
    /\ UNCHANGED <<prep, pending, revoked>>

\* Mutant: the summary does not wait for the files in progress.
FinishNow(session) == IF session.ended THEN NoReceive ELSE session

\* finish_receive_if_done: the summary is printed and the record dropped.
FinishIfDone(session) ==
    IF session.ended /\ session.inProgress = {} THEN NoReceive ELSE session

OnSessionEnd(s) ==
    /\ receive' = IF receive.sid = s THEN FinishIfDone([receive EXCEPT !.ended = TRUE]) ELSE receive
    /\ UNCHANGED <<prep, upl, pending, outcome, revoked>>

OnAborted(r) ==
    /\ prep' = IF pending = r THEN DropPending ELSE prep
    /\ pending' = IF pending = r THEN Nobody ELSE pending
    /\ UNCHANGED <<upl, receive, outcome, revoked>>

\* CancelReceived is about sending.
CliEvent ==
    LET e == Head(events)
    IN  /\ open /\ events # <<>>
        /\ events' = Tail(events)
        /\ \/ e.kind = "PrepareUpload" /\ (OnMessage(e.of) \/ OnPaired(e.of) \/ OnPrompt(e.of))
           \/ e.kind = "FileUpload" /\ OnFileUpload(e.of)
           \/ e.kind = "SessionEnd" /\ OnSessionEnd(e.of)
           \/ e.kind = "PrepareUploadAborted" /\ OnAborted(e.of)
           \/ e.kind = "CancelReceived" /\ UNCHANGED <<prep, upl, cliVars>>
        /\ UNCHANGED <<slot, files, can, open, how, ends>>

-----------------------------------------------------------------------------
(* Results of files *)

\* result_tx was answered at the end of save_req_to_target, or dropped with the request.
ResultKnown(u) == upl[u].pc \notin {"emit", "target", "save"}

\* Mutant: the result of the last file does not finish the session.
CliResultOnly(u) ==
    /\ open /\ outcome[u] = "due" /\ ResultKnown(u)
    /\ outcome' = [outcome EXCEPT ![u] = "seen"]
    /\ receive' = IF receive.sid # upl[u].sid THEN receive
                  ELSE [receive EXCEPT !.inProgress = @ \ {upl[u].file},
                                       !.finished = @ + IF upl[u].result = "Success" THEN 1 ELSE 0]
    /\ UNCHANGED <<vars, pending, revoked>>

\* receive_file_result.  A task per upload passes the result on, so results come in
\* any order, and in any order with the events of the server.
CliResult(u) ==
    /\ open /\ outcome[u] = "due" /\ ResultKnown(u)
    /\ outcome' = [outcome EXCEPT ![u] = "seen"]
    /\ receive' = IF receive.sid # upl[u].sid THEN receive
                  ELSE FinishIfDone([receive EXCEPT
                         !.inProgress = @ \ {upl[u].file},
                         !.finished = @ + IF upl[u].result = "Success" THEN 1 ELSE 0])
    /\ UNCHANGED <<vars, pending, revoked>>

-----------------------------------------------------------------------------
(* Keys *)

\* Y and P
Accept ==
    /\ open /\ pending # Nobody
    /\ prep' = Decide(prep, pending, "accept", Files)
    /\ receive' = IF Waiting(pending) THEN NewReceive(pending) ELSE receive
    /\ pending' = Nobody
    /\ UNCHANGED <<slot, files, upl, can, events, open, how, ends, outcome, revoked>>

\* N
Decline ==
    /\ open /\ pending # Nobody
    /\ prep' = Decide(prep, pending, "decline", {})
    /\ pending' = Nobody
    /\ UNCHANGED <<slot, files, upl, can, events, open, how, ends, receive, outcome, revoked>>

\* Mutant: the record is dropped, and the server never told.
CtrlCKeepsSession ==
    /\ open /\ receive.sid # Nobody
    /\ prep' = IF pending = Nobody THEN prep ELSE Decide(prep, pending, "decline", {})
    /\ pending' = Nobody
    /\ receive' = NoReceive
    /\ UNCHANGED <<slot, files, upl, can, events, open, how, ends, outcome, revoked>>

\* Ctrl-C declines the pending request and cancels the session; cancel_receive drops
\* the record and leaves the server to a task.
CtrlC ==
    /\ open /\ receive.sid # Nobody
    /\ prep' = IF pending = Nobody THEN prep ELSE Decide(prep, pending, "decline", {})
    /\ pending' = Nobody
    /\ receive' = NoReceive
    /\ revoked' = [revoked EXCEPT ![receive.sid] = "task"]
    /\ UNCHANGED <<slot, files, upl, can, events, open, how, ends, outcome>>

\* That task: cancel_v2_session, which finds the session active or does nothing.
Revoke(s) ==
    /\ revoked[s] = "task"
    /\ revoked' = [revoked EXCEPT ![s] = "done"]
    /\ \/ AppCancel(s)
       \/ ~IsActive(s) /\ UNCHANGED vars
    /\ UNCHANGED <<pending, receive, outcome>>

\* Ctrl-C with nothing to cancel quits, and so does, in send mode, the end of the
\* transfer, whatever is being received.  The receiving end is dropped.
Quit ==
    /\ AppClose
    /\ UNCHANGED cliVars

-----------------------------------------------------------------------------
CliStep ==
    \/ CliEvent \/ Accept \/ Decline \/ CtrlC \/ Quit
    \/ \E u \in Uploads : CliResult(u)
    \/ \E s \in Preps : Revoke(s)

ServerStep ==
    \/ \E r \in Preps : PrepStep(r)
    \/ \E u \in Uploads : UploadStep(u)
    \/ \E c \in Cancels : CancelStep(c)

CliNext == CliStep \/ (ServerStep /\ UNCHANGED cliVars)

CliSpec == CliInit /\ [][CliNext]_allVars

(* The loop takes what is ready: select! chooses at random among the channels, so no *)
(* event and no result waits for ever.  The user need not do anything.               *)
CliFairness ==
    /\ WF_allVars(CliEvent)
    /\ \A u \in Uploads :
         /\ WF_allVars(CliResult(u))
         /\ WF_allVars((UploadEmit(u) \/ UploadTarget(u) \/ UploadSave(u)) /\ UNCHANGED cliVars)
    /\ \A s \in Preps : WF_allVars(Revoke(s))

CliFairSpec == CliSpec /\ CliFairness

-----------------------------------------------------------------------------
(* Properties *)

(* The CLI knows the session the server has active, unless the user cancelled it: no  *)
(* later request, late answer or late event replaces its record while files arrive.   *)
ActiveKnown ==
    slot.kind = "Active" => receive.sid = slot.sid \/ revoked[slot.sid] # "no"

(* The summary never counts more received files than there are, whatever is retried,  *)
(* dropped or late.                                                                   *)
CountWithinFiles == receive.finished <= Cardinality(Files)

(* However a file is retried, dropped or late, it is uploaded a bounded number of      *)
(* times and the files are counted once.                                              *)
RetriesBounded == StartsBounded /\ CountWithinFiles

\* The summary of session s is printed: its record goes, and not by Ctrl-C or a new one.
Summarised(s) ==
    receive.sid = s /\ receive' = NoReceive /\ revoked' = revoked

(* When the summary is printed, the only results still missing are those of files     *)
(* whose result of another attempt has come.                                          *)
SummaryKnowsFiles ==
    [][\A s \in Preps : Summarised(s) =>
         \A u \in Uploads : upl[u].sid = s /\ outcome'[u] = "due" =>
            \E v \in Uploads \ {u} :
                upl[v].sid = s /\ upl[v].file = upl[u].file /\ outcome'[v] = "seen"]_allVars

-----------------------------------------------------------------------------
(* The inductive invariant, by parts. *)

\* The session is active, or nothing but a dropped connection keeps it from becoming so.
Committed(s) ==
    \/ IsActive(s)
    \/ prep[s].pc = "activate"
    \/ prep[s].pc = "decide" /\ prep[s].decision = "accept" /\ prep[s].accepted # {}

(* ActiveKnown from the moment on when the answer was accepted. *)
CommittedKnown ==
    \A s \in Preps : Committed(s) => receive.sid = s \/ revoked[s] # "no"

(* An end that waits in the channel, or that the CLI took note of, was sent. *)
EndsSent ==
    /\ \A i \in DOMAIN events : events[i].kind = "SessionEnd" => ends[events[i].of] # 0
    /\ receive.ended => receive.sid \in Preps /\ ends[receive.sid] # 0

\* The files of session s whose success the CLI was told.
Got(s) ==
    {f \in Files : \E u \in Uploads :
        upl[u].sid = s /\ upl[u].file = f /\ outcome[u] = "seen" /\ Saved(u)}

(* What every step preserves: the invariant of the server and the above ... *)
KnownInv == IInv /\ CliTypeOK /\ CommittedKnown /\ EndsSent

(* An upload is announced once, and its result is awaited if it was given a target. *)
AnnouncedOnce ==
    /\ \A u \in Uploads : upl[u].pc \in {"idle", "emit"} => upl[u].target = "none"
    /\ \A u \in Uploads : outcome[u] # "none" => upl[u].target = "given"
    /\ \A i \in DOMAIN events : events[i].kind = "FileUpload" =>
         /\ upl[events[i].of].target = "queued"
         /\ \A j \in DOMAIN events : events[j] = events[i] => i = j

(* ... on top of it, what bounds the retries and the summary's count ... *)
CountInv ==
    KnownInv /\ RetryInv /\ AnnouncedOnce /\ receive.finished <= Cardinality(Got(receive.sid))

(* A request is announced and prompted for once, so a session is recorded once: never *)
(* again after the user cancelled it.                                                 *)
AskedOnce ==
    /\ \A r \in Preps : prep[r].pc \in {"idle", "emit"} => prep[r].decision = "none"
    /\ \A i \in DOMAIN events : events[i].kind = "PrepareUpload" =>
         /\ prep[events[i].of].decision = "queued"
         /\ \A j \in DOMAIN events : events[j] = events[i] => i = j
    /\ open /\ pending # Nobody => prep[pending].decision = "asked"
    /\ \A r \in Preps : receive.sid = r \/ revoked[r] # "no" =>
         prep[r].decision \notin {"none", "queued", "asked"}
    /\ receive.sid # Nobody => revoked[receive.sid] = "no"

\* Another upload of the file of u in the same session whose result came.
Superseded(u) ==
    \E v \in Uploads \ {u} :
        upl[v].sid = upl[u].sid /\ upl[v].file = upl[u].file /\ outcome[v] = "seen"

(* A file whose result is missing is in progress, or a result of it was taken for it. *)
DueKnown ==
    receive.sid # Nobody =>
      \A u \in Uploads : upl[u].sid = receive.sid /\ outcome[u] = "due" =>
        upl[u].file \in receive.inProgress \/ Superseded(u)

(* ... and what the summary knows. *)
CliInv == CountInv /\ AskedOnce /\ DueKnown

-----------------------------------------------------------------------------
(* Once the end of the recorded session was sent, the summary comes, or the CLI quits. *)
SummaryPrinted ==
    \A s \in Preps : (receive.sid = s /\ ends[s] = 1) ~> (receive.sid # s \/ ~open)

(* What the comments promise and the code does not keep. *)

(* "print the summary only once the last in-flight file has reported its outcome".    *)
SummaryComplete ==
    [][\A s \in Preps : Summarised(s) =>
         \A u \in Uploads : upl[u].sid = s => outcome'[u] # "due"]_allVars
=============================================================================
