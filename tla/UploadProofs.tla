---------------------------- MODULE UploadProofs ----------------------------
(***************************************************************************)
(* Proofs about UploadSession, for every number of requests, peers and     *)
(* files, every channel capacity and every retry limit, and after them     *)
(* proofs about CliReceive: the CLI keeps the invariant of the server and  *)
(* knows the session that the server has active.                           *)
(***************************************************************************)
EXTENDS CliReceive, FiniteSetTheorems, TLAPS

-----------------------------------------------------------------------------
(* Types *)

(* The constants that the actions write are members of their sets.  The    *)
(* sets themselves stay folded in the proofs below.                        *)
LEMMA Strings ==
    /\ "emit" \in PrepPCs /\ "decide" \in PrepPCs /\ "clear" \in PrepPCs
    /\ "activate" \in PrepPCs /\ "abort" \in PrepPCs /\ "abortEmit" \in PrepPCs
    /\ "leaked" \in PrepPCs /\ "done" \in PrepPCs
    /\ "queued" \in Decisions /\ "asked" \in Decisions /\ "accept" \in Decisions
    /\ "decline" \in Decisions /\ "dropped" \in Decisions
    /\ "ok" \in Responses /\ "noContent" \in Responses /\ "forbidden" \in Responses
    /\ "conflict" \in Responses /\ "error" \in Responses /\ "lost" \in Responses
    /\ "emit" \in UplPCs /\ "target" \in UplPCs /\ "save" \in UplPCs /\ "finish" \in UplPCs
    /\ "guard" \in UplPCs /\ "stuck" \in UplPCs /\ "endEmit" \in UplPCs
    /\ "guardEnd" \in UplPCs /\ "endLost" \in UplPCs /\ "done" \in UplPCs
    /\ "Failed" \in SaveResults
    /\ "second" \in CanPCs /\ "endEmit" \in CanPCs /\ "recvEmit" \in CanPCs
    /\ "endLost" \in CanPCs /\ "done" \in CanPCs
  BY DEF PrepPCs, Decisions, Responses, UplPCs, SaveResults, CanPCs

(* An update of one request keeps the table of requests well typed. *)
LEMMA TableUpdate ==
    ASSUME TypeOK
    PROVE  /\ \A r \in Preps, p \in PrepRecords :
                prep' = [prep EXCEPT ![r] = p] => prep' \in [Preps -> PrepRecords]
           /\ \A u \in Uploads, w \in UplRecords :
                upl' = [upl EXCEPT ![u] = w] => upl' \in [Uploads -> UplRecords]
           /\ \A c \in Cancels, d \in CanRecords :
                can' = [can EXCEPT ![c] = d] => can' \in [Cancels -> CanRecords]
  BY DEF TypeOK

(* Every event the handlers send is an event of the channel. *)
LEMMA EventType ==
    /\ \A r \in Preps : /\ [kind |-> "PrepareUpload", of |-> r] \in Events
                        /\ [kind |-> "PrepareUploadAborted", of |-> r] \in Events
                        /\ [kind |-> "SessionEnd", of |-> r] \in Events
    /\ \A u \in Uploads : [kind |-> "FileUpload", of |-> u] \in Events
    /\ \A s \in Preps \cup {Foreign} : [kind |-> "CancelReceived", of |-> s] \in Events
  BY DEF Events

(* Sending an event keeps the channel well typed. *)
LEMMA SendType ==
    ASSUME TypeOK, NEW kind, NEW of, [kind |-> kind, of |-> of] \in Events, Send(kind, of)
    PROVE  events' \in Seq(Events)
  BY DEF TypeOK, Send

(* The values of a freed slot. *)
LEMMA FreeType == FreeSlot \in Slots /\ NoFiles \in [Files -> FileEntries]
  BY ConstantsAssumption DEF FreeSlot, Slots, NoFiles, NoFile, FileEntries

(* What a step of a prepare-upload request changes of the requests. *)
LEMMA PrepMoves ==
    ASSUME TypeOK, NEW r \in Preps, PrepStep(r)
    PROVE  \E p \in PrepRecords : prep' = [prep EXCEPT ![r] = p]
  <1>0. prep[r] \in PrepRecords
    BY DEF TypeOK
  <1> USE <1>0, Strings DEF PrepRecords
  <1>1. CASE Claim(r)
    BY <1>1 DEF Claim
  <1>2. CASE ClaimBlocked(r)
    BY <1>2 DEF ClaimBlocked
  <1>3. CASE PrepDrop(r)
    BY <1>3 DEF PrepDrop
  <1>4. CASE PrepEmit(r)
    BY <1>4 DEF PrepEmit
  <1>5. CASE PrepEmitFails(r)
    BY <1>5 DEF PrepEmitFails
  <1>6. CASE PrepDecided(r)
    BY <1>6 DEF PrepDecided
  <1>7. CASE PrepCancelled(r)
    BY <1>7 DEF PrepCancelled
  <1>8. CASE PrepClear(r)
    BY <1>8 DEF PrepClear
  <1>9. CASE PrepActivate(r)
    BY <1>9 DEF PrepActivate
  <1>10. CASE AbortClear(r) \/ AbortEmit(r)
    BY <1>10 DEF AbortClear, AbortEmit
  <1> QED
    BY <1>1, <1>2, <1>3, <1>4, <1>5, <1>6, <1>7, <1>8, <1>9, <1>10 DEF PrepStep

(* The final status of a file is never "in progress". *)
LEMMA FinalStatusType ==
    ASSUME NEW result, NEW n
    PROVE  FinalStatus(result, n) \in {"Pending", "Finished", "Failed"}
  BY DEF FinalStatus

(* finalize_file keeps the slot, the files and the history well typed. *)
LEMMA FinalizeType ==
    ASSUME TypeOK, NEW u \in Uploads, NEW result \in SaveResults, NEW next \in UplPCs,
           upl[u].sid \in Preps, upl[u].file \in Files, FinalizeFile(u, result, next)
    PROVE  /\ slot' \in Slots
           /\ files' \in [Files -> FileEntries]
           /\ upl' \in [Uploads -> UplRecords]
           /\ how' \in [Preps -> {"none", "Finished", "Cancelled", "App"}]
  <1> DEFINE f == upl[u].file
             status == FinalStatus(result, files[f].attempts)
             settled == [files EXCEPT ![f].status = status]
  <1>1. settled \in [Files -> FileEntries]
    <2>1. status \in {"Pending", "Finished", "Failed"}
      BY FinalStatusType
    <2> HIDE DEF status
    <2> QED
      BY <2>1 DEF TypeOK, FileEntries
  <1>2. files' = files \/ files' = settled \/ files' = NoFiles
    BY DEF FinalizeFile
  <1> HIDE DEF settled
  <1>3. files' \in [Files -> FileEntries]
    BY <1>1, <1>2, FreeType DEF TypeOK
  <1>4. PICK pc \in UplPCs : upl' = [upl EXCEPT ![u].pc = pc]
    BY Strings DEF FinalizeFile
  <1>5. [upl[u] EXCEPT !.pc = pc] \in UplRecords
    BY DEF TypeOK, UplRecords
  <1>6. upl' \in [Uploads -> UplRecords]
    BY <1>4, <1>5, TableUpdate
  <1>7. (slot' = slot \/ slot' = FreeSlot) /\ (how' = how \/ how' = [how EXCEPT ![upl[u].sid] = "Finished"])
    BY DEF FinalizeFile
  <1>8. slot' \in Slots /\ how' \in [Preps -> {"none", "Finished", "Cancelled", "App"}]
    BY <1>7, FreeType DEF TypeOK
  <1> QED
    BY <1>3, <1>6, <1>8

(* Every step of a prepare-upload request keeps the types. *)
LEMMA PrepType ==
    ASSUME TypeOK, NEW r \in Preps, PrepStep(r)
    PROVE  TypeOK'
  <1>1. prep' \in [Preps -> PrepRecords]
    BY PrepMoves, TableUpdate
  <1>2. slot' \in Slots
    <2>0. CASE Claim(r)
      BY <2>0 DEF TypeOK, Claim, Slots
    <2>1. CASE PrepActivate(r)
      BY <2>1 DEF TypeOK, PrepActivate, Slots, PrepRecords
    <2>2. CASE PrepClear(r) \/ AbortClear(r)
      BY <2>2, FreeType DEF TypeOK, PrepClear, AbortClear, ClearPending
    <2>3. CASE UNCHANGED slot
      BY <2>3 DEF TypeOK
    <2> QED
      BY <2>0, <2>1, <2>2, <2>3 DEF PrepStep, ClaimBlocked, PrepDrop, PrepEmit, PrepEmitFails,
         PrepDecided, PrepCancelled, AbortEmit
  <1>3. files' \in [Files -> FileEntries]
    <2>1. CASE PrepActivate(r)
      BY <2>1, ConstantsAssumption DEF TypeOK, PrepActivate, NoFile, FileEntries
    <2>2. CASE UNCHANGED files
      BY <2>2 DEF TypeOK
    <2> QED
      BY <2>1, <2>2 DEF PrepStep, Claim, ClaimBlocked, PrepDrop, PrepEmit, PrepEmitFails, PrepDecided,
         PrepCancelled, PrepClear, AbortClear, AbortEmit
  <1>4. events' \in Seq(Events)
    <2>1. CASE Send("PrepareUpload", r) \/ Send("PrepareUploadAborted", r)
      BY <2>1, EventType, SendType
    <2>2. CASE UNCHANGED events
      BY <2>2 DEF TypeOK
    <2> QED
      BY <2>1, <2>2 DEF PrepStep, Claim, ClaimBlocked, PrepDrop, PrepEmit, PrepEmitFails, PrepDecided,
         PrepCancelled, PrepClear, PrepActivate, AbortClear, AbortEmit
  <1>5. UNCHANGED <<upl, can, open, how, ends>>
    BY DEF PrepStep, Claim, ClaimBlocked, PrepDrop, PrepEmit, PrepEmitFails, PrepDecided,
       PrepCancelled, PrepClear, PrepActivate, AbortClear, AbortEmit
  <1> QED
    BY <1>1, <1>2, <1>3, <1>4, <1>5 DEF TypeOK

(* Every step of an upload request keeps the types.  The attempts stay in  *)
(* range because a file that may be started has one left (AttemptLeft).    *)
LEMMA UploadType ==
    ASSUME TypeOK, AttemptLeft, WriterOwnsFile, OneReporter, NEW u \in Uploads, UploadStep(u)
    PROVE  TypeOK'
  <1>0. upl[u] \in UplRecords
    BY DEF TypeOK
  <1>1. CASE UploadStart(u)
    <2>1. PICK s \in Preps, f \in Files :
            /\ files[f].status = "Pending"
            /\ files' = [files EXCEPT ![f] = [status |-> "InProgress", attempts |-> files[f].attempts + 1]]
            /\ upl' = [upl EXCEPT ![u] = [upl[u] EXCEPT !.pc = "emit", !.sid = s, !.file = f]]
      BY <1>1 DEF UploadStart, UploadValid
    <2>2. files[f].attempts + 1 \in 0..MaxAttempts
      BY <2>1, ConstantsAssumption DEF TypeOK, AttemptLeft, FileEntries
    <2>3. files' \in [Files -> FileEntries]
      BY <2>1, <2>2 DEF TypeOK, FileEntries
    <2>4. [upl[u] EXCEPT !.pc = "emit", !.sid = s, !.file = f] \in UplRecords
      BY <1>0, Strings DEF UplRecords
    <2>5. upl' \in [Uploads -> UplRecords]
      BY <2>1, <2>4, TableUpdate
    <2> QED
      BY <1>1, <2>3, <2>5 DEF TypeOK, UploadStart
  <1>2. CASE UploadRejected(u) \/ UploadTarget(u) \/ UploadSave(u) \/ UploadDrop(u)
    <2>1. \E w \in UplRecords : upl' = [upl EXCEPT ![u] = w]
      <3> USE <1>0, Strings DEF UplRecords
      <3>1. CASE UploadRejected(u) \/ UploadDrop(u)
        BY <3>1 DEF UploadRejected, UploadDrop
      <3>2. CASE UploadTarget(u) \/ UploadSave(u)
        BY <3>2 DEF UploadTarget, UploadSave
      <3> QED
        BY <1>2, <3>1, <3>2
    <2>2. upl' \in [Uploads -> UplRecords]
      BY <2>1, TableUpdate
    <2> QED
      BY <1>2, <2>2 DEF TypeOK, UploadRejected, UploadTarget, UploadSave, UploadDrop
  <1>3. CASE UploadEmit(u)
    <2>1. \E w \in UplRecords : upl' = [upl EXCEPT ![u] = w]
      BY <1>0, <1>3, Strings DEF UplRecords, UploadEmit
    <2>2. upl' \in [Uploads -> UplRecords]
      BY <2>1, TableUpdate
    <2>3. events' \in Seq(Events)
      BY <1>3, EventType, SendType DEF TypeOK, UploadEmit
    <2> QED
      BY <1>3, <2>2, <2>3 DEF TypeOK, UploadEmit
  <1>4. CASE UploadFinish(u) \/ GuardFinish(u)
    <2>1. upl[u].sid \in Preps /\ upl[u].file \in Files
      BY <1>4 DEF WriterOwnsFile, Writing, UploadFinish, GuardFinish
    <2>2. PICK result \in SaveResults, next \in UplPCs : FinalizeFile(u, result, next)
      BY <1>0, <1>4, Strings DEF UploadFinish, GuardFinish, UplRecords
    <2>3. UNCHANGED <<prep, can, events, open, ends>>
      BY <1>4 DEF UploadFinish, GuardFinish
    <2> QED
      BY <2>1, <2>2, <2>3, FinalizeType DEF TypeOK
  <1>5. CASE UploadEndEmit(u)
    <2>1. upl[u].sid \in Preps
      BY <1>5 DEF OneReporter, EndsByUpload, UploadEndEmit
    <2>2. [upl[u] EXCEPT !.pc = "done"] \in UplRecords
      BY <1>0, Strings DEF UplRecords
    <2>3. upl' \in [Uploads -> UplRecords]
      BY <1>5, <2>2, TableUpdate DEF UploadEndEmit
    <2>4. events' \in Seq(Events)
      BY <1>5, <2>1, EventType, SendType DEF TypeOK, UploadEndEmit
    <2>5. ends' \in [Preps -> Nat]
      BY <1>5, <2>1 DEF TypeOK, UploadEndEmit
    <2> QED
      BY <1>5, <2>3, <2>4, <2>5 DEF TypeOK, UploadEndEmit
  <1> QED
    BY <1>1, <1>2, <1>3, <1>4, <1>5 DEF UploadStep

(* Every step of a cancel request keeps the types. *)
LEMMA CancelType ==
    ASSUME TypeOK, OneReporter, SlotOwned, CancelNamed, NEW c \in Cancels, CancelStep(c)
    PROVE  TypeOK'
  <1>0. can[c] \in CanRecords
    BY DEF TypeOK
  <1>1. CASE CancelPending(c)
    <2>1. slot.sid \in Preps
      BY <1>1 DEF CancelPending, MatchesPending, SlotOwned
    <2>2. [prep[slot.sid] EXCEPT !.token = TRUE] \in PrepRecords
      <3>1. prep[slot.sid] \in PrepRecords
        BY <2>1 DEF TypeOK
      <3> QED
        BY <3>1 DEF PrepRecords
    <2>3. prep' \in [Preps -> PrepRecords]
      BY <1>1, <2>1, <2>2, TableUpdate DEF CancelPending
    <2>4. [can[c] EXCEPT !.pc = "done"] \in CanRecords
      BY <1>0, Strings DEF CanRecords
    <2>5. can' \in [Cancels -> CanRecords]
      BY <1>1, <2>4, TableUpdate DEF CancelPending
    <2> QED
      BY <1>1, <2>3, <2>5 DEF TypeOK, CancelPending
  <1>2. CASE CancelFirst(c)
    <2>1. PICK ip \in Peers, sid \in CancelIds :
            can' = [can EXCEPT ![c] = [pc |-> IF sid = NoSid THEN "done" ELSE "second",
                                       ip |-> ip, sid |-> sid]]
      BY <1>2 DEF CancelFirst
    <2>2. [pc |-> IF sid = NoSid THEN "done" ELSE "second", ip |-> ip, sid |-> sid] \in CanRecords
      BY Strings DEF CanRecords, CancelIds
    <2>3. can' \in [Cancels -> CanRecords]
      BY <2>1, <2>2, TableUpdate
    <2> QED
      BY <1>2, <2>3 DEF TypeOK, CancelFirst
  <1>3. CASE CancelDrop(c)
    <2>1. [can[c] EXCEPT !.pc = IF @ = "endEmit" THEN "endLost" ELSE "done"] \in CanRecords
      BY <1>0, Strings DEF CanRecords
    <2>2. can' \in [Cancels -> CanRecords]
      BY <1>3, <2>1, TableUpdate DEF CancelDrop
    <2> QED
      BY <1>3, <2>2 DEF TypeOK, CancelDrop
  <1>4. CASE CancelSecond(c)
    <2>1. \E d \in CanRecords : can' = [can EXCEPT ![c] = d]
      BY <1>0, <1>4, Strings DEF CanRecords, CancelSecond
    <2>2. can' \in [Cancels -> CanRecords]
      BY <2>1, TableUpdate
    <2>3. slot' \in Slots /\ files' \in [Files -> FileEntries]
      BY <1>4, FreeType DEF TypeOK, CancelSecond
    <2>4. how' \in [Preps -> {"none", "Finished", "Cancelled", "App"}]
      BY <1>4 DEF TypeOK, CancelSecond
    <2> QED
      BY <1>4, <2>2, <2>3, <2>4 DEF TypeOK, CancelSecond
  <1>5. CASE CancelEndEmit(c) \/ CancelRecvEmit(c)
    <2>1. [can[c] EXCEPT !.pc = "done"] \in CanRecords
      BY <1>0, Strings DEF CanRecords
    <2>2. can' \in [Cancels -> CanRecords]
      BY <1>5, <2>1, TableUpdate DEF CancelEndEmit, CancelRecvEmit
    <2>3. CASE CancelEndEmit(c)
      <3>1. can[c].sid \in Preps
        BY <2>3 DEF OneReporter, EndsByCancel, CancelEndEmit
      <3>2. events' \in Seq(Events)
        BY <2>3, <3>1, EventType, SendType DEF TypeOK, CancelEndEmit
      <3>3. ends' \in [Preps -> Nat]
        <4>1. ends' = ends \/ ends' = [ends EXCEPT ![can[c].sid] = @ + 1]
          BY <2>3 DEF CancelEndEmit
        <4> QED
          BY <3>1, <4>1 DEF TypeOK
      <3> QED
        BY <2>2, <2>3, <3>2, <3>3 DEF TypeOK, CancelEndEmit
    <2>4. CASE CancelRecvEmit(c)
      <3>1. can[c].sid \in Preps \cup {Foreign}
        BY <1>0, <2>4 DEF CancelRecvEmit, CanRecords, CancelNamed
      <3>2. events' \in Seq(Events)
        BY <2>4, <3>1, EventType, SendType DEF TypeOK, CancelRecvEmit
      <3> QED
        BY <2>2, <2>4, <3>2 DEF TypeOK, CancelRecvEmit
    <2> QED
      BY <1>5, <2>3, <2>4
  <1> QED
    BY <1>1, <1>2, <1>3, <1>4, <1>5 DEF CancelStep

(* What a step of the application changes of the requests: the answers it  *)
(* owes them, never where they stand or what they are about.               *)
LEMMA AppMoves ==
    ASSUME TypeOK, AppStep
    PROVE  /\ prep' \in [Preps -> PrepRecords] /\ upl' \in [Uploads -> UplRecords]
           /\ \A r \in Preps : prep'[r].pc = prep[r].pc
           /\ \A u \in Uploads : /\ upl'[u].pc = upl[u].pc
                                 /\ upl'[u].sid = upl[u].sid /\ upl'[u].file = upl[u].file
  <1> USE Strings
  <1>0. ASSUME NEW r \in Preps, NEW d \in {"asked", "decline", "dropped"}
        PROVE  LET p == [prep[r] EXCEPT !.decision = d]
               IN  p \in PrepRecords /\ p.pc = prep[r].pc
    <2>1. prep[r] \in PrepRecords
      BY DEF TypeOK
    <2> QED
      BY <1>0, <2>1 DEF PrepRecords
  <1>u. ASSUME NEW u \in Uploads, NEW a \in {"queued", "asked", "given", "dropped"}
        PROVE  LET w == [upl[u] EXCEPT !.target = a]
               IN  /\ w \in UplRecords /\ w.pc = upl[u].pc
                   /\ w.sid = upl[u].sid /\ w.file = upl[u].file
    <2>1. upl[u] \in UplRecords
      BY DEF TypeOK
    <2> QED
      BY <1>u, <2>1 DEF UplRecords
  <1>1. CASE AppReceive
    <2>1. Head(events) \in Events
      BY <1>1 DEF AppReceive, TypeOK
    <2>2. /\ Head(events).kind = "PrepareUpload" => Head(events).of \in Preps
          /\ Head(events).kind = "FileUpload" => Head(events).of \in Uploads
      BY <2>1 DEF Events
    <2>3. \/ prep' = prep
          \/ \E r \in Preps : prep' = [prep EXCEPT ![r] = [prep[r] EXCEPT !.decision = "asked"]]
      BY <1>1, <2>2 DEF AppReceive
    <2>4. \/ upl' = upl
          \/ \E u \in Uploads : upl' = [upl EXCEPT ![u] = [upl[u] EXCEPT !.target = "asked"]]
      BY <1>1, <2>2 DEF AppReceive
    <2>5. prep' \in [Preps -> PrepRecords] /\ \A r \in Preps : prep'[r].pc = prep[r].pc
      BY <2>3, <1>0 DEF TypeOK
    <2>6. /\ upl' \in [Uploads -> UplRecords]
          /\ \A u \in Uploads : /\ upl'[u].pc = upl[u].pc
                                /\ upl'[u].sid = upl[u].sid /\ upl'[u].file = upl[u].file
      BY <2>4, <1>u DEF TypeOK
    <2> QED
      BY <2>5, <2>6
  <1>2. CASE AppClose
    <2>1. \A r \in Preps : prep'[r] = prep[r] \/ prep'[r] = [prep[r] EXCEPT !.decision = "dropped"]
      BY <1>2 DEF AppClose
    <2>2. \A u \in Uploads : upl'[u] = upl[u] \/ upl'[u] = [upl[u] EXCEPT !.target = "dropped"]
      BY <1>2 DEF AppClose
    <2>3. \A r \in Preps : prep'[r] \in PrepRecords /\ prep'[r].pc = prep[r].pc
      BY <2>1, <1>0 DEF TypeOK
    <2>4. \A u \in Uploads : /\ upl'[u] \in UplRecords /\ upl'[u].pc = upl[u].pc
                            /\ upl'[u].sid = upl[u].sid /\ upl'[u].file = upl[u].file
      BY <2>2, <1>u DEF TypeOK
    <2> QED
      BY <1>2, <2>3, <2>4 DEF AppClose
  <1>3. ASSUME NEW r \in Preps, AppDecide(r)
        PROVE  prep' \in [Preps -> PrepRecords] /\ \A q \in Preps : prep'[q].pc = prep[q].pc
    <2>1. ASSUME NEW ids \in SUBSET Files
          PROVE  LET p == [prep[r] EXCEPT !.decision = "accept", !.accepted = ids]
                 IN  p \in PrepRecords /\ p.pc = prep[r].pc
      <3>1. prep[r] \in PrepRecords
        BY DEF TypeOK
      <3> QED
        BY <3>1 DEF PrepRecords
    <2>2. PICK p \in PrepRecords : prep' = [prep EXCEPT ![r] = p] /\ p.pc = prep[r].pc
      <3>1. CASE \E ids \in SUBSET Files :
                   prep' = [prep EXCEPT ![r] = [@ EXCEPT !.decision = "accept", !.accepted = ids]]
        BY <2>1, <3>1
      <3>2. CASE \E answer \in {"decline", "dropped"} : prep' = [prep EXCEPT ![r].decision = answer]
        BY <1>0, <3>2
      <3> QED
        BY <1>3, <3>1, <3>2 DEF AppDecide
    <2> QED
      BY <2>2 DEF TypeOK
  <1>4. ASSUME NEW u \in Uploads, AppTarget(u)
        PROVE  /\ upl' \in [Uploads -> UplRecords]
               /\ \A v \in Uploads : /\ upl'[v].pc = upl[v].pc
                                     /\ upl'[v].sid = upl[v].sid /\ upl'[v].file = upl[v].file
    <2>1. PICK w \in UplRecords : /\ upl' = [upl EXCEPT ![u] = w] /\ w.pc = upl[u].pc
                                  /\ w.sid = upl[u].sid /\ w.file = upl[u].file
      BY <1>4, <1>u DEF AppTarget
    <2> QED
      BY <2>1 DEF TypeOK
  <1> QED
    BY <1>1, <1>2, <1>3, <1>4 DEF AppStep, AppDecide, AppTarget, AppCancel, TypeOK

(* Every step of the application keeps the types. *)
LEMMA AppType ==
    ASSUME TypeOK, AppStep
    PROVE  TypeOK'
  <1>1. prep' \in [Preps -> PrepRecords] /\ upl' \in [Uploads -> UplRecords]
    BY AppMoves
  <1>2. events' \in Seq(Events) /\ open' \in BOOLEAN
    <2>1. CASE AppReceive
      BY <2>1 DEF TypeOK, AppReceive
    <2>2. CASE AppClose
      <3>1. events' = <<>> /\ open' = FALSE
        BY <2>2 DEF AppClose
      <3>2. <<>> \in Seq(Events)
        OBVIOUS
      <3> QED
        BY <3>1, <3>2
    <2>3. CASE UNCHANGED <<events, open>>
      BY <2>3 DEF TypeOK
    <2> QED
      BY <2>1, <2>2, <2>3 DEF AppStep, AppDecide, AppCancel, AppTarget
  <1>3. slot' \in Slots /\ files' \in [Files -> FileEntries]
    BY FreeType DEF TypeOK, AppStep, AppReceive, AppClose, AppDecide, AppCancel, AppTarget
  <1>4. how' \in [Preps -> {"none", "Finished", "Cancelled", "App"}]
    BY DEF TypeOK, AppStep, AppReceive, AppClose, AppDecide, AppCancel, AppTarget
  <1>5. UNCHANGED <<can, ends>>
    BY DEF AppStep, AppReceive, AppClose, AppDecide, AppCancel, AppTarget
  <1> QED
    BY <1>1, <1>2, <1>3, <1>4, <1>5 DEF TypeOK

-----------------------------------------------------------------------------
(* The inductive invariant *)

(* The initial states satisfy the inductive invariant. *)
LEMMA InitInv == Init => IInv
  <1> SUFFICES ASSUME Init PROVE IInv
    OBVIOUS
  <1>1. TypeOK
    <2>1. slot \in Slots /\ files \in [Files -> FileEntries]
      BY FreeType DEF Init
    <2>2. prep \in [Preps -> PrepRecords]
      BY DEF Init, PrepRecords, PrepPCs, Decisions, Responses
    <2>3. upl \in [Uploads -> UplRecords] /\ can \in [Cancels -> CanRecords]
      BY DEF Init, UplRecords, CanRecords, UplPCs, CanPCs, SaveResults
    <2>4. events \in Seq(Events) /\ open \in BOOLEAN
      BY DEF Init
    <2>5. how \in [Preps -> {"none", "Finished", "Cancelled", "App"}] /\ ends \in [Preps -> Nat]
      BY DEF Init
    <2> QED
      BY <2>1, <2>2, <2>3, <2>4, <2>5 DEF TypeOK
  <1>2. SlotOwned /\ OneWriterPerFile /\ FinishedIsFinal
    BY DEF Init, SlotOwned, OneWriterPerFile, FinishedIsFinal, HoldsSlot, Writing, FreeSlot
  <1>3. EndReportedOnce /\ ActiveCreated /\ EndedGone
    BY DEF Init, EndReportedOnce, ActiveCreated, EndedGone, FreeSlot
  <1>4. WriterOwnsFile /\ AttemptLeft /\ OneReporter /\ CancelNamed
    BY DEF Init, WriterOwnsFile, AttemptLeft, OneReporter, CancelNamed, Writing, EndsByUpload,
       EndsByCancel, NoFile, NoFiles
  <1> QED
    BY <1>1, <1>2, <1>3, <1>4 DEF IInv

(* The parts that a step of a prepare-upload request does not touch. *)
LEMMA PrepFrame ==
    ASSUME IInv, UNCHANGED <<upl, can, how, ends>>
    PROVE  OneWriterPerFile' /\ FinishedIsFinal' /\ OneReporter' /\ CancelNamed'
  <1>1. OneWriterPerFile' /\ FinishedIsFinal'
    BY DEF IInv, OneWriterPerFile, FinishedIsFinal, Writing
  <1>2. OneReporter' /\ CancelNamed'
    BY DEF IInv, OneReporter, CancelNamed, EndsByUpload, EndsByCancel
  <1> QED
    BY <1>1, <1>2

(* A prepare-upload request that moves on without touching the slot. *)
LEMMA PrepQuiet ==
    ASSUME IInv, TypeOK', NEW r \in Preps,
           prep[r].pc # "done",
           HoldsSlot(r)' <=> HoldsSlot(r),
           \A q \in Preps \ {r} : prep'[q] = prep[q],
           UNCHANGED <<slot, files, upl, can, how, ends>>
    PROVE  IInv'
  <1>1. OneWriterPerFile' /\ FinishedIsFinal' /\ OneReporter' /\ CancelNamed'
    BY PrepFrame
  <1>2. SlotOwned'
    BY DEF IInv, SlotOwned, HoldsSlot, IsPending
  <1>3. ActiveCreated' /\ EndedGone'
    BY DEF IInv, ActiveCreated, EndedGone, IsActive
  <1>4. EndReportedOnce' /\ WriterOwnsFile' /\ AttemptLeft'
    BY DEF IInv, EndReportedOnce, WriterOwnsFile, AttemptLeft, IsActive, Writing
  <1> QED
    BY <1>1, <1>2, <1>3, <1>4 DEF IInv

(* A prepare-upload request that frees the slot it claimed. *)
LEMMA PrepFrees ==
    ASSUME IInv, TypeOK', NEW r \in Preps,
           HoldsSlot(r), ~HoldsSlot(r)', ClearPending,
           \A q \in Preps \ {r} : prep'[q] = prep[q],
           UNCHANGED <<files, upl, can, how, ends>>
    PROVE  IInv'
  <1>1. OneWriterPerFile' /\ FinishedIsFinal' /\ OneReporter' /\ CancelNamed'
    BY PrepFrame
  <1>2. IsPending(r) /\ slot' = FreeSlot
    BY DEF IInv, SlotOwned, IsPending, ClearPending
  <1>3. SlotOwned'
    BY <1>2 DEF IInv, SlotOwned, HoldsSlot, IsPending, FreeSlot
  <1>4. ActiveCreated' /\ EndedGone'
    BY <1>2 DEF IInv, ActiveCreated, EndedGone, IsActive, IsPending, FreeSlot, HoldsSlot
  <1>5. EndReportedOnce' /\ AttemptLeft'
    BY <1>2 DEF IInv, EndReportedOnce, AttemptLeft, IsActive, IsPending, FreeSlot
  <1>6. WriterOwnsFile'
    BY <1>2 DEF IInv, WriterOwnsFile, IsActive, IsPending, Writing, FreeSlot
  <1> QED
    BY <1>1, <1>3, <1>4, <1>5, <1>6 DEF IInv

(* Every step of a prepare-upload request keeps the inductive invariant. *)
LEMMA PrepInv ==
    ASSUME IInv, NEW r \in Preps, PrepStep(r)
    PROVE  IInv'
  <1>0. TypeOK' /\ prep \in [Preps -> PrepRecords]
    BY PrepType DEF IInv, TypeOK
  <1>1. \A q \in Preps \ {r} : prep'[q] = prep[q]
    BY <1>0, PrepMoves DEF IInv
  <1> DEFINE pc == prep[r].pc
             pc1 == prep'[r].pc
  <1>2. CASE Claim(r)
    <2>1. PICK ip \in Peers : slot' = [kind |-> "Pending", sid |-> r, ip |-> ip]
      BY <1>2 DEF Claim
    <2>2. pc = "idle" /\ pc1 = "emit" /\ slot.kind = "Free"
      BY <1>0, <1>2 DEF Claim, PrepRecords
    <2>3. UNCHANGED <<files, upl, can, how, ends>>
      BY <1>2 DEF Claim
    <2>4. SlotOwned'
      BY <1>1, <2>1, <2>2 DEF IInv, SlotOwned, HoldsSlot, IsPending
    <2>5. ActiveCreated' /\ EndedGone'
      BY <1>1, <2>1, <2>2, <2>3 DEF IInv, ActiveCreated, EndedGone, IsActive
    <2>6. EndReportedOnce' /\ AttemptLeft'
      BY <2>1, <2>3 DEF IInv, EndReportedOnce, AttemptLeft, IsActive
    <2>7. WriterOwnsFile'
      BY <2>1, <2>2, <2>3 DEF IInv, WriterOwnsFile, IsActive, Writing
    <2> QED
      BY <1>0, <2>3, <2>4, <2>5, <2>6, <2>7, PrepFrame DEF IInv
  <1>3. CASE ClaimBlocked(r)
    BY <1>0, <1>1, <1>3, PrepQuiet DEF ClaimBlocked, HoldsSlot, PrepRecords
  <1>4. CASE PrepDrop(r)
    BY <1>0, <1>1, <1>4, PrepQuiet DEF PrepDrop, HoldsSlot, PrepRecords
  <1>5. CASE PrepEmit(r)
    BY <1>0, <1>1, <1>5, PrepQuiet DEF PrepEmit, HoldsSlot, PrepRecords
  <1>6. CASE PrepEmitFails(r)
    BY <1>0, <1>1, <1>6, PrepQuiet DEF PrepEmitFails, HoldsSlot, PrepRecords
  <1>7. CASE PrepDecided(r)
    BY <1>0, <1>1, <1>7, PrepQuiet DEF PrepDecided, HoldsSlot, PrepRecords
  <1>8. CASE PrepCancelled(r)
    BY <1>0, <1>1, <1>8, PrepQuiet DEF PrepCancelled, HoldsSlot, PrepRecords
  <1>9. CASE PrepClear(r)
    BY <1>0, <1>1, <1>9, PrepFrees DEF PrepClear, HoldsSlot, PrepRecords
  <1>10. CASE AbortClear(r)
    BY <1>0, <1>1, <1>10, PrepFrees DEF AbortClear, HoldsSlot, PrepRecords
  <1>11. CASE AbortEmit(r)
    BY <1>0, <1>1, <1>11, PrepQuiet DEF AbortEmit, HoldsSlot, PrepRecords
  <1>12. CASE PrepActivate(r)
    <2>1. slot' = [kind |-> "Active", sid |-> r, ip |-> prep[r].ip] /\ UNCHANGED <<upl, can, how, ends>>
      BY <1>12 DEF PrepActivate
    <2>2. pc = "activate" /\ pc1 = "done"
      BY <1>0, <1>12 DEF PrepActivate, PrepRecords
    <2>3. slot.kind = "Pending" /\ slot.sid = r
      BY <2>2 DEF IInv, SlotOwned, HoldsSlot, IsPending
    <2>4. how[r] = "none" /\ \A u \in Uploads : Writing(u) => upl[u].sid # r
      BY <2>2, <2>3 DEF IInv, EndedGone, WriterOwnsFile, IsActive
    <2>5. SlotOwned'
      BY <1>1, <2>1, <2>2, <2>3 DEF IInv, SlotOwned, HoldsSlot, IsPending
    <2>6. ActiveCreated' /\ EndedGone'
      BY <1>1, <2>1, <2>2, <2>3, <2>4 DEF IInv, ActiveCreated, EndedGone, IsActive
    <2>7. EndReportedOnce'
      BY <2>1, <2>3, <2>4 DEF IInv, EndReportedOnce, IsActive
    <2>8. WriterOwnsFile'
      BY <2>1, <2>3, <2>4 DEF IInv, WriterOwnsFile, IsActive, Writing
    <2>9. AttemptLeft'
      BY <1>12, ConstantsAssumption DEF AttemptLeft, PrepActivate, NoFile
    <2> QED
      BY <1>0, <2>1, <2>5, <2>6, <2>7, <2>8, <2>9, PrepFrame DEF IInv
  <1> QED
    BY <1>2, <1>3, <1>4, <1>5, <1>6, <1>7, <1>8, <1>9, <1>10, <1>11, <1>12 DEF PrepStep

(* An upload request that moves on without touching the session: it keeps  *)
(* its session and file and takes up neither writing nor reporting.        *)
LEMMA UploadQuiet ==
    ASSUME IInv, TypeOK', NEW u \in Uploads,
           upl'[u].sid = upl[u].sid, upl'[u].file = upl[u].file,
           Writing(u)' => Writing(u), EndsByUpload(u)' => EndsByUpload(u),
           \A v \in Uploads \ {u} : upl'[v] = upl[v],
           UNCHANGED <<slot, files, prep, can, how, ends>>
    PROVE  IInv'
  <1>1. SlotOwned' /\ EndReportedOnce' /\ ActiveCreated' /\ EndedGone' /\ AttemptLeft' /\ CancelNamed'
    BY DEF IInv, SlotOwned, EndReportedOnce, ActiveCreated, EndedGone, AttemptLeft, CancelNamed,
       HoldsSlot, IsPending, IsActive
  <1>2. \A v \in Uploads : /\ Writing(v)' => Writing(v)
                          /\ EndsByUpload(v)' => EndsByUpload(v)
                          /\ upl'[v].sid = upl[v].sid /\ upl'[v].file = upl[v].file
    BY DEF Writing, EndsByUpload
  <1>3. OneWriterPerFile' /\ FinishedIsFinal'
    BY <1>2 DEF IInv, OneWriterPerFile, FinishedIsFinal, Writing
  <1>4. WriterOwnsFile'
    BY <1>2 DEF IInv, WriterOwnsFile, IsActive, Writing
  <1>5. OneReporter'
    BY <1>2 DEF IInv, OneReporter, EndsByCancel, EndsByUpload
  <1> QED
    BY <1>1, <1>3, <1>4, <1>5 DEF IInv

(* finalize_file of a writer keeps the inductive invariant. *)
LEMMA FinalizeInv ==
    ASSUME IInv, TypeOK', NEW u \in Uploads, NEW result \in SaveResults,
           NEW next \in {"endEmit", "guardEnd"},
           Writing(u), FinalizeFile(u, result, next), UNCHANGED <<prep, can, ends>>
    PROVE  IInv'
  <1> DEFINE s == upl[u].sid
             f == upl[u].file
             status == FinalStatus(result, files[f].attempts)
             settled == [files EXCEPT ![f].status = status]
             fs == IF files[f].status = "InProgress" THEN settled ELSE files
  <1>0. /\ s \in Preps /\ f \in Files
        /\ upl \in [Uploads -> UplRecords] /\ files \in [Files -> FileEntries]
        /\ how \in [Preps -> {"none", "Finished", "Cancelled", "App"}] /\ ends \in [Preps -> Nat]
        /\ IsActive(s) => files[f].status = "InProgress"
    BY DEF IInv, TypeOK, WriterOwnsFile
  <1>1. \A v \in Uploads \ {u} : upl'[v] = upl[v]
    BY <1>0 DEF FinalizeFile
  <1>2. upl'[u].sid = s /\ upl'[u].file = f
    BY <1>0 DEF FinalizeFile, UplRecords
  <1>3. status \in {"Pending", "Finished", "Failed"} /\ (status = "Pending" => files[f].attempts < MaxAttempts)
    BY DEF FinalStatus
  <1> HIDE DEF status
  <1>4. IsActive(s) => /\ settled[f].status = status /\ settled[f].attempts = files[f].attempts
                       /\ \A g \in Files \ {f} : settled[g] = files[g]
    BY <1>0 DEF FileEntries
  <1>5. CASE upl'[u].pc = "done" /\ UNCHANGED <<slot, files, how>>
    BY <1>1, <1>2, <1>5, UploadQuiet DEF Writing, EndsByUpload
  <1>6. CASE IsActive(s) /\ files' = settled /\ upl'[u].pc = "done" /\ UNCHANGED <<slot, how>>
    <2>1. SlotOwned' /\ EndReportedOnce' /\ ActiveCreated' /\ EndedGone' /\ CancelNamed'
      BY <1>6 DEF IInv, SlotOwned, EndReportedOnce, ActiveCreated, EndedGone, CancelNamed,
         HoldsSlot, IsPending, IsActive
    <2>2. OneWriterPerFile' /\ FinishedIsFinal' /\ OneReporter'
      BY <1>1, <1>6 DEF IInv, OneWriterPerFile, FinishedIsFinal, OneReporter, Writing,
         EndsByUpload, EndsByCancel
    <2>3. AttemptLeft'
      BY <1>3, <1>4, <1>6 DEF IInv, AttemptLeft
    <2>4. WriterOwnsFile'
      BY <1>1, <1>4, <1>6 DEF IInv, WriterOwnsFile, OneWriterPerFile, Writing, IsActive
    <2> QED
      BY <2>1, <2>2, <2>3, <2>4 DEF IInv
  <1>7. CASE /\ IsActive(s) /\ IsComplete(settled)
             /\ slot' = FreeSlot /\ files' = NoFiles
             /\ how' = [how EXCEPT ![s] = "Finished"] /\ upl'[u].pc = next
    <2>1. how[s] = "none" /\ ends[s] = 0 /\ slot.kind = "Active" /\ slot.sid = s
      BY <1>0, <1>7 DEF IInv, EndedGone, EndReportedOnce, IsActive
    <2>2. \A v \in Uploads \ {u} : Writing(v) => upl[v].sid # s
      BY <1>4, <1>7 DEF IInv, WriterOwnsFile, OneWriterPerFile, IsComplete
    <2>3. \A v \in Uploads : Writing(v)' => v # u /\ Writing(v) /\ upl'[v] = upl[v]
      BY <1>1, <1>7 DEF Writing
    <2>4. SlotOwned' /\ ActiveCreated' /\ EndedGone' /\ CancelNamed'
      BY <1>0, <1>7, <2>1 DEF IInv, SlotOwned, ActiveCreated, EndedGone, CancelNamed, HoldsSlot,
         IsPending, IsActive, FreeSlot
    <2>5. OneWriterPerFile' /\ FinishedIsFinal' /\ WriterOwnsFile'
      BY <1>0, <1>7, <2>1, <2>2, <2>3 DEF IInv, OneWriterPerFile, FinishedIsFinal, WriterOwnsFile,
         IsActive, FreeSlot
    <2>6. EndReportedOnce' /\ AttemptLeft'
      BY <1>0, <1>7, <2>1 DEF IInv, EndReportedOnce, AttemptLeft, IsActive, FreeSlot, NoFiles, NoFile
    <2>7. \A v \in Uploads : EndsByUpload(v)' =>
                            v = u \/ (EndsByUpload(v) /\ upl'[v] = upl[v] /\ upl[v].sid # s)
      <3>1. \A v \in Uploads : EndsByUpload(v) => upl[v].sid # s
        BY <2>1 DEF IInv, OneReporter
      <3> QED
        BY <1>1, <3>1 DEF EndsByUpload
    <2>8. OneReporter'
      BY <1>0, <1>2, <1>7, <2>1, <2>7 DEF IInv, OneReporter, EndsByCancel
    <2> QED
      BY <2>4, <2>5, <2>6, <2>8 DEF IInv
  <1>8. \/ ~IsActive(s) /\ upl' = [upl EXCEPT ![u].pc = "done"] /\ UNCHANGED <<slot, files, how>>
        \/ /\ IsActive(s) /\ files' = fs /\ upl' = [upl EXCEPT ![u].pc = "done"]
           /\ UNCHANGED <<slot, how>>
        \/ /\ IsActive(s) /\ IsComplete(fs) /\ slot' = FreeSlot /\ files' = NoFiles
           /\ how' = [how EXCEPT ![s] = "Finished"] /\ upl' = [upl EXCEPT ![u].pc = next]
    BY DEF FinalizeFile, status
  <1>9. /\ upl' = [upl EXCEPT ![u].pc = "done"] => upl'[u].pc = "done"
        /\ upl' = [upl EXCEPT ![u].pc = next] => upl'[u].pc = next
    BY <1>0 DEF UplRecords
  <1>10. IsActive(s) => fs = settled
    BY <1>0
  <1> HIDE DEF settled, fs
  <1> QED
    BY <1>5, <1>6, <1>7, <1>8, <1>9, <1>10

(* Every step of an upload request keeps the inductive invariant. *)
LEMMA UploadInv ==
    ASSUME IInv, NEW u \in Uploads, UploadStep(u)
    PROVE  IInv'
  <1>0. TypeOK' /\ upl \in [Uploads -> UplRecords] /\ upl[u] \in UplRecords
    BY UploadType DEF IInv, TypeOK
  <1>1. CASE UploadStart(u)
    <2>1. PICK s \in Preps, f \in Files, ip \in Peers :
            /\ UploadValid(s, f, ip, TRUE)
            /\ files' = [files EXCEPT ![f] = [status |-> "InProgress", attempts |-> files[f].attempts + 1]]
            /\ upl' = [upl EXCEPT ![u] = [upl[u] EXCEPT !.pc = "emit", !.sid = s, !.file = f]]
      BY <1>1 DEF UploadStart
    <2>2. UNCHANGED <<slot, prep, can, how, ends>>
      BY <1>1 DEF UploadStart
    <2>3. upl[u].pc = "idle" /\ upl'[u].pc = "emit" /\ upl'[u].sid = s /\ upl'[u].file = f
      BY <1>0, <1>1, <2>1 DEF UploadStart, UplRecords
    <2>4. \A v \in Uploads \ {u} : upl'[v] = upl[v]
      BY <1>0, <2>1
    <2>5. /\ IsActive(s) /\ files[f].status = "Pending" /\ files'[f].status = "InProgress"
          /\ \A g \in Files \ {f} : files'[g] = files[g]
      BY <2>1 DEF IInv, TypeOK, UploadValid, IsActive
    <2>6. \A v \in Uploads : Writing(v) => upl[v].sid # s \/ upl[v].file # f
      BY <2>5 DEF IInv, WriterOwnsFile
    <2>7. how[s] = "none"
      BY <2>5 DEF IInv, EndedGone
    <2>8. SlotOwned' /\ EndReportedOnce' /\ ActiveCreated' /\ EndedGone' /\ CancelNamed'
      BY <2>2 DEF IInv, SlotOwned, EndReportedOnce, ActiveCreated, EndedGone, CancelNamed,
         HoldsSlot, IsPending, IsActive
    <2>9. OneWriterPerFile'
      BY <2>3, <2>4, <2>6 DEF IInv, OneWriterPerFile, Writing
    <2>10. FinishedIsFinal'
      BY <2>2, <2>3, <2>4, <2>7 DEF IInv, FinishedIsFinal, Writing
    <2>11. WriterOwnsFile'
      BY <2>2, <2>3, <2>4, <2>5, <2>6 DEF IInv, WriterOwnsFile, Writing, IsActive
    <2>12. AttemptLeft'
      BY <2>5 DEF IInv, AttemptLeft
    <2>13. OneReporter'
      BY <2>2, <2>3, <2>4 DEF IInv, OneReporter, EndsByUpload, EndsByCancel
    <2> QED
      BY <1>0, <2>8, <2>9, <2>10, <2>11, <2>12, <2>13 DEF IInv
  <1>2. ASSUME NEW w \in UplRecords, upl' = [upl EXCEPT ![u] = w],
               w.sid = upl[u].sid, w.file = upl[u].file,
               w.pc \in {"emit", "target", "save", "finish", "guard", "stuck"} => Writing(u),
               w.pc \notin {"endEmit", "guardEnd"}, UNCHANGED <<slot, files, prep, can, how, ends>>
        PROVE  IInv'
    <2>1. upl'[u] = w /\ \A v \in Uploads \ {u} : upl'[v] = upl[v]
      BY <1>0, <1>2
    <2>2. (Writing(u)' => Writing(u)) /\ ~EndsByUpload(u)'
      BY <1>2, <2>1 DEF Writing, EndsByUpload
    <2> QED
      BY <1>0, <1>2, <2>1, <2>2, UploadQuiet
  <1>3. CASE UploadRejected(u)
    <2>1. LET w == [upl[u] EXCEPT !.pc = "done"]
          IN  w \in UplRecords /\ w.pc = "done" /\ w.sid = upl[u].sid /\ w.file = upl[u].file
      BY <1>0, Strings DEF UplRecords
    <2> QED
      BY <1>2, <1>3, <2>1 DEF UploadRejected
  <1>4. CASE UploadEmit(u) \/ UploadTarget(u) \/ UploadSave(u)
    <2>1. PICK w \in UplRecords :
            /\ upl' = [upl EXCEPT ![u] = w] /\ w.pc \in {"target", "save", "finish"}
            /\ w.sid = upl[u].sid /\ w.file = upl[u].file
      <3>1. LET w1 == [upl[u] EXCEPT !.pc = "target", !.target = "queued"]
                w2 == [upl[u] EXCEPT !.pc = "save"]
            IN  /\ w1 \in UplRecords /\ w2 \in UplRecords /\ w1.pc = "target" /\ w2.pc = "save"
                /\ w1.sid = upl[u].sid /\ w1.file = upl[u].file
                /\ w2.sid = upl[u].sid /\ w2.file = upl[u].file
        BY <1>0, Strings DEF UplRecords
      <3>2. ASSUME NEW result \in SaveResults
             PROVE  LET w == [upl[u] EXCEPT !.pc = "finish", !.result = result]
                    IN  /\ w \in UplRecords /\ w.pc = "finish"
                        /\ w.sid = upl[u].sid /\ w.file = upl[u].file
        BY <1>0, Strings DEF UplRecords
      <3>3. CASE UploadEmit(u)
        BY <3>1, <3>2, <3>3, Strings DEF UploadEmit
      <3>4. CASE UploadTarget(u)
        BY <3>1, <3>2, <3>4, Strings DEF UploadTarget
      <3>5. CASE UploadSave(u)
        BY <3>2, <3>5 DEF UploadSave
      <3> QED
        BY <1>4, <3>3, <3>4, <3>5
    <2>2. Writing(u) /\ UNCHANGED <<slot, files, prep, can, how, ends>>
      BY <1>4 DEF UploadEmit, UploadTarget, UploadSave, Writing
    <2> QED
      BY <1>2, <2>1, <2>2
  <1>5. CASE UploadDrop(u)
    <2>1. PICK w \in UplRecords :
            /\ upl' = [upl EXCEPT ![u] = w] /\ w.pc \in {"guard", "stuck", "endLost"}
            /\ w.sid = upl[u].sid /\ w.file = upl[u].file
            /\ w.pc \in {"guard", "stuck"} => Writing(u)
      BY <1>0, <1>5, Strings DEF UploadDrop, UplRecords, Writing
    <2>2. UNCHANGED <<slot, files, prep, can, how, ends>>
      BY <1>5 DEF UploadDrop
    <2> QED
      BY <1>2, <2>1, <2>2
  <1>6. CASE UploadFinish(u) \/ GuardFinish(u)
    <2>1. PICK result \in SaveResults, next \in {"endEmit", "guardEnd"} : FinalizeFile(u, result, next)
      BY <1>0, <1>6, Strings DEF UploadFinish, GuardFinish, UplRecords
    <2>2. Writing(u) /\ UNCHANGED <<prep, can, ends>>
      BY <1>6 DEF UploadFinish, GuardFinish, Writing
    <2> QED
      BY <1>0, <2>1, <2>2, FinalizeInv
  <1>7. CASE UploadEndEmit(u)
    <2> DEFINE s == upl[u].sid
    <2>1. /\ s \in Preps /\ how[s] = "Finished" /\ ends[s] = 0 /\ ends \in [Preps -> Nat]
          /\ \A v \in Uploads : EndsByUpload(v) /\ upl[v].sid = s => v = u
      BY <1>7 DEF IInv, OneReporter, EndsByUpload, UploadEndEmit, TypeOK
    <2>2. upl'[u].pc = "done" /\ \A v \in Uploads \ {u} : upl'[v] = upl[v]
      BY <1>0, <1>7 DEF UploadEndEmit, UplRecords
    <2>3. UNCHANGED <<slot, files, prep, can, how>>
      BY <1>7 DEF UploadEndEmit
    <2>4. (\A q \in Preps \ {s} : ends'[q] = ends[q]) /\ ends'[s] \in {0, 1}
      BY <1>7, <2>1 DEF UploadEndEmit
    <2>5. SlotOwned' /\ ActiveCreated' /\ EndedGone' /\ AttemptLeft' /\ CancelNamed'
      BY <2>3 DEF IInv, SlotOwned, ActiveCreated, EndedGone, AttemptLeft, CancelNamed,
         HoldsSlot, IsPending, IsActive
    <2>6. OneWriterPerFile' /\ FinishedIsFinal' /\ WriterOwnsFile'
      BY <2>2, <2>3 DEF IInv, OneWriterPerFile, FinishedIsFinal, WriterOwnsFile, Writing, IsActive
    <2>7. EndReportedOnce'
      BY <2>1, <2>3, <2>4 DEF IInv, EndReportedOnce, EndedGone, IsActive
    <2>8. OneReporter'
      BY <2>1, <2>2, <2>3, <2>4 DEF IInv, OneReporter, EndsByUpload, EndsByCancel
    <2> QED
      BY <1>0, <2>5, <2>6, <2>7, <2>8 DEF IInv
  <1> QED
    BY <1>1, <1>3, <1>4, <1>5, <1>6, <1>7 DEF UploadStep

(* Ending the active session at once, by a cancel request or by the        *)
(* application: no request is left that counts as its writer or reporter   *)
(* of a finished session.                                                  *)
LEMMA EndNow ==
    ASSUME IInv, NEW s \in Preps, NEW by \in {"Cancelled", "App"}, IsActive(s),
           slot' = FreeSlot, files' = NoFiles, how' = [how EXCEPT ![s] = by],
           UNCHANGED <<prep, upl, ends>>
    PROVE  /\ SlotOwned' /\ OneWriterPerFile' /\ FinishedIsFinal' /\ EndReportedOnce'
           /\ ActiveCreated' /\ EndedGone' /\ WriterOwnsFile' /\ AttemptLeft'
           /\ how[s] = "none" /\ ends[s] = 0
  <1>1. /\ how \in [Preps -> {"none", "Finished", "Cancelled", "App"}] /\ ends \in [Preps -> Nat]
        /\ how[s] = "none" /\ ends[s] = 0 /\ slot.kind = "Active" /\ slot.sid = s
    BY DEF IInv, TypeOK, EndedGone, EndReportedOnce, IsActive
  <1>2. SlotOwned' /\ ActiveCreated' /\ EndedGone'
    BY <1>1 DEF IInv, SlotOwned, ActiveCreated, EndedGone, HoldsSlot, IsPending, IsActive, FreeSlot
  <1>3. OneWriterPerFile' /\ FinishedIsFinal' /\ WriterOwnsFile'
    BY <1>1 DEF IInv, OneWriterPerFile, FinishedIsFinal, WriterOwnsFile, Writing, IsActive, FreeSlot
  <1>4. EndReportedOnce' /\ AttemptLeft'
    BY <1>1 DEF IInv, EndReportedOnce, AttemptLeft, IsActive, FreeSlot, NoFiles, NoFile
  <1> QED
    BY <1>1, <1>2, <1>3, <1>4

(* A cancel request that moves on without touching the session. *)
LEMMA CancelQuiet ==
    ASSUME IInv, TypeOK', NEW c \in Cancels,
           EndsByCancel(c)' => EndsByCancel(c) /\ can'[c].sid = can[c].sid,
           can'[c].pc \in {"second", "recvEmit"} => can'[c].sid # NoSid,
           \A d \in Cancels \ {c} : can'[d] = can[d],
           \A r \in Preps : prep'[r].pc = prep[r].pc,
           UNCHANGED <<slot, files, upl, how, ends>>
    PROVE  IInv'
  <1>1. SlotOwned' /\ ActiveCreated' /\ EndedGone'
    BY DEF IInv, SlotOwned, ActiveCreated, EndedGone, HoldsSlot, IsPending, IsActive
  <1>2. OneWriterPerFile' /\ FinishedIsFinal' /\ EndReportedOnce' /\ WriterOwnsFile' /\ AttemptLeft'
    BY DEF IInv, OneWriterPerFile, FinishedIsFinal, EndReportedOnce, WriterOwnsFile, AttemptLeft,
       Writing, IsActive
  <1>3. CancelNamed'
    BY DEF IInv, CancelNamed
  <1>4. OneReporter'
    BY DEF IInv, OneReporter, EndsByCancel, EndsByUpload
  <1> QED
    BY <1>1, <1>2, <1>3, <1>4 DEF IInv

(* Every step of a cancel request keeps the inductive invariant. *)
LEMMA CancelInv ==
    ASSUME IInv, NEW c \in Cancels, CancelStep(c)
    PROVE  IInv'
  <1>0. TypeOK' /\ can \in [Cancels -> CanRecords] /\ can[c] \in CanRecords
    BY CancelType DEF IInv, TypeOK
  <1>1. CASE CancelPending(c)
    <2>1. slot.sid \in Preps /\ prep \in [Preps -> PrepRecords]
      BY <1>1 DEF CancelPending, MatchesPending, IInv, SlotOwned, TypeOK
    <2>2. \A r \in Preps : prep'[r].pc = prep[r].pc
      BY <1>1, <2>1 DEF CancelPending, PrepRecords
    <2>3. can'[c].pc = "done" /\ \A d \in Cancels \ {c} : can'[d] = can[d]
      BY <1>0, <1>1 DEF CancelPending, CanRecords
    <2> QED
      BY <1>0, <1>1, <2>2, <2>3, CancelQuiet DEF CancelPending, EndsByCancel
  <1>2. CASE CancelFirst(c)
    <2>1. /\ can'[c].pc \in {"done", "second"} /\ (can'[c].pc = "second" => can'[c].sid # NoSid)
          /\ \A d \in Cancels \ {c} : can'[d] = can[d]
      BY <1>0, <1>2 DEF CancelFirst
    <2> QED
      BY <1>0, <1>2, <2>1, CancelQuiet DEF CancelFirst, EndsByCancel
  <1>3. CASE CancelDrop(c)
    <2>1. can'[c].pc \in {"done", "endLost"} /\ \A d \in Cancels \ {c} : can'[d] = can[d]
      BY <1>0, <1>3 DEF CancelDrop, CanRecords
    <2> QED
      BY <1>0, <1>3, <2>1, CancelQuiet DEF CancelDrop, EndsByCancel
  <1>4. CASE CancelSecond(c)
    <2> DEFINE s == can[c].sid
    <2>1. CASE UNCHANGED <<slot, files, how>> /\ can' = [can EXCEPT ![c].pc = "recvEmit"]
      <3>1. /\ can'[c].pc = "recvEmit" /\ can'[c].sid = s
            /\ \A d \in Cancels \ {c} : can'[d] = can[d]
        BY <1>0, <2>1 DEF CanRecords
      <3>2. s # NoSid
        BY <1>4 DEF CancelSecond, IInv, CancelNamed
      <3> QED
        BY <1>0, <1>4, <2>1, <3>1, <3>2, CancelQuiet DEF CancelSecond, EndsByCancel
    <2>2. CASE /\ IsActive(s) /\ slot' = FreeSlot /\ files' = NoFiles
               /\ how' = [how EXCEPT ![s] = "Cancelled"]
               /\ can' = [can EXCEPT ![c].pc = "endEmit"]
      <3>1. s \in Preps /\ how \in [Preps -> {"none", "Finished", "Cancelled", "App"}]
        BY <2>2 DEF IInv, ActiveCreated, IsActive, TypeOK
      <3>2. UNCHANGED <<prep, upl, ends>>
        BY <1>4 DEF CancelSecond
      <3>3. /\ SlotOwned' /\ OneWriterPerFile' /\ FinishedIsFinal' /\ EndReportedOnce'
            /\ ActiveCreated' /\ EndedGone' /\ WriterOwnsFile' /\ AttemptLeft'
            /\ how[s] = "none" /\ ends[s] = 0
        BY <2>2, <3>1, <3>2, EndNow
      <3>4. /\ can'[c].pc = "endEmit" /\ can'[c].sid = s
            /\ \A d \in Cancels \ {c} : can'[d] = can[d]
        BY <1>0, <2>2 DEF CanRecords
      <3>5. \A d \in Cancels : EndsByCancel(d) => can[d].sid # s
        BY <3>3 DEF IInv, OneReporter
      <3>6. \A u \in Uploads : EndsByUpload(u) => upl[u].sid # s
        BY <3>3 DEF IInv, OneReporter
      <3>7. OneReporter'
        BY <2>2, <3>1, <3>2, <3>3, <3>4, <3>5, <3>6 DEF IInv, OneReporter, EndsByCancel, EndsByUpload
      <3>8. CancelNamed'
        BY <3>4 DEF IInv, CancelNamed
      <3> QED
        BY <1>0, <3>3, <3>7, <3>8 DEF IInv
    <2> QED
      BY <1>4, <2>1, <2>2 DEF CancelSecond
  <1>5. CASE CancelEndEmit(c)
    <2> DEFINE s == can[c].sid
    <2>1. /\ s \in Preps /\ how[s] = "Cancelled" /\ ends[s] = 0 /\ ends \in [Preps -> Nat]
          /\ \A d \in Cancels : EndsByCancel(d) /\ can[d].sid = s => d = c
      BY <1>5 DEF IInv, OneReporter, EndsByCancel, CancelEndEmit, TypeOK
    <2>2. can'[c].pc = "done" /\ \A d \in Cancels \ {c} : can'[d] = can[d]
      BY <1>0, <1>5 DEF CancelEndEmit, CanRecords
    <2>3. UNCHANGED <<slot, files, prep, upl, how>>
      BY <1>5 DEF CancelEndEmit
    <2>4. (\A q \in Preps \ {s} : ends'[q] = ends[q]) /\ ends'[s] \in {0, 1}
      <3>1. ends' = ends \/ ends' = [ends EXCEPT ![s] = @ + 1]
        BY <1>5 DEF CancelEndEmit
      <3> QED
        BY <2>1, <3>1
    <2>5. SlotOwned' /\ ActiveCreated' /\ EndedGone' /\ AttemptLeft'
      BY <2>3 DEF IInv, SlotOwned, ActiveCreated, EndedGone, AttemptLeft, HoldsSlot, IsPending, IsActive
    <2>6. OneWriterPerFile' /\ FinishedIsFinal' /\ WriterOwnsFile'
      BY <2>3 DEF IInv, OneWriterPerFile, FinishedIsFinal, WriterOwnsFile, Writing, IsActive
    <2>7. EndReportedOnce'
      BY <2>1, <2>3, <2>4 DEF IInv, EndReportedOnce, EndedGone, IsActive
    <2>8. OneReporter' /\ CancelNamed'
      BY <2>1, <2>2, <2>3, <2>4 DEF IInv, OneReporter, CancelNamed, EndsByUpload, EndsByCancel
    <2> QED
      BY <1>0, <2>5, <2>6, <2>7, <2>8 DEF IInv
  <1>6. CASE CancelRecvEmit(c)
    <2>1. can'[c].pc = "done" /\ \A d \in Cancels \ {c} : can'[d] = can[d]
      BY <1>0, <1>6 DEF CancelRecvEmit, CanRecords
    <2> QED
      BY <1>0, <1>6, <2>1, CancelQuiet DEF CancelRecvEmit, EndsByCancel
  <1> QED
    BY <1>1, <1>2, <1>3, <1>4, <1>5, <1>6 DEF CancelStep

(* The application answers requests, which moves none of them.             *)
LEMMA AnswerInv ==
    ASSUME IInv, TypeOK',
           \A r \in Preps : prep'[r].pc = prep[r].pc,
           \A u \in Uploads : /\ upl'[u].pc = upl[u].pc
                              /\ upl'[u].sid = upl[u].sid /\ upl'[u].file = upl[u].file,
           UNCHANGED <<slot, files, can, how, ends>>
    PROVE  IInv'
  <1>1. SlotOwned' /\ ActiveCreated' /\ EndedGone'
    BY DEF IInv, SlotOwned, ActiveCreated, EndedGone, HoldsSlot, IsPending, IsActive
  <1>2. OneWriterPerFile' /\ FinishedIsFinal' /\ WriterOwnsFile'
    BY DEF IInv, OneWriterPerFile, FinishedIsFinal, WriterOwnsFile, Writing, IsActive
  <1>3. EndReportedOnce' /\ AttemptLeft' /\ CancelNamed'
    BY DEF IInv, EndReportedOnce, AttemptLeft, CancelNamed, IsActive
  <1>4. OneReporter'
    BY DEF IInv, OneReporter, EndsByUpload, EndsByCancel
  <1> QED
    BY <1>1, <1>2, <1>3, <1>4 DEF IInv

(* Every step of the application keeps the inductive invariant. *)
LEMMA AppInv ==
    ASSUME IInv, AppStep
    PROVE  IInv'
  <1>0. TypeOK'
    BY AppType DEF IInv
  <1>1. /\ \A r \in Preps : prep'[r].pc = prep[r].pc
        /\ \A u \in Uploads : /\ upl'[u].pc = upl[u].pc
                              /\ upl'[u].sid = upl[u].sid /\ upl'[u].file = upl[u].file
    BY AppMoves DEF IInv
  <1>2. CASE \E s \in Preps : AppCancel(s)
    <2>1. PICK s \in Preps : AppCancel(s)
      BY <1>2
    <2>2. /\ SlotOwned' /\ OneWriterPerFile' /\ FinishedIsFinal' /\ EndReportedOnce'
          /\ ActiveCreated' /\ EndedGone' /\ WriterOwnsFile' /\ AttemptLeft'
          /\ how[s] = "none" /\ ends[s] = 0
      BY <2>1, EndNow DEF AppCancel
    <2>3. OneReporter' /\ CancelNamed'
      BY <2>1, <2>2 DEF AppCancel, IInv, OneReporter, CancelNamed, EndsByUpload, EndsByCancel, TypeOK
    <2> QED
      BY <1>0, <2>2, <2>3 DEF IInv
  <1>3. CASE UNCHANGED <<slot, files, can, how, ends>>
    BY <1>0, <1>1, <1>3, AnswerInv
  <1> QED
    BY <1>2, <1>3 DEF AppStep, AppReceive, AppClose, AppDecide, AppTarget

(* Every step, stuttering included, keeps the inductive invariant. *)
LEMMA StepInv == IInv /\ [Next]_vars => IInv'
  <1> SUFFICES ASSUME IInv, [Next]_vars PROVE IInv'
    OBVIOUS
  <1>1. CASE UNCHANGED vars
    <2>1. TypeOK' /\ SlotOwned' /\ ActiveCreated' /\ EndedGone'
      BY <1>1 DEF vars, IInv, TypeOK, SlotOwned, ActiveCreated, EndedGone, HoldsSlot, IsPending, IsActive
    <2>2. OneWriterPerFile' /\ FinishedIsFinal' /\ WriterOwnsFile'
      BY <1>1 DEF vars, IInv, OneWriterPerFile, FinishedIsFinal, WriterOwnsFile, Writing, IsActive
    <2>3. EndReportedOnce' /\ AttemptLeft' /\ CancelNamed' /\ OneReporter'
      BY <1>1 DEF vars, IInv, EndReportedOnce, AttemptLeft, CancelNamed, OneReporter, IsActive,
         EndsByUpload, EndsByCancel
    <2> QED
      BY <2>1, <2>2, <2>3 DEF IInv
  <1> QED
    BY <1>1, PrepInv, UploadInv, CancelInv, AppInv DEF Next

-----------------------------------------------------------------------------
(* The theorems *)

(* The inductive invariant of the upload endpoints: what each request may  *)
(* rely on when it takes the session lock again.                           *)
THEOREM Invariance == Spec => []IInv
  BY InitInv, StepInv, PTL DEF Spec

(* Types, and attempts within MAX_UPLOAD_ATTEMPTS, although upload() does  *)
(* not compare them with it.                                               *)
THEOREM TypeCorrect == Spec => []TypeOK
  <1>1. IInv => TypeOK
    BY DEF IInv
  <1> QED
    BY <1>1, Invariance, PTL

(* clear_pending_session and the activation, which look at no session id,  *)
(* only ever hit the slot of their own request.                            *)
THEOREM SlotOwnership == Spec => []SlotOwned
  <1>1. IInv => SlotOwned
    BY DEF IInv
  <1> QED
    BY <1>1, Invariance, PTL

(* At most one upload request writes a file of a session at a time.        *)
THEOREM WriterExclusion == Spec => []OneWriterPerFile
  <1>1. IInv => OneWriterPerFile
    BY DEF IInv
  <1> QED
    BY <1>1, Invariance, PTL

(* When finalize_file ends a session, no upload of it is under way.        *)
THEOREM FinishedFinality == Spec => []FinishedIsFinal
  <1>1. IInv => FinishedIsFinal
    BY DEF IInv
  <1> QED
    BY <1>1, Invariance, PTL

(* finalize_file and cancel report the end of a session at most once       *)
(* between them, and never one that cancel_v2_session ended.               *)
THEOREM EndReporting == Spec => []EndReportedOnce
  <1>1. IInv => EndReportedOnce
    BY DEF IInv
  <1> QED
    BY <1>1, Invariance, PTL

-----------------------------------------------------------------------------
(* The refinement *)

Phases == [s \in Preps |-> Phase(s)]

(* Steps that leave the slot alone and start no request are stutters.      *)
LEMMA PhaseStutter ==
    ASSUME UNCHANGED slot,
           \A r \in Preps : (prep'[r].pc = "idle") <=> (prep[r].pc = "idle")
    PROVE  UNCHANGED Phases
  BY DEF Phases, Phase, IsPending, IsActive

(* Ending the active session is the abstract End.                          *)
LEMMA PhaseEnd ==
    ASSUME IInv, NEW s \in Preps, IsActive(s), slot' = FreeSlot, UNCHANGED prep
    PROVE  Abstract!End(s)
  <1>1. prep[s].pc = "done" /\ slot.kind = "Active" /\ slot.sid = s
    BY DEF IInv, ActiveCreated, IsActive
  <1>2. Phase(s) = "active" /\ Phase(s)' = "gone"
    BY <1>1 DEF Phase, IsPending, IsActive, FreeSlot
  <1>3. \A q \in Preps \ {s} : Phase(q)' = Phase(q)
    BY <1>1 DEF Phase, IsPending, IsActive, FreeSlot
  <1> QED
    BY <1>2, <1>3 DEF Abstract!End, Abstract!Move

(* Freeing a claimed slot is the abstract Release.                         *)
LEMMA PhaseRelease ==
    ASSUME IInv, NEW r \in Preps, HoldsSlot(r), ClearPending, prep'[r].pc # "idle",
           \A q \in Preps \ {r} : prep'[q] = prep[q]
    PROVE  Abstract!Release(r)
  <1>1. slot.kind = "Pending" /\ slot.sid = r /\ slot' = FreeSlot
    BY DEF IInv, SlotOwned, IsPending, ClearPending
  <1>2. Phase(r) = "pending" /\ Phase(r)' = "gone"
    BY <1>1 DEF Phase, IsPending, IsActive, FreeSlot
  <1>3. \A q \in Preps \ {r} : Phase(q)' = Phase(q)
    BY <1>1 DEF Phase, IsPending, IsActive, FreeSlot
  <1> QED
    BY <1>2, <1>3 DEF Abstract!Release, Abstract!Move

(* Every step of a prepare-upload request is a step of the abstract slot.  *)
LEMMA PrepPhase ==
    ASSUME IInv, NEW r \in Preps, PrepStep(r)
    PROVE  Abstract!Next \/ UNCHANGED Phases
  <1>0. prep \in [Preps -> PrepRecords] /\ prep[r] \in PrepRecords
    BY DEF IInv, TypeOK
  <1>1. \A q \in Preps \ {r} : prep'[q] = prep[q]
    BY <1>0, PrepMoves DEF IInv
  <1>2. CASE Claim(r)
    <2>1. prep[r].pc = "idle" /\ slot.kind = "Free" /\ slot'.kind = "Pending" /\ slot'.sid = r
      BY <1>2 DEF Claim
    <2>2. Phase(r) = "new" /\ Phase(r)' = "pending"
      BY <2>1 DEF Phase, IsPending, IsActive
    <2>3. \A q \in Preps \ {r} : Phase(q)' = Phase(q)
      BY <1>1, <2>1 DEF Phase, IsPending, IsActive
    <2>4. \A q \in Preps : Phase(q) \notin {"pending", "active"}
      BY <2>1 DEF Phase, IsPending, IsActive
    <2>5. Abstract!Claim(r)
      BY <2>2, <2>3, <2>4 DEF Abstract!Claim, Abstract!Move, Abstract!SlotFree
    <2> QED
      BY <2>5 DEF Abstract!Next
  <1>3. CASE ClaimBlocked(r)
    <2>1. prep[r].pc = "idle" /\ prep'[r].pc = "done" /\ slot.kind # "Free" /\ UNCHANGED slot
      BY <1>0, <1>3 DEF ClaimBlocked, PrepRecords
    <2>2. ~IsPending(r) /\ ~IsActive(r)
      BY <2>1 DEF IInv, SlotOwned, ActiveCreated, HoldsSlot, IsPending, IsActive
    <2>3. Phase(r) = "new" /\ Phase(r)' = "gone"
      BY <2>1, <2>2 DEF Phase, IsPending, IsActive
    <2>4. \A q \in Preps \ {r} : Phase(q)' = Phase(q)
      BY <1>1, <2>1 DEF Phase, IsPending, IsActive
    <2>5. slot.sid \in Preps /\ Phase(slot.sid) \in {"pending", "active"}
      <3>1. slot.kind \in {"Pending", "Active"}
        BY <2>1 DEF IInv, TypeOK, Slots
      <3>2. slot.sid \in Preps
        BY <3>1 DEF IInv, SlotOwned, ActiveCreated
      <3> QED
        BY <3>1, <3>2 DEF Phase, IsPending, IsActive
    <2>6. Abstract!Refuse(r)
      BY <2>3, <2>4, <2>5 DEF Abstract!Refuse, Abstract!Move, Abstract!SlotFree
    <2> QED
      BY <2>6 DEF Abstract!Next
  <1>4. CASE PrepActivate(r)
    <2>1. prep[r].pc = "activate" /\ prep'[r].pc = "done" /\ slot'.kind = "Active" /\ slot'.sid = r
      BY <1>0, <1>4 DEF PrepActivate, PrepRecords
    <2>2. slot.kind = "Pending" /\ slot.sid = r
      BY <2>1 DEF IInv, SlotOwned, HoldsSlot, IsPending
    <2>3. Phase(r) = "pending" /\ Phase(r)' = "active"
      BY <2>1, <2>2 DEF Phase, IsPending, IsActive
    <2>4. \A q \in Preps \ {r} : Phase(q)' = Phase(q)
      BY <1>1, <2>1, <2>2 DEF Phase, IsPending, IsActive
    <2>5. Abstract!Activate(r)
      BY <2>3, <2>4 DEF Abstract!Activate, Abstract!Move
    <2> QED
      BY <2>5 DEF Abstract!Next
  <1>5. CASE PrepClear(r)
    <2>1. HoldsSlot(r) /\ ClearPending /\ prep'[r].pc # "idle"
      BY <1>0, <1>5 DEF PrepClear, HoldsSlot, PrepRecords
    <2> QED
      BY <1>1, <2>1, PhaseRelease DEF Abstract!Next
  <1>6. CASE AbortClear(r)
    <2>1. HoldsSlot(r) /\ ClearPending /\ prep'[r].pc # "idle"
      BY <1>0, <1>6 DEF AbortClear, HoldsSlot, PrepRecords
    <2> QED
      BY <1>1, <2>1, PhaseRelease DEF Abstract!Next
  <1>7. CASE UNCHANGED slot /\ prep[r].pc # "idle" /\ prep'[r].pc # "idle"
    BY <1>1, <1>7, PhaseStutter
  <1>8. CASE PrepDrop(r) \/ PrepEmit(r) \/ PrepEmitFails(r) \/ AbortEmit(r)
    BY <1>0, <1>7, <1>8 DEF PrepDrop, PrepEmit, PrepEmitFails, AbortEmit, PrepRecords
  <1>9. CASE PrepDecided(r)
    <2>1. prep[r].pc = "decide" /\ UNCHANGED slot
      BY <1>9 DEF PrepDecided
    <2>2. prep'[r].pc \in {"abort", "clear", "activate"}
      BY <1>0, <1>9 DEF PrepDecided, PrepRecords
    <2> QED
      BY <1>7, <2>1, <2>2
  <1>10. CASE PrepCancelled(r)
    BY <1>0, <1>7, <1>10 DEF PrepCancelled, PrepRecords
  <1> QED
    BY <1>2, <1>3, <1>4, <1>5, <1>6, <1>8, <1>9, <1>10 DEF PrepStep

(* Every step of the endpoints is a step of the abstract slot, or leaves   *)
(* it alone.                                                               *)
LEMMA StepPhase ==
    IInv /\ [Next]_vars => [Abstract!Next]_Phases
  <1> SUFFICES ASSUME IInv, [Next]_vars PROVE Abstract!Next \/ UNCHANGED Phases
    OBVIOUS
  <1>1. ASSUME NEW s \in Preps, IsActive(s), slot' = FreeSlot, UNCHANGED prep
        PROVE  Abstract!Next
    BY <1>1, PhaseEnd DEF Abstract!Next
  <1>2. ASSUME UNCHANGED <<slot, prep>> PROVE UNCHANGED Phases
    BY <1>2, PhaseStutter
  <1>3. ASSUME NEW u \in Uploads, UploadStep(u)
        PROVE  Abstract!Next \/ UNCHANGED Phases
    <2>1. UNCHANGED prep /\ (UNCHANGED slot \/ (slot' = FreeSlot /\ IsActive(upl[u].sid)))
      <3>1. CASE UploadFinish(u) \/ GuardFinish(u)
        BY <3>1 DEF UploadFinish, GuardFinish, FinalizeFile
      <3>2. CASE UNCHANGED <<prep, slot>>
        BY <3>2
      <3> QED
        BY <1>3, <3>1, <3>2 DEF UploadStep, UploadStart, UploadRejected, UploadDrop, UploadEmit,
           UploadTarget, UploadSave, UploadEndEmit
    <2>2. IsActive(upl[u].sid) => upl[u].sid \in Preps
      BY DEF IInv, ActiveCreated, IsActive
    <2> QED
      BY <1>1, <1>2, <2>1, <2>2
  <1>4. ASSUME NEW c \in Cancels, CancelStep(c)
        PROVE  Abstract!Next \/ UNCHANGED Phases
    <2>1. CASE CancelPending(c)
      <3>1. slot.sid \in Preps /\ prep \in [Preps -> PrepRecords]
        BY <2>1 DEF CancelPending, MatchesPending, IInv, SlotOwned, TypeOK
      <3>2. (\A r \in Preps : prep'[r].pc = prep[r].pc) /\ UNCHANGED slot
        BY <2>1, <3>1 DEF CancelPending, PrepRecords
      <3> QED
        BY <3>2, PhaseStutter
    <2>2. CASE CancelSecond(c)
      <3>1. IsActive(can[c].sid) => can[c].sid \in Preps
        BY DEF IInv, ActiveCreated, IsActive
      <3> QED
        BY <1>1, <1>2, <2>2, <3>1 DEF CancelSecond
    <2> QED
      BY <1>2, <1>4, <2>1, <2>2 DEF CancelStep, CancelFirst, CancelDrop, CancelEndEmit, CancelRecvEmit
  <1>5. ASSUME AppStep PROVE Abstract!Next \/ UNCHANGED Phases
    <2>1. \A r \in Preps : prep'[r].pc = prep[r].pc
      BY <1>5, AppMoves DEF IInv
    <2>2. CASE UNCHANGED slot
      BY <2>1, <2>2, PhaseStutter
    <2>3. CASE \E s \in Preps : AppCancel(s)
      BY <1>1, <2>3 DEF AppCancel
    <2> QED
      BY <1>5, <2>2, <2>3 DEF AppStep, AppReceive, AppClose, AppDecide, AppTarget
  <1>6. CASE UNCHANGED vars
    BY <1>2, <1>6 DEF vars
  <1> QED
    BY <1>3, <1>4, <1>5, <1>6, PrepPhase DEF Next

(* The endpoints implement the single session slot: sessions pass through  *)
(* it one at a time, in order, and none that left it comes back.           *)
THEOREM SlotRefinement == Spec => ImplementsSlot
  <1>1. Init => Abstract!Init
    <2> SUFFICES ASSUME Init PROVE Abstract!Init
      OBVIOUS
    <2>1. \A s \in Preps : Phase(s) = "new"
      BY DEF Init, Phase, IsPending, IsActive, FreeSlot
    <2> QED
      BY <2>1 DEF Abstract!Init
  <1> QED
    BY <1>1, StepPhase, Invariance, PTL DEF Spec, ImplementsSlot, Abstract!Spec, Phases

-----------------------------------------------------------------------------
(* Retries *)

(* A step that starts no upload, saves no file and creates no session.     *)
LEMMA RetryQuiet ==
    ASSUME IInv, RetryInv,
           \A u \in Uploads :
             /\ upl'[u].sid = upl[u].sid /\ upl'[u].file = upl[u].file
             /\ Saved(u)' => Saved(u)
             /\ Writing(u)' => Writing(u)
             /\ upl'[u].pc \in {"idle", "emit", "target", "save"}
                  => upl[u].pc \in {"idle", "emit", "target", "save"},
           \A r \in Preps : prep[r].pc = "done" => prep'[r].pc = "done",
           \A s \in Preps : IsActive(s)' =>
             /\ IsActive(s)
             /\ \A f \in Files :
                  /\ files'[f].attempts = files[f].attempts
                  /\ files'[f].status = "Pending"
                       => \/ files[f].status = "Pending"
                          \/ \A u \in Starts(s, f) : ~Saved(u)
    PROVE  RetryInv'
  <1>1. \A s \in Preps, f \in Files : Starts(s, f)' = Starts(s, f)
    BY DEF Starts
  <1>2. StartsCounted'
    BY <1>1 DEF RetryInv, StartsCounted
  <1>3. \A u \in Uploads : Saved(u)' =>
          /\ upl'[u].sid \in Preps /\ upl'[u].file \in Files
          /\ IsActive(upl[u].sid)' => files'[upl[u].file].status # "Pending"
    <2> SUFFICES ASSUME NEW u \in Uploads, Saved(u)'
                 PROVE  /\ upl'[u].sid \in Preps /\ upl'[u].file \in Files
                        /\ IsActive(upl[u].sid)' => files'[upl[u].file].status # "Pending"
      OBVIOUS
    <2>1. Saved(u) /\ upl[u].sid \in Preps /\ upl[u].file \in Files
      BY DEF RetryInv, SavedOnce
    <2>2. u \in Starts(upl[u].sid, upl[u].file)
      BY DEF Starts
    <2>3. IsActive(upl[u].sid) => files[upl[u].file].status # "Pending"
      BY <2>1 DEF RetryInv, SavedOnce
    <2> QED
      BY <2>1, <2>2, <2>3 DEF IsActive
  <1>4. SavedOnce'
    <2>1. \A s \in Preps, f \in Files : \A u, v \in Starts(s, f)' :
            Saved(u)' /\ u # v => ~Saved(v)' /\ ~Writing(v)'
      BY <1>1 DEF RetryInv, SavedOnce, Starts
    <2>2. \A u \in Uploads : upl'[u].pc \in {"idle", "emit", "target", "save"} => ~Saved(u)'
      BY DEF RetryInv, SavedOnce
    <2> QED
      BY <1>3, <2>1, <2>2 DEF SavedOnce, IsActive
  <1> QED
    BY <1>2, <1>4 DEF RetryInv

(* A validated request counts as one more attempt of its file, which no     *)
(* other request of the session saved before.                              *)
LEMMA StartRetry ==
    ASSUME IInv, RetryInv, NEW u \in Uploads, UploadStart(u)
    PROVE  RetryInv'
  <1>0. upl \in [Uploads -> UplRecords] /\ upl[u] \in UplRecords /\ files \in [Files -> FileEntries]
    BY DEF IInv, TypeOK
  <1>1. PICK s \in Preps, f \in Files, ip \in Peers :
          /\ UploadValid(s, f, ip, TRUE)
          /\ files' = [files EXCEPT ![f] = [status |-> "InProgress", attempts |-> files[f].attempts + 1]]
          /\ upl' = [upl EXCEPT ![u] = [upl[u] EXCEPT !.pc = "emit", !.sid = s, !.file = f]]
    BY DEF UploadStart
  <1>2. UNCHANGED <<slot, prep>> /\ upl[u].pc = "idle"
    BY DEF UploadStart
  <1>3. /\ upl'[u].pc = "emit" /\ upl'[u].sid = s /\ upl'[u].file = f
        /\ upl'[u].result = upl[u].result
        /\ \A v \in Uploads \ {u} : upl'[v] = upl[v]
    BY <1>0, <1>1 DEF UplRecords
  <1>4. /\ IsActive(s) /\ files[f].status = "Pending" /\ files'[f].status = "InProgress"
        /\ files'[f].attempts = files[f].attempts + 1
        /\ \A g \in Files \ {f} : files'[g] = files[g]
        /\ \A q \in Preps : IsActive(q) => q = s
    BY <1>0, <1>1 DEF UploadValid, IsActive
  <1>5. files[f].attempts \in Nat /\ files[f].attempts + 1 <= MaxAttempts
    BY <1>0, <1>4, ConstantsAssumption DEF FileEntries, IInv, AttemptLeft
  <1>6. ~Saved(u) /\ ~Saved(u)' /\ prep[s].pc = "done"
    BY <1>2, <1>3, <1>4 DEF RetryInv, SavedOnce, Saved, IInv, ActiveCreated, IsActive
  <1>7. Starts(s, f)' = Starts(s, f) \cup {u}
    BY <1>3 DEF Starts
  <1>8. \A q \in Preps, g \in Files : q # s \/ g # f => Starts(q, g)' \subseteq Starts(q, g)
    BY <1>3 DEF Starts
  <1>9. StartsCounted'
    <2>1. \A v \in Uploads : upl'[v].sid \in Preps => prep'[upl'[v].sid].pc = "done"
      BY <1>2, <1>3, <1>6 DEF RetryInv, StartsCounted
    <2>2. \A q \in Preps, g \in Files :
            /\ IsFiniteSet(Starts(q, g)) /\ Cardinality(Starts(q, g)) \in Nat
            /\ Cardinality(Starts(q, g)) <= MaxAttempts
            /\ IsActive(q) => Cardinality(Starts(q, g)) <= files[g].attempts
      BY FS_CardinalityType DEF RetryInv, StartsCounted
    <2>3. /\ IsFiniteSet(Starts(s, f)')
          /\ Cardinality(Starts(s, f)') \in Nat
          /\ Cardinality(Starts(s, f)') <= Cardinality(Starts(s, f)) + 1
      <3>1. /\ IsFiniteSet(Starts(s, f) \cup {u})
            /\ \/ Cardinality(Starts(s, f) \cup {u}) = Cardinality(Starts(s, f))
               \/ Cardinality(Starts(s, f) \cup {u}) = Cardinality(Starts(s, f)) + 1
        BY <2>2, FS_AddElement
      <3> QED
        BY <1>7, <2>2, <3>1
    <2>4. \A q \in Preps, g \in Files : q # s \/ g # f =>
            /\ IsFiniteSet(Starts(q, g)') /\ Cardinality(Starts(q, g)') \in Nat
            /\ Cardinality(Starts(q, g)') <= Cardinality(Starts(q, g))
      BY <1>8, <2>2, FS_Subset, FS_CardinalityType
    <2>5. /\ Cardinality(Starts(s, f)') <= files'[f].attempts
          /\ Cardinality(Starts(s, f)') <= MaxAttempts
      BY <1>4, <1>5, <2>2, <2>3, ConstantsAssumption
    <2>6. \A q \in Preps, g \in Files : q # s \/ g # f =>
            /\ Cardinality(Starts(q, g)') <= MaxAttempts
            /\ IsActive(q)' => Cardinality(Starts(q, g)') <= files'[g].attempts
      <3> SUFFICES ASSUME NEW q \in Preps, NEW g \in Files, q # s \/ g # f
                   PROVE  /\ Cardinality(Starts(q, g)') <= MaxAttempts
                          /\ IsActive(q)' => Cardinality(Starts(q, g)') <= files'[g].attempts
        OBVIOUS
      <3>1. Cardinality(Starts(q, g)') <= MaxAttempts
        BY <2>2, <2>4, ConstantsAssumption
      <3>2. ASSUME IsActive(q)' PROVE Cardinality(Starts(q, g)') <= files'[g].attempts
        <4>1. IsActive(q) /\ q = s /\ g # f /\ files'[g] = files[g]
          BY <1>2, <1>4, <3>2 DEF IsActive
        <4>2. files[g].attempts \in Nat
          BY <1>0, ConstantsAssumption DEF FileEntries
        <4> QED
          BY <2>2, <2>4, <4>1, <4>2
      <3> QED
        BY <3>1, <3>2
    <2> QED
      BY <2>1, <2>3, <2>4, <2>5, <2>6 DEF StartsCounted
  <1>10. \A v \in Uploads : Saved(v)' => v # u /\ Saved(v) /\ upl'[v] = upl[v]
    BY <1>3, <1>6 DEF Saved
  <1>11. \A v \in Uploads : Saved(v) => upl[v].sid # s \/ upl[v].file # f
    BY <1>4 DEF RetryInv, SavedOnce
  <1>12. SavedOnce'
    <2>1. \A v \in Uploads : upl'[v].pc \in {"idle", "emit", "target", "save"} => ~Saved(v)'
      BY <1>10 DEF RetryInv, SavedOnce
    <2>2. \A v \in Uploads : Saved(v)' =>
            /\ upl'[v].sid \in Preps /\ upl'[v].file \in Files
            /\ IsActive(upl[v].sid)' => files'[upl'[v].file].status # "Pending"
      <3> SUFFICES ASSUME NEW v \in Uploads, Saved(v)'
                   PROVE  /\ upl'[v].sid \in Preps /\ upl'[v].file \in Files
                          /\ IsActive(upl[v].sid)' => files'[upl'[v].file].status # "Pending"
        OBVIOUS
      <3>1. upl'[v] = upl[v] /\ Saved(v)
        BY <1>10
      <3>2. /\ upl[v].sid \in Preps /\ upl[v].file \in Files
            /\ IsActive(upl[v].sid) => files[upl[v].file].status # "Pending"
        BY <3>1 DEF RetryInv, SavedOnce
      <3>3. IsActive(upl[v].sid)' => IsActive(upl[v].sid) /\ upl[v].file # f
        BY <1>2, <1>4, <1>11, <3>1, <3>2 DEF IsActive
      <3> QED
        BY <1>4, <3>1, <3>2, <3>3
    <2>3. \A q \in Preps, g \in Files : \A v, w \in Starts(q, g)' :
            Saved(v)' /\ v # w => ~Saved(w)' /\ ~Writing(w)'
      <3> SUFFICES ASSUME NEW q \in Preps, NEW g \in Files,
                          NEW v \in Starts(q, g)', NEW w \in Starts(q, g)', Saved(v)', v # w
                   PROVE  ~Saved(w)' /\ ~Writing(w)'
        OBVIOUS
      <3>1. v \in Uploads /\ w \in Uploads
        BY DEF Starts
      <3>2. v # u /\ Saved(v) /\ v \in Starts(q, g)
        BY <1>10, <3>1 DEF Starts
      <3>3. w # u
        BY <1>3, <1>11, <3>1, <3>2 DEF Starts
      <3>4. w \in Starts(q, g) /\ upl'[w] = upl[w]
        BY <1>3, <3>1, <3>3 DEF Starts
      <3>5. ~Saved(w) /\ ~Writing(w)
        BY <3>2, <3>4 DEF RetryInv, SavedOnce
      <3> QED
        BY <3>4, <3>5 DEF Saved, Writing
    <2> QED
      BY <2>1, <2>2, <2>3 DEF SavedOnce
  <1> QED
    BY <1>9, <1>12 DEF RetryInv

(* Saving a file settles it: its writer was the only one. *)
LEMMA SaveRetry ==
    ASSUME IInv, RetryInv, NEW u \in Uploads, UploadSave(u)
    PROVE  RetryInv'
  <1>0. upl \in [Uploads -> UplRecords] /\ upl[u] \in UplRecords
    BY DEF IInv, TypeOK
  <1>1. PICK result \in SaveResults :
          upl' = [upl EXCEPT ![u] = [upl[u] EXCEPT !.pc = "finish", !.result = result]]
    BY DEF UploadSave
  <1>2. UNCHANGED <<slot, files, prep>> /\ Writing(u) /\ upl[u].pc = "save"
    BY DEF UploadSave, Writing
  <1>3. /\ upl'[u].pc = "finish" /\ upl'[u].result = result
        /\ upl'[u].sid = upl[u].sid /\ upl'[u].file = upl[u].file
        /\ \A v \in Uploads \ {u} : upl'[v] = upl[v]
    BY <1>0, <1>1 DEF UplRecords
  <1>4. \A s \in Preps, f \in Files : Starts(s, f)' = Starts(s, f)
    BY <1>3 DEF Starts
  <1>5. StartsCounted'
    BY <1>2, <1>3, <1>4 DEF RetryInv, StartsCounted, IsActive
  <1>6. /\ upl[u].sid \in Preps /\ upl[u].file \in Files
        /\ IsActive(upl[u].sid) => files[upl[u].file].status = "InProgress"
    BY <1>2 DEF IInv, WriterOwnsFile
  <1>7. \A v \in Uploads \ {u} :
          upl[v].sid = upl[u].sid /\ upl[v].file = upl[u].file => ~Saved(v) /\ ~Writing(v)
    <2> SUFFICES ASSUME NEW v \in Uploads \ {u},
                        upl[v].sid = upl[u].sid, upl[v].file = upl[u].file
                 PROVE  ~Saved(v) /\ ~Writing(v)
      OBVIOUS
    <2>1. ~Writing(v)
      BY <1>2 DEF IInv, OneWriterPerFile
    <2>2. u \in Starts(upl[u].sid, upl[u].file) /\ v \in Starts(upl[u].sid, upl[u].file)
      BY DEF Starts
    <2>3. ~Saved(v)
      BY <1>2, <1>6, <2>2 DEF RetryInv, SavedOnce
    <2> QED
      BY <2>1, <2>3
  <1>8. \A v \in Uploads \ {u} : (Saved(v)' <=> Saved(v)) /\ (Writing(v)' <=> Writing(v))
    BY <1>3 DEF Saved, Writing
  <1>9. SavedOnce'
    <2>1. \A v \in Uploads : upl'[v].pc \in {"idle", "emit", "target", "save"} => ~Saved(v)'
      BY <1>3, <1>8 DEF RetryInv, SavedOnce
    <2>2. \A v \in Uploads : Saved(v)' =>
            /\ upl'[v].sid \in Preps /\ upl'[v].file \in Files
            /\ IsActive(upl[v].sid)' => files'[upl'[v].file].status # "Pending"
      <3>1. /\ upl'[u].sid \in Preps /\ upl'[u].file \in Files
            /\ IsActive(upl[u].sid)' => files'[upl'[u].file].status # "Pending"
        BY <1>2, <1>3, <1>6 DEF IsActive
      <3>2. ASSUME NEW v \in Uploads \ {u}, Saved(v)'
            PROVE  /\ upl'[v].sid \in Preps /\ upl'[v].file \in Files
                   /\ IsActive(upl[v].sid)' => files'[upl'[v].file].status # "Pending"
        BY <1>2, <1>3, <1>8, <3>2 DEF RetryInv, SavedOnce, IsActive
      <3> QED
        BY <3>1, <3>2
    <2>3. \A q \in Preps, g \in Files : \A v, w \in Starts(q, g)' :
            Saved(v)' /\ v # w => ~Saved(w)' /\ ~Writing(w)'
      <3> SUFFICES ASSUME NEW q \in Preps, NEW g \in Files,
                          NEW v \in Starts(q, g), NEW w \in Starts(q, g), Saved(v)', v # w
                   PROVE  ~Saved(w)' /\ ~Writing(w)'
        BY <1>4
      <3>1. /\ v \in Uploads /\ upl[v].sid = q /\ upl[v].file = g
            /\ w \in Uploads /\ upl[w].sid = q /\ upl[w].file = g
        BY DEF Starts
      <3>2. CASE v = u
        BY <1>7, <1>8, <3>1, <3>2
      <3>3. CASE v # u /\ w = u
        <4>1. Saved(v) /\ ~Saved(v)
          BY <1>7, <1>8, <3>1, <3>3
        <4> QED
          BY <4>1
      <3>4. CASE v # u /\ w # u
        <4>1. Saved(v) /\ ~Saved(w) /\ ~Writing(w)
          BY <1>8, <3>1, <3>4 DEF RetryInv, SavedOnce
        <4> QED
          BY <1>8, <3>1, <3>4, <4>1
      <3> QED
        BY <3>2, <3>3, <3>4
    <2> QED
      BY <2>1, <2>2, <2>3 DEF SavedOnce, IsActive
  <1> QED
    BY <1>5, <1>9 DEF RetryInv

(* finalize_file makes a file available again only if it was not saved.    *)
LEMMA FinalizeRetry ==
    ASSUME IInv, RetryInv, NEW u \in Uploads, UploadFinish(u) \/ GuardFinish(u)
    PROVE  RetryInv'
  <1> DEFINE s == upl[u].sid
             f == upl[u].file
  <1>0. /\ upl \in [Uploads -> UplRecords] /\ upl[u] \in UplRecords
        /\ files \in [Files -> FileEntries]
    BY DEF IInv, TypeOK
  <1>1. PICK result \in SaveResults, next \in {"endEmit", "guardEnd"} :
          FinalizeFile(u, result, next) /\ result \in {upl[u].result, "Failed"}
    BY <1>0, Strings DEF UploadFinish, GuardFinish, UplRecords
  <1>2. Writing(u) /\ UNCHANGED prep
    BY DEF UploadFinish, GuardFinish, Writing
  <1>3. s \in Preps /\ f \in Files
    BY <1>2 DEF IInv, WriterOwnsFile
  <1> DEFINE status == FinalStatus(result, files[f].attempts)
             fs == IF files[f].status = "InProgress"
                   THEN [files EXCEPT ![f].status = status] ELSE files
  <1>4. status = "Pending" => ~Saved(u)
    BY <1>1 DEF FinalStatus, Saved
  <1>5. PICK pc \in {"done", "endEmit", "guardEnd"} : upl' = [upl EXCEPT ![u].pc = pc]
    BY <1>1 DEF FinalizeFile
  <1>6. \A v \in Uploads :
          /\ upl'[v].sid = upl[v].sid /\ upl'[v].file = upl[v].file
          /\ upl'[v].result = upl[v].result
          /\ upl'[v].pc = IF v = u THEN pc ELSE upl[v].pc
    BY <1>0, <1>5 DEF UplRecords
  <1>7. \/ UNCHANGED <<slot, files>>
        \/ IsActive(s) /\ files' = fs /\ UNCHANGED slot
        \/ slot' = FreeSlot
    BY <1>1 DEF FinalizeFile
  <1>8. /\ \A g \in Files : fs[g].attempts = files[g].attempts
        /\ \A g \in Files \ {f} : fs[g] = files[g]
        /\ fs[f].status = "Pending" => files[f].status = "Pending" \/ status = "Pending"
    <2> HIDE DEF status
    <2> QED
      BY <1>0, <1>3 DEF FileEntries
  <1>9. Saved(u) \/ \A v \in Starts(s, f) : ~Saved(v)
    <2>1. u \in Starts(s, f)
      BY DEF Starts
    <2> QED
      BY <1>2, <1>3, <2>1 DEF RetryInv, SavedOnce
  <1> HIDE DEF fs, status
  <1>10. \A v \in Uploads : (Saved(v)' => Saved(v)) /\ (Writing(v)' => Writing(v))
    BY <1>6 DEF Saved, Writing
  <1>11. ASSUME NEW q \in Preps, IsActive(q)'
         PROVE  /\ IsActive(q)
                /\ \A g \in Files :
                     /\ files'[g].attempts = files[g].attempts
                     /\ files'[g].status = "Pending"
                          => files[g].status = "Pending" \/ \A v \in Starts(q, g) : ~Saved(v)
    <2>1. CASE UNCHANGED <<slot, files>>
      BY <1>11, <2>1 DEF IsActive
    <2>2. CASE IsActive(s) /\ files' = fs /\ UNCHANGED slot
      <3>1. IsActive(q) /\ q = s
        BY <1>11, <2>2 DEF IsActive
      <3> QED
        BY <1>4, <1>8, <1>9, <2>2, <3>1
    <2>3. CASE slot' = FreeSlot
      BY <1>11, <2>3 DEF IsActive, FreeSlot
    <2> QED
      BY <1>7, <2>1, <2>2, <2>3
  <1> QED
    BY <1>2, <1>6, <1>10, <1>11, RetryQuiet

(* Every step of an upload request keeps what bounds its retries. *)
LEMMA UploadRetry ==
    ASSUME IInv, RetryInv, NEW u \in Uploads, UploadStep(u)
    PROVE  RetryInv'
  <1>0. upl \in [Uploads -> UplRecords] /\ upl[u] \in UplRecords
    BY DEF IInv, TypeOK
  <1>1. CASE \/ UploadRejected(u) \/ UploadDrop(u) \/ UploadEmit(u) \/ UploadTarget(u)
             \/ UploadEndEmit(u)
    <2>1. UNCHANGED <<slot, files, prep>>
      BY <1>1 DEF UploadRejected, UploadDrop, UploadEmit, UploadTarget, UploadEndEmit
    <2>2. PICK w \in UplRecords :
            /\ upl' = [upl EXCEPT ![u] = w]
            /\ w.sid = upl[u].sid /\ w.file = upl[u].file
            /\ w.result = "Success" => upl[u].result = "Success"
            /\ w.pc \in {"emit", "target", "save", "finish", "guard", "stuck"} => Writing(u)
            /\ w.pc \in {"idle", "emit", "target", "save"} => upl[u].pc \in {"emit", "target", "save"}
      <3> USE <1>0, Strings DEF UplRecords, Writing
      <3>1. CASE UploadRejected(u) \/ UploadEndEmit(u)
        <4> DEFINE w1 == [upl[u] EXCEPT !.pc = "done"]
        <4>1. upl' = [upl EXCEPT ![u] = w1]
          BY <3>1, Zenon DEF UploadRejected, UploadEndEmit
        <4>2. /\ w1 \in UplRecords /\ w1.pc = "done" /\ w1.sid = upl[u].sid
              /\ w1.file = upl[u].file /\ w1.result = upl[u].result
          OBVIOUS
        <4> HIDE DEF w1
        <4> QED
          BY <4>1, <4>2
      <3>2. CASE UploadDrop(u)
        BY <3>2 DEF UploadDrop
      <3>3. CASE UploadEmit(u)
        BY <3>3 DEF UploadEmit
      <3>4. CASE UploadTarget(u)
        BY <3>4 DEF UploadTarget
      <3> QED
        BY <1>1, <3>1, <3>2, <3>3, <3>4
    <2>3. upl'[u] = w /\ \A v \in Uploads \ {u} : upl'[v] = upl[v]
      BY <1>0, <2>2
    <2>4. \A v \in Uploads :
            /\ upl'[v].sid = upl[v].sid /\ upl'[v].file = upl[v].file
            /\ Saved(v)' => Saved(v)
            /\ Writing(v)' => Writing(v)
            /\ upl'[v].pc \in {"idle", "emit", "target", "save"}
                 => upl[v].pc \in {"idle", "emit", "target", "save"}
      BY <2>2, <2>3 DEF Saved, Writing
    <2> QED
      BY <2>1, <2>4, RetryQuiet DEF IsActive
  <1> QED
    BY <1>1, StartRetry, SaveRetry, FinalizeRetry DEF UploadStep

(* Steps that touch no upload: prepare-upload creates sessions without any. *)
LEMMA PrepRetry ==
    ASSUME IInv, RetryInv, NEW r \in Preps, PrepStep(r)
    PROVE  RetryInv'
  <1>0. prep \in [Preps -> PrepRecords] /\ slot \in Slots
    BY DEF IInv, TypeOK
  <1>1. UNCHANGED upl /\ \A q \in Preps \ {r} : prep'[q] = prep[q]
    BY <1>0, PrepMoves DEF IInv, PrepStep, Claim, ClaimBlocked, PrepDrop, PrepEmit, PrepEmitFails,
       PrepDecided, PrepCancelled, PrepClear, PrepActivate, AbortClear, AbortEmit
  <1>2. prep[r].pc # "done"
    BY DEF PrepStep, Claim, ClaimBlocked, PrepDrop, PrepEmit, PrepEmitFails,
       PrepDecided, PrepCancelled, PrepClear, PrepActivate, AbortClear, AbortEmit
  <1>3. CASE PrepActivate(r)
    <2>1. /\ \A q \in Preps : IsActive(q)' => q = r
          /\ \A u \in Uploads : upl[u].sid # r
          /\ \A f \in Files : files'[f].attempts = 0
      BY <1>2, <1>3 DEF PrepActivate, IsActive, RetryInv, StartsCounted, NoFile
    <2>2. \A s \in Preps, f \in Files : Starts(s, f)' = Starts(s, f) /\ Starts(r, f) = {}
      BY <1>1, <2>1 DEF Starts
    <2>3. \A f \in Files : Cardinality(Starts(r, f)) = 0
      BY <2>2, FS_EmptySet
    <2>4. StartsCounted'
      BY <1>1, <1>2, <2>1, <2>2, <2>3 DEF RetryInv, StartsCounted
    <2>5. SavedOnce'
      BY <1>1, <2>1, <2>2 DEF RetryInv, SavedOnce, Saved, Writing, IsActive
    <2> QED
      BY <2>4, <2>5 DEF RetryInv
  <1>4. CASE ~PrepActivate(r)
    <2>1. /\ UNCHANGED files
          /\ UNCHANGED slot \/ ClearPending \/ slot'.kind = "Pending"
      <3>1. CASE Claim(r)
        BY <3>1 DEF Claim
      <3> QED
        BY <1>4, <3>1 DEF PrepStep, ClaimBlocked, PrepDrop, PrepEmit, PrepEmitFails,
           PrepDecided, PrepCancelled, PrepClear, AbortClear, AbortEmit
    <2>3. \A q \in Preps : IsActive(q)' => IsActive(q)
      BY <2>1 DEF ClearPending, IsActive, FreeSlot
    <2>2. \A u \in Uploads : (Saved(u)' => Saved(u)) /\ (Writing(u)' => Writing(u))
      BY <1>1 DEF Saved, Writing
    <2> QED
      BY <1>1, <1>2, <2>1, <2>2, <2>3, RetryQuiet
  <1> QED
    BY <1>3, <1>4

(* Cancel requests end sessions and write no file. *)
LEMMA CancelRetry ==
    ASSUME IInv, RetryInv, NEW c \in Cancels, CancelStep(c)
    PROVE  RetryInv'
  <1>0. prep \in [Preps -> PrepRecords]
    BY DEF IInv, TypeOK
  <1>1. /\ UNCHANGED upl
        /\ prep' = prep \/ prep' = [prep EXCEPT ![slot.sid].token = TRUE]
        /\ UNCHANGED <<slot, files>> \/ slot' = FreeSlot
    BY DEF CancelStep, CancelPending, CancelFirst, CancelDrop, CancelSecond, CancelEndEmit,
       CancelRecvEmit
  <1>2. \A r \in Preps : prep'[r].pc = prep[r].pc
    BY <1>0, <1>1 DEF PrepRecords
  <1>3. \A s \in Preps : IsActive(s)' => IsActive(s) /\ UNCHANGED files
    BY <1>1 DEF IsActive, FreeSlot
  <1>4. \A u \in Uploads : (Saved(u)' => Saved(u)) /\ (Writing(u)' => Writing(u))
    BY <1>1 DEF Saved, Writing
  <1> QED
    BY <1>1, <1>2, <1>3, <1>4, RetryQuiet

(* The answers of an application move no request and save no file. *)
LEMMA AnswerRetry ==
    ASSUME IInv, RetryInv,
           \A r \in Preps : prep'[r].pc = prep[r].pc,
           \A u \in Uploads : /\ upl'[u].pc = upl[u].pc /\ upl'[u].result = upl[u].result
                              /\ upl'[u].sid = upl[u].sid /\ upl'[u].file = upl[u].file,
           UNCHANGED <<slot, files>> \/ slot' = FreeSlot
    PROVE  RetryInv'
  <1>1. \A s \in Preps : IsActive(s)' => IsActive(s) /\ UNCHANGED files
    BY DEF IsActive, FreeSlot
  <1>2. \A u \in Uploads : (Saved(u)' => Saved(u)) /\ (Writing(u)' => Writing(u))
    BY DEF Saved, Writing
  <1> QED
    BY <1>1, <1>2, RetryQuiet

(* Nor does any step of the application. *)
LEMMA AppRetry ==
    ASSUME IInv, RetryInv, AppStep
    PROVE  RetryInv'
  <1>0. upl \in [Uploads -> UplRecords]
    BY DEF IInv, TypeOK
  <1>1. /\ \A r \in Preps : prep'[r].pc = prep[r].pc
        /\ \A u \in Uploads : /\ upl'[u].pc = upl[u].pc
                              /\ upl'[u].sid = upl[u].sid /\ upl'[u].file = upl[u].file
    BY AppMoves DEF IInv
  <1>2. \A u \in Uploads : upl'[u].result = upl[u].result
    <2>1. CASE AppReceive
      <3>1. upl' = upl \/ upl' = [upl EXCEPT ![Head(events).of].target = "asked"]
        BY <2>1 DEF AppReceive
      <3> QED
        BY <1>0, <3>1 DEF UplRecords
    <2>2. CASE AppClose
      BY <1>0, <2>2 DEF AppClose, UplRecords
    <2>3. ASSUME NEW u \in Uploads, AppTarget(u)
          PROVE  \A v \in Uploads : upl'[v].result = upl[v].result
      <3>1. PICK answer \in {"given", "dropped"} : upl' = [upl EXCEPT ![u].target = answer]
        BY <2>3 DEF AppTarget
      <3> QED
        BY <1>0, <3>1 DEF UplRecords
    <2>4. ASSUME NEW r \in Preps, AppDecide(r) \/ AppCancel(r) PROVE UNCHANGED upl
      BY <2>4 DEF AppDecide, AppCancel
    <2> QED
      BY <2>1, <2>2, <2>3, <2>4 DEF AppStep
  <1>3. UNCHANGED <<slot, files>> \/ slot' = FreeSlot
    BY DEF AppStep, AppReceive, AppClose, AppDecide, AppTarget, AppCancel
  <1> QED
    BY <1>1, <1>2, <1>3, AnswerRetry

(* Nothing was uploaded at the start. *)
LEMMA InitRetry == Init => RetryInv
  <1> SUFFICES ASSUME Init PROVE RetryInv
    OBVIOUS
  <1>1. \A u \in Uploads : upl[u].sid = Nobody /\ ~Saved(u)
    BY DEF Init, Saved
  <1>2. \A s \in Preps, f \in Files : Starts(s, f) = {}
    BY <1>1, ConstantsAssumption DEF Starts
  <1>3. IsFiniteSet({}) /\ Cardinality({}) = 0
    BY FS_EmptySet
  <1>4. StartsCounted
    <2>1. \A u \in Uploads : upl[u].sid \notin Preps
      BY <1>1, ConstantsAssumption
    <2>2. \A s \in Preps : ~IsActive(s)
      BY DEF Init, IsActive, FreeSlot
    <2>3. \A s \in Preps, f \in Files :
            IsFiniteSet(Starts(s, f)) /\ Cardinality(Starts(s, f)) = 0
      BY <1>2, <1>3
    <2> QED
      BY <2>1, <2>2, <2>3, ConstantsAssumption DEF StartsCounted
  <1>5. SavedOnce
    BY <1>1, <1>2 DEF SavedOnce
  <1> QED
    BY <1>4, <1>5 DEF RetryInv

(* Every step, stuttering included, keeps what bounds the retries. *)
LEMMA StepRetry == IInv /\ RetryInv /\ [Next]_vars => RetryInv'
  <1> SUFFICES ASSUME IInv, RetryInv, [Next]_vars PROVE RetryInv'
    OBVIOUS
  <1>1. CASE UNCHANGED vars
    BY <1>1, AnswerRetry DEF vars
  <1> QED
    BY <1>1, PrepRetry, UploadRetry, CancelRetry, AppRetry DEF Next

(* A sender gets at most MAX_UPLOAD_ATTEMPTS upload requests for a file    *)
(* past the validation of upload(), and none after one was saved.          *)
THEOREM RetryInvariance == Spec => []RetryInv
  <1>1. Init => IInv /\ RetryInv
    BY InitInv, InitRetry
  <1>2. (IInv /\ RetryInv) /\ [Next]_vars => (IInv /\ RetryInv)'
    BY StepInv, StepRetry
  <1> QED
    BY <1>1, <1>2, PTL DEF Spec

(* MAX_UPLOAD_ATTEMPTS bounds the uploads of every file of every session.  *)
THEOREM StartsAreBounded == Spec => []StartsBounded
  <1>1. RetryInv => StartsBounded
    BY DEF RetryInv, StartsCounted, StartsBounded
  <1> QED
    BY <1>1, RetryInvariance, PTL

(* No file of a session is ever saved by two upload requests.              *)
THEOREM FilesSavedOnce == Spec => []SavedOnce
  <1>1. RetryInv => SavedOnce
    BY DEF RetryInv
  <1> QED
    BY <1>1, RetryInvariance, PTL

-----------------------------------------------------------------------------
(* Proofs about CliReceive *)

(* A decision changes the answer of one request and moves none. *)
LEMMA DecideMoves ==
    ASSUME NEW p \in [Preps -> PrepRecords], NEW r \in Preps,
           NEW answer \in Decisions, NEW ids \in SUBSET Files
    PROVE  /\ Decide(p, r, answer, ids) \in [Preps -> PrepRecords]
           /\ \A q \in Preps : Decide(p, r, answer, ids)[q].pc = p[q].pc
           /\ \A q \in Preps \ {r} : Decide(p, r, answer, ids)[q] = p[q]
           /\ Decide(p, r, answer, ids)[r].decision = answer
           /\ Decide(p, r, answer, ids)[r].accepted = ids
  <1> DEFINE new == [p[r] EXCEPT !.decision = answer, !.accepted = ids]
  <1>1. p[r] \in PrepRecords
    OBVIOUS
  <1>2. /\ new \in PrepRecords /\ new.pc = p[r].pc
        /\ new.decision = answer /\ new.accepted = ids
    BY <1>1 DEF PrepRecords
  <1>3. Decide(p, r, answer, ids) = [p EXCEPT ![r] = new]
    BY DEF Decide
  <1> HIDE DEF new
  <1> QED
    BY <1>2, <1>3

(* Dropping the pending request answers it, if there is one. *)
LEMMA DropMoves ==
    ASSUME CliTypeOK
    PROVE  /\ DropPending \in [Preps -> PrepRecords]
           /\ \A q \in Preps : DropPending[q].pc = prep[q].pc
           /\ \A q \in Preps : \/ DropPending[q] = prep[q]
                               \/ DropPending[q].decision = "dropped"
  <1>1. CASE pending = Nobody
    BY <1>1 DEF DropPending, CliTypeOK, TypeOK
  <1>2. CASE pending \in Preps
    <2>1. pending # Nobody /\ DropPending = Decide(prep, pending, "dropped", {})
      BY <1>2, ConstantsAssumption DEF DropPending
    <2>2. prep \in [Preps -> PrepRecords] /\ {} \in SUBSET Files /\ "dropped" \in Decisions
      BY Strings DEF CliTypeOK, TypeOK
    <2>3. /\ DropPending \in [Preps -> PrepRecords]
          /\ \A q \in Preps : DropPending[q].pc = prep[q].pc
          /\ \A q \in Preps \ {pending} : DropPending[q] = prep[q]
          /\ DropPending[pending].decision = "dropped"
      BY <1>2, <2>1, <2>2, DecideMoves
    <2> QED
      BY <2>3
  <1> QED
    BY <1>1, <1>2 DEF CliTypeOK

(* No step forgets a commitment it keeps. *)
LEMMA NoNewCommitment ==
    ASSUME CommittedKnown,
           \A s \in Preps : Committed(s)' => Committed(s),
           receive'.sid = receive.sid, revoked' = revoked
    PROVE  CommittedKnown'
  BY DEF CommittedKnown

(* While a request waits for its answer, no other one is committed. *)
LEMMA OnlyWaiting ==
    ASSUME IInv, NEW r \in Preps, Waiting(r), NEW s \in Preps \ {r}
    PROVE  ~Committed(s)
  BY DEF IInv, SlotOwned, HoldsSlot, IsPending, IsActive, Waiting, Committed

(* A session whose end was sent is not committed. *)
LEMMA EndedUncommitted ==
    ASSUME IInv, NEW s \in Preps, ends[s] # 0
    PROVE  ~Committed(s)
  <1>1. ends[s] = 1
    BY DEF IInv, TypeOK, EndReportedOnce
  <1>2. how[s] # "none"
    BY <1>1 DEF IInv, EndReportedOnce
  <1> QED
    BY <1>2 DEF IInv, EndedGone, Committed

(* An event that is sent along with its count keeps EndsSent. *)
LEMMA EventsGrow ==
    ASSUME EndsSent, TypeOK,
           \A s \in Preps : ends[s] # 0 => ends'[s] # 0,
           \/ events' = events
           \/ \E e \in Events : /\ events' = Append(events, e)
                                /\ e.kind = "SessionEnd" => ends'[e.of] # 0,
           receive' = receive
    PROVE  EndsSent'
  <1>1. \A e \in Events : e.kind = "SessionEnd" => e.of \in Preps
    BY DEF Events
  <1>2. \A i \in DOMAIN events : events[i].kind = "SessionEnd" => ends'[events[i].of] # 0
    BY <1>1 DEF EndsSent, TypeOK
  <1>3. \A i \in DOMAIN events' : events'[i].kind = "SessionEnd" => ends'[events'[i].of] # 0
    <2>1. CASE events' = events
      BY <1>2, <2>1
    <2>2. ASSUME NEW e \in Events, events' = Append(events, e),
                 e.kind = "SessionEnd" => ends'[e.of] # 0
          PROVE  \A i \in DOMAIN events' :
                   events'[i].kind = "SessionEnd" => ends'[events'[i].of] # 0
      BY <1>2, <2>2 DEF TypeOK
    <2> QED
      BY <2>1, <2>2
  <1> QED
    BY <1>3 DEF EndsSent

-----------------------------------------------------------------------------
(* The initial states *)

(* The CLI starts with nothing to know. *)
LEMMA CliInitInv == CliInit => KnownInv
  <1> SUFFICES ASSUME CliInit PROVE KnownInv
    OBVIOUS
  <1>1. IInv
    BY InitInv DEF CliInit
  <1>2. NoReceive \in Receives
    BY DEF NoReceive, NewReceive, Receives
  <1>3. CliTypeOK
    BY <1>1, <1>2 DEF CliInit, CliTypeOK, IInv
  <1>4. CommittedKnown
    BY DEF CliInit, Init, CommittedKnown, Committed, IsActive, FreeSlot
  <1>5. EndsSent
    BY DEF CliInit, Init, EndsSent, NoReceive, NewReceive
  <1> QED
    BY <1>1, <1>3, <1>4, <1>5 DEF KnownInv

-----------------------------------------------------------------------------
(* Steps of the server *)

(* A prepare-upload request commits itself only as its answer told it. *)
LEMMA PrepCommits ==
    ASSUME IInv, NEW r \in Preps, PrepStep(r), NEW s \in Preps, Committed(s)'
    PROVE  Committed(s)
  <1>0. prep \in [Preps -> PrepRecords] /\ prep[r] \in PrepRecords
    BY DEF IInv, TypeOK
  <1>1. \A q \in Preps \ {r} : prep'[q] = prep[q]
    BY <1>0, PrepMoves DEF IInv
  <1>2. IsActive(s)' => Committed(s)
    <2>1. CASE PrepActivate(r)
      BY <2>1 DEF PrepActivate, IsActive, Committed
    <2>2. CASE UNCHANGED slot
      BY <2>2 DEF IsActive, Committed
    <2>3. CASE slot' = FreeSlot \/ slot'.kind = "Pending"
      BY <2>3 DEF IsActive, FreeSlot
    <2>4. CASE Claim(r)
      BY <2>3, <2>4 DEF Claim
    <2>5. CASE PrepClear(r) \/ AbortClear(r)
      BY <2>2, <2>3, <2>5 DEF PrepClear, AbortClear, ClearPending
    <2>6. CASE \/ ClaimBlocked(r) \/ PrepDrop(r) \/ PrepEmit(r) \/ PrepEmitFails(r)
               \/ PrepDecided(r) \/ PrepCancelled(r) \/ AbortEmit(r)
      BY <2>2, <2>6 DEF ClaimBlocked, PrepDrop, PrepEmit, PrepEmitFails, PrepDecided,
         PrepCancelled, AbortEmit
    <2> QED
      BY <2>1, <2>4, <2>5, <2>6 DEF PrepStep
  <1>3. CASE s # r
    BY <1>1, <1>2, <1>3 DEF Committed
  <1>4. CASE s = r /\ prep'[r].pc \notin {"activate", "decide"}
    BY <1>2, <1>4 DEF Committed
  <1>5. CASE s = r /\ PrepDecided(r)
    <2>1. prep'[r].pc = "activate" => Committed(r)
      <3>1. prep[r].pc = "decide"
        BY <1>5 DEF PrepDecided
      <3>2. \/ \E p : prep' = [prep EXCEPT ![r] = [@ EXCEPT !.pc = "abort", !.resp = p]]
            \/ prep' = [prep EXCEPT ![r].pc = "clear"]
            \/ (prep[r].decision = "accept" /\ prep[r].accepted # {})
        BY <1>5 DEF PrepDecided
      <3>3. \/ prep'[r].pc \in {"abort", "clear"}
            \/ (prep[r].decision = "accept" /\ prep[r].accepted # {})
        BY <1>0, <3>2 DEF PrepRecords
      <3> QED
        BY <3>1, <3>3 DEF Committed
    <2>2. prep'[r].pc # "decide"
      BY <1>0, <1>5 DEF PrepDecided, PrepRecords
    <2> QED
      BY <1>2, <1>5, <2>1, <2>2 DEF Committed
  <1>6. CASE s = r /\ PrepEmit(r)
    <2>1. prep'[r].pc = "decide" /\ prep'[r].decision = "queued"
      BY <1>0, <1>6 DEF PrepEmit, PrepRecords
    <2> QED
      BY <1>2, <1>6, <2>1 DEF Committed
  <1>7. \/ PrepDecided(r) \/ PrepEmit(r)
        \/ prep'[r].pc \notin {"activate", "decide"}
    <2> USE <1>0 DEF PrepRecords
    <2>1. CASE Claim(r)
      BY <2>1 DEF Claim
    <2>2. CASE ClaimBlocked(r)
      BY <2>2 DEF ClaimBlocked
    <2>3. CASE PrepDrop(r)
      <3>1. \/ prep' = [prep EXCEPT ![r] = [@ EXCEPT !.pc = "abort", !.resp = "lost"]]
            \/ prep' = [prep EXCEPT ![r] = [@ EXCEPT !.pc = "leaked", !.resp = "lost"]]
        BY <2>3 DEF PrepDrop
      <3>2. CASE prep' = [prep EXCEPT ![r] = [@ EXCEPT !.pc = "abort", !.resp = "lost"]]
        BY <3>2
      <3>3. CASE prep' = [prep EXCEPT ![r] = [@ EXCEPT !.pc = "leaked", !.resp = "lost"]]
        BY <3>3
      <3> QED
        BY <3>1, <3>2, <3>3
    <2>4. CASE PrepEmitFails(r)
      BY <2>4 DEF PrepEmitFails
    <2>5. CASE PrepCancelled(r)
      BY <2>5 DEF PrepCancelled
    <2>6. CASE PrepClear(r)
      BY <2>6 DEF PrepClear
    <2>7. CASE PrepActivate(r)
      BY <2>7 DEF PrepActivate
    <2>8. CASE AbortClear(r)
      BY <2>8 DEF AbortClear
    <2>9. CASE AbortEmit(r)
      BY <2>9 DEF AbortEmit
    <2> QED
      BY <2>1, <2>2, <2>3, <2>4, <2>5, <2>6, <2>7, <2>8, <2>9 DEF PrepStep
  <1> QED
    BY <1>3, <1>4, <1>5, <1>6, <1>7

(* Uploads and cancel requests commit no session. *)
LEMMA OthersCommitNone ==
    ASSUME IInv,
           \/ \E u \in Uploads : UploadStep(u)
           \/ \E c \in Cancels : CancelStep(c),
           NEW s \in Preps, Committed(s)'
    PROVE  Committed(s)
  <1>0. prep \in [Preps -> PrepRecords]
    BY DEF IInv, TypeOK
  <1>1. ASSUME slot' = slot \/ slot' = FreeSlot PROVE IsActive(s)' => IsActive(s)
    BY <1>1 DEF IsActive, FreeSlot
  <1>2. ASSUME NEW u \in Uploads, UploadStep(u) PROVE Committed(s)
    <2>1. slot' = slot \/ slot' = FreeSlot
      BY <1>2 DEF UploadStep, UploadStart, UploadRejected, UploadDrop, UploadEmit, UploadTarget,
         UploadSave, UploadFinish, GuardFinish, UploadEndEmit, FinalizeFile
    <2>2. prep' = prep
      BY <1>2 DEF UploadStep, UploadStart, UploadRejected, UploadDrop, UploadEmit, UploadTarget,
         UploadSave, UploadFinish, GuardFinish, UploadEndEmit
    <2> QED
      BY <1>1, <2>1, <2>2 DEF Committed
  <1>3. ASSUME NEW c \in Cancels, CancelStep(c) PROVE Committed(s)
    <2>1. slot' = slot \/ slot' = FreeSlot
      BY <1>3 DEF CancelStep, CancelPending, CancelFirst, CancelDrop, CancelSecond, CancelEndEmit,
         CancelRecvEmit
    <2>2. prep' = prep \/ prep' = [prep EXCEPT ![slot.sid].token = TRUE]
      BY <1>3 DEF CancelStep, CancelPending, CancelFirst, CancelDrop, CancelSecond, CancelEndEmit,
         CancelRecvEmit
    <2>3. /\ prep'[s].pc = prep[s].pc /\ prep'[s].decision = prep[s].decision
          /\ prep'[s].accepted = prep[s].accepted
      BY <1>0, <2>2 DEF PrepRecords
    <2> QED
      BY <1>1, <2>1, <2>3 DEF Committed
  <1> QED
    BY <1>2, <1>3

(* The server sends SessionEnd only along with counting it. *)
LEMMA ServerSends ==
    ASSUME IInv, ServerStep
    PROVE  /\ \A s \in Preps : ends[s] # 0 => ends'[s] # 0
           /\ \/ events' = events
              \/ \E e \in Events : /\ events' = Append(events, e)
                                   /\ e.kind = "SessionEnd" => ends'[e.of] # 0
  <1>0. ends \in [Preps -> Nat]
    BY DEF IInv, TypeOK
  <1>1. ASSUME UNCHANGED <<events, ends>>
        PROVE  /\ \A s \in Preps : ends[s] # 0 => ends'[s] # 0
               /\ events' = events
    BY <1>1
  <1>2. ASSUME NEW s \in Preps, Send("SessionEnd", s), ends' = [ends EXCEPT ![s] = @ + 1]
        PROVE  /\ \A q \in Preps : ends[q] # 0 => ends'[q] # 0
               /\ \E e \in Events : /\ events' = Append(events, e)
                                    /\ e.kind = "SessionEnd" => ends'[e.of] # 0
    <2>1. [kind |-> "SessionEnd", of |-> s] \in Events
      BY EventType
    <2>2. ends'[s] # 0 /\ \A q \in Preps : ends[q] # 0 => ends'[q] # 0
      BY <1>0, <1>2
    <2> QED
      BY <1>2, <2>1, <2>2 DEF Send
  <1>3. ASSUME NEW kind \in {"PrepareUpload", "PrepareUploadAborted", "FileUpload", "CancelReceived"},
               NEW of, [kind |-> kind, of |-> of] \in Events, Send(kind, of), ends' = ends
        PROVE  /\ \A s \in Preps : ends[s] # 0 => ends'[s] # 0
               /\ \E e \in Events : /\ events' = Append(events, e)
                                    /\ e.kind = "SessionEnd" => ends'[e.of] # 0
    BY <1>3 DEF Send
  <1>4. ASSUME NEW r \in Preps, PrepStep(r)
        PROVE  \/ UNCHANGED <<events, ends>>
               \/ /\ ends' = ends
                  /\ Send("PrepareUpload", r) \/ Send("PrepareUploadAborted", r)
    BY <1>4 DEF PrepStep, Claim, ClaimBlocked, PrepDrop, PrepEmit, PrepEmitFails,
       PrepDecided, PrepCancelled, PrepClear, PrepActivate, AbortClear, AbortEmit
  <1>5. ASSUME NEW u \in Uploads, UploadStep(u)
        PROVE  \/ UNCHANGED <<events, ends>>
               \/ ends' = ends /\ Send("FileUpload", u)
               \/ /\ upl[u].sid \in Preps /\ Send("SessionEnd", upl[u].sid)
                  /\ ends' = [ends EXCEPT ![upl[u].sid] = @ + 1]
    BY <1>5 DEF UploadStep, UploadStart, UploadRejected, UploadDrop, UploadEmit, UploadTarget,
       UploadSave, UploadFinish, GuardFinish, UploadEndEmit, IInv, OneReporter, EndsByUpload
  <1>6. ASSUME NEW c \in Cancels, CancelStep(c)
        PROVE  \/ UNCHANGED <<events, ends>>
               \/ /\ ends' = ends /\ Send("CancelReceived", can[c].sid)
                  /\ can[c].sid \in Preps \cup {Foreign}
               \/ /\ can[c].sid \in Preps /\ Send("SessionEnd", can[c].sid)
                  /\ ends' = [ends EXCEPT ![can[c].sid] = @ + 1]
    <2>1. can[c].pc = "endEmit" => can[c].sid \in Preps
      BY DEF IInv, OneReporter, EndsByCancel
    <2>2. can[c].pc = "recvEmit" => can[c].sid \in Preps \cup {Foreign}
      BY DEF IInv, TypeOK, CanRecords, CancelNamed
    <2> QED
      BY <1>6, <2>1, <2>2 DEF CancelStep, CancelPending, CancelFirst, CancelDrop, CancelSecond,
         CancelEndEmit, CancelRecvEmit
  <1>7. ASSUME NEW r \in Preps, PrepStep(r)
        PROVE  /\ \A s \in Preps : ends[s] # 0 => ends'[s] # 0
               /\ \/ events' = events
                  \/ \E e \in Events : /\ events' = Append(events, e)
                                       /\ e.kind = "SessionEnd" => ends'[e.of] # 0
    BY <1>1, <1>3, <1>4, <1>7, EventType
  <1>8. ASSUME NEW u \in Uploads, UploadStep(u)
        PROVE  /\ \A s \in Preps : ends[s] # 0 => ends'[s] # 0
               /\ \/ events' = events
                  \/ \E e \in Events : /\ events' = Append(events, e)
                                       /\ e.kind = "SessionEnd" => ends'[e.of] # 0
    BY <1>1, <1>2, <1>3, <1>5, <1>8, EventType
  <1>9. ASSUME NEW c \in Cancels, CancelStep(c)
        PROVE  /\ \A s \in Preps : ends[s] # 0 => ends'[s] # 0
               /\ \/ events' = events
                  \/ \E e \in Events : /\ events' = Append(events, e)
                                       /\ e.kind = "SessionEnd" => ends'[e.of] # 0
    BY <1>1, <1>2, <1>3, <1>6, <1>9, EventType
  <1> QED
    BY <1>7, <1>8, <1>9 DEF ServerStep

(* A step of the server, of which the CLI learns later, keeps the invariant. *)
LEMMA ServerInv ==
    ASSUME KnownInv, ServerStep, UNCHANGED cliVars
    PROVE  KnownInv'
  <1>1. IInv /\ CliTypeOK /\ CommittedKnown /\ EndsSent /\ TypeOK
    BY DEF KnownInv, IInv
  <1>2. IInv'
    BY <1>1, PrepInv, UploadInv, CancelInv DEF ServerStep
  <1>3. CliTypeOK'
    BY <1>1, <1>2 DEF CliTypeOK, cliVars, IInv
  <1>4. \A s \in Preps : Committed(s)' => Committed(s)
    BY <1>1, PrepCommits, OthersCommitNone DEF ServerStep
  <1>5. CommittedKnown'
    BY <1>1, <1>4, NoNewCommitment DEF cliVars
  <1>6. EndsSent'
    BY <1>1, ServerSends, EventsGrow DEF cliVars
  <1> QED
    BY <1>2, <1>3, <1>5, <1>6 DEF KnownInv

-----------------------------------------------------------------------------
(* Steps of the CLI *)

(* The CLI answers requests and takes events: the server does not move. *)
LEMMA CliAnswers ==
    ASSUME IInv,
           prep' \in [Preps -> PrepRecords], upl' \in [Uploads -> UplRecords],
           events' \in Seq(Events),
           \A r \in Preps : prep'[r].pc = prep[r].pc,
           \A u \in Uploads : /\ upl'[u].pc = upl[u].pc
                              /\ upl'[u].sid = upl[u].sid /\ upl'[u].file = upl[u].file,
           UNCHANGED <<slot, files, can, open, how, ends>>
    PROVE  IInv'
  <1>1. TypeOK'
    BY DEF IInv, TypeOK
  <1> QED
    BY <1>1, AnswerInv

(* An answer other than accept commits no session. *)
LEMMA AnswersCommitNone ==
    ASSUME NEW s \in Preps, prep'[s].pc = prep[s].pc, UNCHANGED slot,
           \/ prep'[s] = prep[s]
           \/ prep'[s].decision # "accept"
           \/ prep'[s].accepted = {},
           Committed(s)'
    PROVE  Committed(s)
  BY DEF Committed, IsActive

(* Accepting commits only the request that is recorded along with it. *)
LEMMA AcceptKnown ==
    ASSUME IInv, CommittedKnown, NEW r \in Preps, prep' = Decide(prep, r, "accept", Files),
           receive' = IF Waiting(r) THEN NewReceive(r) ELSE receive,
           UNCHANGED <<slot, revoked>>
    PROVE  CommittedKnown'
  <1>0. /\ prep \in [Preps -> PrepRecords] /\ Files \in SUBSET Files
        /\ "accept" \in Decisions
    BY Strings DEF IInv, TypeOK
  <1>1. /\ \A q \in Preps : prep'[q].pc = prep[q].pc
        /\ \A q \in Preps \ {r} : prep'[q] = prep[q]
    BY <1>0, DecideMoves
  <1>2. \A q \in Preps \ {r} : Committed(q)' => Committed(q)
    BY <1>1 DEF Committed, IsActive
  <1>3. CASE Waiting(r)
    <2>1. \A q \in Preps \ {r} : ~Committed(q)'
      BY <1>2, <1>3, OnlyWaiting
    <2>2. receive'.sid = r
      BY <1>3 DEF NewReceive
    <2> QED
      BY <2>1, <2>2 DEF CommittedKnown
  <1>4. CASE ~Waiting(r)
    <2>1. Committed(r)' => Committed(r)
      BY <1>1, <1>4 DEF Committed, IsActive, Waiting
    <2> QED
      BY <1>2, <1>4, <2>1 DEF CommittedKnown
  <1> QED
    BY <1>3, <1>4

(* The record goes only when its session has ended. *)
LEMMA FinishKnown ==
    ASSUME IInv, CommittedKnown, UNCHANGED <<slot, prep, revoked>>,
           \/ receive'.sid = receive.sid
           \/ receive.sid \in Preps /\ ends[receive.sid] # 0
    PROVE  CommittedKnown'
  <1>1. \A s \in Preps : Committed(s)' => Committed(s)
    BY DEF Committed, IsActive
  <1>2. CASE receive'.sid = receive.sid
    BY <1>1, <1>2, NoNewCommitment
  <1>3. CASE receive.sid \in Preps /\ ends[receive.sid] # 0
    <2>1. ~Committed(receive.sid)
      BY <1>3, EndedUncommitted
    <2> QED
      BY <1>1, <2>1 DEF CommittedKnown
  <1> QED
    BY <1>2, <1>3

(* Taking an event from the channel leaves the others in it. *)
LEMMA TakeEvent ==
    ASSUME TypeOK, EndsSent, events # <<>>, events' = Tail(events), UNCHANGED ends
    PROVE  /\ events' \in Seq(Events) /\ Head(events) \in Events
           /\ \A i \in DOMAIN events' : events'[i].kind = "SessionEnd" => ends'[events'[i].of] # 0
           /\ Head(events).kind = "SessionEnd" => ends[Head(events).of] # 0
  <1>1. events \in Seq(Events)
    BY DEF TypeOK
  <1>2. events' \in Seq(Events) /\ Head(events) \in Events /\ Head(events) = events[1]
    BY <1>1
  <1>3. \A i \in DOMAIN events' : events'[i] = events[i + 1] /\ i + 1 \in DOMAIN events
    BY <1>1
  <1>4. 1 \in DOMAIN events
    BY <1>1
  <1> QED
    BY <1>2, <1>3, <1>4 DEF EndsSent

(* Records stay records. *)
LEMMA ReceiveType ==
    /\ \A s \in Preps \cup {Nobody} : NewReceive(s) \in Receives
    /\ \A r \in Receives : FinishIfDone(r) \in Receives
    /\ \A r \in Receives : FinishIfDone(r).sid # r.sid => r.ended
    /\ \A r \in Receives : FinishIfDone(r).ended => FinishIfDone(r) = r
  <1>1. \A s \in Preps \cup {Nobody} : NewReceive(s) \in Receives /\ ~NewReceive(s).ended
    BY DEF NewReceive, Receives
  <1> QED
    BY <1>1 DEF FinishIfDone, NoReceive

(* Whatever event the CLI takes, it keeps the invariant. *)
LEMMA CliEventInv ==
    ASSUME KnownInv, CliEvent
    PROVE  KnownInv'
  <1> DEFINE e == Head(events)
  <1>0. /\ IInv /\ TypeOK /\ CliTypeOK /\ CommittedKnown /\ EndsSent
        /\ prep \in [Preps -> PrepRecords] /\ upl \in [Uploads -> UplRecords]
        /\ receive \in Receives /\ pending \in Preps \cup {Nobody}
    BY DEF KnownInv, CliTypeOK, IInv, TypeOK
  <1>1. events # <<>> /\ events' = Tail(events) /\ UNCHANGED <<slot, files, can, open, how, ends>>
    BY DEF CliEvent
  <1>2. /\ events' \in Seq(Events) /\ e \in Events
        /\ \A i \in DOMAIN events' : events'[i].kind = "SessionEnd" => ends'[events'[i].of] # 0
        /\ e.kind = "SessionEnd" => ends[e.of] # 0
    BY <1>0, <1>1, TakeEvent
  <1>3. /\ e.kind \in {"PrepareUpload", "SessionEnd", "PrepareUploadAborted"} => e.of \in Preps
        /\ e.kind = "FileUpload" => e.of \in Uploads
    BY <1>2 DEF Events
  <1>4. SUFFICES /\ prep' \in [Preps -> PrepRecords] /\ upl' \in [Uploads -> UplRecords]
                 /\ \A r \in Preps : prep'[r].pc = prep[r].pc
                 /\ \A u \in Uploads : /\ upl'[u].pc = upl[u].pc
                                       /\ upl'[u].sid = upl[u].sid /\ upl'[u].file = upl[u].file
                 /\ pending' \in Preps \cup {Nobody} /\ receive' \in Receives
                 /\ outcome' \in [Uploads -> {"none", "due", "seen"}] /\ revoked' = revoked
                 /\ CommittedKnown'
                 /\ receive'.ended => receive'.sid \in Preps /\ ends[receive'.sid] # 0
    <2>1. IInv'
      BY <1>0, <1>1, <1>2, <1>4, CliAnswers
    <2>2. CliTypeOK'
      BY <1>0, <1>4, <2>1 DEF CliTypeOK, IInv
    <2>3. EndsSent'
      BY <1>1, <1>2, <1>4 DEF EndsSent
    <2> QED
      BY <1>4, <2>1, <2>2, <2>3 DEF KnownInv
  <1> HIDE DEF e
  <1>5. receive.ended => receive.sid \in Preps /\ ends[receive.sid] # 0
    BY <1>0 DEF EndsSent
  <1>6. ASSUME NEW r \in Preps, OnMessage(r)
        PROVE  /\ prep' \in [Preps -> PrepRecords]
               /\ \A q \in Preps : prep'[q].pc = prep[q].pc
               /\ CommittedKnown'
    <2>1. {} \in SUBSET Files /\ "accept" \in Decisions /\ prep' = Decide(prep, r, "accept", {})
      BY <1>6, Strings DEF OnMessage
    <2>2. /\ prep' \in [Preps -> PrepRecords]
          /\ \A q \in Preps : prep'[q].pc = prep[q].pc
          /\ \A q \in Preps \ {r} : prep'[q] = prep[q]
          /\ prep'[r].accepted = {}
      BY <1>0, <2>1, DecideMoves
    <2>3. \A q \in Preps : Committed(q)' => Committed(q)
      BY <1>1, <2>2, AnswersCommitNone
    <2> QED
      BY <1>0, <1>6, <2>2, <2>3, NoNewCommitment DEF OnMessage, cliVars
  <1>7. ASSUME NEW r \in Preps, OnPrompt(r)
        PROVE  /\ prep' \in [Preps -> PrepRecords]
               /\ \A q \in Preps : prep'[q].pc = prep[q].pc
               /\ CommittedKnown'
    <2>1. {} \in SUBSET Files /\ "asked" \in Decisions /\ prep' = Decide(DropPending, r, "asked", {})
      BY <1>7, Strings DEF OnPrompt
    <2>2. /\ DropPending \in [Preps -> PrepRecords]
          /\ \A q \in Preps : DropPending[q].pc = prep[q].pc
          /\ \A q \in Preps : DropPending[q] = prep[q] \/ DropPending[q].decision = "dropped"
      BY <1>0, DropMoves
    <2>3. /\ prep' \in [Preps -> PrepRecords]
          /\ \A q \in Preps : prep'[q].pc = DropPending[q].pc
          /\ \A q \in Preps \ {r} : prep'[q] = DropPending[q]
          /\ prep'[r].accepted = {}
      BY <2>1, <2>2, DecideMoves
    <2>4. \A q \in Preps : Committed(q)' => Committed(q)
      BY <1>1, <2>2, <2>3, AnswersCommitNone
    <2> QED
      BY <1>0, <1>7, <2>2, <2>3, <2>4, NoNewCommitment DEF OnPrompt
  <1>8. ASSUME NEW r \in Preps, OnAborted(r)
        PROVE  /\ prep' \in [Preps -> PrepRecords]
               /\ \A q \in Preps : prep'[q].pc = prep[q].pc
               /\ CommittedKnown'
    <2>1. prep' = prep \/ prep' = DropPending
      BY <1>8 DEF OnAborted
    <2>2. /\ DropPending \in [Preps -> PrepRecords]
          /\ \A q \in Preps : DropPending[q].pc = prep[q].pc
          /\ \A q \in Preps : DropPending[q] = prep[q] \/ DropPending[q].decision = "dropped"
      BY <1>0, DropMoves
    <2>3. /\ prep' \in [Preps -> PrepRecords]
          /\ \A q \in Preps : prep'[q].pc = prep[q].pc
          /\ \A q \in Preps : prep'[q] = prep[q] \/ prep'[q].decision # "accept"
      BY <1>0, <2>1, <2>2
    <2>4. \A q \in Preps : Committed(q)' => Committed(q)
      BY <1>1, <2>3, AnswersCommitNone
    <2> QED
      BY <1>0, <1>8, <2>3, <2>4, NoNewCommitment DEF OnAborted
  <1>9. CASE e.kind = "PrepareUpload" /\ OnMessage(e.of)
    BY <1>0, <1>3, <1>5, <1>6, <1>9 DEF OnMessage, cliVars, CliTypeOK
  <1>10. CASE e.kind = "PrepareUpload" /\ OnPrompt(e.of)
    BY <1>0, <1>3, <1>5, <1>7, <1>10 DEF OnPrompt, CliTypeOK
  <1>11. CASE e.kind = "PrepareUploadAborted" /\ OnAborted(e.of)
    BY <1>0, <1>3, <1>5, <1>8, <1>11 DEF OnAborted, CliTypeOK
  <1>12. CASE e.kind = "PrepareUpload" /\ OnPaired(e.of)
    <2>1. /\ e.of \in Preps /\ Files \in SUBSET Files /\ "accept" \in Decisions
          /\ prep' = Decide(prep, e.of, "accept", Files)
          /\ receive' = IF Waiting(e.of) THEN NewReceive(e.of) ELSE receive
          /\ UNCHANGED <<upl, pending, outcome, revoked>>
      BY <1>3, <1>12, Strings DEF OnPaired
    <2>2. /\ prep' \in [Preps -> PrepRecords]
          /\ \A q \in Preps : prep'[q].pc = prep[q].pc
      BY <1>0, <2>1, DecideMoves
    <2>3. CommittedKnown'
      BY <1>0, <1>1, <2>1, AcceptKnown
    <2>4. receive' \in Receives /\ (receive' = receive \/ ~receive'.ended)
      BY <1>0, <2>1, ReceiveType DEF NewReceive
    <2> QED
      BY <1>0, <1>5, <2>1, <2>2, <2>3, <2>4 DEF CliTypeOK
  <1>13. CASE e.kind = "SessionEnd" /\ OnSessionEnd(e.of)
    <2> DEFINE r == [receive EXCEPT !.ended = TRUE]
    <2>1. UNCHANGED <<prep, upl, pending, outcome, revoked>>
      BY <1>13 DEF OnSessionEnd
    <2>2. CASE receive.sid # e.of
      BY <1>0, <1>1, <1>5, <1>13, <2>1, <2>2, FinishKnown DEF OnSessionEnd, CliTypeOK
    <2>3. CASE receive.sid = e.of
      <3>1. receive' = FinishIfDone(r)
        BY <1>13, <2>3 DEF OnSessionEnd
      <3>2. r \in Receives /\ r.sid = receive.sid
        BY <1>0 DEF Receives
      <3>3. receive.sid \in Preps /\ ends[receive.sid] # 0
        BY <1>2, <1>3, <1>13, <2>3
      <3> HIDE DEF r
      <3>4. receive' \in Receives /\ (receive'.ended => receive'.sid = receive.sid)
        BY <3>1, <3>2, ReceiveType
      <3>5. CommittedKnown'
        BY <1>0, <1>1, <2>1, <3>3, FinishKnown
      <3> QED
        BY <1>0, <2>1, <3>3, <3>4, <3>5 DEF CliTypeOK
    <2> QED
      BY <2>2, <2>3
  <1>14. CASE e.kind = "FileUpload" /\ OnFileUpload(e.of)
    <2> DEFINE u == e.of
    <2>1. /\ u \in Uploads /\ upl[u] \in UplRecords /\ UNCHANGED <<prep, pending, revoked>>
      BY <1>0, <1>3, <1>14 DEF OnFileUpload
    <2>2. PICK t \in {"given", "dropped"} : upl' = [upl EXCEPT ![u].target = t]
      BY <1>14 DEF OnFileUpload
    <2>3. /\ upl' \in [Uploads -> UplRecords]
          /\ \A v \in Uploads : /\ upl'[v].pc = upl[v].pc
                                /\ upl'[v].sid = upl[v].sid /\ upl'[v].file = upl[v].file
      BY <1>0, <2>1, <2>2 DEF UplRecords
    <2>4. outcome' \in [Uploads -> {"none", "due", "seen"}]
      BY <1>0, <1>14, <2>1 DEF OnFileUpload, CliTypeOK
    <2>5. upl[u].file \in Files \cup {Nobody}
      BY <2>1 DEF UplRecords
    <2>6. receive' \in Receives /\ receive'.sid = receive.sid /\ receive'.ended = receive.ended
      BY <1>0, <1>14, <2>5 DEF OnFileUpload, Receives
    <2>7. CommittedKnown'
      BY <1>0, <1>1, <2>1, <2>6, FinishKnown
    <2> QED
      BY <1>0, <1>5, <2>1, <2>3, <2>4, <2>6, <2>7
  <1>15. CASE UNCHANGED <<prep, upl, cliVars>>
    BY <1>0, <1>1, <1>5, <1>15, FinishKnown DEF cliVars, CliTypeOK
  <1> QED
    BY <1>9, <1>10, <1>11, <1>12, <1>13, <1>14, <1>15 DEF CliEvent, e

(* A result, whenever it comes, keeps the invariant. *)
LEMMA CliResultInv ==
    ASSUME KnownInv, NEW u \in Uploads, CliResult(u)
    PROVE  KnownInv'
  <1> DEFINE n == IF upl[u].result = "Success" THEN 1 ELSE 0
             r == [receive EXCEPT !.inProgress = @ \ {upl[u].file}, !.finished = @ + n]
  <1>0. /\ IInv /\ TypeOK /\ CliTypeOK /\ CommittedKnown /\ EndsSent /\ receive \in Receives
    BY DEF KnownInv, CliTypeOK, IInv
  <1>1. UNCHANGED vars /\ UNCHANGED <<pending, revoked>>
    BY DEF CliResult
  <1>2. IInv'
    BY <1>0, <1>1, StepInv
  <1>3. r \in Receives /\ r.sid = receive.sid /\ r.ended = receive.ended
    <2>1. receive.finished + n \in Nat
      BY <1>0 DEF Receives
    <2> HIDE DEF n
    <2> QED
      BY <1>0, <2>1 DEF Receives
  <1>4. receive' = receive \/ receive' = FinishIfDone(r)
    BY DEF CliResult
  <1> HIDE DEF r
  <1>5. receive.ended => receive.sid \in Preps /\ ends[receive.sid] # 0
    BY <1>0 DEF EndsSent
  <1>6. /\ receive' \in Receives
        /\ receive'.sid # receive.sid => receive.ended
        /\ receive'.ended => receive.ended /\ receive'.sid = receive.sid
    BY <1>0, <1>3, <1>4, ReceiveType
  <1>7. CommittedKnown'
    BY <1>0, <1>1, <1>5, <1>6, FinishKnown DEF vars
  <1>8. EndsSent'
    BY <1>0, <1>1, <1>5, <1>6 DEF EndsSent, vars
  <1>9. outcome' \in [Uploads -> {"none", "due", "seen"}]
    BY <1>0 DEF CliResult, CliTypeOK
  <1>10. CliTypeOK'
    BY <1>0, <1>1, <1>2, <1>6, <1>9 DEF CliTypeOK, IInv
  <1> QED
    BY <1>2, <1>7, <1>8, <1>10 DEF KnownInv

(* Keys that answer the pending request keep the invariant. *)
LEMMA AnswerKeyInv ==
    ASSUME KnownInv, Accept \/ Decline
    PROVE  KnownInv'
  <1>0. /\ IInv /\ TypeOK /\ CliTypeOK /\ CommittedKnown /\ EndsSent
        /\ prep \in [Preps -> PrepRecords] /\ upl \in [Uploads -> UplRecords]
        /\ receive \in Receives /\ events \in Seq(Events)
    BY DEF KnownInv, CliTypeOK, IInv, TypeOK
  <1>1. /\ pending \in Preps /\ pending' = Nobody
        /\ UNCHANGED <<slot, files, upl, can, events, open, how, ends, outcome, revoked>>
    BY <1>0 DEF Accept, Decline, CliTypeOK
  <1>2. ASSUME prep' \in [Preps -> PrepRecords],
               \A q \in Preps : prep'[q].pc = prep[q].pc,
               receive' \in Receives, receive' = receive \/ ~receive'.ended,
               CommittedKnown'
        PROVE  KnownInv'
    <2>1. IInv'
      BY <1>0, <1>1, <1>2, CliAnswers
    <2>2. CliTypeOK'
      BY <1>0, <1>1, <1>2, <2>1 DEF CliTypeOK, IInv
    <2>3. EndsSent'
      BY <1>0, <1>1, <1>2 DEF EndsSent
    <2> QED
      BY <1>2, <2>1, <2>2, <2>3 DEF KnownInv
  <1>3. CASE Accept
    <2>1. /\ Files \in SUBSET Files /\ "accept" \in Decisions
          /\ prep' = Decide(prep, pending, "accept", Files)
          /\ receive' = IF Waiting(pending) THEN NewReceive(pending) ELSE receive
      BY <1>3, Strings DEF Accept
    <2>2. /\ prep' \in [Preps -> PrepRecords]
          /\ \A q \in Preps : prep'[q].pc = prep[q].pc
      BY <1>0, <1>1, <2>1, DecideMoves
    <2>3. CommittedKnown'
      BY <1>0, <1>1, <2>1, AcceptKnown
    <2>4. receive' \in Receives /\ (receive' = receive \/ ~receive'.ended)
      BY <1>0, <1>1, <2>1, ReceiveType DEF NewReceive
    <2> QED
      BY <1>2, <2>2, <2>3, <2>4
  <1>4. CASE Decline
    <2>1. /\ {} \in SUBSET Files /\ "decline" \in Decisions
          /\ prep' = Decide(prep, pending, "decline", {}) /\ receive' = receive
      BY <1>4, Strings DEF Decline
    <2>2. /\ prep' \in [Preps -> PrepRecords]
          /\ \A q \in Preps : prep'[q].pc = prep[q].pc
          /\ \A q \in Preps \ {pending} : prep'[q] = prep[q]
          /\ prep'[pending].accepted = {}
      BY <1>0, <1>1, <2>1, DecideMoves
    <2>3. \A q \in Preps : Committed(q)' => Committed(q)
      BY <1>1, <2>2, AnswersCommitNone
    <2>4. CommittedKnown'
      BY <1>0, <1>1, <2>1, <2>3, NoNewCommitment
    <2> QED
      BY <1>0, <1>2, <2>1, <2>2, <2>4
  <1> QED
    BY <1>3, <1>4

(* Ctrl-C, which forgets the record, remembers that the user did. *)
LEMMA CtrlCInv ==
    ASSUME KnownInv, CtrlC
    PROVE  KnownInv'
  <1>0. /\ IInv /\ TypeOK /\ CliTypeOK /\ CommittedKnown /\ EndsSent
        /\ prep \in [Preps -> PrepRecords] /\ upl \in [Uploads -> UplRecords]
        /\ receive \in Receives /\ events \in Seq(Events)
        /\ pending \in Preps \cup {Nobody} /\ revoked \in [Preps -> {"no", "task", "done"}]
    BY DEF KnownInv, CliTypeOK, IInv, TypeOK
  <1>1. /\ pending' = Nobody /\ receive' = NoReceive
        /\ revoked' = [revoked EXCEPT ![receive.sid] = "task"]
        /\ UNCHANGED <<slot, files, upl, can, events, open, how, ends, outcome>>
        /\ receive.sid # Nobody
        /\ prep' = IF pending = Nobody THEN prep ELSE Decide(prep, pending, "decline", {})
    BY DEF CtrlC
  <1>2. receive.sid \in Preps
    BY <1>0, <1>1 DEF Receives
  <1>3. /\ prep' \in [Preps -> PrepRecords]
        /\ \A q \in Preps : prep'[q].pc = prep[q].pc
        /\ \A q \in Preps : prep'[q] = prep[q] \/ prep'[q].accepted = {}
    <2>1. CASE pending = Nobody
      BY <1>0, <1>1, <2>1
    <2>2. CASE pending \in Preps /\ pending # Nobody
      <3>1. /\ {} \in SUBSET Files /\ "decline" \in Decisions
            /\ prep' = Decide(prep, pending, "decline", {})
        BY <1>1, <2>2, Strings
      <3>2. /\ prep' \in [Preps -> PrepRecords]
            /\ \A q \in Preps : prep'[q].pc = prep[q].pc
            /\ \A q \in Preps \ {pending} : prep'[q] = prep[q]
            /\ prep'[pending].accepted = {}
        BY <1>0, <2>2, <3>1, DecideMoves
      <3> QED
        BY <3>2
    <2> QED
      BY <1>0, <2>1, <2>2
  <1>4. \A q \in Preps : Committed(q)' => Committed(q)
    BY <1>1, <1>3, AnswersCommitNone
  <1>5. IInv'
    BY <1>0, <1>1, <1>3, CliAnswers
  <1>6. CommittedKnown'
    BY <1>0, <1>1, <1>2, <1>4 DEF CommittedKnown
  <1>7. EndsSent'
    BY <1>0, <1>1 DEF EndsSent, NoReceive, NewReceive
  <1>8. NoReceive \in Receives
    BY DEF NoReceive, NewReceive, Receives
  <1>9. CliTypeOK'
    BY <1>0, <1>1, <1>2, <1>5, <1>8 DEF CliTypeOK, IInv
  <1> QED
    BY <1>5, <1>6, <1>7, <1>9 DEF KnownInv

(* The task of cancel_receive ends the session or finds nothing to end. *)
LEMMA RevokeInv ==
    ASSUME KnownInv, NEW s \in Preps, Revoke(s)
    PROVE  KnownInv'
  <1>0. /\ IInv /\ TypeOK /\ CliTypeOK /\ CommittedKnown /\ EndsSent
        /\ revoked \in [Preps -> {"no", "task", "done"}]
    BY DEF KnownInv, CliTypeOK, IInv
  <1>1. /\ revoked' = [revoked EXCEPT ![s] = "done"] /\ UNCHANGED <<pending, receive, outcome>>
        /\ AppCancel(s) \/ UNCHANGED vars
    BY DEF Revoke
  <1>2. IInv'
    BY <1>0, <1>1, AppInv, StepInv DEF AppStep
  <1>3. /\ slot' = slot \/ slot' = FreeSlot
        /\ UNCHANGED <<prep, events, ends>>
    BY <1>1 DEF AppCancel, vars
  <1>4. \A q \in Preps : Committed(q)' => Committed(q)
    BY <1>3 DEF Committed, IsActive, FreeSlot
  <1>5. CommittedKnown'
    BY <1>0, <1>1, <1>4 DEF CommittedKnown
  <1>6. EndsSent'
    BY <1>0, <1>1, <1>3 DEF EndsSent
  <1>7. CliTypeOK'
    BY <1>0, <1>1, <1>2 DEF CliTypeOK, IInv
  <1> QED
    BY <1>2, <1>5, <1>6, <1>7 DEF KnownInv

(* Quitting drops the channel and keeps the invariant. *)
LEMMA QuitInv ==
    ASSUME KnownInv, Quit
    PROVE  KnownInv'
  <1>0. /\ IInv /\ TypeOK /\ CliTypeOK /\ CommittedKnown /\ EndsSent
        /\ prep \in [Preps -> PrepRecords]
    BY DEF KnownInv, CliTypeOK, IInv, TypeOK
  <1>1. AppClose /\ UNCHANGED cliVars
    BY DEF Quit
  <1>2. IInv'
    BY <1>0, <1>1, AppInv DEF AppStep
  <1>3. /\ \A q \in Preps : prep'[q].pc = prep[q].pc
        /\ \A q \in Preps : prep'[q] = prep[q] \/ prep'[q].decision # "accept"
    BY <1>0, <1>1 DEF AppClose, PrepRecords
  <1>4. \A q \in Preps : Committed(q)' => Committed(q)
    BY <1>1, <1>3, AnswersCommitNone DEF AppClose
  <1>5. CommittedKnown'
    BY <1>0, <1>1, <1>4, NoNewCommitment DEF cliVars
  <1>6. EndsSent'
    BY <1>0, <1>1 DEF EndsSent, AppClose, cliVars
  <1>7. CliTypeOK'
    BY <1>0, <1>1, <1>2 DEF CliTypeOK, IInv, cliVars
  <1> QED
    BY <1>2, <1>5, <1>6, <1>7 DEF KnownInv

(* Every step, stuttering included, keeps the invariant of the CLI. *)
LEMMA CliStepInv == KnownInv /\ [CliNext]_allVars => KnownInv'
  <1> SUFFICES ASSUME KnownInv, [CliNext]_allVars PROVE KnownInv'
    OBVIOUS
  <1>1. CASE UNCHANGED allVars
    <2>1. IInv'
      BY <1>1, StepInv DEF KnownInv, allVars
    <2>2. CliTypeOK' /\ CommittedKnown' /\ EndsSent'
      BY <1>1, <2>1 DEF KnownInv, allVars, vars, cliVars, CliTypeOK, IInv, CommittedKnown, Committed,
         IsActive, EndsSent
    <2> QED
      BY <2>1, <2>2 DEF KnownInv
  <1> QED
    BY <1>1, ServerInv, CliEventInv, CliResultInv, AnswerKeyInv, CtrlCInv, RevokeInv, QuitInv
       DEF CliNext, CliStep

-----------------------------------------------------------------------------
(* Retries and the count of the summary *)

(* The files of a session whose success the CLI was told are among those it lists. *)
LEMMA GotCount ==
    /\ \A s \in Preps \cup {Nobody} :
         IsFiniteSet(Got(s)) /\ Cardinality(Got(s)) \in Nat /\ Cardinality(Got(s)) <= Cardinality(Files)
    /\ Cardinality(Files) \in Nat
  <1>1. \A s : Got(s) \subseteq Files
    BY DEF Got
  <1> QED
    BY <1>1, FilesAssumption, FS_Subset, FS_CardinalityType

(* The count stays right while the successes told stay told, and starts at nothing. *)
LEMMA CountKept ==
    ASSUME KnownInv, KnownInv', receive.finished <= Cardinality(Got(receive.sid)),
           \A s \in Preps \cup {Nobody} : Got(s) \subseteq Got(s)',
           \/ receive'.finished = 0
           \/ receive'.sid = receive.sid /\ receive'.finished = receive.finished
    PROVE  receive'.finished <= Cardinality(Got(receive.sid)')
  <1>1. receive \in Receives /\ receive' \in Receives
    BY DEF KnownInv, CliTypeOK
  <1>2. /\ receive.sid \in Preps \cup {Nobody} /\ receive.finished \in Nat
        /\ receive'.sid \in Preps \cup {Nobody} /\ receive'.finished \in Nat
    BY <1>1 DEF Receives
  <1>3. \A s : Got(s)' \subseteq Files
    BY DEF Got
  <1>4. \A s : IsFiniteSet(Got(s)') /\ Cardinality(Got(s)') \in Nat
    BY <1>3, FilesAssumption, FS_Subset, FS_CardinalityType
  <1>5. PICK s \in Preps \cup {Nobody} : s = receive.sid
    BY <1>2
  <1>6. PICK t \in Preps \cup {Nobody} : t = receive'.sid
    BY <1>2
  <1>7. Got(receive.sid)' = Got(t)'
    BY <1>6 DEF Got
  <1>8. CASE receive'.finished = 0
    BY <1>4, <1>7, <1>8
  <1>9. CASE receive'.sid = receive.sid /\ receive'.finished = receive.finished
    <2>1. t = s /\ Got(receive.sid) = Got(s)
      BY <1>5, <1>6, <1>9
    <2>2. Cardinality(Got(s)) <= Cardinality(Got(s)') /\ Cardinality(Got(s)) \in Nat
      BY <1>4, <1>5, FS_Subset, FS_CardinalityType
    <2> QED
      BY <1>2, <1>4, <1>7, <1>9, <2>1, <2>2
  <1> QED
    BY <1>8, <1>9

(* A success that was told stays told when results do not change. *)
LEMMA GotGrows ==
    ASSUME \A u \in Uploads :
             outcome[u] = "seen" /\ Saved(u) =>
               /\ outcome'[u] = "seen" /\ Saved(u)'
               /\ upl'[u].sid = upl[u].sid /\ upl'[u].file = upl[u].file
    PROVE  \A s \in Preps \cup {Nobody} : Got(s) \subseteq Got(s)'
  BY DEF Got

(* A saved file stays saved, whatever the server does. *)
LEMMA ServerSaved ==
    ASSUME IInv, RetryInv, ServerStep
    PROVE  \A u \in Uploads : Saved(u) =>
             Saved(u)' /\ upl'[u].sid = upl[u].sid /\ upl'[u].file = upl[u].file
  <1>0. upl \in [Uploads -> UplRecords]
    BY DEF IInv, TypeOK
  <1>1. ASSUME NEW r \in Preps, PrepStep(r) PROVE UNCHANGED upl
    BY <1>1 DEF PrepStep, Claim, ClaimBlocked, PrepDrop, PrepEmit, PrepEmitFails,
       PrepDecided, PrepCancelled, PrepClear, PrepActivate, AbortClear, AbortEmit
  <1>2. ASSUME NEW c \in Cancels, CancelStep(c) PROVE UNCHANGED upl
    BY <1>2 DEF CancelStep, CancelPending, CancelFirst, CancelDrop, CancelSecond, CancelEndEmit,
       CancelRecvEmit
  <1>3. ASSUME NEW u \in Uploads, UploadStep(u), NEW v \in Uploads, Saved(v)
        PROVE  Saved(v)' /\ upl'[v].sid = upl[v].sid /\ upl'[v].file = upl[v].file
    <2>1. upl[v].pc \notin {"idle", "emit", "target", "save"}
      BY <1>3 DEF RetryInv, SavedOnce
    <2>2. CASE upl[u].pc \in {"idle", "emit", "target", "save"}
      <3>1. \E w : upl' = [upl EXCEPT ![u] = w]
        BY <1>3, <2>2, Zenon DEF UploadStep, UploadStart, UploadRejected, UploadDrop, UploadEmit, UploadTarget,
           UploadSave, UploadFinish, GuardFinish, UploadEndEmit, FinalizeFile
      <3>2. upl'[v] = upl[v]
        BY <1>0, <2>1, <2>2, <3>1
      <3> QED
        BY <1>3, <3>2 DEF Saved
    <2>3. CASE upl[u].pc \notin {"idle", "emit", "target", "save"}
      <3>1. \E pc : upl' = [upl EXCEPT ![u].pc = pc]
        BY <1>3, <2>3 DEF UploadStep, UploadStart, UploadRejected, UploadDrop, UploadEmit, UploadTarget,
           UploadSave, UploadFinish, GuardFinish, UploadEndEmit, FinalizeFile
      <3>2. /\ upl'[v].result = upl[v].result
            /\ upl'[v].sid = upl[v].sid /\ upl'[v].file = upl[v].file
        BY <1>0, <3>1 DEF UplRecords
      <3> QED
        BY <1>3, <3>2 DEF Saved
    <2> QED
      BY <2>2, <2>3
  <1>4. ASSUME UNCHANGED upl, NEW u \in Uploads, Saved(u)
        PROVE  Saved(u)' /\ upl'[u].sid = upl[u].sid /\ upl'[u].file = upl[u].file
    BY <1>4 DEF Saved
  <1> QED
    BY <1>1, <1>2, <1>3, <1>4 DEF ServerStep

(* A step that announces no upload and answers none. *)
LEMMA AnnounceQuiet ==
    ASSUME TypeOK, AnnouncedOnce,
           \A u \in Uploads :
             /\ upl'[u].target = upl[u].target
             /\ upl'[u].pc \in {"idle", "emit"} => upl[u].pc \in {"idle", "emit"}
             /\ outcome'[u] # "none" => outcome[u] # "none",
           \/ events' = events
           \/ events' = Tail(events) /\ events # <<>>
           \/ \E e \in Events : e.kind # "FileUpload" /\ events' = Append(events, e)
    PROVE  AnnouncedOnce'
  <1>0. /\ events \in Seq(Events)
        /\ \A e \in Events : e.kind = "FileUpload" => e.of \in Uploads
    BY DEF TypeOK, Events
  <1>1. /\ \A u \in Uploads : upl'[u].pc \in {"idle", "emit"} => upl'[u].target = "none"
        /\ \A u \in Uploads : outcome'[u] # "none" => upl'[u].target = "given"
    BY DEF AnnouncedOnce
  <1>2. \A i \in DOMAIN events : events[i].kind = "FileUpload" =>
          /\ upl'[events[i].of].target = "queued"
          /\ \A j \in DOMAIN events : events[j] = events[i] => i = j
    BY <1>0 DEF AnnouncedOnce
  <1>3. \A i \in DOMAIN events' : events'[i].kind = "FileUpload" =>
          /\ upl'[events'[i].of].target = "queued"
          /\ \A j \in DOMAIN events' : events'[j] = events'[i] => i = j
    <2>1. CASE events' = events
      BY <1>2, <2>1
    <2>2. CASE events' = Tail(events) /\ events # <<>>
      <3>1. \A i \in DOMAIN events' : events'[i] = events[i + 1] /\ i + 1 \in DOMAIN events
        BY <1>0, <2>2
      <3>2. \A i, j \in DOMAIN events' : i + 1 = j + 1 => i = j
        BY <1>0, <2>2
      <3> QED
        BY <1>2, <3>1, <3>2
    <2>3. ASSUME NEW e \in Events, e.kind # "FileUpload", events' = Append(events, e)
          PROVE  \A i \in DOMAIN events' : events'[i].kind = "FileUpload" =>
                   /\ upl'[events'[i].of].target = "queued"
                   /\ \A j \in DOMAIN events' : events'[j] = events'[i] => i = j
      <3>1. \A i \in DOMAIN events' :
              \/ i \in DOMAIN events /\ events'[i] = events[i]
              \/ events'[i] = e
        BY <1>0, <2>3
      <3> QED
        BY <1>2, <2>3, <3>1
    <2> QED
      BY <2>1, <2>2, <2>3
  <1> QED
    BY <1>1, <1>3 DEF AnnouncedOnce

(* The server announces an upload once: the request that sends the event has no *)
(* target yet.                                                                  *)
LEMMA EmitAnnounces ==
    ASSUME TypeOK, AnnouncedOnce, NEW u \in Uploads, Send("FileUpload", u),
           upl' = [upl EXCEPT ![u] = [@ EXCEPT !.pc = "target", !.target = "queued"]],
           upl[u].pc = "emit", outcome' = outcome
    PROVE  AnnouncedOnce'
  <1> DEFINE e == [kind |-> "FileUpload", of |-> u]
  <1>0. /\ events \in Seq(Events) /\ upl \in [Uploads -> UplRecords]
        /\ \A x \in Events : x.kind = "FileUpload" => x.of \in Uploads
    BY DEF TypeOK, Events
  <1>1. e \in Events /\ e.kind = "FileUpload" /\ e.of = u /\ events' = Append(events, e)
    BY EventType DEF Send
  <1> HIDE DEF e
  <1>2. /\ upl'[u].pc = "target" /\ upl'[u].target = "queued"
        /\ \A v \in Uploads \ {u} : upl'[v] = upl[v]
    BY <1>0 DEF UplRecords
  <1>3. upl[u].target = "none" /\ outcome[u] = "none"
    BY DEF AnnouncedOnce
  <1>4. \A i \in DOMAIN events : events[i].kind = "FileUpload" =>
          /\ events[i].of # u /\ events[i] # e
          /\ upl'[events[i].of].target = "queued"
          /\ \A j \in DOMAIN events : events[j] = events[i] => i = j
    <2>1. \A i \in DOMAIN events : events[i] \in Events
      BY <1>0
    <2>2. \A i \in DOMAIN events : events[i].kind = "FileUpload" =>
            /\ events[i].of \in Uploads /\ upl[events[i].of].target = "queued"
            /\ \A j \in DOMAIN events : events[j] = events[i] => i = j
      BY <1>0, <2>1 DEF AnnouncedOnce
    <2> QED
      BY <1>1, <1>2, <1>3, <2>2
  <1>5. \A i \in DOMAIN events' :
          \/ i \in DOMAIN events /\ events'[i] = events[i]
          \/ i = Len(events) + 1 /\ events'[i] = e
    BY <1>0, <1>1
  <1>6. \A i \in DOMAIN events' : events'[i].kind = "FileUpload" =>
          /\ upl'[events'[i].of].target = "queued"
          /\ \A j \in DOMAIN events' : events'[j] = events'[i] => i = j
    <2> SUFFICES ASSUME NEW i \in DOMAIN events', events'[i].kind = "FileUpload"
                 PROVE  /\ upl'[events'[i].of].target = "queued"
                        /\ \A j \in DOMAIN events' : events'[j] = events'[i] => i = j
      OBVIOUS
    <2>1. CASE i \in DOMAIN events /\ events'[i] = events[i]
      BY <1>4, <1>5, <2>1
    <2>2. CASE i = Len(events) + 1 /\ events'[i] = e
      <3>1. \A j \in DOMAIN events : events[j] # e
        BY <1>1, <1>4
      <3> QED
        BY <1>1, <1>2, <1>5, <2>2, <3>1
    <2> QED
      BY <1>5, <2>1, <2>2
  <1>7. /\ \A v \in Uploads : upl'[v].pc \in {"idle", "emit"} => upl'[v].target = "none"
        /\ \A v \in Uploads : outcome'[v] # "none" => upl'[v].target = "given"
    BY <1>2, <1>3 DEF AnnouncedOnce
  <1> QED
    BY <1>6, <1>7 DEF AnnouncedOnce

(* No step of the server announces an upload twice or takes its target back. *)
LEMMA ServerAnnounces ==
    ASSUME IInv, AnnouncedOnce, ServerStep, UNCHANGED outcome
    PROVE  AnnouncedOnce'
  <1>0. TypeOK /\ upl \in [Uploads -> UplRecords]
    BY DEF IInv, TypeOK
  <1>1. CASE \E r \in Preps : PrepStep(r)
    <2>1. PICK r \in Preps : PrepStep(r)
      BY <1>1
    <2>2. UNCHANGED upl
      BY <2>1 DEF PrepStep, Claim, ClaimBlocked, PrepDrop, PrepEmit, PrepEmitFails,
         PrepDecided, PrepCancelled, PrepClear, PrepActivate, AbortClear, AbortEmit
    <2>3. events' = events \/ Send("PrepareUpload", r) \/ Send("PrepareUploadAborted", r)
      BY <2>1 DEF PrepStep, Claim, ClaimBlocked, PrepDrop, PrepEmit, PrepEmitFails,
         PrepDecided, PrepCancelled, PrepClear, PrepActivate, AbortClear, AbortEmit
    <2>4. \/ events' = events
          \/ \E e \in Events : e.kind # "FileUpload" /\ events' = Append(events, e)
      <3>1. /\ [kind |-> "PrepareUpload", of |-> r] \in Events
            /\ [kind |-> "PrepareUploadAborted", of |-> r] \in Events
        BY EventType
      <3> QED
        BY <2>3, <3>1 DEF Send
    <2> QED
      BY <1>0, <2>2, <2>4, AnnounceQuiet
  <1>2. CASE \E c \in Cancels : CancelStep(c)
    <2>1. PICK c \in Cancels : CancelStep(c)
      BY <1>2
    <2>2. UNCHANGED upl
      BY <2>1 DEF CancelStep, CancelPending, CancelFirst, CancelDrop, CancelSecond, CancelEndEmit,
         CancelRecvEmit
    <2>3. \/ events' = events
          \/ can[c].pc = "endEmit" /\ Send("SessionEnd", can[c].sid)
          \/ can[c].pc = "recvEmit" /\ Send("CancelReceived", can[c].sid)
      BY <2>1 DEF CancelStep, CancelPending, CancelFirst, CancelDrop, CancelSecond, CancelEndEmit,
         CancelRecvEmit
    <2>4. /\ can[c].pc = "endEmit" => can[c].sid \in Preps
          /\ can[c].pc = "recvEmit" => can[c].sid \in Preps \cup {Foreign}
      BY <1>0 DEF IInv, OneReporter, EndsByCancel, TypeOK, CanRecords, CancelNamed
    <2>5. \/ events' = events
          \/ \E e \in Events : e.kind # "FileUpload" /\ events' = Append(events, e)
      BY <2>3, <2>4, EventType DEF Send
    <2> QED
      BY <1>0, <2>2, <2>5, AnnounceQuiet
  <1>3. ASSUME NEW u \in Uploads, UploadStep(u) PROVE AnnouncedOnce'
    <2>1. CASE UploadEmit(u) /\ Send("FileUpload", u)
      <3>1. /\ upl' = [upl EXCEPT ![u] = [@ EXCEPT !.pc = "target", !.target = "queued"]]
            /\ upl[u].pc = "emit"
        BY <2>1 DEF UploadEmit, Send, CanSend
      <3> QED
        BY <1>0, <2>1, <3>1, EmitAnnounces
    <2>2. CASE ~(UploadEmit(u) /\ Send("FileUpload", u))
      <3>1. \/ events' = events
            \/ \E e \in Events : e.kind # "FileUpload" /\ events' = Append(events, e)
        <4>1. CASE UploadEndEmit(u)
          <5>1. upl[u].sid \in Preps
            BY <4>1 DEF UploadEndEmit, IInv, OneReporter, EndsByUpload
          <5> QED
            BY <4>1, <5>1, EventType DEF UploadEndEmit, Send
        <4>2. CASE ~UploadEndEmit(u)
          BY <1>3, <2>2, <4>2 DEF UploadStep, UploadStart, UploadRejected, UploadDrop, UploadEmit,
             UploadTarget, UploadSave, UploadFinish, GuardFinish
        <4> QED
          BY <4>1, <4>2
      <3>2. \A v \in Uploads :
              /\ upl'[v].target = upl[v].target
              /\ upl'[v].pc \in {"idle", "emit"} => upl[v].pc \in {"idle", "emit"}
        <4> USE <1>0 DEF UplRecords
        <4>1. CASE UploadStart(u)
          BY <4>1 DEF UploadStart
        <4>2. CASE UploadRejected(u) \/ UploadEndEmit(u)
          <5>1. upl' = [upl EXCEPT ![u].pc = "done"]
            BY <4>2 DEF UploadRejected, UploadEndEmit
          <5> QED
            BY <5>1
        <4>3. CASE UploadDrop(u)
          BY <4>3 DEF UploadDrop
        <4>4. CASE UploadEmit(u) \/ UploadTarget(u) \/ UploadSave(u)
          <5>1. \/ upl' = [upl EXCEPT ![u].pc = "save"]
                \/ \E result \in SaveResults :
                     upl' = [upl EXCEPT ![u] = [@ EXCEPT !.pc = "finish", !.result = result]]
            BY <2>2, <4>4, Strings DEF UploadEmit, UploadTarget, UploadSave
          <5>2. CASE upl' = [upl EXCEPT ![u].pc = "save"]
            BY <5>2
          <5>3. ASSUME NEW result \in SaveResults,
                       upl' = [upl EXCEPT ![u] = [@ EXCEPT !.pc = "finish", !.result = result]]
                PROVE  \A v \in Uploads :
                         /\ upl'[v].target = upl[v].target
                         /\ upl'[v].pc \in {"idle", "emit"} => upl[v].pc \in {"idle", "emit"}
            BY <5>3
          <5> QED
            BY <5>1, <5>2, <5>3
        <4>5. CASE UploadFinish(u) \/ GuardFinish(u)
          <5>1. \E pc \in {"done", "endEmit", "guardEnd"} : upl' = [upl EXCEPT ![u].pc = pc]
            BY <4>5 DEF UploadFinish, GuardFinish, FinalizeFile
          <5>2. ASSUME NEW pc \in {"done", "endEmit", "guardEnd"}, upl' = [upl EXCEPT ![u].pc = pc]
                PROVE  \A v \in Uploads :
                         /\ upl'[v].target = upl[v].target
                         /\ upl'[v].pc \in {"idle", "emit"} => upl[v].pc \in {"idle", "emit"}
            BY <5>2
          <5> QED
            BY <5>1, <5>2
        <4> QED
          BY <1>3, <4>1, <4>2, <4>3, <4>4, <4>5 DEF UploadStep
      <3> QED
        BY <1>0, <3>1, <3>2, AnnounceQuiet
    <2> QED
      BY <2>1, <2>2
  <1> QED
    BY <1>1, <1>2, <1>3 DEF ServerStep

(* The CLI moves no request, and neither saves nor starts an upload. *)
LEMMA CliMoves ==
    ASSUME KnownInv, CliStep
    PROVE  /\ \A r \in Preps : prep'[r].pc = prep[r].pc
           /\ \A u \in Uploads : /\ upl'[u].pc = upl[u].pc /\ upl'[u].result = upl[u].result
                                 /\ upl'[u].sid = upl[u].sid /\ upl'[u].file = upl[u].file
           /\ UNCHANGED <<slot, files>> \/ slot' = FreeSlot
  <1>0. /\ CliTypeOK /\ TypeOK /\ prep \in [Preps -> PrepRecords] /\ upl \in [Uploads -> UplRecords]
        /\ pending \in Preps \cup {Nobody} /\ events \in Seq(Events)
    BY DEF KnownInv, CliTypeOK, TypeOK
  <1>1. /\ DropPending \in [Preps -> PrepRecords]
        /\ \A q \in Preps : DropPending[q].pc = prep[q].pc
    BY <1>0, DropMoves
  <1>2. ASSUME NEW p \in [Preps -> PrepRecords], NEW r \in Preps,
               NEW answer \in Decisions, NEW ids \in SUBSET Files,
               \A q \in Preps : p[q].pc = prep[q].pc, prep' = Decide(p, r, answer, ids)
        PROVE  \A q \in Preps : prep'[q].pc = prep[q].pc
    BY <1>2, DecideMoves
  <1>3. {} \in SUBSET Files /\ Files \in SUBSET Files
    OBVIOUS
  <1>4. CASE CliEvent
    <2> DEFINE e == Head(events)
    <2>1. e \in Events
      BY <1>0, <1>4 DEF CliEvent
    <2>2. /\ e.kind \in {"PrepareUpload", "SessionEnd", "PrepareUploadAborted"} => e.of \in Preps
          /\ e.kind = "FileUpload" => e.of \in Uploads
      BY <2>1 DEF Events
    <2>3. UNCHANGED <<slot, files>>
      BY <1>4 DEF CliEvent
    <2> HIDE DEF e
    <2>4. CASE e.kind = "PrepareUpload" /\ (OnMessage(e.of) \/ OnPaired(e.of) \/ OnPrompt(e.of))
      <3>1. UNCHANGED upl
        BY <2>4 DEF OnMessage, OnPaired, OnPrompt
      <3>2. \/ prep' = Decide(prep, e.of, "accept", {})
            \/ prep' = Decide(prep, e.of, "accept", Files)
            \/ prep' = Decide(DropPending, e.of, "asked", {})
        BY <2>4 DEF OnMessage, OnPaired, OnPrompt
      <3>3. \A q \in Preps : prep'[q].pc = prep[q].pc
        BY <1>0, <1>1, <1>2, <1>3, <2>2, <2>4, <3>2, Strings
      <3> QED
        BY <2>3, <3>1, <3>3
    <2>5. CASE e.kind = "FileUpload" /\ OnFileUpload(e.of)
      <3>1. PICK t \in {"given", "dropped"} : upl' = [upl EXCEPT ![e.of].target = t]
        BY <2>5 DEF OnFileUpload
      <3>2. UNCHANGED prep
        BY <2>5 DEF OnFileUpload
      <3> QED
        BY <1>0, <2>2, <2>3, <2>5, <3>1, <3>2 DEF UplRecords
    <2>6. CASE \/ e.kind = "SessionEnd" /\ OnSessionEnd(e.of)
               \/ e.kind = "PrepareUploadAborted" /\ OnAborted(e.of)
               \/ UNCHANGED <<prep, upl, cliVars>>
      BY <1>1, <2>3, <2>6 DEF OnSessionEnd, OnAborted
    <2> QED
      BY <1>4, <2>4, <2>5, <2>6 DEF CliEvent, e
  <1>5. CASE Accept \/ Decline \/ CtrlC
    <2>1. /\ UNCHANGED <<slot, files, upl>>
          /\ \/ prep' = prep
             \/ /\ pending \in Preps
                /\ \/ prep' = Decide(prep, pending, "accept", Files)
                   \/ prep' = Decide(prep, pending, "decline", {})
      BY <1>0, <1>5 DEF Accept, Decline, CtrlC
    <2> QED
      BY <1>0, <1>2, <1>3, <2>1, Strings
  <1>6. CASE Quit
    BY <1>0, <1>6 DEF Quit, AppClose, PrepRecords, UplRecords
  <1>7. CASE \E u \in Uploads : CliResult(u)
    BY <1>7 DEF CliResult, vars
  <1>8. CASE \E s \in Preps : Revoke(s)
    BY <1>8 DEF Revoke, AppCancel, vars
  <1> QED
    BY <1>4, <1>5, <1>6, <1>7, <1>8 DEF CliStep

(* Taking an event: an upload that is answered was announced and not answered yet. *)
LEMMA EventRetry ==
    ASSUME CountInv, CliEvent
    PROVE  /\ AnnouncedOnce'
           /\ \A u \in Uploads : outcome[u] = "seen" => outcome'[u] = "seen"
           /\ \/ receive'.finished = 0
              \/ receive'.sid = receive.sid /\ receive'.finished = receive.finished
  <1> DEFINE e == Head(events)
  <1>0. /\ TypeOK /\ AnnouncedOnce /\ upl \in [Uploads -> UplRecords] /\ events \in Seq(Events)
        /\ outcome \in [Uploads -> {"none", "due", "seen"}] /\ receive \in Receives
    BY DEF CountInv, KnownInv, CliTypeOK, TypeOK
  <1>1. /\ events # <<>> /\ events' = Tail(events)
        /\ 1 \in DOMAIN events /\ e = events[1] /\ e \in Events
    BY <1>0 DEF CliEvent
  <1>2. e.kind = "FileUpload" => e.of \in Uploads
    BY <1>1 DEF Events
  <1>3. e.kind = "FileUpload" =>
          /\ upl[e.of].target = "queued"
          /\ \A j \in DOMAIN events : events[j] = e => j = 1
    BY <1>0, <1>1 DEF AnnouncedOnce
  <1>4. NoReceive.finished = 0 /\ \A s : NewReceive(s).finished = 0
    BY DEF NoReceive, NewReceive
  <1> HIDE DEF e
  <1>5. CASE e.kind # "FileUpload"
    <2>1. UNCHANGED <<upl, outcome>>
      BY <1>5 DEF CliEvent, OnMessage, OnPaired, OnPrompt, OnSessionEnd, OnAborted, cliVars, e
    <2>2. AnnouncedOnce'
      BY <1>0, <1>1, <2>1, AnnounceQuiet
    <2>3. \/ receive' = receive
          \/ \E s : receive' = NewReceive(s)
          \/ receive' = FinishIfDone([receive EXCEPT !.ended = TRUE])
      BY <1>5 DEF CliEvent, OnMessage, OnPaired, OnPrompt, OnSessionEnd, OnAborted, cliVars, e
    <2>4. CASE receive' = FinishIfDone([receive EXCEPT !.ended = TRUE])
      <3>1. receive' = NoReceive \/ receive' = [receive EXCEPT !.ended = TRUE]
        BY <2>4 DEF FinishIfDone
      <3> QED
        BY <1>0, <1>4, <2>1, <2>2, <3>1 DEF Receives
    <2> QED
      BY <1>4, <2>1, <2>2, <2>3, <2>4
  <1>6. CASE e.kind = "FileUpload"
    <2> DEFINE u == e.of
    <2>1. OnFileUpload(u) /\ u \in Uploads
      BY <1>2, <1>6 DEF CliEvent, e
    <2>2. upl[u].target = "queued" /\ outcome[u] = "none" /\ upl[u].pc \notin {"idle", "emit"}
      BY <1>0, <1>3, <1>6, <2>1 DEF AnnouncedOnce
    <2>3. PICK t \in {"given", "dropped"} : upl' = [upl EXCEPT ![u].target = t]
      BY <2>1 DEF OnFileUpload
    <2>4. /\ upl'[u].pc = upl[u].pc /\ upl'[u].target = t
          /\ \A v \in Uploads \ {u} : upl'[v] = upl[v]
      BY <1>0, <2>1, <2>3 DEF UplRecords
    <2>5. /\ \A v \in Uploads \ {u} : outcome'[v] = outcome[v]
          /\ outcome'[u] # "none" => upl'[u].target = "given"
      <3>1. CASE receive.sid = upl[u].sid
        <4>1. upl' = [upl EXCEPT ![u].target = "given"] /\ outcome' = [outcome EXCEPT ![u] = "due"]
          BY <2>1, <3>1 DEF OnFileUpload
        <4>2. upl'[u].target = "given"
          BY <1>0, <2>1, <4>1 DEF UplRecords
        <4> QED
          BY <1>0, <2>1, <4>1, <4>2
      <3>2. CASE receive.sid # upl[u].sid
        BY <2>1, <2>2, <3>2 DEF OnFileUpload
      <3> QED
        BY <3>1, <3>2
    <2>6. /\ receive'.sid = receive.sid /\ receive'.finished = receive.finished
      BY <1>0, <2>1 DEF OnFileUpload, Receives
    <2>7. \A i \in DOMAIN events' :
            /\ events'[i] = events[i + 1] /\ i + 1 \in DOMAIN events /\ i + 1 # 1
            /\ \A j \in DOMAIN events' : i + 1 = j + 1 => i = j
      BY <1>0, <1>1
    <2>8. \A i \in DOMAIN events : events[i] \in Events
      BY <1>0
    <2>9. \A i \in DOMAIN events : i # 1 /\ events[i].kind = "FileUpload" =>
            events[i].of \in Uploads \ {u}
      <3>1. \A x, y \in Events : x.kind = "FileUpload" /\ y.kind = "FileUpload" /\ x.of = y.of => x = y
        BY DEF Events
      <3>2. \A x \in Events : x.kind = "FileUpload" => x.of \in Uploads
        BY DEF Events
      <3> QED
        BY <1>1, <1>3, <1>6, <2>8, <3>1, <3>2
    <2>10. \A i \in DOMAIN events' : events'[i].kind = "FileUpload" =>
             /\ upl'[events'[i].of].target = "queued"
             /\ \A j \in DOMAIN events' : events'[j] = events'[i] => i = j
      <3> SUFFICES ASSUME NEW i \in DOMAIN events', events'[i].kind = "FileUpload"
                   PROVE  /\ upl'[events'[i].of].target = "queued"
                          /\ \A j \in DOMAIN events' : events'[j] = events'[i] => i = j
        OBVIOUS
      <3>1. events'[i].of \in Uploads \ {u} /\ upl[events'[i].of].target = "queued"
        BY <1>0, <2>7, <2>9 DEF AnnouncedOnce
      <3>2. \A j \in DOMAIN events : events[j] = events'[i] => j = i + 1
        BY <1>0, <2>7 DEF AnnouncedOnce
      <3> QED
        BY <2>4, <2>7, <3>1, <3>2
    <2>11. AnnouncedOnce'
      <3>1. \A v \in Uploads : upl'[v].pc \in {"idle", "emit"} => upl'[v].target = "none"
        BY <1>0, <2>2, <2>4 DEF AnnouncedOnce
      <3>2. \A v \in Uploads : outcome'[v] # "none" => upl'[v].target = "given"
        BY <1>0, <2>4, <2>5 DEF AnnouncedOnce
      <3> QED
        BY <2>10, <3>1, <3>2 DEF AnnouncedOnce
    <2> QED
      BY <2>2, <2>5, <2>6, <2>11
  <1> QED
    BY <1>5, <1>6

(* A success is counted for a file that was not counted before. *)
LEMMA ResultCounts ==
    ASSUME CountInv, KnownInv', NEW u \in Uploads, CliResult(u)
    PROVE  receive'.finished <= Cardinality(Got(receive.sid)')
  <1> DEFINE n == IF upl[u].result = "Success" THEN 1 ELSE 0
             r == [receive EXCEPT !.inProgress = @ \ {upl[u].file}, !.finished = @ + n]
  <1>0. /\ KnownInv /\ RetryInv /\ receive.finished <= Cardinality(Got(receive.sid))
        /\ receive \in Receives /\ outcome \in [Uploads -> {"none", "due", "seen"}]
        /\ receive.sid \in Preps \cup {Nobody} /\ receive.finished \in Nat
    BY DEF CountInv, KnownInv, CliTypeOK, Receives
  <1>1. /\ UNCHANGED upl /\ outcome[u] = "due" /\ outcome' = [outcome EXCEPT ![u] = "seen"]
        /\ receive' = IF receive.sid # upl[u].sid THEN receive ELSE FinishIfDone(r)
    BY Zenon DEF CliResult, vars
  <1>2. /\ outcome'[u] = "seen" /\ \A v \in Uploads \ {u} : outcome'[v] = outcome[v]
        /\ \A v \in Uploads : outcome[v] = "seen" => outcome'[v] = "seen"
    BY <1>0, <1>1
  <1>3. \A s \in Preps \cup {Nobody} : Got(s) \subseteq Got(s)'
    BY <1>1, <1>2, GotGrows DEF Saved
  <1>4. CASE receive.sid # upl[u].sid \/ receive' = NoReceive
    BY <1>0, <1>1, <1>3, <1>4, CountKept DEF NoReceive, NewReceive
  <1>5. CASE receive.sid = upl[u].sid /\ receive' = r
    <2>1. receive'.sid = receive.sid /\ receive'.finished = receive.finished + n
      BY <1>0, <1>5 DEF Receives
    <2>2. CASE ~Saved(u)
      <3>1. n = 0
        BY <2>2 DEF Saved
      <3>2. receive'.finished = receive.finished
        BY <1>0, <2>1, <3>1
      <3> QED
        BY <1>0, <1>3, <2>1, <3>2, CountKept
    <2>3. CASE Saved(u)
      <3>1. n = 1
        BY <2>3 DEF Saved
      <3>2. PICK s \in Preps, f \in Files : upl[u].sid = s /\ upl[u].file = f
        BY <1>0, <2>3 DEF RetryInv, SavedOnce
      <3>3. f \notin Got(s)
        <4> SUFFICES ASSUME NEW v \in Uploads, upl[v].sid = s, upl[v].file = f,
                            outcome[v] = "seen", Saved(v)
                     PROVE  FALSE
          BY DEF Got
        <4>1. v # u
          BY <1>1
        <4>2. u \in Starts(s, f) /\ v \in Starts(s, f)
          BY <3>2 DEF Starts
        <4> QED
          BY <1>0, <2>3, <3>2, <4>1, <4>2 DEF RetryInv, SavedOnce
      <3>4. f \in Got(s)'
        BY <1>1, <1>2, <2>3, <3>2 DEF Got, Saved
      <3>5. Got(s) \cup {f} \subseteq Got(s)' /\ Got(s)' \subseteq Files
        BY <1>3, <3>2, <3>4 DEF Got
      <3>6. IsFiniteSet(Got(s)') /\ IsFiniteSet(Got(s)) /\ Cardinality(Got(s)) \in Nat
        BY <1>3, <3>2, <3>5, FilesAssumption, FS_Subset, FS_CardinalityType
      <3>7. Cardinality(Got(s) \cup {f}) = Cardinality(Got(s)) + 1
        BY <3>3, <3>6, FS_AddElement
      <3>8. /\ Cardinality(Got(s) \cup {f}) <= Cardinality(Got(s)')
            /\ Cardinality(Got(s)') \in Nat
        BY <3>5, <3>6, FS_Subset, FS_CardinalityType
      <3>9. Got(receive.sid) = Got(s)
        BY <1>5, <3>2
      <3>10. Got(receive.sid)' = Got(s)'
        BY <1>5, <2>1, <3>2 DEF Got
      <3>11. receive'.finished = receive.finished + 1
        BY <2>1, <3>1
      <3>12. receive.finished <= Cardinality(Got(s))
        BY <1>0, <3>9
      <3> HIDE DEF n, r
      <3>13. receive.finished + 1 <= Cardinality(Got(s)')
        BY <1>0, <3>6, <3>7, <3>8, <3>12
      <3> QED
        BY <3>10, <3>11, <3>13
    <2> QED
      BY <2>2, <2>3
  <1> QED
    BY <1>1, <1>4, <1>5 DEF FinishIfDone

(* Every step keeps what bounds the retries and the count. *)
LEMMA CliRetryInv ==
    ASSUME CountInv, KnownInv', CliNext
    PROVE  CountInv'
  <1>0. /\ KnownInv /\ IInv /\ TypeOK /\ RetryInv /\ AnnouncedOnce
        /\ receive.finished <= Cardinality(Got(receive.sid))
        /\ upl \in [Uploads -> UplRecords] /\ outcome \in [Uploads -> {"none", "due", "seen"}]
    BY DEF CountInv, KnownInv, CliTypeOK, IInv, TypeOK
  <1>1. CASE ServerStep /\ UNCHANGED cliVars
    <2>1. RetryInv'
      BY <1>0, <1>1, PrepRetry, UploadRetry, CancelRetry DEF ServerStep
    <2>2. AnnouncedOnce'
      BY <1>0, <1>1, ServerAnnounces DEF cliVars
    <2>3. \A s \in Preps \cup {Nobody} : Got(s) \subseteq Got(s)'
      <3>1. \A u \in Uploads : Saved(u) =>
              Saved(u)' /\ upl'[u].sid = upl[u].sid /\ upl'[u].file = upl[u].file
        BY <1>0, <1>1, ServerSaved
      <3> QED
        BY <1>1, <3>1, GotGrows DEF cliVars
    <2>4. receive'.finished <= Cardinality(Got(receive.sid)')
      BY <1>0, <1>1, <2>3, CountKept DEF cliVars
    <2> QED
      BY <2>1, <2>2, <2>4 DEF CountInv
  <1>2. ASSUME CliStep
        PROVE  /\ RetryInv'
               /\ \A u \in Uploads :
                    /\ upl'[u].pc = upl[u].pc /\ (Saved(u)' <=> Saved(u))
                    /\ upl'[u].sid = upl[u].sid /\ upl'[u].file = upl[u].file
    <2>1. /\ \A r \in Preps : prep'[r].pc = prep[r].pc
          /\ \A u \in Uploads : /\ upl'[u].pc = upl[u].pc /\ upl'[u].result = upl[u].result
                                /\ upl'[u].sid = upl[u].sid /\ upl'[u].file = upl[u].file
          /\ UNCHANGED <<slot, files>> \/ slot' = FreeSlot
      BY <1>0, <1>2, CliMoves
    <2> QED
      BY <1>0, <2>1, AnswerRetry DEF Saved
  <1>3. ASSUME CliStep, AnnouncedOnce',
               \A u \in Uploads : outcome[u] = "seen" => outcome'[u] = "seen",
               \/ receive'.finished = 0
               \/ receive'.sid = receive.sid /\ receive'.finished = receive.finished
        PROVE  CountInv'
    <2>1. \A s \in Preps \cup {Nobody} : Got(s) \subseteq Got(s)'
      BY <1>2, <1>3, GotGrows
    <2>2. receive'.finished <= Cardinality(Got(receive.sid)')
      BY <1>0, <1>3, <2>1, CountKept
    <2> QED
      BY <1>2, <1>3, <2>2 DEF CountInv
  <1>4. CASE CliEvent
    BY <1>3, <1>4, EventRetry DEF CliStep
  <1>5. CASE Accept \/ Decline \/ CtrlC
    <2>1. /\ UNCHANGED <<upl, events, outcome>>
          /\ receive' = receive \/ \E s : receive' = NewReceive(s)
      BY <1>5 DEF Accept, Decline, CtrlC, NoReceive
    <2>2. AnnouncedOnce'
      BY <1>0, <2>1, AnnounceQuiet
    <2> QED
      BY <1>3, <1>5, <2>1, <2>2 DEF CliStep, NewReceive
  <1>6. CASE \E s \in Preps : Revoke(s)
    <2>1. UNCHANGED <<upl, events, outcome, receive>>
      BY <1>6 DEF Revoke, AppCancel, vars
    <2>2. AnnouncedOnce'
      BY <1>0, <2>1, AnnounceQuiet
    <2> QED
      BY <1>3, <1>6, <2>1, <2>2 DEF CliStep
  <1>7. CASE Quit
    <2>1. /\ UNCHANGED <<outcome, receive>> /\ events' = <<>>
          /\ upl' = [u \in Uploads |->
                       IF upl[u].target \in {"queued", "asked"}
                       THEN [upl[u] EXCEPT !.target = "dropped"] ELSE upl[u]]
      BY <1>7 DEF Quit, AppClose, cliVars
    <2>2. \A u \in Uploads :
            /\ upl'[u].pc = upl[u].pc
            /\ upl[u].target \notin {"queued", "asked"} => upl'[u] = upl[u]
      BY <1>0, <2>1 DEF UplRecords
    <2>3. AnnouncedOnce'
      BY <1>0, <2>1, <2>2 DEF AnnouncedOnce
    <2> QED
      BY <1>3, <1>7, <2>1, <2>3 DEF CliStep
  <1>8. ASSUME NEW u \in Uploads, CliResult(u) PROVE CountInv'
    <2>1. /\ UNCHANGED <<upl, events>>
          /\ outcome[u] = "due" /\ outcome' = [outcome EXCEPT ![u] = "seen"]
      BY <1>8 DEF CliResult, vars
    <2>2. AnnouncedOnce'
      BY <1>0, <2>1, AnnounceQuiet
    <2>3. receive'.finished <= Cardinality(Got(receive.sid)')
      BY <1>8, ResultCounts
    <2> QED
      BY <1>2, <1>8, <2>2, <2>3 DEF CliStep, CountInv
  <1> QED
    BY <1>1, <1>4, <1>5, <1>6, <1>7, <1>8 DEF CliNext, CliStep

(* The CLI and the server start with nothing uploaded and nothing counted. *)
LEMMA CliInitRetry == CliInit => CountInv
  <1> SUFFICES ASSUME CliInit PROVE CountInv
    OBVIOUS
  <1>1. KnownInv /\ RetryInv
    BY CliInitInv, InitRetry DEF CliInit
  <1>2. AnnouncedOnce
    BY DEF CliInit, Init, AnnouncedOnce
  <1>3. receive.sid = Nobody /\ receive.finished = 0
    BY DEF CliInit, NoReceive, NewReceive
  <1>4. receive.finished <= Cardinality(Got(receive.sid))
    BY <1>3, GotCount
  <1> QED
    BY <1>1, <1>2, <1>4 DEF CountInv

(* Every step, stuttering included, keeps the whole invariant. *)
LEMMA CliStepRetry == CountInv /\ [CliNext]_allVars => CountInv'
  <1> SUFFICES ASSUME CountInv, [CliNext]_allVars PROVE CountInv'
    OBVIOUS
  <1>1. KnownInv'
    BY CliStepInv DEF CountInv
  <1>2. CASE UNCHANGED allVars
    <2>1. UNCHANGED <<prep, upl, events, outcome, receive, slot, files>>
      BY <1>2 DEF allVars, vars, cliVars
    <2>2. TypeOK /\ IInv /\ RetryInv /\ AnnouncedOnce
          /\ receive.finished <= Cardinality(Got(receive.sid))
      BY DEF CountInv, KnownInv, IInv
    <2>3. RetryInv'
      BY <2>1, <2>2, AnswerRetry
    <2>4. AnnouncedOnce'
      BY <2>1, <2>2, AnnounceQuiet
    <2>5. Got(receive.sid)' = Got(receive.sid)
      BY <2>1 DEF Got, Saved
    <2> QED
      BY <1>1, <2>1, <2>2, <2>3, <2>4, <2>5 DEF CountInv
  <1> QED
    BY <1>1, <1>2, CliRetryInv

-----------------------------------------------------------------------------
(* What the summary knows *)

(* The announced requests wait for their prompt while no answer reaches them. *)
LEMMA EventsAsked ==
    ASSUME TypeOK, AskedOnce,
           \/ events' = events
           \/ events' = Tail(events) /\ events # <<>>
           \/ \E e \in Events : e.kind # "PrepareUpload" /\ events' = Append(events, e),
           \A r \in Preps : prep[r].decision = "queued" =>
             \/ prep'[r].decision = "queued"
             \/ /\ events' = Tail(events) /\ events # <<>>
                /\ Head(events).kind = "PrepareUpload" /\ Head(events).of = r
    PROVE  \A i \in DOMAIN events' : events'[i].kind = "PrepareUpload" =>
             /\ prep'[events'[i].of].decision = "queued"
             /\ \A j \in DOMAIN events' : events'[j] = events'[i] => i = j
  <1>0. /\ events \in Seq(Events) /\ \A i \in DOMAIN events : events[i] \in Events
        /\ \A e \in Events : e.kind = "PrepareUpload" => e.of \in Preps
    BY DEF TypeOK, Events
  <1>e. \A x, y \in Events :
          x.kind = "PrepareUpload" /\ y.kind = "PrepareUpload" /\ x.of = y.of => x = y
    BY DEF Events
  <1>1. \A i \in DOMAIN events : events[i].kind = "PrepareUpload" =>
          /\ events[i].of \in Preps /\ prep[events[i].of].decision = "queued"
          /\ \A j \in DOMAIN events : events[j] = events[i] => i = j
    BY <1>0 DEF AskedOnce
  <1>2. CASE events' = Tail(events) /\ events # <<>>
    <2>1. /\ \A i \in DOMAIN events' : /\ events'[i] = events[i + 1] /\ i + 1 \in DOMAIN events
                                       /\ i + 1 # 1
          /\ \A i, j \in DOMAIN events' : i + 1 = j + 1 => i = j
          /\ 1 \in DOMAIN events /\ Head(events) = events[1]
      BY <1>0, <1>2
    <2> SUFFICES ASSUME NEW i \in DOMAIN events', events'[i].kind = "PrepareUpload"
                 PROVE  /\ prep'[events'[i].of].decision = "queued"
                        /\ \A j \in DOMAIN events' : events'[j] = events'[i] => i = j
      OBVIOUS
    <2>2. /\ events'[i].of \in Preps /\ prep[events'[i].of].decision = "queued"
          /\ \A j \in DOMAIN events : events[j] = events'[i] => j = i + 1
      BY <1>1, <2>1
    <2>3. ~(Head(events).kind = "PrepareUpload" /\ Head(events).of = events'[i].of)
      <3>1. events'[i] \in Events /\ Head(events) \in Events
        BY <1>0, <2>1
      <3> QED
        BY <1>e, <2>1, <2>2, <3>1
    <2> QED
      BY <2>1, <2>2, <2>3
  <1>3. CASE events' = events
    <2>1. events # <<>> => Tail(events) # events
      <3>1. events # <<>> => Len(Tail(events)) = Len(events) - 1 /\ Len(events) \in Nat
        BY <1>0
      <3> QED
        BY <3>1
    <2> QED
      BY <1>1, <1>3, <2>1
  <1>4. ASSUME NEW e \in Events, e.kind # "PrepareUpload", events' = Append(events, e)
        PROVE  \A i \in DOMAIN events' : events'[i].kind = "PrepareUpload" =>
                 /\ prep'[events'[i].of].decision = "queued"
                 /\ \A j \in DOMAIN events' : events'[j] = events'[i] => i = j
    <2>1. \A i \in DOMAIN events' : \/ i \in DOMAIN events /\ events'[i] = events[i]
                                    \/ events'[i] = e
      BY <1>0, <1>4
    <2>2. events # <<>> => events' # Tail(events)
      <3>1. events # <<>> => Len(Tail(events)) = Len(events) - 1
        BY <1>0
      <3>2. Len(events') = Len(events) + 1 /\ Len(events) \in Nat
        BY <1>0, <1>4
      <3> QED
        BY <3>1, <3>2
    <2> QED
      BY <1>1, <1>4, <2>1, <2>2
  <1> QED
    BY <1>2, <1>3, <1>4

(* What keeps AskedOnce: answers reach requests that were asked about or were announced *)
(* just now, and a session is recorded along with its answer.                           *)
LEMMA AskStep ==
    ASSUME AskedOnce,
           \A i \in DOMAIN events' : events'[i].kind = "PrepareUpload" =>
             /\ prep'[events'[i].of].decision = "queued"
             /\ \A j \in DOMAIN events' : events'[j] = events'[i] => i = j,
           \A r \in Preps :
             /\ prep'[r].pc \in {"idle", "emit"} => prep[r].pc \in {"idle", "emit"}
             /\ \/ prep'[r].decision = prep[r].decision
                \/ /\ prep[r].decision \in {"queued", "asked"}
                   /\ prep'[r].decision \in {"asked", "accept", "decline", "dropped"}
             /\ receive'.sid = r \/ revoked'[r] # "no" =>
                  receive.sid = r \/ revoked[r] # "no" \/ prep'[r].decision = "accept",
           open' /\ pending' # Nobody => prep'[pending'].decision = "asked",
           receive'.sid # Nobody => revoked'[receive'.sid] = "no"
    PROVE  AskedOnce'
  <1>1. \A r \in Preps : prep'[r].pc \in {"idle", "emit"} => prep'[r].decision = "none"
    BY DEF AskedOnce
  <1>2. \A r \in Preps : receive'.sid = r \/ revoked'[r] # "no" =>
          prep'[r].decision \notin {"none", "queued", "asked"}
    BY DEF AskedOnce
  <1> QED
    BY <1>1, <1>2 DEF AskedOnce

(* A step that answers no request and records no session. *)
LEMMA AskQuiet ==
    ASSUME TypeOK, AskedOnce, pending \in Preps \cup {Nobody}, receive.sid \in Preps \cup {Nobody},
           \A r \in Preps :
             /\ prep'[r].decision = prep[r].decision
             /\ prep'[r].pc \in {"idle", "emit"} => prep[r].pc \in {"idle", "emit"}
             /\ revoked'[r] # "no" => revoked[r] # "no",
           \/ events' = events
           \/ events' = Tail(events) /\ events # <<>>
           \/ \E e \in Events : e.kind # "PrepareUpload" /\ events' = Append(events, e),
           pending' = pending, open' => open,
           receive'.sid \in {receive.sid, Nobody}
    PROVE  AskedOnce'
  <1>1. \A i \in DOMAIN events' : events'[i].kind = "PrepareUpload" =>
          /\ prep'[events'[i].of].decision = "queued"
          /\ \A j \in DOMAIN events' : events'[j] = events'[i] => i = j
    BY EventsAsked
  <1>2. open' /\ pending' # Nobody => prep'[pending'].decision = "asked"
    BY DEF AskedOnce
  <1>3. receive'.sid # Nobody => revoked'[receive'.sid] = "no"
    BY DEF AskedOnce
  <1>4. \A r \in Preps : receive'.sid = r => receive.sid = r
    BY ConstantsAssumption
  <1> QED
    BY <1>1, <1>2, <1>3, <1>4, AskStep

(* The server announces a request once: the one that sends the event has no decision. *)
LEMMA EmitAsked ==
    ASSUME TypeOK, AskedOnce, NEW r \in Preps, PrepEmit(r), UNCHANGED cliVars
    PROVE  AskedOnce'
  <1> DEFINE e == [kind |-> "PrepareUpload", of |-> r]
  <1>0. /\ events \in Seq(Events) /\ prep \in [Preps -> PrepRecords]
        /\ \A i \in DOMAIN events : events[i] \in Events
        /\ \A x \in Events : x.kind = "PrepareUpload" => x.of \in Preps
    BY DEF TypeOK, Events
  <1>1. /\ e \in Events /\ e.kind = "PrepareUpload" /\ e.of = r /\ events' = Append(events, e)
        /\ prep[r].pc = "emit" /\ UNCHANGED <<pending, receive, revoked, open>>
    BY EventType DEF Send, PrepEmit, cliVars
  <1> HIDE DEF e
  <1>2. /\ prep'[r].pc = "decide" /\ prep'[r].decision = "queued"
        /\ \A q \in Preps \ {r} : prep'[q] = prep[q]
    BY <1>0 DEF PrepEmit, PrepRecords
  <1>3. prep[r].decision = "none"
    BY <1>1 DEF AskedOnce
  <1>4. \A i \in DOMAIN events : events[i].kind = "PrepareUpload" =>
          /\ events[i].of # r /\ events[i] # e
          /\ prep'[events[i].of].decision = "queued"
          /\ \A j \in DOMAIN events : events[j] = events[i] => i = j
    <2>1. \A i \in DOMAIN events : events[i].kind = "PrepareUpload" =>
            /\ events[i].of \in Preps /\ prep[events[i].of].decision = "queued"
            /\ \A j \in DOMAIN events : events[j] = events[i] => i = j
      BY <1>0 DEF AskedOnce
    <2> QED
      BY <1>1, <1>2, <1>3, <2>1
  <1>5. \A i \in DOMAIN events' :
          \/ i \in DOMAIN events /\ events'[i] = events[i]
          \/ i = Len(events) + 1 /\ events'[i] = e
    BY <1>0, <1>1
  <1>6. \A i \in DOMAIN events' : events'[i].kind = "PrepareUpload" =>
          /\ prep'[events'[i].of].decision = "queued"
          /\ \A j \in DOMAIN events' : events'[j] = events'[i] => i = j
    <2> SUFFICES ASSUME NEW i \in DOMAIN events', events'[i].kind = "PrepareUpload"
                 PROVE  /\ prep'[events'[i].of].decision = "queued"
                        /\ \A j \in DOMAIN events' : events'[j] = events'[i] => i = j
      OBVIOUS
    <2>1. CASE i \in DOMAIN events /\ events'[i] = events[i]
      BY <1>4, <1>5, <2>1
    <2>2. CASE i = Len(events) + 1 /\ events'[i] = e
      <3>1. \A j \in DOMAIN events : events[j] # e
        BY <1>1, <1>4
      <3> QED
        BY <1>1, <1>2, <1>5, <2>2, <3>1
    <2> QED
      BY <1>5, <2>1, <2>2
  <1>7. \A q \in Preps : prep'[q].pc \in {"idle", "emit"} => prep'[q].decision = "none"
    BY <1>2 DEF AskedOnce
  <1>8. open /\ pending # Nobody => prep'[pending].decision = "asked"
    <2>1. open /\ pending # Nobody => pending # r /\ prep[pending].decision = "asked"
      BY <1>3 DEF AskedOnce
    <2> QED
      BY <1>0, <1>2, <2>1 DEF PrepEmit
  <1>9. \A q \in Preps : receive.sid = q \/ revoked[q] # "no" =>
          prep'[q].decision \notin {"none", "queued", "asked"}
    BY <1>2, <1>3 DEF AskedOnce
  <1>10. receive.sid # Nobody => revoked[receive.sid] = "no"
    BY DEF AskedOnce
  <1> QED
    BY <1>1, <1>6, <1>7, <1>8, <1>9, <1>10 DEF AskedOnce

(* No step of the server announces a request twice or answers it. *)
LEMMA ServerAsked ==
    ASSUME KnownInv, AskedOnce, ServerStep, UNCHANGED cliVars
    PROVE  AskedOnce'
  <1>0. /\ IInv /\ TypeOK /\ prep \in [Preps -> PrepRecords]
        /\ pending \in Preps \cup {Nobody} /\ receive.sid \in Preps \cup {Nobody}
        /\ UNCHANGED <<pending, receive, revoked>>
    BY DEF KnownInv, CliTypeOK, IInv, TypeOK, Receives, cliVars
  <1>1. ASSUME NEW r \in Preps, PrepStep(r), ~PrepEmit(r) PROVE AskedOnce'
    <2>1. /\ events' = events \/ Send("PrepareUploadAborted", r)
          /\ UNCHANGED open
      BY <1>1 DEF PrepStep, Claim, ClaimBlocked, PrepDrop, PrepEmitFails,
         PrepDecided, PrepCancelled, PrepClear, PrepActivate, AbortClear, AbortEmit
    <2>2. \/ events' = events
          \/ \E e \in Events : e.kind # "PrepareUpload" /\ events' = Append(events, e)
      <3>1. [kind |-> "PrepareUploadAborted", of |-> r] \in Events
        BY EventType
      <3> QED
        BY <2>1, <3>1 DEF Send
    <2>3. \A q \in Preps :
            /\ prep'[q].decision = prep[q].decision
            /\ prep'[q].pc \in {"idle", "emit"} => prep[q].pc \in {"idle", "emit"}
      <3> USE <1>0 DEF PrepRecords
      <3>1. CASE Claim(r)
        BY <3>1 DEF Claim
      <3>2. ASSUME NEW pc \in {"done", "abort", "leaked"}, NEW resp,
                   prep' = [prep EXCEPT ![r] = [@ EXCEPT !.pc = pc, !.resp = resp]]
            PROVE  \A q \in Preps :
                     /\ prep'[q].decision = prep[q].decision
                     /\ prep'[q].pc \in {"idle", "emit"} => prep[q].pc \in {"idle", "emit"}
        BY <3>2
      <3>3. CASE \/ ClaimBlocked(r) \/ PrepEmitFails(r) \/ PrepCancelled(r) \/ PrepDrop(r)
                 \/ PrepClear(r) \/ PrepActivate(r)
        <4>1. \E pc \in {"done", "abort", "leaked"} : \E resp :
                prep' = [prep EXCEPT ![r] = [@ EXCEPT !.pc = pc, !.resp = resp]]
          <5>1. CASE ClaimBlocked(r) \/ PrepEmitFails(r) \/ PrepCancelled(r)
            BY <5>1, Zenon DEF ClaimBlocked, PrepEmitFails, PrepCancelled
          <5>2. CASE PrepDrop(r)
            BY <5>2, Zenon DEF PrepDrop
          <5>3. CASE PrepClear(r) \/ PrepActivate(r)
            BY <5>3, Zenon DEF PrepClear, PrepActivate
          <5> QED
            BY <3>3, <5>1, <5>2, <5>3
        <4> QED
          BY <3>2, <4>1
      <3>4. CASE PrepDecided(r)
        <4>1. \/ prep' = [prep EXCEPT ![r] = [@ EXCEPT !.pc = "abort", !.resp = "error"]]
              \/ \E pc \in {"clear", "activate"} : prep' = [prep EXCEPT ![r].pc = pc]
          BY <3>4, Zenon DEF PrepDecided
        <4>2. ASSUME NEW pc \in {"clear", "activate"}, prep' = [prep EXCEPT ![r].pc = pc]
              PROVE  \A q \in Preps :
                       /\ prep'[q].decision = prep[q].decision
                       /\ prep'[q].pc \in {"idle", "emit"} => prep[q].pc \in {"idle", "emit"}
          BY <4>2
        <4> QED
          BY <3>2, <4>1, <4>2
      <3>6. CASE AbortClear(r) \/ AbortEmit(r)
        BY <3>6 DEF AbortClear, AbortEmit
      <3> QED
        BY <1>1, <3>1, <3>3, <3>4, <3>6 DEF PrepStep
    <2> QED
      BY <1>0, <2>1, <2>2, <2>3, AskQuiet
  <1>2. ASSUME NEW u \in Uploads, UploadStep(u) PROVE AskedOnce'
    <2>1. UNCHANGED <<prep, open>>
      BY <1>2 DEF UploadStep, UploadStart, UploadRejected, UploadDrop, UploadEmit, UploadTarget,
         UploadSave, UploadFinish, GuardFinish, UploadEndEmit
    <2>2. \/ events' = events \/ Send("FileUpload", u)
          \/ upl[u].sid \in Preps /\ Send("SessionEnd", upl[u].sid)
      BY <1>0, <1>2 DEF UploadStep, UploadStart, UploadRejected, UploadDrop, UploadEmit,
         UploadTarget, UploadSave, UploadFinish, GuardFinish, UploadEndEmit, IInv, OneReporter,
         EndsByUpload
    <2>3. \/ events' = events
          \/ \E e \in Events : e.kind # "PrepareUpload" /\ events' = Append(events, e)
      BY <2>2, EventType DEF Send
    <2> QED
      BY <1>0, <2>1, <2>3, AskQuiet
  <1>3. ASSUME NEW c \in Cancels, CancelStep(c) PROVE AskedOnce'
    <2>1. /\ UNCHANGED open
          /\ prep' = prep \/ prep' = [prep EXCEPT ![slot.sid].token = TRUE]
          /\ \/ events' = events
             \/ can[c].pc = "endEmit" /\ Send("SessionEnd", can[c].sid)
             \/ can[c].pc = "recvEmit" /\ Send("CancelReceived", can[c].sid)
      BY <1>3 DEF CancelStep, CancelPending, CancelFirst, CancelDrop, CancelSecond, CancelEndEmit,
         CancelRecvEmit
    <2>2. /\ can[c].pc = "endEmit" => can[c].sid \in Preps
          /\ can[c].pc = "recvEmit" => can[c].sid \in Preps \cup {Foreign}
      BY <1>0 DEF IInv, OneReporter, EndsByCancel, TypeOK, CanRecords, CancelNamed
    <2>3. \/ events' = events
          \/ \E e \in Events : e.kind # "PrepareUpload" /\ events' = Append(events, e)
      BY <2>1, <2>2, EventType DEF Send
    <2>4. \A q \in Preps : prep'[q].decision = prep[q].decision /\ prep'[q].pc = prep[q].pc
      BY <1>0, <2>1 DEF PrepRecords
    <2> QED
      BY <1>0, <2>1, <2>3, <2>4, AskQuiet
  <1> QED
    BY <1>0, <1>1, <1>2, <1>3, EmitAsked DEF ServerStep

(* The event loop and the keys answer each request once and record it along with that. *)
LEMMA CliAsked ==
    ASSUME KnownInv, KnownInv', AskedOnce, CliStep
    PROVE  AskedOnce'
  <1>0. /\ TypeOK /\ CliTypeOK /\ prep \in [Preps -> PrepRecords]
        /\ pending \in Preps \cup {Nobody} /\ receive \in Receives
        /\ receive.sid \in Preps \cup {Nobody}
        /\ revoked \in [Preps -> {"no", "task", "done"}] /\ events \in Seq(Events)
    BY DEF KnownInv, CliTypeOK, TypeOK, Receives
  <1>1. \A r \in Preps : prep'[r].pc = prep[r].pc
    BY CliMoves
  <1>2. {} \in SUBSET Files /\ Files \in SUBSET Files
    OBVIOUS
  <1>3. NoReceive.sid = Nobody /\ \A s : NewReceive(s).sid = s
    BY DEF NoReceive, NewReceive
  <1>4. CASE CliEvent
    <2> DEFINE e == Head(events)
    <2>0. /\ open /\ events # <<>> /\ events' = Tail(events) /\ UNCHANGED open
          /\ e \in Events
      BY <1>0, <1>4 DEF CliEvent
    <2>1. /\ e.kind \in {"PrepareUpload", "SessionEnd", "PrepareUploadAborted"} => e.of \in Preps
          /\ e.kind = "FileUpload" => e.of \in Uploads
      BY <2>0 DEF Events
    <2>2. e.kind = "PrepareUpload" => prep[e.of].decision = "queued"
      <3>1. 1 \in DOMAIN events /\ e = events[1]
        BY <1>0, <2>0
      <3> QED
        BY <3>1 DEF AskedOnce
    <2>3. pending # Nobody => pending \in Preps /\ prep[pending].decision = "asked"
      BY <1>0, <2>0 DEF AskedOnce
    <2> HIDE DEF e
    <2>4. /\ DropPending \in [Preps -> PrepRecords]
          /\ \A r \in Preps : r # pending => DropPending[r] = prep[r]
          /\ pending # Nobody => DropPending[pending].decision = "dropped"
      <3>1. CASE pending = Nobody
        BY <1>0, <3>1 DEF DropPending
      <3>2. CASE pending # Nobody
        <4>1. DropPending = Decide(prep, pending, "dropped", {}) /\ pending \in Preps
          BY <2>3, <3>2 DEF DropPending
        <4> QED
          BY <1>0, <1>2, <4>1, DecideMoves, Strings
      <3> QED
        BY <3>1, <3>2
    <2>5. CASE e.kind = "PrepareUpload" /\ (OnMessage(e.of) \/ OnPaired(e.of))
      <3> DEFINE r == e.of
      <3>1. /\ r \in Preps /\ UNCHANGED <<pending, revoked>>
            /\ receive' = receive \/ receive' = NewReceive(r)
        BY <2>1, <2>5 DEF OnMessage, OnPaired, cliVars
      <3>2. \E ids \in SUBSET Files : prep' = Decide(prep, r, "accept", ids)
        BY <1>2, <2>5 DEF OnMessage, OnPaired
      <3>3. /\ prep'[r].decision = "accept" /\ \A q \in Preps \ {r} : prep'[q] = prep[q]
        BY <1>0, <3>1, <3>2, DecideMoves, Strings
      <3>4. prep[r].decision = "queued" /\ pending # r
        BY <2>2, <2>3, <2>5, <3>1, ConstantsAssumption
      <3>5. \A i \in DOMAIN events' : events'[i].kind = "PrepareUpload" =>
              /\ prep'[events'[i].of].decision = "queued"
              /\ \A j \in DOMAIN events' : events'[j] = events'[i] => i = j
        BY <1>0, <2>0, <2>5, <3>1, <3>3, EventsAsked DEF e
      <3>6. receive'.sid # Nobody => revoked'[receive'.sid] = "no"
        BY <1>3, <3>1, <3>4 DEF AskedOnce
      <3>7. pending # Nobody => prep'[pending].decision = "asked"
        BY <2>3, <3>3, <3>4
      <3> HIDE DEF r
      <3> QED
        BY <1>1, <1>3, <3>1, <3>3, <3>4, <3>5, <3>6, <3>7, AskStep
    <2>6. CASE e.kind = "PrepareUpload" /\ OnPrompt(e.of)
      <3> DEFINE r == e.of
      <3>1. /\ r \in Preps /\ UNCHANGED <<receive, revoked>> /\ pending' = r
            /\ prep' = Decide(DropPending, r, "asked", {})
        BY <2>1, <2>6 DEF OnPrompt
      <3>2. prep'[r].decision = "asked" /\ \A q \in Preps \ {r} : prep'[q] = DropPending[q]
        BY <1>2, <2>4, <3>1, DecideMoves, Strings
      <3>3. prep[r].decision = "queued" /\ pending # r
        BY <2>2, <2>3, <2>6, <3>1, ConstantsAssumption
      <3>4. \A q \in Preps \ {r} : \/ prep'[q] = prep[q]
                                   \/ prep[q].decision = "asked" /\ prep'[q].decision = "dropped"
        BY <2>3, <2>4, <3>2, ConstantsAssumption
      <3>5. \A i \in DOMAIN events' : events'[i].kind = "PrepareUpload" =>
              /\ prep'[events'[i].of].decision = "queued"
              /\ \A j \in DOMAIN events' : events'[j] = events'[i] => i = j
        BY <1>0, <2>0, <2>6, <3>1, <3>4, EventsAsked DEF e
      <3>6. receive'.sid # Nobody => revoked'[receive'.sid] = "no"
        BY <3>1 DEF AskedOnce
      <3> HIDE DEF r
      <3> QED
        BY <1>1, <3>1, <3>2, <3>3, <3>4, <3>5, <3>6, AskStep
    <2>7. CASE e.kind = "PrepareUploadAborted" /\ OnAborted(e.of)
      <3>1. /\ UNCHANGED <<receive, revoked>>
            /\ \/ UNCHANGED <<prep, pending>>
               \/ prep' = DropPending /\ pending' = Nobody
        BY <2>7 DEF OnAborted
      <3>2. \A q \in Preps : \/ prep'[q] = prep[q]
                             \/ prep[q].decision = "asked" /\ prep'[q].decision = "dropped"
        BY <2>3, <2>4, <3>1, ConstantsAssumption
      <3>3. \A i \in DOMAIN events' : events'[i].kind = "PrepareUpload" =>
              /\ prep'[events'[i].of].decision = "queued"
              /\ \A j \in DOMAIN events' : events'[j] = events'[i] => i = j
        BY <1>0, <2>0, <3>2, EventsAsked
      <3>4. receive'.sid # Nobody => revoked'[receive'.sid] = "no"
        BY <3>1 DEF AskedOnce
      <3>5. pending' # Nobody => prep'[pending'].decision = "asked"
        BY <2>3, <3>1
      <3> QED
        BY <1>1, <3>1, <3>2, <3>3, <3>4, <3>5, AskStep
    <2>8. CASE \/ e.kind = "FileUpload" /\ OnFileUpload(e.of)
               \/ e.kind = "SessionEnd" /\ OnSessionEnd(e.of)
               \/ e.kind = "CancelReceived" /\ UNCHANGED <<prep, upl, cliVars>>
      <3>1. UNCHANGED <<prep, pending, revoked>>
        BY <2>8 DEF OnFileUpload, OnSessionEnd, cliVars
      <3>2. receive'.sid \in {receive.sid, Nobody}
        <4>1. \/ receive' = receive \/ receive' = NoReceive
              \/ receive' = [receive EXCEPT !.ended = TRUE]
              \/ \E f : receive' = [receive EXCEPT !.inProgress = @ \cup {f}]
          BY <2>8 DEF OnFileUpload, OnSessionEnd, FinishIfDone, cliVars
        <4> QED
          BY <1>0, <1>3, <4>1 DEF Receives
      <3> QED
        BY <1>0, <2>0, <3>1, <3>2, AskQuiet
    <2> QED
      BY <1>4, <2>5, <2>6, <2>7, <2>8 DEF CliEvent, e
  <1>5. CASE Accept \/ Decline \/ CtrlC
    <2>0. open /\ UNCHANGED <<events, open>> /\ pending' = Nobody
      BY <1>5 DEF Accept, Decline, CtrlC
    <2>1. pending # Nobody => pending \in Preps /\ prep[pending].decision = "asked"
      BY <1>0, <2>0 DEF AskedOnce
    <2>2. \/ prep' = prep
          \/ pending # Nobody /\ prep' = Decide(prep, pending, "accept", Files)
          \/ pending # Nobody /\ prep' = Decide(prep, pending, "decline", {})
      BY <1>5 DEF Accept, Decline, CtrlC
    <2>3. /\ \A q \in Preps : q # pending => prep'[q] = prep[q]
          /\ \/ prep' = prep
             \/ pending # Nobody /\ prep'[pending].decision \in {"accept", "decline"}
      BY <1>0, <1>2, <2>1, <2>2, DecideMoves, Strings
    <2>4. \A q \in Preps : \/ prep'[q] = prep[q]
                           \/ /\ prep[q].decision = "asked"
                              /\ prep'[q].decision \in {"accept", "decline"}
      BY <2>1, <2>3
    <2>5. \A i \in DOMAIN events' : events'[i].kind = "PrepareUpload" =>
            /\ prep'[events'[i].of].decision = "queued"
            /\ \A j \in DOMAIN events' : events'[j] = events'[i] => i = j
      BY <1>0, <2>0, <2>4, EventsAsked
    <2>6. CASE Accept
      <3>1. /\ pending # Nobody /\ pending \in Preps /\ UNCHANGED revoked
            /\ prep' = Decide(prep, pending, "accept", Files)
            /\ receive' = receive \/ receive' = NewReceive(pending)
        BY <2>1, <2>6 DEF Accept
      <3>2. prep'[pending].decision = "accept"
        BY <1>0, <1>2, <3>1, DecideMoves, Strings
      <3>3. receive'.sid # Nobody => revoked'[receive'.sid] = "no"
        BY <1>3, <2>1, <3>1 DEF AskedOnce
      <3> QED
        BY <1>1, <1>3, <2>0, <2>4, <2>5, <3>1, <3>2, <3>3, AskStep
    <2>7. CASE Decline
      <3>1. UNCHANGED <<receive, revoked>>
        BY <2>7 DEF Decline
      <3>2. receive'.sid # Nobody => revoked'[receive'.sid] = "no"
        BY <3>1 DEF AskedOnce
      <3> QED
        BY <1>1, <2>0, <2>4, <2>5, <3>1, <3>2, AskStep
    <2>8. CASE CtrlC
      <3>1. /\ receive' = NoReceive /\ revoked' = [revoked EXCEPT ![receive.sid] = "task"]
            /\ receive.sid \in Preps
        BY <1>0, <2>8 DEF CtrlC
      <3>2. \A r \in Preps : receive'.sid = r \/ revoked'[r] # "no" =>
              receive.sid = r \/ revoked[r] # "no"
        BY <1>0, <1>3, <3>1, ConstantsAssumption
      <3> QED
        BY <1>1, <1>3, <2>0, <2>4, <2>5, <3>1, <3>2, AskStep
    <2> QED
      BY <1>5, <2>6, <2>7, <2>8
  <1>6. CASE Quit
    <2>1. /\ UNCHANGED <<pending, receive, revoked>> /\ events' = <<>> /\ open' = FALSE
          /\ prep' = [r \in Preps |->
                        IF prep[r].decision \in {"queued", "asked"}
                        THEN [prep[r] EXCEPT !.decision = "dropped"] ELSE prep[r]]
      BY <1>6 DEF Quit, AppClose, cliVars
    <2>2. \A r \in Preps :
            \/ prep'[r] = prep[r]
            \/ prep[r].decision \in {"queued", "asked"} /\ prep'[r].decision = "dropped"
      BY <1>0, <2>1 DEF PrepRecords
    <2>3. \A i \in DOMAIN events' : FALSE
      BY <2>1
    <2>4. receive'.sid # Nobody => revoked'[receive'.sid] = "no"
      BY <2>1 DEF AskedOnce
    <2> QED
      BY <1>1, <2>1, <2>2, <2>3, <2>4, AskStep
  <1>7. CASE \E u \in Uploads : CliResult(u)
    <2>1. UNCHANGED <<prep, events, open, pending, revoked>>
      BY <1>7 DEF CliResult, vars
    <2>2. receive'.sid \in {receive.sid, Nobody}
      <3>1. PICK u \in Uploads : CliResult(u)
        BY <1>7
      <3>2. \/ receive' = receive \/ receive' = NoReceive
            \/ receive' = [receive EXCEPT !.inProgress = @ \ {upl[u].file},
                             !.finished = @ + IF upl[u].result = "Success" THEN 1 ELSE 0]
        BY <3>1, Zenon DEF CliResult, FinishIfDone
      <3> QED
        BY <1>0, <1>3, <3>2 DEF Receives
    <2> QED
      BY <1>0, <2>1, <2>2, AskQuiet
  <1>8. CASE \E s \in Preps : Revoke(s)
    <2>1. /\ UNCHANGED <<prep, events, open, pending, receive>>
          /\ \E s \in Preps : revoked[s] = "task" /\ revoked' = [revoked EXCEPT ![s] = "done"]
      BY <1>8 DEF Revoke, AppCancel, vars
    <2>2. \A r \in Preps : revoked'[r] # "no" => revoked[r] # "no"
      BY <1>0, <2>1
    <2> QED
      BY <1>0, <2>1, <2>2, AskQuiet
  <1> QED
    BY <1>4, <1>5, <1>6, <1>7, <1>8 DEF CliStep

(* A started upload keeps its session and its file. *)
LEMMA ServerNames ==
    ASSUME IInv, ServerStep
    PROVE  \A u \in Uploads : upl[u].pc # "idle" =>
             upl'[u].sid = upl[u].sid /\ upl'[u].file = upl[u].file
  <1>0. upl \in [Uploads -> UplRecords]
    BY DEF IInv, TypeOK
  <1>1. ASSUME NEW r \in Preps, PrepStep(r) PROVE UNCHANGED upl
    BY <1>1 DEF PrepStep, Claim, ClaimBlocked, PrepDrop, PrepEmit, PrepEmitFails,
       PrepDecided, PrepCancelled, PrepClear, PrepActivate, AbortClear, AbortEmit
  <1>2. ASSUME NEW c \in Cancels, CancelStep(c) PROVE UNCHANGED upl
    BY <1>2 DEF CancelStep, CancelPending, CancelFirst, CancelDrop, CancelSecond, CancelEndEmit,
       CancelRecvEmit
  <1>3. ASSUME NEW u \in Uploads, UploadStep(u), NEW v \in Uploads, upl[v].pc # "idle"
        PROVE  upl'[v].sid = upl[v].sid /\ upl'[v].file = upl[v].file
    <2>1. CASE UploadStart(u)
      <3>1. upl[u].pc = "idle" /\ \E w : upl' = [upl EXCEPT ![u] = w]
        BY <2>1, Zenon DEF UploadStart
      <3> QED
        BY <1>0, <1>3, <3>1
    <2>2. CASE UploadEmit(u) \/ UploadTarget(u) \/ UploadSave(u)
      <3>1. \/ upl' = [upl EXCEPT ![u].pc = "save"]
            \/ upl' = [upl EXCEPT ![u] = [@ EXCEPT !.pc = "target", !.target = "queued"]]
            \/ \E result \in SaveResults :
                 upl' = [upl EXCEPT ![u] = [@ EXCEPT !.pc = "finish", !.result = result]]
        BY <2>2, Strings, Zenon DEF UploadEmit, UploadTarget, UploadSave
      <3>2. ASSUME NEW result \in SaveResults,
                   upl' = [upl EXCEPT ![u] = [@ EXCEPT !.pc = "finish", !.result = result]]
            PROVE  upl'[v].sid = upl[v].sid /\ upl'[v].file = upl[v].file
        BY <1>0, <3>2 DEF UplRecords
      <3>3. CASE upl' = [upl EXCEPT ![u].pc = "save"]
        BY <1>0, <3>3 DEF UplRecords
      <3>4. CASE upl' = [upl EXCEPT ![u] = [@ EXCEPT !.pc = "target", !.target = "queued"]]
        BY <1>0, <3>4 DEF UplRecords
      <3> QED
        BY <3>1, <3>2, <3>3, <3>4
    <2>3. CASE \/ UploadRejected(u) \/ UploadDrop(u) \/ UploadFinish(u) \/ GuardFinish(u)
               \/ UploadEndEmit(u)
      <3>1. \E pc : upl' = [upl EXCEPT ![u].pc = pc]
        BY <2>3 DEF UploadRejected, UploadDrop, UploadFinish, GuardFinish, UploadEndEmit, FinalizeFile
      <3> QED
        BY <1>0, <3>1 DEF UplRecords
    <2> QED
      BY <1>3, <2>1, <2>2, <2>3 DEF UploadStep
  <1> QED
    BY <1>1, <1>2, <1>3 DEF ServerStep

(* A result that was missing is still looked for where it was, or it was superseded. *)
LEMMA DueKept ==
    ASSUME DueKnown, receive.sid \in Preps \cup {Nobody},
           \A u \in Uploads :
             /\ outcome[u] = "seen" => outcome'[u] = "seen"
             /\ outcome'[u] # "none" => upl'[u].sid = upl[u].sid /\ upl'[u].file = upl[u].file
             /\ outcome'[u] = "due" => outcome[u] = "due" \/ upl[u].file \in receive'.inProgress,
           receive'.sid # Nobody =>
             /\ receive'.sid = receive.sid
             /\ \A u \in Uploads :
                  upl[u].sid = receive.sid /\ outcome'[u] = "due" /\ upl[u].file \in receive.inProgress
                    => upl[u].file \in receive'.inProgress \/ Superseded(u)'
    PROVE  DueKnown'
  <1> SUFFICES ASSUME receive'.sid # Nobody, NEW u \in Uploads,
                      upl'[u].sid = receive'.sid, outcome'[u] = "due"
               PROVE  upl'[u].file \in receive'.inProgress \/ Superseded(u)'
    BY DEF DueKnown
  <1>1. /\ receive'.sid = receive.sid /\ upl[u].sid = receive.sid /\ upl'[u].file = upl[u].file
        /\ upl'[u].sid = upl[u].sid
    OBVIOUS
  <1>2. CASE outcome[u] = "due" /\ upl[u].file \in receive.inProgress
    BY <1>1, <1>2
  <1>3. CASE outcome[u] = "due" /\ Superseded(u)
    <2>1. PICK v \in Uploads \ {u} :
            upl[v].sid = upl[u].sid /\ upl[v].file = upl[u].file /\ outcome[v] = "seen"
      BY <1>3 DEF Superseded
    <2>2. /\ outcome'[v] = "seen" /\ upl'[v].sid = upl'[u].sid /\ upl'[v].file = upl'[u].file
      BY <1>1, <2>1
    <2> QED
      BY <2>1, <2>2 DEF Superseded
  <1> QED
    BY <1>1, <1>2, <1>3 DEF DueKnown

(* Every step keeps what the summary knows of missing results. *)
LEMMA DueStep ==
    ASSUME CountInv, CountInv', AskedOnce, DueKnown, CliNext
    PROVE  DueKnown'
  <1>0. /\ KnownInv /\ IInv /\ RetryInv /\ AnnouncedOnce
        /\ upl \in [Uploads -> UplRecords] /\ events \in Seq(Events)
        /\ outcome \in [Uploads -> {"none", "due", "seen"}] /\ receive \in Receives
        /\ receive.sid \in Preps \cup {Nobody}
    BY DEF CountInv, KnownInv, CliTypeOK, IInv, TypeOK, Receives
  <1>1. NoReceive.sid = Nobody /\ \A s : NewReceive(s).sid = s
    BY DEF NoReceive, NewReceive
  <1>2. CASE ServerStep /\ UNCHANGED cliVars
    <2>1. \A u \in Uploads : outcome[u] # "none" => upl[u].pc # "idle"
      BY <1>0 DEF AnnouncedOnce
    <2>2. \A u \in Uploads : outcome[u] # "none" =>
            upl'[u].sid = upl[u].sid /\ upl'[u].file = upl[u].file
      BY <1>0, <1>2, <2>1, ServerNames
    <2> QED
      BY <1>0, <1>2, <2>2, DueKept DEF cliVars
  <1>3. ASSUME CliStep
        PROVE  \A u \in Uploads : upl'[u].sid = upl[u].sid /\ upl'[u].file = upl[u].file
    BY <1>0, <1>3, CliMoves
  <1>4. ASSUME CliStep, outcome' = outcome,
               \/ receive'.sid = Nobody
               \/ receive'.sid = receive.sid /\ receive'.inProgress = receive.inProgress
        PROVE  DueKnown'
    BY <1>0, <1>3, <1>4, DueKept
  <1>5. ASSUME CliStep, outcome' = outcome, NEW r \in Preps, Waiting(r), receive' = NewReceive(r)
        PROVE  DueKnown'
    <2>1. \A u \in Uploads : upl[u].sid # r
      BY <1>0, <1>5 DEF RetryInv, StartsCounted, Waiting
    <2> QED
      BY <1>1, <1>3, <1>5, <2>1 DEF DueKnown
  <1>6. CASE CliEvent
    <2> DEFINE e == Head(events)
    <2>1. e \in Events
      BY <1>0, <1>6 DEF CliEvent
    <2>2. /\ e.kind \in {"PrepareUpload", "SessionEnd", "PrepareUploadAborted"} => e.of \in Preps
          /\ e.kind = "FileUpload" => e.of \in Uploads
      BY <2>1 DEF Events
    <2> HIDE DEF e
    <2>3. CASE e.kind = "PrepareUpload" /\ (OnMessage(e.of) \/ OnPaired(e.of) \/ OnPrompt(e.of))
      <3>1. /\ outcome' = outcome
            /\ \/ receive' = receive
               \/ Waiting(e.of) /\ receive' = NewReceive(e.of)
        <4>1. CASE OnMessage(e.of) \/ OnPrompt(e.of)
          BY <4>1, Zenon DEF OnMessage, OnPrompt, cliVars
        <4>2. CASE OnPaired(e.of)
          BY <4>2, Zenon DEF OnPaired
        <4> QED
          BY <2>3, <4>1, <4>2
      <3> QED
        BY <1>4, <1>5, <1>6, <2>2, <2>3, <3>1 DEF CliStep
    <2>4. CASE e.kind = "FileUpload" /\ OnFileUpload(e.of)
      <3> DEFINE u == e.of
      <3>1. CASE receive.sid = upl[u].sid
        <4>1. /\ receive' = [receive EXCEPT !.inProgress = @ \cup {upl[u].file}]
              /\ outcome' = [outcome EXCEPT ![u] = "due"] /\ u \in Uploads
          BY <2>2, <2>4, <3>1 DEF OnFileUpload
        <4>2. receive'.sid = receive.sid /\ receive'.inProgress = receive.inProgress \cup {upl[u].file}
          BY <1>0, <4>1 DEF Receives
        <4>3. \A v \in Uploads : outcome[v] = "seen" => outcome'[v] = "seen"
          BY <1>0, <1>6, EventRetry
        <4>4. \A v \in Uploads : outcome'[v] = "due" =>
                outcome[v] = "due" \/ upl[v].file \in receive'.inProgress
          BY <1>0, <4>1, <4>2
        <4>5. CliStep
          BY <1>6 DEF CliStep
        <4> HIDE DEF u
        <4> QED
          BY <1>0, <1>3, <4>2, <4>3, <4>4, <4>5, DueKept
      <3>2. CASE receive.sid # upl[u].sid
        <4>1. outcome' = outcome /\ receive' = receive
          BY <2>4, <3>2 DEF OnFileUpload
        <4> QED
          BY <1>4, <1>6, <4>1 DEF CliStep
      <3> QED
        BY <3>1, <3>2
    <2>5. CASE e.kind = "SessionEnd" /\ OnSessionEnd(e.of)
      <3>1. /\ outcome' = outcome
            /\ \/ receive' = receive \/ receive' = NoReceive
               \/ receive' = [receive EXCEPT !.ended = TRUE]
        BY <2>5 DEF OnSessionEnd, FinishIfDone
      <3>2. \/ receive'.sid = Nobody
            \/ receive'.sid = receive.sid /\ receive'.inProgress = receive.inProgress
        BY <1>0, <1>1, <3>1 DEF Receives
      <3> QED
        BY <1>4, <1>6, <3>1, <3>2 DEF CliStep
    <2>6. CASE \/ e.kind = "PrepareUploadAborted" /\ OnAborted(e.of)
               \/ UNCHANGED <<prep, upl, cliVars>>
      <3>1. outcome' = outcome /\ receive' = receive
        BY <2>6 DEF OnAborted, cliVars
      <3> QED
        BY <1>4, <1>6, <3>1 DEF CliStep
    <2> QED
      BY <1>6, <2>3, <2>4, <2>5, <2>6 DEF CliEvent, e
  <1>7. CASE Accept
    <2>1. /\ outcome' = outcome /\ pending \in Preps
          /\ \/ receive' = receive
             \/ Waiting(pending) /\ receive' = NewReceive(pending)
      <3>1. pending \in Preps
        BY <1>0, <1>7 DEF Accept, KnownInv, CliTypeOK
      <3>2. /\ outcome' = outcome
            /\ \/ receive' = receive
               \/ Waiting(pending) /\ receive' = NewReceive(pending)
        BY <1>7, Zenon DEF Accept
      <3> QED
        BY <3>1, <3>2
    <2> QED
      BY <1>4, <1>5, <1>7, <2>1 DEF CliStep
  <1>8. CASE Decline \/ CtrlC \/ Quit \/ \E s \in Preps : Revoke(s)
    <2>1. /\ outcome' = outcome
          /\ receive' = receive \/ receive' = NoReceive
      BY <1>8 DEF Decline, CtrlC, Quit, Revoke, cliVars
    <2> QED
      BY <1>1, <1>4, <1>8, <2>1 DEF CliStep
  <1>9. ASSUME NEW u \in Uploads, CliResult(u) PROVE DueKnown'
    <2> DEFINE n == IF upl[u].result = "Success" THEN 1 ELSE 0
               r == [receive EXCEPT !.inProgress = @ \ {upl[u].file}, !.finished = @ + n]
    <2>1. /\ UNCHANGED upl /\ outcome[u] = "due" /\ outcome' = [outcome EXCEPT ![u] = "seen"]
          /\ receive' = IF receive.sid # upl[u].sid THEN receive ELSE FinishIfDone(r)
      BY <1>9, Zenon DEF CliResult, vars
    <2>2. /\ outcome'[u] = "seen" /\ \A v \in Uploads \ {u} : outcome'[v] = outcome[v]
      BY <1>0, <2>1
    <2>3. r.sid = receive.sid /\ r.inProgress = receive.inProgress \ {upl[u].file}
      BY <1>0 DEF Receives
    <2>4. receive' = receive \/ receive' = NoReceive \/ (receive.sid = upl[u].sid /\ receive' = r)
      BY <2>1 DEF FinishIfDone
    <2> HIDE DEF r
    <2>5. \A v \in Uploads :
            upl[v].sid = receive.sid /\ outcome'[v] = "due" /\ upl[v].file \in receive.inProgress
            /\ receive.sid = upl[u].sid
              => upl[v].file \in receive.inProgress \ {upl[u].file} \/ Superseded(v)'
      <3> SUFFICES ASSUME NEW v \in Uploads, upl[v].sid = receive.sid, outcome'[v] = "due",
                          receive.sid = upl[u].sid, upl[v].file = upl[u].file
                   PROVE  Superseded(v)'
        OBVIOUS
      <3>1. u \in Uploads \ {v}
        BY <2>2
      <3> QED
        BY <2>1, <2>2, <3>1 DEF Superseded
    <2>6. /\ receive'.sid # Nobody => receive'.sid = receive.sid
          /\ receive'.sid # Nobody =>
               \A v \in Uploads :
                  upl[v].sid = receive.sid /\ outcome'[v] = "due" /\ upl[v].file \in receive.inProgress
                    => upl[v].file \in receive'.inProgress \/ Superseded(v)'
      BY <1>1, <2>3, <2>4, <2>5
    <2> QED
      BY <1>0, <2>1, <2>2, <2>6, DueKept
  <1> QED
    BY <1>2, <1>6, <1>7, <1>8, <1>9 DEF CliNext, CliStep

(* Nothing is announced, prompted for or missing at the start. *)
LEMMA CliInitInvariant == CliInit => CliInv
  <1> SUFFICES ASSUME CliInit PROVE CliInv
    OBVIOUS
  <1>1. CountInv
    BY CliInitRetry
  <1>2. /\ receive.sid = Nobody /\ pending = Nobody /\ events = <<>>
        /\ \A r \in Preps : prep[r].decision = "none" /\ revoked[r] = "no"
    BY DEF CliInit, Init, NoReceive, NewReceive
  <1>3. AskedOnce
    BY <1>2, ConstantsAssumption DEF AskedOnce
  <1>4. DueKnown
    BY <1>2 DEF DueKnown
  <1> QED
    BY <1>1, <1>3, <1>4 DEF CliInv

(* Every step, stuttering included, keeps the inductive invariant. *)
LEMMA CliStepInvariant == CliInv /\ [CliNext]_allVars => CliInv'
  <1> SUFFICES ASSUME CliInv, [CliNext]_allVars PROVE CliInv'
    OBVIOUS
  <1>1. CountInv /\ CountInv' /\ KnownInv /\ KnownInv' /\ AskedOnce /\ DueKnown
    BY CliStepRetry DEF CliInv, CountInv
  <1>2. CASE UNCHANGED allVars
    <2>1. UNCHANGED <<prep, upl, events, open, pending, receive, outcome, revoked>>
      BY <1>2 DEF allVars, vars, cliVars
    <2>2. AskedOnce'
      BY <1>1, <2>1, Zenon DEF AskedOnce
    <2>3. DueKnown'
      BY <1>1, <2>1, Zenon DEF DueKnown, Superseded
    <2> QED
      BY <1>1, <2>2, <2>3 DEF CliInv
  <1>3. CASE CliNext
    <2>1. AskedOnce'
      BY <1>1, <1>3, ServerAsked, CliAsked DEF CliNext
    <2>2. DueKnown'
      BY <1>1, <1>3, DueStep
    <2> QED
      BY <1>1, <2>1, <2>2 DEF CliInv
  <1> QED
    BY <1>2, <1>3

(* The summary comes with the end of the session or with the last result it waits for; *)
(* a missing result is then one that another upload of its file has given.             *)
LEMMA SummaryStep ==
    ASSUME CliInv, CliNext, NEW s \in Preps, Summarised(s),
           NEW u \in Uploads, upl[u].sid = s, outcome'[u] = "due"
    PROVE  \E v \in Uploads \ {u} :
              upl[v].sid = s /\ upl[v].file = upl[u].file /\ outcome'[v] = "seen"
  <1>0. /\ KnownInv /\ AskedOnce /\ DueKnown
        /\ outcome \in [Uploads -> {"none", "due", "seen"}] /\ receive \in Receives
        /\ revoked \in [Preps -> {"no", "task", "done"}]
        /\ receive.sid = s /\ receive' = NoReceive /\ revoked' = revoked
    BY DEF CliInv, CountInv, KnownInv, CliTypeOK, Summarised
  <1>1. /\ s # Nobody /\ NoReceive.sid = Nobody /\ \A r : NewReceive(r).sid = r
        /\ receive' # receive
    BY <1>0, ConstantsAssumption DEF NoReceive, NewReceive
  <1>2. ASSUME outcome' = outcome, Superseded(u)
        PROVE  \E v \in Uploads \ {u} :
                  upl[v].sid = s /\ upl[v].file = upl[u].file /\ outcome'[v] = "seen"
    BY <1>2 DEF Superseded
  <1>3. CASE CliEvent
    <2> DEFINE e == Head(events)
    <2>0. e \in Events
      BY <1>0, <1>3 DEF CliEvent, KnownInv, IInv, TypeOK
    <2>1. \/ e.kind = "PrepareUpload" /\ (OnMessage(e.of) \/ OnPaired(e.of) \/ OnPrompt(e.of))
          \/ OnFileUpload(e.of) \/ OnSessionEnd(e.of) \/ OnAborted(e.of)
          \/ UNCHANGED <<prep, upl, cliVars>>
      BY <1>3, Zenon DEF CliEvent
    <2> HIDE DEF e
    <2>2. CASE \/ OnMessage(e.of) \/ OnPrompt(e.of) \/ OnAborted(e.of)
               \/ UNCHANGED <<prep, upl, cliVars>>
      <3>1. receive' = receive
        BY <2>2, Zenon DEF OnMessage, OnPrompt, OnAborted, cliVars
      <3> QED
        BY <1>1, <3>1
    <2>3. CASE e.kind = "PrepareUpload" /\ OnPaired(e.of)
      <3>1. e.of \in Preps
        BY <2>0, <2>3 DEF Events
      <3>2. receive' = receive \/ receive' = NewReceive(e.of)
        BY <2>3, Zenon DEF OnPaired
      <3> QED
        BY <1>0, <1>1, <3>1, <3>2, ConstantsAssumption
    <2>4. CASE OnFileUpload(e.of)
      <3>1. receive' = receive \/ receive' = [receive EXCEPT !.inProgress = @ \cup {upl[e.of].file}]
        BY <2>4, Zenon DEF OnFileUpload
      <3>2. receive'.sid = receive.sid
        BY <1>0, <3>1 DEF Receives
      <3> QED
        BY <1>0, <1>1, <3>2
    <2>5. CASE OnSessionEnd(e.of)
      <3> DEFINE r == [receive EXCEPT !.ended = TRUE]
      <3>1. /\ outcome' = outcome
            /\ receive' = receive \/ receive' = FinishIfDone(r)
        BY <2>5, Zenon DEF OnSessionEnd
      <3>2. r.sid = receive.sid /\ r.inProgress = receive.inProgress
        BY <1>0 DEF Receives
      <3> HIDE DEF r
      <3>3. r.inProgress = {}
        BY <1>0, <1>1, <3>1, <3>2 DEF FinishIfDone
      <3>4. Superseded(u)
        BY <1>0, <1>1, <3>1, <3>2, <3>3 DEF DueKnown
      <3> QED
        BY <1>2, <3>1, <3>4
    <2> QED
      BY <2>1, <2>2, <2>3, <2>4, <2>5
  <1>4. CASE Accept
    <2>1. pending \in Preps
      BY <1>0, <1>4 DEF Accept, KnownInv, CliTypeOK
    <2>2. receive' = receive \/ receive' = NewReceive(pending)
      BY <1>4, Zenon DEF Accept
    <2> QED
      BY <1>0, <1>1, <2>1, <2>2, ConstantsAssumption
  <1>5. CASE CtrlC
    <2>1. revoked' = [revoked EXCEPT ![s] = "task"]
      BY <1>0, <1>5 DEF CtrlC
    <2>2. revoked[s] = "task"
      BY <1>0, <2>1
    <2> QED
      BY <1>0, <1>1, <2>2 DEF AskedOnce
  <1>6. CASE \/ Decline \/ Quit \/ (\E r \in Preps : Revoke(r))
             \/ (ServerStep /\ UNCHANGED cliVars)
    <2>1. receive' = receive
      BY <1>6 DEF Decline, Quit, Revoke, cliVars
    <2> QED
      BY <1>1, <2>1
  <1>7. ASSUME NEW w \in Uploads, CliResult(w)
        PROVE  \E v \in Uploads \ {u} :
                  upl[v].sid = s /\ upl[v].file = upl[u].file /\ outcome'[v] = "seen"
    <2> DEFINE n == IF upl[w].result = "Success" THEN 1 ELSE 0
               r == [receive EXCEPT !.inProgress = @ \ {upl[w].file}, !.finished = @ + n]
    <2>1. /\ outcome' = [outcome EXCEPT ![w] = "seen"]
          /\ receive' = IF receive.sid # upl[w].sid THEN receive ELSE FinishIfDone(r)
      BY <1>7, Zenon DEF CliResult
    <2>2. outcome'[w] = "seen" /\ \A v \in Uploads \ {w} : outcome'[v] = outcome[v]
      BY <1>0, <2>1
    <2>3. r.sid = receive.sid /\ r.inProgress = receive.inProgress \ {upl[w].file}
      BY <1>0 DEF Receives
    <2> HIDE DEF r
    <2>4. upl[w].sid = s /\ r.inProgress = {}
      BY <1>0, <1>1, <2>1, <2>3 DEF FinishIfDone
    <2>5. u # w /\ outcome[u] = "due"
      BY <2>2
    <2>6. CASE upl[u].file = upl[w].file
      BY <2>2, <2>4, <2>5, <2>6
    <2>7. CASE upl[u].file # upl[w].file
      <3>1. Superseded(u)
        BY <1>0, <1>1, <2>3, <2>4, <2>5, <2>7 DEF DueKnown
      <3>2. PICK v \in Uploads \ {u} :
              upl[v].sid = upl[u].sid /\ upl[v].file = upl[u].file /\ outcome[v] = "seen"
        BY <3>1 DEF Superseded
      <3> QED
        BY <2>2, <3>2
    <2> QED
      BY <2>6, <2>7
  <1> QED
    BY <1>3, <1>4, <1>5, <1>6, <1>7 DEF CliNext, CliStep

-----------------------------------------------------------------------------
(* The theorems *)

(* The CLI and the server together keep the inductive invariant: with the  *)
(* CLI as its application the server keeps its own, too.                   *)
THEOREM CliInvariance == CliSpec => []CliInv
  BY CliInitInvariant, CliStepInvariant, PTL DEF CliSpec

(* handle_prepare_upload and answer_pending record a session only when     *)
(* their answer arrived, so the CLI knows the session the server has       *)
(* active unless the user cancelled it.                                    *)
THEOREM ActiveSessionKnown == CliSpec => []ActiveKnown
  <1>1. CliInv => ActiveKnown
    BY DEF CliInv, CountInv, KnownInv, IInv, ActiveCreated, CommittedKnown, Committed, IsActive, ActiveKnown
  <1> QED
    BY <1>1, CliInvariance, PTL

(* However files are retried, dropped or reported late, upload() starts    *)
(* each a bounded number of times and receive_file_result counts none      *)
(* twice.                                                                  *)
THEOREM RetriesAreBounded == CliSpec => []RetriesBounded
  <1>1. CliInv => StartsBounded
    BY DEF CliInv, CountInv, RetryInv, StartsCounted, StartsBounded
  <1>2. CliInv => CountWithinFiles
    <2> SUFFICES ASSUME CliInv PROVE CountWithinFiles
      OBVIOUS
    <2>1. receive \in Receives /\ receive.finished <= Cardinality(Got(receive.sid))
      BY DEF CliInv, CountInv, KnownInv, CliTypeOK
    <2>2. receive.sid \in Preps \cup {Nobody} /\ receive.finished \in Nat
      BY <2>1 DEF Receives
    <2>3. PICK s \in Preps \cup {Nobody} : s = receive.sid
      BY <2>2
    <2>4. /\ Cardinality(Got(s)) \in Nat /\ Cardinality(Got(s)) <= Cardinality(Files)
          /\ Cardinality(Files) \in Nat
      BY GotCount
    <2>5. receive.finished <= Cardinality(Got(s))
      BY <2>1, <2>3
    <2> QED
      BY <2>2, <2>4, <2>5 DEF CountWithinFiles
  <1>3. CliInv => RetriesBounded
    BY <1>1, <1>2 DEF RetriesBounded
  <1> QED
    BY <1>3, CliInvariance, PTL

(* finish_receive_if_done prints the summary only when no file is in       *)
(* progress, so a result that is still missing then is that of an upload   *)
(* whose file another attempt has reported.                                *)
THEOREM SummaryIsInformed == CliSpec => SummaryKnowsFiles
  <1> DEFINE A == \A s \in Preps : Summarised(s) =>
                    \A u \in Uploads : upl[u].sid = s /\ outcome'[u] = "due" =>
                       \E v \in Uploads \ {u} :
                          upl[v].sid = s /\ upl[v].file = upl[u].file /\ outcome'[v] = "seen"
  <1>1. CliInv /\ [CliNext]_allVars => [A]_allVars
    BY SummaryStep
  <1>2. CliSpec => [][A]_allVars
    BY <1>1, CliInvariance, PTL DEF CliSpec
  <1> QED
    BY <1>2 DEF SummaryKnowsFiles
=============================================================================
