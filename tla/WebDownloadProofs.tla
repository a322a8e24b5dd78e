-------------------------- MODULE WebDownloadProofs --------------------------
(***************************************************************************)
(* Proofs about WebDownload, for every number of requests and addresses,   *)
(* every channel capacity and every PIN limit.                             *)
(***************************************************************************)
EXTENDS WebDownload, TLAPS

(* The constants that the actions write are members of their sets. *)
LEMMA Strings ==
    /\ "idle" \in ReqPCs /\ "pin" \in ReqPCs /\ "insert" \in ReqPCs /\ "emit" \in ReqPCs
    /\ "decide" \in ReqPCs /\ "clear" \in ReqPCs /\ "accept" \in ReqPCs /\ "list" \in ReqPCs
    /\ "guard" \in ReqPCs /\ "leaked" \in ReqPCs /\ "done" \in ReqPCs
    /\ "none" \in Decisions /\ "queued" \in Decisions /\ "asked" \in Decisions
    /\ "accept" \in Decisions /\ "decline" \in Decisions /\ "dropped" \in Decisions
    /\ "none" \in ReqResponses /\ "list" \in ReqResponses /\ "unauthorized" \in ReqResponses
    /\ "blocked" \in ReqResponses /\ "rejected" \in ReqResponses /\ "error" \in ReqResponses
    /\ "lost" \in ReqResponses
    /\ "idle" \in DlPCs /\ "emit" \in DlPCs /\ "content" \in DlPCs /\ "done" \in DlPCs
    /\ "none" \in Contents /\ "queued" \in Contents /\ "asked" \in Contents
    /\ "given" \in Contents /\ "dropped" \in Contents
    /\ "none" \in DlResponses /\ "body" \in DlResponses /\ "forbidden" \in DlResponses
    /\ "error" \in DlResponses /\ "lost" \in DlResponses
  BY DEF ReqPCs, Decisions, ReqResponses, DlPCs, Contents, DlResponses

(* The invariant holds initially. *)
LEMMA InitInv == Init => IInv
  <1> SUFFICES ASSUME Init PROVE IInv
    OBVIOUS
  <1>1. PICK from \in [Reqs -> Ips] :
          req = [r \in Reqs |-> [pc |-> "idle", ip |-> from[r], decision |-> "none", resp |-> "none"]]
    BY DEF Init
  <1>2. req \in [Reqs -> ReqRecords] /\ \A r \in Reqs : req[r].pc = "idle" /\ req[r].decision = "none"
    BY <1>1, Strings DEF ReqRecords
  <1>3. PICK to \in [Dls -> Ips] :
          dl = [d \in Dls |-> [pc |-> "idle", ip |-> to[d], content |-> "none", resp |-> "none"]]
    BY DEF Init
  <1>4. dl \in [Dls -> DlRecords] /\ \A d \in Dls : dl[d].pc = "idle" /\ dl[d].resp = "none"
    BY <1>3, Strings DEF DlRecords
  <1>5. sessions \in [Ips -> SessionRecords] /\ \A ip \in Ips : sessions[ip].state = "none"
    BY DEF Init, NoSession, SessionRecords
  <1>6. attempts \in [Ips -> 0..MaxPin]
    BY WebAssumption DEF Init
  <1>7. events = <<>> /\ open = TRUE
    BY DEF Init
  <1> QED
    BY <1>2, <1>4, <1>5, <1>6, <1>7
    DEF IInv, TypeOK, AcceptedByDecision, DownloadAuthorized, EarlyUndecided, QueuedOnce,
        AcceptDecided, Valid

-----------------------------------------------------------------------------
(* A step of a prepare-download request *)

(* It changes its own record only, keeps its address and never touches its  *)
(* decision, except that it is queued with the event.                       *)
LEMMA ReqFrame ==
    ASSUME TypeOK, NEW r \in Reqs, ReqStep(r)
    PROVE  /\ \E p \in ReqRecords :
                /\ req' = [req EXCEPT ![r] = p]
                /\ p.ip = req[r].ip
                /\ p.decision = req[r].decision \/ (Emit(r) /\ p.decision = "queued" /\ p.pc = "decide")
                /\ p.pc = "accept" => req[r].decision = "accept"
                /\ p.pc \in {"pin", "insert", "emit"} => req[r].pc \in {"idle", "pin", "insert"}
                /\ p.pc # "idle"
           /\ UNCHANGED <<dl, open>>
           /\ UNCHANGED events \/ (Emit(r) /\ Send(r) /\ req'[r].decision = "queued")
  <1>0. req[r] \in ReqRecords
    BY DEF TypeOK
  <1>1. \/ \E a \in ReqPCs :
             /\ req' = [req EXCEPT ![r].pc = a]
             /\ a = "accept" => req[r].decision = "accept"
             /\ a \in {"pin", "insert", "emit"} => req[r].pc \in {"idle", "pin", "insert"}
             /\ a # "idle"
        \/ \E a \in {"done", "guard", "leaked"}, v \in ReqResponses :
             req' = [req EXCEPT ![r] = [@ EXCEPT !.pc = a, !.resp = v]]
        \/ Emit(r) /\ req' = [req EXCEPT ![r] = [@ EXCEPT !.pc = "decide", !.decision = "queued"]]
    <2>1. CASE Refetch(r) \/ Prepare(r)
      BY <2>1, Strings DEF Refetch, Prepare, Step
    <2>2. CASE CheckPin(r)
      BY <2>2, Strings DEF CheckPin, Answer
    <2>3. CASE Insert(r)
      BY <2>3, Strings DEF Insert, Step
    <2>4. CASE Emit(r)
      BY <2>4, Strings DEF Emit
    <2>5. CASE Decided(r)
      BY <2>5, Strings DEF Decided
    <2>6. CASE Clear(r) \/ FileList(r)
      BY <2>6, Strings DEF Clear, FileList, Answer
    <2>7. CASE Accept(r) \/ GuardClear(r)
      BY <2>7, Strings DEF Accept, GuardClear, Step
    <2>8. CASE ReqDrop(r)
      BY <2>8, Strings DEF ReqDrop, Answer
    <2> QED
      BY <2>1, <2>2, <2>3, <2>4, <2>5, <2>6, <2>7, <2>8 DEF ReqStep
  <1>2. \E p \in ReqRecords :
          /\ req' = [req EXCEPT ![r] = p]
          /\ p.ip = req[r].ip
          /\ p.decision = req[r].decision \/ (Emit(r) /\ p.decision = "queued" /\ p.pc = "decide")
          /\ p.pc = "accept" => req[r].decision = "accept"
          /\ p.pc \in {"pin", "insert", "emit"} => req[r].pc \in {"idle", "pin", "insert"}
          /\ p.pc # "idle"
    <2>1. CASE \E a \in ReqPCs :
             /\ req' = [req EXCEPT ![r].pc = a]
             /\ a = "accept" => req[r].decision = "accept"
             /\ a \in {"pin", "insert", "emit"} => req[r].pc \in {"idle", "pin", "insert"}
             /\ a # "idle"
      <3>1. PICK a \in ReqPCs :
             /\ req' = [req EXCEPT ![r].pc = a]
             /\ a = "accept" => req[r].decision = "accept"
             /\ a \in {"pin", "insert", "emit"} => req[r].pc \in {"idle", "pin", "insert"}
             /\ a # "idle"
        BY <2>1
      <3> DEFINE p == [req[r] EXCEPT !.pc = a]
      <3>2. p \in ReqRecords /\ p.pc = a /\ p.ip = req[r].ip /\ p.decision = req[r].decision
        BY <1>0 DEF ReqRecords
      <3>3. req' = [req EXCEPT ![r] = p]
        BY <3>1
      <3> HIDE DEF p
      <3> QED
        BY <3>1, <3>2, <3>3
    <2>2. CASE \E a \in {"done", "guard", "leaked"}, v \in ReqResponses :
             req' = [req EXCEPT ![r] = [@ EXCEPT !.pc = a, !.resp = v]]
      <3>1. PICK a \in {"done", "guard", "leaked"}, v \in ReqResponses :
              req' = [req EXCEPT ![r] = [@ EXCEPT !.pc = a, !.resp = v]]
        BY <2>2
      <3> DEFINE p == [req[r] EXCEPT !.pc = a, !.resp = v]
      <3>2. p \in ReqRecords /\ p.pc = a /\ p.ip = req[r].ip /\ p.decision = req[r].decision
        BY <1>0, Strings DEF ReqRecords
      <3>3. req' = [req EXCEPT ![r] = p]
        BY <3>1
      <3> HIDE DEF p
      <3> QED
        BY <3>2, <3>3
    <2>3. CASE Emit(r) /\ req' = [req EXCEPT ![r] = [@ EXCEPT !.pc = "decide", !.decision = "queued"]]
      <3> DEFINE p == [req[r] EXCEPT !.pc = "decide", !.decision = "queued"]
      <3>1. p \in ReqRecords /\ p.pc = "decide" /\ p.ip = req[r].ip /\ p.decision = "queued"
        BY <1>0, Strings DEF ReqRecords
      <3>2. req' = [req EXCEPT ![r] = p]
        BY <2>3
      <3> HIDE DEF p
      <3> QED
        BY <2>3, <3>1, <3>2
    <2> QED
      BY <1>1, <2>1, <2>2, <2>3
  <1>3. UNCHANGED <<dl, open>> /\ (UNCHANGED events \/ (Emit(r) /\ Send(r)))
    BY DEF ReqStep, Refetch, Prepare, CheckPin, Insert, Emit, Decided, Clear, Accept, FileList,
       ReqDrop, GuardClear
  <1>4. Emit(r) /\ Send(r) => req'[r].decision = "queued"
    <2> SUFFICES ASSUME Emit(r), Send(r) PROVE req'[r].decision = "queued"
      OBVIOUS
    <2>1. open
      BY DEF Send
    <2>2. req' = [req EXCEPT ![r] = [@ EXCEPT !.pc = "decide", !.decision = "queued"]]
      BY <2>1 DEF Emit
    <2> QED
      BY <1>0, <2>2 DEF TypeOK, ReqRecords
  <1> QED
    BY <1>2, <1>3, <1>4

(* What it does to the sessions: only an accepted request makes one valid,  *)
(* and only that of its own address.                                        *)
LEMMA ReqSessions ==
    ASSUME TypeOK, NEW r \in Reqs, ReqStep(r)
    PROVE  /\ sessions' \in [Ips -> SessionRecords]
           /\ attempts' \in [Ips -> 0..MaxPin]
           /\ \A ip \in Ips : /\ Valid(ip)' => Valid(ip) \/ (req[r].pc = "accept" /\ req[r].ip = ip)
                              /\ Valid(ip) /\ ~Valid(ip)' => Insert(r) /\ req[r].ip = ip
  <1>0. req[r].ip \in Ips /\ WebAssumption
    BY WebAssumption DEF TypeOK, ReqRecords
  <1>1. CASE UNCHANGED sessions
    <2>1. attempts' \in [Ips -> 0..MaxPin]
      <3>1. CASE CheckPin(r)
        BY <1>0, <3>1 DEF CheckPin, TypeOK, WebAssumption
      <3>2. CASE UNCHANGED attempts
        BY <3>2 DEF TypeOK
      <3> QED
        BY <3>1, <3>2 DEF ReqStep, Refetch, Prepare, Insert, Emit, Decided, Clear, Accept,
           FileList, ReqDrop, GuardClear
    <2> QED
      BY <1>1, <2>1 DEF TypeOK, Valid
  <1>2. CASE Insert(r)
    BY <1>0, <1>2 DEF Insert, TypeOK, Valid, SessionRecords
  <1>3. CASE Clear(r) \/ GuardClear(r)
    <2>1. UNCHANGED attempts /\ ClearPending(req[r].ip)
      BY <1>3 DEF Clear, GuardClear
    <2>2. NoSession \in SessionRecords /\ NoSession.state = "none"
      BY DEF NoSession, SessionRecords
    <2> QED
      BY <1>0, <2>1, <2>2 DEF ClearPending, TypeOK, Valid
  <1>4. CASE Accept(r)
    BY <1>0, <1>4 DEF Accept, Step, TypeOK, Valid, SessionRecords
  <1> QED
    BY <1>1, <1>2, <1>3, <1>4 DEF ReqStep, Refetch, Prepare, CheckPin, Emit, Decided,
       FileList, ReqDrop

(* It keeps the invariant. *)
LEMMA ReqInv ==
    ASSUME IInv, NEW r \in Reqs, ReqStep(r)
    PROVE  IInv'
  <1>0. TypeOK
    BY DEF IInv
  <1>1. PICK p \in ReqRecords :
          /\ req' = [req EXCEPT ![r] = p]
          /\ p.ip = req[r].ip
          /\ p.decision = req[r].decision \/ (Emit(r) /\ p.decision = "queued" /\ p.pc = "decide")
          /\ p.pc = "accept" => req[r].decision = "accept"
          /\ p.pc \in {"pin", "insert", "emit"} => req[r].pc \in {"idle", "pin", "insert"}
          /\ p.pc # "idle"
    BY <1>0, ReqFrame
  <1>2. UNCHANGED <<dl, open>> /\ (UNCHANGED events \/ (Emit(r) /\ Send(r) /\ req'[r].decision = "queued"))
    BY <1>0, ReqFrame
  <1>3. \A q \in Reqs : req'[q] = IF q = r THEN p ELSE req[q]
    BY <1>0, <1>1 DEF TypeOK
  <1>4. \A q \in Reqs : /\ req'[q].ip = req[q].ip
                        /\ req[q].decision = "accept" => req'[q].decision = "accept"
    <2>1. Emit(r) => req[r].decision = "none"
      BY DEF IInv, EarlyUndecided, Emit
    <2> QED
      BY <1>1, <1>3, <2>1
  <1>5. TypeOK'
    <2>1. req' \in [Reqs -> ReqRecords]
      BY <1>0, <1>1 DEF TypeOK
    <2>2. events' \in Seq(Reqs \cup Dls)
      BY <1>0, <1>2 DEF TypeOK, Send
    <2> QED
      BY <1>0, <1>2, <2>1, <2>2, ReqSessions DEF TypeOK
  <1>6. AcceptedByDecision'
    <2> SUFFICES ASSUME NEW ip \in Ips, Valid(ip)'
                 PROVE  \E q \in Reqs : req'[q].ip = ip /\ req'[q].decision = "accept"
      BY DEF AcceptedByDecision
    <2>1. Valid(ip) \/ (req[r].pc = "accept" /\ req[r].ip = ip)
      BY <1>0, ReqSessions
    <2>2. \E q \in Reqs : req[q].ip = ip /\ req[q].decision = "accept"
      BY <2>1 DEF IInv, AcceptedByDecision, AcceptDecided
    <2> QED
      BY <1>4, <2>2
  <1>7. DownloadAuthorized'
    BY <1>2, <1>4 DEF IInv, DownloadAuthorized
  <1>8. EarlyUndecided'
    BY <1>1, <1>3 DEF IInv, EarlyUndecided
  <1>9. QueuedOnce'
    <2>1. CASE UNCHANGED events
      <3>1. \A q \in Reqs : req[q].decision = "queued" => req'[q].decision = "queued"
        BY <1>1, <1>3
      <3> QED
        BY <2>1, <3>1 DEF IInv, QueuedOnce
    <2>2. CASE Emit(r) /\ Send(r) /\ req'[r].decision = "queued"
      <3>1. events \in Seq(Reqs \cup Dls)
        BY <1>0 DEF TypeOK
      <3>2. /\ DOMAIN events' = 1..(Len(events) + 1) /\ DOMAIN events = 1..Len(events)
            /\ events'[Len(events) + 1] = r /\ \A i \in DOMAIN events : events'[i] = events[i]
            /\ Len(events) \in Nat
        BY <2>2, <3>1 DEF Send
      <3>3. req[r].decision = "none"
        BY <2>2 DEF IInv, EarlyUndecided, Emit
      <3>4. \A i \in DOMAIN events : events[i] # r
        BY <3>3 DEF IInv, QueuedOnce
      <3>5. \A q \in Reqs \ {r} : req'[q] = req[q]
        BY <1>3
      <3>6. \A i \in DOMAIN events' : events'[i] \in Reqs => req'[events'[i]].decision = "queued"
        BY <2>2, <3>2, <3>4, <3>5 DEF IInv, QueuedOnce
      <3>7. \A i, j \in DOMAIN events' : events'[i] \in Reqs /\ events'[i] = events'[j] => i = j
        BY <3>2, <3>4 DEF IInv, QueuedOnce
      <3> QED
        BY <3>6, <3>7 DEF QueuedOnce
    <2> QED
      BY <1>2, <2>1, <2>2
  <1>10. AcceptDecided'
    BY <1>1, <1>3 DEF IInv, AcceptDecided
  <1> QED
    BY <1>5, <1>6, <1>7, <1>8, <1>9, <1>10 DEF IInv

-----------------------------------------------------------------------------
(* A step of a download request *)

(* It keeps the invariant: it is let through only with a valid session. *)
LEMMA DlInv ==
    ASSUME IInv, NEW d \in Dls, DlStep(d)
    PROVE  IInv'
  <1>0. TypeOK /\ dl[d] \in DlRecords
    BY DEF IInv, TypeOK
  <1>1. PICK w \in DlRecords :
          /\ dl' = [dl EXCEPT ![d] = w]
          /\ w.ip = dl[d].ip
          /\ w.pc \in {"emit", "content"} \/ w.resp = "body" =>
               dl[d].pc \in {"emit", "content"} \/ Valid(dl[d].ip) \/ dl[d].resp = "body"
    <2> USE <1>0, Strings DEF DlRecords
    <2>1. CASE DlCheck(d)
      <3>1. CASE Valid(dl[d].ip) /\ dl' = [dl EXCEPT ![d].pc = "emit"]
        BY <3>1
      <3>2. CASE Finish(d, "forbidden")
        <4> DEFINE w == [dl[d] EXCEPT !.pc = "done", !.resp = "forbidden"]
        <4>1. w \in DlRecords /\ w.pc = "done" /\ w.resp = "forbidden" /\ w.ip = dl[d].ip
          OBVIOUS
        <4>2. dl' = [dl EXCEPT ![d] = w]
          BY <3>2 DEF Finish
        <4> HIDE DEF w
        <4> USE <4>1
        <4> WITNESS w \in DlRecords
        <4> QED
          BY <4>1, <4>2
      <3> QED
        BY <2>1, <3>1, <3>2 DEF DlCheck
    <2>2. CASE DlEmit(d)
      BY <2>2 DEF DlEmit, Finish
    <2>3. CASE DlContent(d) \/ DlDrop(d)
      BY <2>3 DEF DlContent, DlDrop, Finish
    <2> QED
      BY <2>1, <2>2, <2>3 DEF DlStep
  <1>2. UNCHANGED <<sessions, attempts, req, open>> /\ (UNCHANGED events \/ Send(d))
    BY DEF DlStep, DlCheck, DlEmit, DlContent, DlDrop
  <1>3. TypeOK'
    <2>1. events' \in Seq(Reqs \cup Dls)
      BY <1>0, <1>2 DEF TypeOK, Send
    <2>2. dl' \in [Dls -> DlRecords]
      BY <1>0, <1>1 DEF TypeOK
    <2> QED
      BY <1>0, <1>2, <2>1, <2>2 DEF TypeOK
  <1>4. DownloadAuthorized'
    <2>1. \A e \in Dls : dl'[e] = IF e = d THEN w ELSE dl[e]
      BY <1>0, <1>1 DEF TypeOK
    <2>2. dl[d].ip \in Ips
      BY <1>0 DEF DlRecords
    <2>3. Valid(dl[d].ip) => \E r \in Reqs : req[r].ip = dl[d].ip /\ req[r].decision = "accept"
      BY <2>2 DEF IInv, AcceptedByDecision
    <2>4. w.pc \in {"emit", "content"} \/ w.resp = "body" =>
            \E r \in Reqs : req[r].ip = dl[d].ip /\ req[r].decision = "accept"
      BY <1>1, <2>3 DEF IInv, DownloadAuthorized
    <2> QED
      BY <1>1, <1>2, <2>1, <2>4 DEF IInv, DownloadAuthorized
  <1>5. QueuedOnce'
    <2>1. CASE UNCHANGED events
      BY <1>2, <2>1 DEF IInv, QueuedOnce
    <2>2. CASE Send(d)
      <3>1. events \in Seq(Reqs \cup Dls)
        BY <1>0 DEF TypeOK
      <3>2. /\ DOMAIN events' = 1..(Len(events) + 1) /\ DOMAIN events = 1..Len(events)
            /\ events'[Len(events) + 1] = d /\ \A i \in DOMAIN events : events'[i] = events[i]
            /\ Len(events) \in Nat
        BY <2>2, <3>1 DEF Send
      <3>3. d \notin Reqs
        BY WebAssumption
      <3>4. \A i \in DOMAIN events' : events'[i] \in Reqs => i \in DOMAIN events
        BY <3>2, <3>3
      <3> QED
        BY <1>2, <3>2, <3>4 DEF IInv, QueuedOnce
    <2> QED
      BY <1>2, <2>1, <2>2
  <1> QED
    BY <1>2, <1>3, <1>4, <1>5
    DEF IInv, AcceptedByDecision, EarlyUndecided, AcceptDecided, Valid

-----------------------------------------------------------------------------
(* A step of the application *)

(* It keeps the invariant: it takes back no decision, because it is asked   *)
(* once.                                                                    *)
LEMMA AppInv ==
    ASSUME IInv, AppStep
    PROVE  IInv'
  <1>0. TypeOK
    BY DEF IInv
  <1>1. UNCHANGED <<sessions, attempts>>
    BY DEF AppStep, AppReceive, AppDecide, AppContent, AppClose
  <1>2. /\ req' \in [Reqs -> ReqRecords]
        /\ \A r \in Reqs :
             /\ req'[r].ip = req[r].ip /\ req'[r].pc = req[r].pc
             /\ req'[r].decision = req[r].decision
                \/ (req'[r].decision \in Decisions /\ req[r].decision \in {"queued", "asked"})
    <2>1. ASSUME NEW r \in Reqs, NEW v \in Decisions
          PROVE  LET q == [req EXCEPT ![r].decision = v]
                 IN  /\ q \in [Reqs -> ReqRecords]
                     /\ \A s \in Reqs : /\ q[s].ip = req[s].ip /\ q[s].pc = req[s].pc
                                        /\ q[s].decision = req[s].decision \/ (s = r /\ q[s].decision = v)
      BY <1>0 DEF TypeOK, ReqRecords
    <2>2. CASE AppReceive
      <3>1. CASE UNCHANGED req
        BY <1>0, <3>1 DEF TypeOK
      <3>2. CASE Head(events) \in Reqs /\ req' = [req EXCEPT ![Head(events)].decision = "asked"]
        <4>1. Head(events) = events[1] /\ 1 \in DOMAIN events
          BY <1>0, <2>2 DEF AppReceive, TypeOK
        <4>2. req[Head(events)].decision = "queued"
          BY <3>2, <4>1 DEF IInv, QueuedOnce
        <4> QED
          BY <2>1, <3>2, <4>2, Strings
      <3> QED
        BY <2>2, <3>1, <3>2 DEF AppReceive
    <2>3. CASE \E r \in Reqs : AppDecide(r)
      BY <2>1, <2>3, Strings DEF AppDecide
    <2>4. CASE \E d \in Dls : AppContent(d)
      BY <1>0, <2>4 DEF AppContent, TypeOK
    <2>5. CASE AppClose
      <3>1. \A r \in Reqs : req[r] \in ReqRecords /\ [req[r] EXCEPT !.decision = "dropped"] \in ReqRecords
        BY <1>0, Strings DEF TypeOK, ReqRecords
      <3> QED
        BY <2>5, <3>1, Strings DEF AppClose, ReqRecords
    <2> QED
      BY <2>2, <2>3, <2>4, <2>5 DEF AppStep
  <1>3. /\ dl' \in [Dls -> DlRecords]
        /\ \A d \in Dls : dl'[d].ip = dl[d].ip /\ dl'[d].pc = dl[d].pc /\ dl'[d].resp = dl[d].resp
    <2>1. ASSUME NEW d \in Dls, NEW v \in Contents
          PROVE  LET q == [dl EXCEPT ![d].content = v]
                 IN  /\ q \in [Dls -> DlRecords]
                     /\ \A e \in Dls : q[e].ip = dl[e].ip /\ q[e].pc = dl[e].pc /\ q[e].resp = dl[e].resp
      BY <1>0 DEF TypeOK, DlRecords
    <2>2. CASE UNCHANGED dl
      BY <1>0, <2>2 DEF TypeOK
    <2>3. CASE \E d \in Dls, v \in Contents : dl' = [dl EXCEPT ![d].content = v]
      BY <2>1, <2>3
    <2>4. CASE AppClose
      <3>1. \A d \in Dls : dl[d] \in DlRecords /\ [dl[d] EXCEPT !.content = "dropped"] \in DlRecords
        BY <1>0, Strings DEF TypeOK, DlRecords
      <3> QED
        BY <2>4, <3>1 DEF AppClose, DlRecords
    <2> QED
      BY <2>2, <2>3, <2>4, Strings DEF AppStep, AppReceive, AppDecide, AppContent
  <1>4. /\ open' \in BOOLEAN
        /\ \/ UNCHANGED events
           \/ events' = <<>>
           \/ events # <<>> /\ events' = Tail(events)
    BY <1>0 DEF AppStep, AppReceive, AppDecide, AppContent, AppClose, TypeOK
  <1>5. TypeOK'
    <2>1. events' \in Seq(Reqs \cup Dls)
      <3>1. events \in Seq(Reqs \cup Dls)
        BY <1>0 DEF TypeOK
      <3>2. events # <<>> => Tail(events) \in Seq(Reqs \cup Dls)
        BY <3>1
      <3>3. <<>> \in Seq(Reqs \cup Dls)
        OBVIOUS
      <3> QED
        BY <1>4, <3>1, <3>2, <3>3
    <2> QED
      BY <1>0, <1>1, <1>2, <1>3, <1>4, <2>1 DEF TypeOK
  <1>6. \A r \in Reqs : req[r].decision = "accept" => req'[r].decision = "accept"
    BY <1>2
  <1>7. AcceptedByDecision'
    BY <1>1, <1>2, <1>6 DEF IInv, AcceptedByDecision, Valid
  <1>8. DownloadAuthorized'
    BY <1>2, <1>3, <1>6 DEF IInv, DownloadAuthorized
  <1>9. EarlyUndecided' /\ AcceptDecided'
    BY <1>2, <1>6 DEF IInv, EarlyUndecided, AcceptDecided
  <1>10. QueuedOnce'
    <2>0. events \in Seq(Reqs \cup Dls)
      BY <1>0 DEF TypeOK
    <2>1. CASE AppReceive
      <3>1. /\ DOMAIN events' = 1..(Len(events) - 1) /\ DOMAIN events = 1..Len(events)
            /\ Len(events) \in Nat \ {0} /\ Head(events) = events[1]
            /\ \A i \in DOMAIN events' : events'[i] = events[i + 1]
        BY <2>0, <2>1 DEF AppReceive
      <3>2. \A q \in Reqs : q = events[1] \/ req'[q].decision = req[q].decision
        BY <1>0, <2>1, <3>1 DEF AppReceive, TypeOK
      <3>3. \A i \in DOMAIN events' : i + 1 \in DOMAIN events /\ i + 1 # 1 /\ 1 \in DOMAIN events
        BY <3>1
      <3>4. \A i \in DOMAIN events' : events'[i] \in Reqs => req'[events'[i]].decision = "queued"
        BY <3>1, <3>2, <3>3 DEF IInv, QueuedOnce
      <3>5. \A i, j \in DOMAIN events' : events'[i] \in Reqs /\ events'[i] = events'[j] => i + 1 = j + 1
        BY <3>1, <3>3 DEF IInv, QueuedOnce
      <3> QED
        BY <3>1, <3>4, <3>5 DEF QueuedOnce
    <2>2. CASE \E r \in Reqs : AppDecide(r)
      <3>1. \A q \in Reqs : req[q].decision = "queued" => req'[q].decision = "queued"
        BY <1>0, <2>2 DEF AppDecide, TypeOK
      <3> QED
        BY <2>2, <3>1 DEF AppDecide, IInv, QueuedOnce
    <2>3. CASE \E d \in Dls : AppContent(d)
      BY <2>3 DEF AppContent, IInv, QueuedOnce
    <2>4. CASE AppClose
      BY <2>4 DEF AppClose, QueuedOnce
    <2> QED
      BY <2>1, <2>2, <2>3, <2>4 DEF AppStep
  <1> QED
    BY <1>5, <1>7, <1>8, <1>9, <1>10 DEF IInv

-----------------------------------------------------------------------------
(* Every step keeps the invariant. *)
LEMMA StepInv == IInv /\ [Next]_vars => IInv'
  <1> SUFFICES ASSUME IInv, [Next]_vars PROVE IInv'
    OBVIOUS
  <1>1. CASE UNCHANGED vars
    BY <1>1 DEF vars, IInv, TypeOK, AcceptedByDecision, DownloadAuthorized, EarlyUndecided,
       QueuedOnce, AcceptDecided, Valid
  <1>2. CASE Next
    BY <1>2, ReqInv, DlInv, AppInv DEF Next
  <1> QED
    BY <1>1, <1>2

(* The inductive invariant holds in every reachable state. *)
THEOREM Invariance == Spec => []IInv
  BY InitInv, StepInv, PTL DEF Spec

(* Every variable has its type, and no address passes MAX_PIN_ATTEMPTS. *)
THEOREM TypeCorrect == Spec => []TypeOK
  <1>1. IInv => TypeOK
    BY DEF IInv
  <1> QED
    BY <1>1, Invariance, PTL

(* An address has an accepted session only if the application accepted one  *)
(* of its prepare-download requests.                                        *)
THEOREM AcceptanceByDecision == Spec => []AcceptedByDecision
  <1>1. IInv => AcceptedByDecision
    BY DEF IInv
  <1> QED
    BY <1>1, Invariance, PTL

(* Files are asked for and served only to addresses the application         *)
(* accepted.                                                                *)
THEOREM DownloadAuthorization == Spec => []DownloadAuthorized
  <1>1. IInv => DownloadAuthorized
    BY DEF IInv
  <1> QED
    BY <1>1, Invariance, PTL

(* The cleanup of a request takes no accepted session: a valid session ends *)
(* only when a new prepare-download request of its address replaces it.     *)
THEOREM AcceptedSessionStays == Spec => AcceptedOnlyReplaced
  <1> DEFINE Replaced == \A ip \in Ips : Valid(ip) /\ ~Valid(ip)' =>
                \E r \in Reqs : req[r].ip = ip /\ req[r].pc = "insert" /\ req'[r].pc = "emit"
  <1>1. IInv /\ [Next]_vars => [Replaced]_vars
    <2> SUFFICES ASSUME IInv, Next, NEW ip \in Ips, Valid(ip), ~Valid(ip)'
                 PROVE  \E r \in Reqs : req[r].ip = ip /\ req[r].pc = "insert" /\ req'[r].pc = "emit"
      OBVIOUS
    <2>0. TypeOK
      BY DEF IInv
    <2>1. ASSUME NEW r \in Reqs, ReqStep(r)
          PROVE  req[r].ip = ip /\ req[r].pc = "insert" /\ req'[r].pc = "emit"
      <3>1. Insert(r) /\ req[r].ip = ip
        BY <2>0, <2>1, ReqSessions
      <3> QED
        BY <2>0, <3>1 DEF Insert, Step, TypeOK, ReqRecords
    <2>2. CASE (\E d \in Dls : DlStep(d)) \/ AppStep
      BY <2>2 DEF DlStep, DlCheck, DlEmit, DlContent, DlDrop, AppStep, AppReceive, AppDecide,
         AppContent, AppClose, Valid
    <2> QED
      BY <2>1, <2>2 DEF Next
  <1> QED
    BY <1>1, Invariance, PTL DEF Spec, AcceptedOnlyReplaced
=============================================================================
