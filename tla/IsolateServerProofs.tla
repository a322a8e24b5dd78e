------------------------ MODULE IsolateServerProofs ------------------------
(***************************************************************************)
(* Proofs about IsolateServer, for every number of requests, uploads and   *)
(* web requests, every capacity of the channels and number of attempts.    *)
(***************************************************************************)
EXTENDS IsolateServer, TLAPS

(* A prepare-upload request that waits, or the guard it left, has the slot; *)
(* an active slot is that of a request which was accepted.                  *)
SlotOwned ==
  /\ \A r \in Preps : prep[r] \in {"sending", "waiting"} \/ guard[r] = "clear" =>
       slot.of = r /\ slot.st = "pending"
  /\ \A r \in Preps : guard[r] = "clear" => prep[r] = "gone"
  /\ slot.st = "active" => slot.of \in Preps /\ prep[slot.of] = "done"

Begun(u) == up[u].st # "idle"

(* An upload belongs to an accepted session; before that the session has no *)
(* file.                                                                    *)
Sessions ==
  /\ \A u \in Uploads : Begun(u) => up[u].of \in Preps /\ prep[up[u].of] = "done"
  /\ \A r \in Preps : prep[r] # "done" => file[r].st = "none" /\ file[r].tries = 0

(* A writer exists from the target on, and succeeds with a whole body only. *)
Written ==
  \A u \in Uploads :
    /\ up[u].st \in {"idle", "sending", "waiting"} => writer[u] = "none"
    /\ writer[u] = "ok" => up[u].body = "whole"

\* The request of an upload or its writer is at work.
Busy(u) == up[u].st \in {"sending", "waiting", "saving"} \/ writer[u] = "running"

Open(r) == slot.st = "active" /\ slot.of = r /\ file[r].st = "pending"

(* While an attempt at a file is at work no other one can start. *)
OneAttempt ==
  /\ \A u \in Uploads : Busy(u) => ~Open(up[u].of)
  /\ \A u, v \in Uploads : Busy(u) /\ Busy(v) /\ up[u].of = up[v].of => u = v
  /\ \A r \in Preps : file[r].st = "pending" => file[r].tries < MaxTries

(* What an event or a call names. *)
GoodEvent(e) ==
  /\ e.k \in {"prepare", "aborted", "end"} => e.x \in Preps
  /\ e.k = "upload" => e.x \in Uploads /\ Begun(e.x)
  /\ e.k = "download" => e.x \in Downloads

GoodCall(c) ==
  /\ c.k \in {"accept", "decline", "cancel", "forget"} => c.x \in Preps
  /\ c.k \in {"respond", "fail", "save"} => c.x \in Uploads /\ Begun(c.x)
  /\ c.k = "content" => c.x \in Downloads

Named ==
  /\ \A q \in Channels : \A i \in DOMAIN chan[q] :
       GoodEvent(chan[q][i]) /\ (q = "web" <=> chan[q][i].k = "download")
  /\ \A i \in DOMAIN sink : GoodEvent(sink[i])
  /\ \A c \in calls : GoodCall(c)
  /\ ui.st # "" => ui.of \in Preps

CoreInv == SlotOwned /\ Sessions /\ Written /\ OneAttempt /\ OkMeansWritten

IInv == TypeOK /\ Named /\ CoreInv

-----------------------------------------------------------------------------
(* Types *)

SlotRecords == [of : Preps \cup {None}, st : {"free", "pending", "active"}]
UpRecords == [st : UpStages, of : Preps \cup {None}, target : {"open", "given", "dropped"}, body : Bodies]
FileRecords == [st : {"none", "pending", "busy", "finished", "failed"},
                tries : 0..MaxTries, end : {"no", "send", "sent"}]

CoreTyped ==
  /\ slot \in SlotRecords
  /\ prep \in [Preps -> PrepStages] /\ guard \in [Preps -> {"", "clear", "abort"}]
  /\ dec \in [Preps -> Decisions]
  /\ up \in [Uploads -> UpRecords]
  /\ writer \in [Uploads -> {"none", "running", "ok", "error"}] /\ result \in [Uploads -> Results]
  /\ file \in [Preps -> FileRecords]

ChanTyped == chan \in [Channels -> Seq(Events)] /\ \A q \in Channels : Len(chan[q]) =< ChanCap

BridgeTyped ==
  /\ dl \in [Downloads -> {"idle", "sending", "waiting", "answered", "failed"}]
  /\ server \in {"up", "stopping", "stopped"} /\ listen \subseteq Channels
  /\ pendingDecision \in Preps \cup {None}
  /\ pendingUploads \in [Preps -> Uploads \cup {None}]
  /\ pendingWeb \in [Keys -> Downloads \cup {None}]

DartTyped ==
  /\ sink \in Seq(Events) /\ calls \subseteq Calls
  /\ ui \in [of : Preps \cup {None}, st : {"", "waiting", "receiving"}]
  /\ holder \in Preps \cup {None} /\ cancels \in 0..MaxCancel /\ astray \subseteq Preps \cup Downloads

(* The type invariant in four parts, with its records named. *)
LEMMA TypedIs ==
    /\ TypeOK <=> CoreTyped /\ ChanTyped /\ BridgeTyped /\ DartTyped
    /\ TypeOK' <=> CoreTyped' /\ ChanTyped' /\ BridgeTyped' /\ DartTyped'
  BY DEF TypeOK, CoreTyped, ChanTyped, BridgeTyped, DartTyped, SlotRecords, UpRecords, FileRecords

-----------------------------------------------------------------------------
(* What leaves the core alone *)

(* The invariant of the core does not depend on what the responders were sent. *)
LEMMA CoreQuiet ==
    ASSUME CoreInv, UNCHANGED <<slot, prep, guard, writer, result, file>>,
           \A u \in Uploads : /\ up'[u].st = up[u].st /\ up'[u].of = up[u].of
                              /\ up'[u].body = up[u].body
    PROVE  CoreInv'
  <1>1. SlotOwned'
    BY DEF CoreInv, SlotOwned
  <1>2. Sessions'
    BY DEF CoreInv, Sessions, Begun
  <1>3. Written' /\ OkMeansWritten'
    BY DEF CoreInv, Written, OkMeansWritten
  <1>4. \A u \in Uploads : (Busy(u)' <=> Busy(u)) /\ (Begun(u) => (Open(up[u].of)' <=> Open(up[u].of)))
    BY DEF Busy, Open
  <1>5. OneAttempt'
    BY <1>4 DEF CoreInv, OneAttempt, Written, Busy, Open
  <1> QED
    BY <1>1, <1>2, <1>3, <1>5 DEF CoreInv

(* The end of an upload settles the file of its session only, or that session *)
(* is not the active one any more.                                            *)
LEMMA FinalizeSettles ==
    ASSUME CoreTyped, NEW r \in Preps, NEW outcome \in {"ok", "mismatch", "failed"},
           Finalize(r, outcome)
    PROVE  /\ slot' \in SlotRecords /\ file' \in [Preps -> FileRecords]
           /\ slot' = slot \/ (slot.of = r /\ slot.st = "active" /\ slot'.st = "free")
           /\ \A q \in Preps : /\ file'[q].tries = file[q].tries
                               /\ q # r => file'[q] = file[q]
           /\ slot'.st = "active" /\ slot'.of = r /\ file'[r].st = "pending" =>
                outcome = "mismatch"
           /\ file'[r].st = "pending" => file[r].st = "pending" \/ file[r].tries < MaxTries
  <1>1. file \in [Preps -> FileRecords] /\ slot \in SlotRecords /\ file[r] \in FileRecords
    BY DEF CoreTyped
  <1>2. FreeSlot \in SlotRecords /\ FreeSlot.st = "free"
    BY DEF FreeSlot, SlotRecords
  <1>3. CASE slot = [of |-> r, st |-> "active"]
    <2> DEFINE st == StatusAfter(r, outcome)
               f == [file[r] EXCEPT !.st = st, !.end = IF st = "pending" THEN "no" ELSE "send"]
    <2>1. /\ file' = [file EXCEPT ![r] = f]
          /\ slot' = IF st = "pending" THEN slot ELSE FreeSlot
      BY <1>3, Zenon DEF Finalize
    <2>2. /\ st \in {"finished", "pending", "failed"}
          /\ st = "pending" => outcome = "mismatch" /\ file[r].tries < MaxTries
      BY DEF StatusAfter
    <2> HIDE DEF st
    <2>3. f \in FileRecords /\ f.st = st /\ f.tries = file[r].tries
      BY <1>1, <2>2 DEF FileRecords
    <2> HIDE DEF f
    <2>4. slot.of = r /\ slot.st = "active"
      BY <1>3
    <2>5. slot' \in SlotRecords /\ (slot' = slot \/ slot'.st = "free")
      BY <1>1, <1>2, <2>1
    <2> QED
      BY <1>1, <1>2, <2>1, <2>2, <2>3, <2>4, <2>5
  <1>4. CASE slot # [of |-> r, st |-> "active"]
    <2>1. UNCHANGED <<file, slot>>
      BY <1>4 DEF Finalize
    <2>2. ~(slot.of = r /\ slot.st = "active")
      BY <1>1, <1>4 DEF SlotRecords
    <2> QED
      BY <1>1, <2>1, <2>2
  <1> QED
    BY <1>3, <1>4

(* A step of one upload that gives its session no further attempt while it is *)
(* at work.                                                                   *)
LEMMA UploadCore ==
    ASSUME CoreInv, NEW u \in Uploads, Begun(u), UNCHANGED <<prep, guard>>,
           \A v \in Uploads \ {u} :
             up'[v] = up[v] /\ writer'[v] = writer[v] /\ result'[v] = result[v],
           up'[u].of = up[u].of, up'[u].st # "idle", Busy(u)' => Busy(u),
           up'[u].st \in {"sending", "waiting"} => writer'[u] = "none",
           writer'[u] = "ok" => up'[u].body = "whole",
           result'[u] = "ok" => writer'[u] = "ok" /\ up'[u].body = "whole" /\ up'[u].st = "done",
           \/ UNCHANGED <<slot, file>>
           \/ /\ Busy(u)
              /\ slot' = slot \/ (slot.st = "active" /\ slot'.st = "free")
              /\ \A q \in Preps : /\ file'[q].tries = file[q].tries
                                  /\ q # up[u].of => file'[q] = file[q]
              /\ Busy(u)' => ~Open(up[u].of)'
              /\ file'[up[u].of].st = "pending" =>
                   file[up[u].of].st = "pending" \/ file[up[u].of].tries < MaxTries
    PROVE  CoreInv'
  <1>0. up[u].of \in Preps /\ prep[up[u].of] = "done"
    BY DEF CoreInv, Sessions
  <1>1. SlotOwned'
    BY DEF CoreInv, SlotOwned
  <1>2. Sessions'
    <2>1. \A v \in Uploads : Begun(v)' => Begun(v) /\ up'[v].of = up[v].of
      BY DEF Begun
    <2>2. \A r \in Preps : r # up[u].of => file'[r] = file[r]
      OBVIOUS
    <2> QED
      BY <1>0, <2>1, <2>2 DEF CoreInv, Sessions
  <1>3. Written'
    BY DEF CoreInv, Written
  <1>4. OkMeansWritten'
    BY DEF CoreInv, OkMeansWritten
  <1>5. \A v \in Uploads : Busy(v)' => Busy(v) /\ Begun(v) /\ up'[v].of = up[v].of
    BY DEF Busy, Begun, CoreInv, Written
  <1>6. \A v \in Uploads : Busy(v)' => ~Open(up[v].of)'
    <2> SUFFICES ASSUME NEW v \in Uploads, Busy(v)' PROVE ~Open(up[v].of)'
      OBVIOUS
    <2>1. ~Open(up[v].of) /\ Busy(v) /\ up[v].of \in Preps
      BY <1>5 DEF CoreInv, OneAttempt, Sessions
    <2>2. CASE UNCHANGED <<slot, file>>
      BY <1>5, <2>1, <2>2 DEF Open
    <2>3. CASE Busy(u) /\ up[v].of = up[u].of
      <3>1. v = u
        BY <2>1, <2>3 DEF CoreInv, OneAttempt
      <3> QED
        BY <1>5, <2>1, <3>1 DEF Open
    <2>4. CASE Busy(u) /\ up[v].of # up[u].of
      BY <1>5, <2>1, <2>4 DEF Open
    <2> QED
      BY <2>2, <2>3, <2>4
  <1>7. OneAttempt'
    BY <1>0, <1>5, <1>6 DEF CoreInv, OneAttempt
  <1> QED
    BY <1>1, <1>2, <1>3, <1>4, <1>7 DEF CoreInv

-----------------------------------------------------------------------------
(* Steps of the core *)

(* An event that is sent has its type and names what it is about. *)
LEMMA EmitKeeps ==
    ASSUME ChanTyped, NEW q \in Channels, NEW e \in Events, Emit(q, e)
    PROVE  /\ ChanTyped'
           /\ \A c \in Channels : \A i \in DOMAIN chan'[c] :
                \/ i \in DOMAIN chan[c] /\ chan'[c][i] = chan[c][i]
                \/ c = q /\ chan'[c][i] = e
  <1>1. /\ chan \in [Channels -> Seq(Events)] /\ chan[q] \in Seq(Events)
        /\ Len(chan[q]) < ChanCap /\ chan' = [chan EXCEPT ![q] = Append(chan[q], e)]
    BY DEF ChanTyped, Emit, Room
  <1>2. /\ Append(chan[q], e) \in Seq(Events) /\ Len(Append(chan[q], e)) = Len(chan[q]) + 1
        /\ \A i \in DOMAIN Append(chan[q], e) :
             Append(chan[q], e)[i] = IF i \in DOMAIN chan[q] THEN chan[q][i] ELSE e
    BY <1>1
  <1>3. /\ chan' \in [Channels -> Seq(Events)] /\ chan'[q] = Append(chan[q], e)
        /\ \A c \in Channels : c # q => chan'[c] = chan[c]
    BY <1>1, <1>2
  <1>4. ChanCap \in Nat
    BY IsolateAssumption
  <1>5. \A c \in Channels : Len(chan'[c]) =< ChanCap
    <2>1. Len(chan[q]) \in Nat
      BY <1>1
    <2>2. Len(chan'[q]) =< ChanCap
      BY <1>1, <1>2, <1>3, <1>4, <2>1
    <2> QED
      BY <1>3, <2>2 DEF ChanTyped
  <1> QED
    BY <1>2, <1>3, <1>5 DEF ChanTyped

(* A step of the core that ends no upload and sends only good events keeps  *)
(* the rest of the invariant.                                               *)
LEMMA CoreStep ==
    ASSUME IInv, CoreTyped', CoreInv', UNCHANGED <<dl, server, bridge, dart>>,
           \A u \in Uploads : Begun(u) => Begun(u)',
           \/ chan' = chan
           \/ \E q \in Channels, e \in Events :
                /\ Emit(q, e) /\ (q = "web" <=> e.k = "download")
                /\ e.k = "upload" => e.x \in Uploads /\ Begun(e.x)'
                /\ e.k # "upload" => GoodEvent(e)
    PROVE  IInv'
  <1>1. TypeOK /\ Named /\ CoreTyped /\ ChanTyped /\ BridgeTyped /\ DartTyped
    BY TypedIs DEF IInv
  <1>2. BridgeTyped' /\ DartTyped'
    BY <1>1 DEF BridgeTyped, DartTyped, bridge, dart
  <1>3. \A e : GoodEvent(e) => GoodEvent(e)'
    BY DEF GoodEvent
  <1>5. ChanTyped' /\ \A c \in Channels : \A i \in DOMAIN chan'[c] :
          GoodEvent(chan[c][i])' /\ (c = "web" <=> chan'[c][i].k = "download")
    <2>1. CASE chan' = chan
      <3>1. ChanTyped'
        BY <1>1, <2>1 DEF ChanTyped
      <3>2. \A c \in Channels : \A i \in DOMAIN chan[c] :
              GoodEvent(chan[c][i]) /\ (c = "web" <=> chan[c][i].k = "download")
        BY <1>1 DEF Named
      <3> QED
        BY <2>1, <3>1, <3>2 DEF GoodEvent
    <2>2. ASSUME NEW q \in Channels, NEW e \in Events, Emit(q, e), q = "web" <=> e.k = "download",
                 e.k = "upload" => e.x \in Uploads /\ Begun(e.x)',
                 e.k # "upload" => GoodEvent(e)
          PROVE  ChanTyped' /\ \A c \in Channels : \A i \in DOMAIN chan'[c] :
                   GoodEvent(chan[c][i])' /\ (c = "web" <=> chan'[c][i].k = "download")
      <3>1. GoodEvent(e)'
        BY <1>3, <2>2 DEF GoodEvent
      <3>2. /\ ChanTyped'
            /\ \A c \in Channels : \A i \in DOMAIN chan'[c] :
                 \/ i \in DOMAIN chan[c] /\ chan'[c][i] = chan[c][i]
                 \/ c = q /\ chan'[c][i] = e
        BY <1>1, <2>2, EmitKeeps
      <3> QED
        <4>1. ASSUME NEW c \in Channels, NEW i \in DOMAIN chan'[c],
                     i \in DOMAIN chan[c] /\ chan'[c][i] = chan[c][i]
              PROVE  GoodEvent(chan[c][i])' /\ (c = "web" <=> chan'[c][i].k = "download")
          <5>1. GoodEvent(chan[c][i]) /\ (c = "web" <=> chan[c][i].k = "download")
            BY <1>1, <4>1 DEF Named
          <5> QED
            BY <4>1, <5>1 DEF GoodEvent
        <4>2. ASSUME NEW c \in Channels, NEW i \in DOMAIN chan'[c], c = q /\ chan'[c][i] = e
              PROVE  GoodEvent(chan[c][i])' /\ (c = "web" <=> chan'[c][i].k = "download")
          BY <2>2, <3>1, <4>2 DEF GoodEvent
        <4> QED
          BY <3>2, <4>1, <4>2
    <2> QED
      BY <2>1, <2>2
  <1>6. Named'
    <2>1. UNCHANGED <<sink, calls, ui>>
      BY DEF dart
    <2>2. \A i \in DOMAIN sink' : GoodEvent(sink[i])'
      BY <1>1, <2>1 DEF Named, GoodEvent
    <2>3. \A c \in calls' : GoodCall(c)'
      BY <1>1, <2>1 DEF Named, GoodCall
    <2>4. ui'.st # "" => ui'.of \in Preps
      BY <1>1, <2>1 DEF Named
    <2> QED
      BY <1>5, <2>2, <2>3, <2>4 DEF Named
  <1> QED
    BY <1>2, <1>5, <1>6, TypedIs DEF IInv

(* A prepare-upload request takes a free slot, keeps it while it waits, and *)
(* its answer or its guard passes the slot on.                              *)
LEMMA PrepInv ==
    ASSUME IInv, NEW r \in Preps, PrepStep(r) \/ PrepClaim(r) \/ PrepGone(r)
    PROVE  IInv'
  <1>0. /\ CoreTyped /\ CoreInv /\ SlotOwned /\ Sessions /\ Written /\ OneAttempt /\ OkMeansWritten
        /\ slot \in SlotRecords /\ prep \in [Preps -> PrepStages] /\ file \in [Preps -> FileRecords]
        /\ guard \in [Preps -> {"", "clear", "abort"}] /\ r # None
    BY TypedIs, IsolateAssumption DEF IInv, CoreInv, CoreTyped
  <1>1. FreeSlot \in SlotRecords /\ FreeSlot.st = "free" /\ FreeSlot.of = None
    BY DEF FreeSlot, SlotRecords
  <1>2. ASSUME UNCHANGED <<up, writer, result>>, Sessions', SlotOwned',
               \A q \in Preps : file'[q].st = "pending" => file'[q].tries < MaxTries,
               \A u \in Uploads : Busy(u) => ~Open(up[u].of)'
        PROVE  CoreInv'
    <2>1. Written' /\ OkMeansWritten'
      BY <1>0, <1>2 DEF Written, OkMeansWritten
    <2>2. OneAttempt'
      BY <1>0, <1>2 DEF OneAttempt, Busy, Open
    <2> QED
      BY <1>2, <2>1, <2>2 DEF CoreInv
  <1>3. \A u \in Uploads : Busy(u) => Begun(u) /\ ~Open(up[u].of)
    BY <1>0 DEF OneAttempt, Busy, Begun, Written
  <1>4. CASE PrepClaim(r)
    <2>1. /\ prep[r] = "idle" /\ slot.st = "free" /\ slot'.of = r /\ slot'.st = "pending"
          /\ slot' \in SlotRecords /\ prep' = [prep EXCEPT ![r] = "sending"]
          /\ UNCHANGED <<guard, dec, up, writer, result, file, dl, chan, server, bridge, dart>>
      BY <1>4 DEF PrepClaim, SlotRecords
    <2>2. CoreTyped'
      BY <1>0, <2>1 DEF CoreTyped, PrepStages
    <2>3. SlotOwned'
      BY <1>0, <2>1 DEF SlotOwned
    <2>4. Sessions'
      BY <1>0, <2>1 DEF Sessions, Begun
    <2>5. CoreInv'
      BY <1>0, <1>2, <2>1, <2>3, <2>4 DEF OneAttempt, Open
    <2> QED
      BY <2>1, <2>2, <2>5, CoreStep DEF Begun
  <1>5. CASE PrepEmit(r)
    <2> DEFINE e == Event("prepare", r)
    <2>1. /\ prep[r] = "sending" /\ Emit("v2", e) /\ prep' = [prep EXCEPT ![r] = "waiting"]
          /\ UNCHANGED <<slot, guard, dec, up, writer, result, file, dl, server, bridge, dart>>
      BY <1>5 DEF PrepEmit
    <2>2. CoreTyped'
      BY <1>0, <2>1 DEF CoreTyped, PrepStages
    <2>3. SlotOwned'
      BY <1>0, <2>1 DEF SlotOwned
    <2>4. Sessions'
      BY <1>0, <2>1 DEF Sessions, Begun
    <2>5. CoreInv'
      BY <1>0, <1>2, <1>3, <2>1, <2>3, <2>4 DEF OneAttempt, Open
    <2>6. e \in Events /\ e.k = "prepare" /\ GoodEvent(e)
      BY DEF Event, Events, GoodEvent
    <2> HIDE DEF e
    <2> QED
      BY <2>1, <2>2, <2>5, <2>6, CoreStep DEF Begun, Channels
  <1>6. CASE PrepDecided(r)
    <2>1. /\ prep[r] = "waiting" /\ prep' = [prep EXCEPT ![r] = "done"]
          /\ slot.of = r /\ slot.st = "pending" /\ file[r].st = "none" /\ file[r].tries = 0
          /\ slot' = IF dec[r] = "accept" THEN [slot EXCEPT !.st = "active"] ELSE FreeSlot
          /\ file' = IF dec[r] = "accept" THEN [file EXCEPT ![r].st = "pending"] ELSE file
          /\ UNCHANGED <<guard, dec, up, writer, result, dl, chan, server, bridge, dart>>
      BY <1>0, <1>6 DEF PrepDecided, SlotOwned, Sessions
    <2>2. slot' \in SlotRecords /\ slot'.st # "pending" /\ (slot'.st = "active" => slot'.of = r)
      BY <1>0, <1>1, <2>1 DEF SlotRecords
    <2>3. /\ file' \in [Preps -> FileRecords] /\ file'[r].tries = 0
          /\ \A q \in Preps : q # r => file'[q] = file[q]
      <3> DEFINE f == [file[r] EXCEPT !.st = "pending"]
      <3>1. f \in FileRecords /\ f.tries = file[r].tries
        BY <1>0 DEF FileRecords
      <3>2. file' = file \/ file' = [file EXCEPT ![r] = f]
        BY <2>1, Zenon
      <3> HIDE DEF f
      <3> QED
        BY <1>0, <2>1, <3>1, <3>2
    <2>4. CoreTyped'
      BY <1>0, <2>1, <2>2, <2>3 DEF CoreTyped, PrepStages, Ended
    <2>5. SlotOwned'
      BY <1>0, <2>1, <2>2 DEF SlotOwned
    <2>6. Sessions'
      BY <1>0, <2>1, <2>3 DEF Sessions, Begun
    <2>7. \A u \in Uploads : Busy(u) => up[u].of # r
      BY <1>0, <1>3, <2>1 DEF Sessions
    <2>8. CoreInv'
      <3>1. \A u \in Uploads : Busy(u) => ~Open(up[u].of)'
        BY <2>1, <2>2, <2>7 DEF Open
      <3>2. \A q \in Preps : file'[q].st = "pending" => file'[q].tries < MaxTries
        <4>1. MaxTries \in Nat \ {0}
          BY IsolateAssumption
        <4>2. file'[r].tries < MaxTries
          BY <2>3, <4>1
        <4> QED
          BY <1>0, <2>3, <4>2 DEF OneAttempt
      <3> QED
        BY <1>2, <2>1, <2>5, <2>6, <3>1, <3>2
    <2> QED
      BY <2>1, <2>4, <2>8, CoreStep DEF Begun
  <1>7. CASE PrepGone(r)
    <2>1. /\ prep[r] \in {"sending", "waiting"} /\ prep' = [prep EXCEPT ![r] = "gone"]
          /\ guard' = [guard EXCEPT ![r] = "clear"]
          /\ UNCHANGED <<slot, dec, up, writer, result, file, dl, chan, server, bridge, dart>>
      BY <1>7 DEF PrepGone
    <2>2. CoreTyped'
      BY <1>0, <2>1 DEF CoreTyped, PrepStages, Ended
    <2>3. SlotOwned'
      BY <1>0, <2>1 DEF SlotOwned
    <2>4. Sessions'
      BY <1>0, <2>1 DEF Sessions, Begun
    <2>5. CoreInv'
      BY <1>0, <1>2, <1>3, <2>1, <2>3, <2>4 DEF OneAttempt, Open
    <2> QED
      BY <2>1, <2>2, <2>5, CoreStep DEF Begun
  <1>8. CASE GuardRuns(r)
    <2> DEFINE e == Event("aborted", r)
    <2>1. \/ /\ guard[r] = "clear" /\ slot' = IF slot.st = "pending" THEN FreeSlot ELSE slot
             /\ guard' = [guard EXCEPT ![r] = "abort"] /\ chan' = chan
          \/ guard' = [guard EXCEPT ![r] = ""] /\ slot' = slot /\ Emit("v2", e)
      BY <1>8 DEF GuardRuns
    <2>2. UNCHANGED <<prep, dec, up, writer, result, file, dl, server, bridge, dart>>
      BY <1>8 DEF GuardRuns
    <2>3. slot' \in SlotRecords /\ (slot' = slot \/ slot'.st = "free")
      BY <1>0, <1>1, <2>1
    <2>4. CoreTyped'
      BY <1>0, <2>1, <2>2, <2>3 DEF CoreTyped
    <2>5. SlotOwned'
      <3>1. CASE guard[r] = "clear" /\ slot'.st = "free" /\ guard' = [guard EXCEPT ![r] = "abort"]
        BY <1>0, <2>2, <3>1 DEF SlotOwned
      <3>2. CASE slot' = slot
        BY <1>0, <2>1, <2>2, <3>2 DEF SlotOwned
      <3> QED
        BY <2>1, <2>3, <3>1, <3>2
    <2>6. Sessions'
      BY <1>0, <2>2 DEF Sessions, Begun
    <2>7. CoreInv'
      <3>1. \A u \in Uploads : Busy(u) => ~Open(up[u].of)'
        BY <1>3, <2>2, <2>3 DEF Open
      <3> QED
        BY <1>0, <1>2, <2>2, <2>5, <2>6, <3>1 DEF OneAttempt
    <2>8. e \in Events /\ e.k = "aborted" /\ GoodEvent(e)
      BY DEF Event, Events, GoodEvent
    <2> HIDE DEF e
    <2> QED
      BY <2>1, <2>2, <2>4, <2>7, <2>8, CoreStep DEF Begun, Channels
  <1>9. CASE EndEmit(r)
    <2> DEFINE e == Event("end", r)
    <2>1. /\ Emit("v2", e) /\ file' = [file EXCEPT ![r].end = "sent"]
          /\ UNCHANGED <<slot, prep, guard, dec, up, writer, result, dl, server, bridge, dart>>
      BY <1>9 DEF EndEmit
    <2>2. /\ file' \in [Preps -> FileRecords]
          /\ \A q \in Preps : file'[q].st = file[q].st /\ file'[q].tries = file[q].tries
      BY <1>0, <2>1 DEF FileRecords
    <2>3. CoreTyped'
      BY <1>0, <2>1, <2>2 DEF CoreTyped
    <2>4. SlotOwned'
      BY <1>0, <2>1 DEF SlotOwned
    <2>5. Sessions'
      BY <1>0, <2>1, <2>2 DEF Sessions, Begun
    <2>6. CoreInv'
      <3>1. \A u \in Uploads : Busy(u) => up[u].of \in Preps
        BY <1>0, <1>3 DEF Sessions
      <3>2. \A u \in Uploads : Busy(u) => ~Open(up[u].of)'
        BY <1>3, <2>1, <2>2, <3>1 DEF Open
      <3> QED
        BY <1>0, <1>2, <2>1, <2>2, <2>4, <2>5, <3>2 DEF OneAttempt
    <2>7. e \in Events /\ e.k = "end" /\ GoodEvent(e)
      BY DEF Event, Events, GoodEvent
    <2> HIDE DEF e
    <2> QED
      BY <2>1, <2>3, <2>6, <2>7, CoreStep DEF Begun, Channels
  <1> QED
    BY <1>4, <1>5, <1>6, <1>7, <1>8, <1>9 DEF PrepStep

(* The fields of an upload whose record was replaced. *)
LEMMA UploadSet ==
    ASSUME CoreTyped, NEW u \in Uploads, NEW w \in UpRecords, up' = [up EXCEPT ![u] = w]
    PROVE  up' \in [Uploads -> UpRecords] /\ up'[u] = w /\ \A v \in Uploads \ {u} : up'[v] = up[v]
  BY DEF CoreTyped

(* An attempt starts at a file that waits for one; then none is at work at it. *)
LEMMA UpStartInv ==
    ASSUME IInv, NEW u \in Uploads, NEW r \in Preps, UpStart(u, r)
    PROVE  IInv'
  <1>0. /\ CoreTyped /\ CoreInv /\ SlotOwned /\ Sessions /\ Written /\ OneAttempt /\ OkMeansWritten
        /\ up \in [Uploads -> UpRecords] /\ file \in [Preps -> FileRecords]
        /\ up[u] \in UpRecords /\ file[r] \in FileRecords /\ MaxTries \in Nat
    BY TypedIs, IsolateAssumption DEF IInv, CoreInv, CoreTyped
  <1> DEFINE w == [[up[u] EXCEPT !.st = "sending"] EXCEPT !.of = r]
             f == [[file[r] EXCEPT !.st = "busy"] EXCEPT !.tries = file[r].tries + 1]
  <1>1. /\ up[u].st = "idle" /\ slot.of = r /\ slot.st = "active" /\ file[r].st = "pending"
        /\ UNCHANGED <<slot, prep, guard, dec, writer, result, dl, chan, server, bridge, dart>>
    BY DEF UpStart
  <1>2. up' = [up EXCEPT ![u] = w] /\ file' = [file EXCEPT ![r] = f]
    BY <1>0 DEF UpStart
  <1>3. w \in UpRecords /\ w.st = "sending" /\ w.of = r /\ w.body = up[u].body
    BY <1>0 DEF UpRecords, UpStages
  <1>4. file[r].tries \in 0..MaxTries /\ file[r].tries < MaxTries
    BY <1>0, <1>1 DEF OneAttempt, FileRecords
  <1>5. f \in FileRecords /\ f.st = "busy"
    <2> DEFINE g == [file[r] EXCEPT !.st = "busy"]
    <2>1. g \in FileRecords /\ g.st = "busy"
      BY <1>0 DEF FileRecords
    <2>2. PICK k \in 0..MaxTries : k = file[r].tries + 1
      BY <1>0, <1>4
    <2>3. f = [g EXCEPT !.tries = k]
      BY <2>2
    <2> HIDE DEF g, f
    <2> QED
      BY <2>1, <2>3 DEF FileRecords
  <1> HIDE DEF w, f
  <1>6. /\ up' \in [Uploads -> UpRecords] /\ up'[u] = w /\ \A v \in Uploads \ {u} : up'[v] = up[v]
        /\ file' \in [Preps -> FileRecords] /\ file'[r] = f /\ \A q \in Preps \ {r} : file'[q] = file[q]
    BY <1>0, <1>2, <1>3, <1>5, UploadSet
  <1>7. CoreTyped'
    BY <1>0, <1>1, <1>6 DEF CoreTyped
  <1>8. SlotOwned' /\ prep[r] = "done"
    BY <1>0, <1>1 DEF SlotOwned
  <1>9. Sessions'
    BY <1>0, <1>1, <1>3, <1>6, <1>8 DEF Sessions, Begun
  <1>10. writer[u] = "none" /\ result[u] # "ok"
    BY <1>0, <1>1 DEF Written, OkMeansWritten
  <1>11. Written' /\ OkMeansWritten'
    BY <1>0, <1>1, <1>3, <1>6, <1>10 DEF Written, OkMeansWritten
  <1>12. \A v \in Uploads \ {u} : Busy(v)' => /\ Busy(v) /\ up'[v].of = up[v].of /\ up[v].of # r
                                              /\ up[v].of \in Preps
    <2>1. \A v \in Uploads \ {u} : Busy(v)' => Busy(v) /\ up'[v].of = up[v].of
      BY <1>1, <1>6 DEF Busy
    <2>2. \A v \in Uploads : Busy(v) => ~Open(up[v].of) /\ Begun(v)
      BY <1>0 DEF OneAttempt, Busy, Begun, Written
    <2> QED
      BY <1>0, <1>1, <2>1, <2>2 DEF Open, Sessions
  <1>13. OneAttempt'
    <2>1. \A v \in Uploads : Busy(v)' => ~Open(up[v].of)'
      BY <1>1, <1>3, <1>5, <1>6, <1>12 DEF Open
    <2>2. \A v, x \in Uploads : Busy(v)' /\ Busy(x)' /\ up'[v].of = up'[x].of => v = x
      BY <1>0, <1>3, <1>6, <1>12 DEF OneAttempt
    <2>3. \A q \in Preps : file'[q].st = "pending" => file'[q].tries < MaxTries
      BY <1>0, <1>5, <1>6 DEF OneAttempt
    <2> QED
      BY <2>1, <2>2, <2>3 DEF OneAttempt
  <1>14. CoreInv'
    BY <1>8, <1>9, <1>11, <1>13 DEF CoreInv
  <1>15. \A v \in Uploads : Begun(v) => Begun(v)'
    BY <1>3, <1>6 DEF Begun
  <1> QED
    BY <1>1, <1>7, <1>14, <1>15, CoreStep

(* Writers end, fail or are left alone by their request; only what a whole  *)
(* body and the checksum confirm is reported as received.                   *)
LEMMA UpInv ==
    ASSUME IInv, NEW u \in Uploads, UpStep(u) \/ UpGone(u) \/ UpBody(u) \/ WriterFails(u)
    PROVE  IInv'
  <1>0. /\ CoreTyped /\ CoreInv /\ Sessions /\ Written /\ OneAttempt /\ OkMeansWritten
        /\ up \in [Uploads -> UpRecords] /\ up[u] \in UpRecords
        /\ file \in [Preps -> FileRecords]
        /\ writer \in [Uploads -> {"none", "running", "ok", "error"}]
        /\ result \in [Uploads -> Results]
    BY TypedIs DEF IInv, CoreInv, CoreTyped
  <1>1. Begun(u)
    BY <1>0 DEF UpStep, UpEmit, UpTarget, UpSaved, WriterEnds, UpGone, UpBody, WriterFails, Begun, Written
  <1>2. up[u].of \in Preps
    BY <1>0, <1>1 DEF Sessions
  <1>3. PICK r \in Preps : r = up[u].of
    BY <1>2
  <1>4. /\ up[u].st \in {"idle", "sending", "waiting"} => writer[u] = "none"
        /\ writer[u] = "ok" => up[u].body = "whole"
        /\ result[u] = "ok" => writer[u] = "ok" /\ up[u].body = "whole" /\ up[u].st = "done"
    BY <1>0 DEF Written, OkMeansWritten
  <1>5. ASSUME NEW w \in UpRecords, up' = [up EXCEPT ![u] = w], w.of = r, w.st # "idle",
               NEW x \in {"none", "running", "ok", "error"}, writer' = [writer EXCEPT ![u] = x],
               NEW y \in Results, result' = [result EXCEPT ![u] = y],
               slot' \in SlotRecords, file' \in [Preps -> FileRecords],
               UNCHANGED <<prep, guard, dec, dl, server, bridge, dart>>,
               chan' = chan \/ Emit("v2", Event("upload", u)),
               w.st \in {"sending", "waiting", "saving"} \/ x = "running" => Busy(u),
               w.st \in {"sending", "waiting"} => x = "none",
               x = "ok" => w.body = "whole",
               y = "ok" => x = "ok" /\ w.body = "whole" /\ w.st = "done",
               \/ UNCHANGED <<slot, file>>
               \/ /\ Busy(u)
                  /\ slot' = slot \/ (slot.st = "active" /\ slot'.st = "free")
                  /\ \A q \in Preps : /\ file'[q].tries = file[q].tries
                                      /\ q # r => file'[q] = file[q]
                  /\ w.st \in {"sending", "waiting", "saving"} \/ x = "running" => ~Open(r)'
                  /\ file'[r].st = "pending" => file[r].st = "pending" \/ file[r].tries < MaxTries
        PROVE  IInv'
    <2>1. up' \in [Uploads -> UpRecords] /\ up'[u] = w /\ \A v \in Uploads \ {u} : up'[v] = up[v]
      BY <1>0, <1>5, UploadSet
    <2>2. /\ writer'[u] = x /\ result'[u] = y
          /\ \A v \in Uploads \ {u} : writer'[v] = writer[v] /\ result'[v] = result[v]
          /\ writer' \in [Uploads -> {"none", "running", "ok", "error"}]
          /\ result' \in [Uploads -> Results]
      BY <1>0, <1>5
    <2>3. CoreTyped'
      BY <1>0, <1>5, <2>1, <2>2 DEF CoreTyped
    <2>4. Busy(u)' <=> w.st \in {"sending", "waiting", "saving"} \/ x = "running"
      BY <2>1, <2>2 DEF Busy
    <2>5. CoreInv'
      BY <1>0, <1>1, <1>3, <1>5, <2>1, <2>2, <2>4, UploadCore
    <2>6. \A v \in Uploads : Begun(v) => Begun(v)'
      BY <1>5, <2>1 DEF Begun
    <2>7. PICK e : e = Event("upload", u)
      OBVIOUS
    <2>8. e \in Events /\ e.k = "upload" /\ e.x = u /\ "v2" \in Channels
      BY <2>7 DEF Event, Events, Channels
    <2>9. Begun(u)'
      BY <1>1, <2>6
    <2>10. CASE chan' = chan
      BY <1>5, <2>3, <2>5, <2>6, <2>10, CoreStep
    <2>11. CASE Emit("v2", e)
      <3>1. \E q \in Channels, a \in Events :
                /\ Emit(q, a) /\ (q = "web" <=> a.k = "download")
                /\ a.k = "upload" => a.x \in Uploads /\ Begun(a.x)'
                /\ a.k # "upload" => GoodEvent(a)
        BY <2>8, <2>9, <2>11
      <3> QED
        BY <1>5, <2>3, <2>5, <2>6, <3>1, CoreStep
    <2> QED
      BY <1>5, <2>7, <2>10, <2>11
  <1>6. writer' = writer => writer' = [writer EXCEPT ![u] = writer[u]]
    BY <1>0
  <1>7. result' = result => result' = [result EXCEPT ![u] = result[u]]
    BY <1>0
  <1>8. writer[u] \in {"none", "running", "ok", "error"} /\ result[u] \in Results
    BY <1>0
  <1>9. slot \in SlotRecords
    BY <1>0 DEF CoreTyped
  <1>10. CASE UpEmit(u)
    <2> DEFINE w == [up[u] EXCEPT !.st = "waiting"]
    <2>1. /\ up[u].st = "sending" /\ Emit("v2", Event("upload", u)) /\ up' = [up EXCEPT ![u] = w]
          /\ UNCHANGED <<slot, prep, guard, dec, writer, result, file, dl, server, bridge, dart>>
      BY <1>10 DEF UpEmit
    <2>2. w \in UpRecords /\ w.of = r /\ w.st = "waiting"
      BY <1>0, <1>3 DEF UpRecords, UpStages
    <2> HIDE DEF w
    <2>3. Busy(u)
      BY <2>1 DEF Busy
    <2> QED
      BY <1>0, <1>4, <1>5, <1>6, <1>7, <1>8, <1>9, <2>1, <2>2, <2>3
  <1>11. CASE UpTarget(u) /\ up[u].target = "given"
    <2> DEFINE v == [up[u] EXCEPT !.st = "saving"]
               w == [v EXCEPT !.body = "coming"]
    <2>1. /\ up[u].st = "waiting" /\ up' = [up EXCEPT ![u] = w]
          /\ writer' = [writer EXCEPT ![u] = "running"]
          /\ UNCHANGED <<slot, prep, guard, dec, result, file, dl, chan, server, bridge, dart>>
      BY <1>0, <1>11 DEF UpTarget
    <2>2. v \in UpRecords /\ v.of = r /\ v.st = "saving"
      BY <1>0, <1>3 DEF UpRecords, UpStages
    <2> HIDE DEF v
    <2>3. w \in UpRecords /\ w.of = r /\ w.st = "saving"
      BY <2>2 DEF UpRecords, Bodies
    <2> HIDE DEF w
    <2>4. Busy(u) /\ result[u] # "ok"
      BY <1>4, <2>1 DEF Busy
    <2> QED
      BY <1>0, <1>5, <1>7, <1>8, <1>9, <2>1, <2>3, <2>4
  <1>12. CASE UpTarget(u) /\ up[u].target # "given"
    <2> DEFINE w == [up[u] EXCEPT !.st = "done"]
    <2>1. /\ up[u].st = "waiting" /\ up' = [up EXCEPT ![u] = w] /\ Finalize(r, "failed")
          /\ UNCHANGED <<prep, guard, dec, writer, result, dl, chan, server, bridge, dart>>
      BY <1>3, <1>12 DEF UpTarget
    <2>2. w \in UpRecords /\ w.of = r /\ w.st = "done"
      BY <1>0, <1>3 DEF UpRecords, UpStages, Ended
    <2> HIDE DEF w
    <2>3. Busy(u) /\ writer[u] = "none" /\ result[u] # "ok"
      BY <1>4, <2>1 DEF Busy
    <2>4. /\ slot' \in SlotRecords /\ file' \in [Preps -> FileRecords]
          /\ slot' = slot \/ (slot.st = "active" /\ slot'.st = "free")
          /\ \A q \in Preps : file'[q].tries = file[q].tries /\ (q # r => file'[q] = file[q])
          /\ file'[r].st = "pending" => file[r].st = "pending" \/ file[r].tries < MaxTries
      BY <1>0, <2>1, FinalizeSettles
    <2> QED
      BY <1>5, <1>6, <1>7, <1>8, <2>1, <2>2, <2>3, <2>4
  <1>13. CASE UpBody(u)
    <2>1. PICK b \in {"whole", "short"} : up' = [up EXCEPT ![u].body = b]
      BY <1>13 DEF UpBody
    <2> DEFINE w == [up[u] EXCEPT !.body = b]
    <2>2. /\ up[u].st = "saving" /\ up[u].body = "coming" /\ up' = [up EXCEPT ![u] = w]
          /\ UNCHANGED <<slot, prep, guard, dec, writer, result, file, dl, chan, server, bridge, dart>>
      BY <1>13, <2>1 DEF UpBody
    <2>3. w \in UpRecords /\ w.of = r /\ w.st = "saving"
      BY <1>0, <1>3, <2>2 DEF UpRecords, Bodies
    <2> HIDE DEF w
    <2>4. Busy(u) /\ writer[u] # "ok" /\ result[u] # "ok"
      BY <1>4, <2>2 DEF Busy
    <2> QED
      BY <1>0, <1>5, <1>6, <1>7, <1>8, <1>9, <2>2, <2>3, <2>4
  <1>14. CASE WriterFails(u)
    <2> DEFINE w == [up[u] EXCEPT !.body = IF up[u].body = "coming" THEN "short" ELSE up[u].body]
    <2>1. /\ writer[u] = "running" /\ writer' = [writer EXCEPT ![u] = "error"]
          /\ up' = [up EXCEPT ![u] = w]
          /\ UNCHANGED <<slot, prep, guard, dec, result, file, dl, chan, server, bridge, dart>>
      BY <1>14 DEF WriterFails
    <2>2. w \in UpRecords /\ w.of = r /\ w.st = up[u].st
      BY <1>0, <1>3 DEF UpRecords, Bodies
    <2> HIDE DEF w
    <2>3. Busy(u) /\ result[u] # "ok" /\ up[u].st \notin {"idle", "sending", "waiting"}
      BY <1>4, <2>1 DEF Busy
    <2> QED
      BY <1>0, <1>5, <1>7, <1>8, <1>9, <2>1, <2>2, <2>3
  <1>15. CASE WriterEnds(u)
    <2>1. PICK x \in {"ok", "error"} : x = IF SizeMatches(u) THEN "ok" ELSE "error"
      OBVIOUS
    <2>2. /\ writer[u] = "running" /\ writer' = [writer EXCEPT ![u] = x]
          /\ UNCHANGED <<slot, prep, guard, dec, up, result, file, dl, chan, server, bridge, dart>>
      BY <1>15, <2>1 DEF WriterEnds
    <2>3. x = "ok" => up[u].body = "whole"
      BY <2>1 DEF SizeMatches
    <2>4. up' = [up EXCEPT ![u] = up[u]] /\ up[u].of = r
      BY <1>0, <1>3, <2>2
    <2>5. Busy(u) /\ result[u] # "ok" /\ up[u].st \notin {"idle", "sending", "waiting"}
      BY <1>4, <2>2 DEF Busy
    <2> QED
      BY <1>0, <1>5, <1>7, <1>8, <1>9, <2>2, <2>3, <2>4, <2>5
  <1>16. CASE UpSaved(u)
    <2>1. PICK outcome \in {"ok", "mismatch", "failed"} :
            /\ outcome = "ok" => writer[u] = "ok"
            /\ result' = [result EXCEPT ![u] = Told(u, outcome)]
            /\ Finalize(r, outcome)
      BY <1>3, <1>16 DEF UpSaved
    <2> DEFINE w == [up[u] EXCEPT !.st = "done"]
    <2>2. /\ up[u].st = "saving" /\ up' = [up EXCEPT ![u] = w] /\ writer[u] \in {"ok", "error"}
          /\ UNCHANGED <<prep, guard, dec, writer, dl, chan, server, bridge, dart>>
      BY <1>16 DEF UpSaved
    <2>3. w \in UpRecords /\ w.of = r /\ w.st = "done" /\ w.body = up[u].body
      BY <1>0, <1>3 DEF UpRecords, UpStages, Ended
    <2> HIDE DEF w
    <2>4. PICK y \in Results : y = Told(u, outcome) /\ (y = "ok" => writer[u] = "ok")
      BY <2>1 DEF Told, Results
    <2>5. /\ slot' \in SlotRecords /\ file' \in [Preps -> FileRecords]
          /\ slot' = slot \/ (slot.st = "active" /\ slot'.st = "free")
          /\ \A q \in Preps : file'[q].tries = file[q].tries /\ (q # r => file'[q] = file[q])
          /\ file'[r].st = "pending" => file[r].st = "pending" \/ file[r].tries < MaxTries
      BY <1>0, <2>1, FinalizeSettles
    <2>6. Busy(u)
      BY <2>2 DEF Busy
    <2> QED
      BY <1>4, <1>5, <1>6, <1>8, <2>1, <2>2, <2>3, <2>4, <2>5, <2>6
  <1>17. CASE UpGone(u)
    <2> DEFINE v == [up[u] EXCEPT !.st = "gone"]
               w == [v EXCEPT !.body = IF v.body = "coming" THEN "short" ELSE v.body]
    <2>1. /\ up[u].st \in {"sending", "waiting", "saving"} /\ Finalize(r, "failed")
          /\ UNCHANGED <<prep, guard, dec, writer, dl, chan, server, bridge, dart>>
      BY <1>3, <1>17 DEF UpGone
    <2>2. v \in UpRecords /\ v.of = r /\ v.st = "gone" /\ v.body = up[u].body
      BY <1>0, <1>3 DEF UpRecords, UpStages, Ended
    <2>3. up' = [up EXCEPT ![u] = w]
      BY <1>0, <1>17, <2>2 DEF UpGone
    <2> HIDE DEF v
    <2>4. /\ w \in UpRecords /\ w.of = r /\ w.st = "gone"
          /\ up[u].body = "whole" => w.body = "whole"
      BY <2>2 DEF UpRecords, Bodies
    <2> HIDE DEF w
    <2>5. PICK y \in {"aborted", result[u]} : result' = [result EXCEPT ![u] = y]
      BY <1>17 DEF UpGone
    <2>6. y \in Results /\ y # "ok"
      BY <1>4, <1>8, <2>1 DEF Results
    <2>7. /\ slot' \in SlotRecords /\ file' \in [Preps -> FileRecords]
          /\ slot' = slot \/ (slot.st = "active" /\ slot'.st = "free")
          /\ \A q \in Preps : file'[q].tries = file[q].tries /\ (q # r => file'[q] = file[q])
          /\ file'[r].st = "pending" => file[r].st = "pending" \/ file[r].tries < MaxTries
          /\ ~(slot'.st = "active" /\ slot'.of = r /\ file'[r].st = "pending")
      BY <1>0, <2>1, FinalizeSettles
    <2>8. Busy(u) /\ ~Open(r)'
      BY <2>1, <2>7 DEF Busy, Open
    <2> QED
      BY <1>4, <1>5, <1>6, <1>8, <2>1, <2>3, <2>4, <2>5, <2>6, <2>7, <2>8
  <1> QED
    BY <1>10, <1>11, <1>12, <1>13, <1>14, <1>15, <1>16, <1>17 DEF UpStep

-----------------------------------------------------------------------------
(* Steps of web requests, of the bridge and of Dart *)

(* What does not concern slots, writers and files keeps the invariant if it *)
(* keeps the types and passes on what was named before.                     *)
LEMMA QuietStep ==
    ASSUME IInv, CoreTyped', ChanTyped', BridgeTyped', DartTyped',
           UNCHANGED <<slot, prep, guard, writer, result, file>>,
           \A u \in Uploads : /\ up'[u].st = up[u].st /\ up'[u].of = up[u].of
                              /\ up'[u].body = up[u].body,
           \A q \in Channels : \A i \in DOMAIN chan'[q] :
             GoodEvent(chan'[q][i]) /\ (q = "web" <=> chan'[q][i].k = "download"),
           \A i \in DOMAIN sink' : GoodEvent(sink'[i]),
           \A c \in calls' : GoodCall(c),
           ui'.st # "" => ui'.of \in Preps
    PROVE  IInv'
  <1>1. CoreInv'
    BY CoreQuiet DEF IInv
  <1>2. \A u \in Uploads : Begun(u) => Begun(u)'
    BY DEF Begun
  <1>3. Named'
    <2>1. \A q \in Channels : \A i \in DOMAIN chan'[q] :
            GoodEvent(chan[q][i])' /\ (q = "web" <=> chan'[q][i].k = "download")
      BY <1>2 DEF GoodEvent
    <2>2. \A i \in DOMAIN sink' : GoodEvent(sink[i])'
      BY <1>2 DEF GoodEvent
    <2>3. \A c \in calls' : GoodCall(c)'
      BY <1>2 DEF GoodCall
    <2> QED
      BY <2>1, <2>2, <2>3 DEF Named
  <1> QED
    BY <1>1, <1>3, TypedIs DEF IInv

(* What IInv says of types and names, in one place. *)
LEMMA Facts ==
    ASSUME IInv
    PROVE  /\ CoreTyped /\ ChanTyped /\ BridgeTyped /\ DartTyped
           /\ \A q \in Channels : \A i \in DOMAIN chan[q] :
                GoodEvent(chan[q][i]) /\ (q = "web" <=> chan[q][i].k = "download")
           /\ \A i \in DOMAIN sink : GoodEvent(sink[i])
           /\ \A c \in calls : GoodCall(c)
           /\ ui.st # "" => ui.of \in Preps
  BY TypedIs DEF IInv, Named

(* Dropping a responder touches nothing else of the upload. *)
LEMMA DropKeeps ==
    ASSUME CoreTyped, NEW us, up' = DropUploads(us)
    PROVE  /\ up' \in [Uploads -> UpRecords]
           /\ \A u \in Uploads : /\ up'[u].st = up[u].st /\ up'[u].of = up[u].of
                                 /\ up'[u].body = up[u].body
  <1>1. up \in [Uploads -> UpRecords]
    BY DEF CoreTyped
  <1>2. ASSUME NEW u \in Uploads
        PROVE  LET w == [up[u] EXCEPT !.target = "dropped"]
               IN  w \in UpRecords /\ w.st = up[u].st /\ w.of = up[u].of /\ w.body = up[u].body
    BY <1>1 DEF UpRecords
  <1>3. \A u \in Uploads : up'[u] = up[u] \/ up'[u] = [up[u] EXCEPT !.target = "dropped"]
    BY DEF DropUploads
  <1>4. up' = [u \in Uploads |-> up'[u]]
    BY DEF DropUploads
  <1>5. \A u \in Uploads : up'[u] \in UpRecords
    BY <1>1, <1>2, <1>3
  <1> QED
    BY <1>2, <1>3, <1>4, <1>5

(* A loop that takes the head of its channel leaves the others of it. *)
LEMMA TakeKeeps ==
    ASSUME ChanTyped, NEW q \in Channels, chan[q] # <<>>, chan' = [chan EXCEPT ![q] = Tail(@)]
    PROVE  /\ ChanTyped' /\ Head(chan[q]) \in Events /\ 1 \in DOMAIN chan[q]
           /\ Head(chan[q]) = chan[q][1]
           /\ \A c \in Channels : \A i \in DOMAIN chan'[c] :
                \E j \in DOMAIN chan[c] : chan'[c][i] = chan[c][j]
  <1>1. chan \in [Channels -> Seq(Events)] /\ chan[q] \in Seq(Events) /\ ChanCap \in Nat
    BY IsolateAssumption DEF ChanTyped
  <1>2. /\ Tail(chan[q]) \in Seq(Events) /\ Len(Tail(chan[q])) = Len(chan[q]) - 1
        /\ \A i \in DOMAIN Tail(chan[q]) : i + 1 \in DOMAIN chan[q] /\ Tail(chan[q])[i] = chan[q][i + 1]
        /\ Head(chan[q]) \in Events /\ 1 \in DOMAIN chan[q] /\ Head(chan[q]) = chan[q][1]
    BY <1>1
  <1>3. /\ chan' \in [Channels -> Seq(Events)] /\ chan'[q] = Tail(chan[q])
        /\ \A c \in Channels : c # q => chan'[c] = chan[c]
    BY <1>1, <1>2
  <1>4. Len(chan'[q]) =< ChanCap
    <2>1. Len(chan[q]) \in Nat /\ Len(chan[q]) =< ChanCap
      BY <1>1 DEF ChanTyped
    <2> QED
      BY <1>1, <1>2, <1>3, <2>1
  <1>5. ChanTyped'
    BY <1>3, <1>4 DEF ChanTyped
  <1> QED
    BY <1>2, <1>3, <1>5

(* A sequence of events that grows by a good one has good events. *)
LEMMA SinkGrows ==
    ASSUME NEW e \in Events, GoodEvent(e), sink \in Seq(Events), sink' = Append(sink, e),
           \A i \in DOMAIN sink : GoodEvent(sink[i])
    PROVE  sink' \in Seq(Events) /\ \A i \in DOMAIN sink' : GoodEvent(sink'[i])
  <1>1. /\ sink' \in Seq(Events)
        /\ \A i \in DOMAIN sink' : (i \in DOMAIN sink /\ sink'[i] = sink[i]) \/ sink'[i] = e
    OBVIOUS
  <1> QED
    BY <1>1

(* Web requests come, are announced and go; the server stops. *)
LEMMA WebInv ==
    ASSUME IInv, \/ \E d \in Downloads : DlStart(d) \/ DlEmit(d) \/ DlGone(d)
                 \/ Stop \/ StopDone \/ \E q \in Channels : ListenClosed(q)
    PROVE  IInv'
  <1>0. /\ CoreTyped /\ ChanTyped /\ BridgeTyped /\ DartTyped
        /\ \A q \in Channels : \A i \in DOMAIN chan[q] :
             GoodEvent(chan[q][i]) /\ (q = "web" <=> chan[q][i].k = "download")
        /\ \A i \in DOMAIN sink : GoodEvent(sink[i])
        /\ \A c \in calls : GoodCall(c)
        /\ ui.st # "" => ui.of \in Preps
    BY Facts
  <1>1. ASSUME UNCHANGED <<slot, prep, guard, dec, up, writer, result, file, chan, sink, calls, ui>>,
               BridgeTyped', DartTyped'
        PROVE  IInv'
    <2>1. CoreTyped' /\ ChanTyped'
      BY <1>0, <1>1 DEF CoreTyped, ChanTyped
    <2> QED
      BY <1>0, <1>1, <2>1, QuietStep
  <1>2. ASSUME NEW d \in Downloads, DlStart(d) \/ DlGone(d) PROVE IInv'
    <2>1. /\ dl' = [dl EXCEPT ![d] = "sending"] \/ dl' = [dl EXCEPT ![d] = "failed"]
          /\ UNCHANGED <<slot, prep, guard, dec, up, writer, result, file, chan, server, bridge, dart>>
      BY <1>2 DEF DlStart, DlGone
    <2> QED
      BY <1>0, <1>1, <2>1 DEF BridgeTyped, DartTyped, bridge, dart
  <1>3. ASSUME NEW d \in Downloads, DlEmit(d) PROVE IInv'
    <2>1. PICK e : e = Event("download", d)
      OBVIOUS
    <2>2. e \in Events /\ e.k = "download" /\ GoodEvent(e) /\ "web" \in Channels
      BY <2>1 DEF Event, Events, GoodEvent, Channels
    <2>3. /\ Emit("web", e) /\ dl' = [dl EXCEPT ![d] = "waiting"]
          /\ UNCHANGED <<slot, prep, guard, dec, up, writer, result, file, server, bridge, dart>>
      BY <1>3, <2>1 DEF DlEmit
    <2>4. /\ ChanTyped'
          /\ \A c \in Channels : \A i \in DOMAIN chan'[c] :
               \/ i \in DOMAIN chan[c] /\ chan'[c][i] = chan[c][i]
               \/ c = "web" /\ chan'[c][i] = e
      <3>1. ChanTyped /\ e \in Events /\ "web" \in Channels /\ Emit("web", e)
        BY <1>0, <2>2, <2>3
      <3> QED
        BY <3>1, EmitKeeps
    <2>5. \A q \in Channels : \A i \in DOMAIN chan'[q] :
            GoodEvent(chan'[q][i]) /\ (q = "web" <=> chan'[q][i].k = "download")
      <3>1. ASSUME NEW q \in Channels, NEW i \in DOMAIN chan'[q],
                   i \in DOMAIN chan[q], chan'[q][i] = chan[q][i]
            PROVE  GoodEvent(chan'[q][i]) /\ (q = "web" <=> chan'[q][i].k = "download")
        <4>1. GoodEvent(chan[q][i]) /\ (q = "web" <=> chan[q][i].k = "download")
          BY <1>0, <3>1
        <4> QED
          BY <3>1, <4>1 DEF GoodEvent
      <3>2. ASSUME NEW q \in Channels, NEW i \in DOMAIN chan'[q], q = "web", chan'[q][i] = e
            PROVE  GoodEvent(chan'[q][i]) /\ (q = "web" <=> chan'[q][i].k = "download")
        BY <2>2, <3>2 DEF GoodEvent
      <3> QED
        BY <2>4, <3>1, <3>2
    <2>6. CoreTyped' /\ BridgeTyped' /\ DartTyped' /\ UNCHANGED <<sink, calls, ui>>
      BY <1>0, <2>3 DEF CoreTyped, BridgeTyped, DartTyped, bridge, dart
    <2> QED
      BY <1>0, <2>3, <2>4, <2>5, <2>6, QuietStep
  <1>4. CASE Stop
    <2>1. /\ server' = "stopping" /\ holder' = None
          /\ UNCHANGED <<slot, prep, guard, dec, up, writer, result, file, dl, chan,
                         bridge, sink, calls, ui, cancels, astray>>
      BY <1>4 DEF Stop
    <2> QED
      BY <1>0, <1>1, <2>1 DEF BridgeTyped, DartTyped, bridge
  <1>5. CASE StopDone
    <2>1. /\ server' = "stopped"
          /\ UNCHANGED <<slot, prep, guard, dec, up, writer, result, file, dl, chan, bridge, dart>>
      BY <1>5 DEF StopDone
    <2> QED
      BY <1>0, <1>1, <2>1 DEF BridgeTyped, DartTyped, bridge, dart
  <1>6. ASSUME NEW q \in Channels, ListenClosed(q) PROVE IInv'
    <2>1. listen' = listen \ {q} /\ UNCHANGED <<core, pendingDecision, pendingUploads, pendingWeb, dart>>
      BY <1>6 DEF ListenClosed
    <2> QED
      BY <1>0, <1>1, <2>1 DEF BridgeTyped, DartTyped, core, dart
  <1> QED
    BY <1>2, <1>3, <1>4, <1>5, <1>6

(* The loop of listen() hands each event on and keeps the responder it names. *)
LEMMA ListenInv ==
    ASSUME IInv, ListenV2 \/ ListenWeb
    PROVE  IInv'
  <1>0. /\ CoreTyped /\ ChanTyped /\ BridgeTyped /\ DartTyped
        /\ \A q \in Channels : \A i \in DOMAIN chan[q] :
             GoodEvent(chan[q][i]) /\ (q = "web" <=> chan[q][i].k = "download")
        /\ \A i \in DOMAIN sink : GoodEvent(sink[i])
        /\ \A c \in calls : GoodCall(c)
        /\ ui.st # "" => ui.of \in Preps
    BY Facts
  <1>1. ASSUME NEW q \in Channels, chan[q] # <<>>, chan' = [chan EXCEPT ![q] = Tail(@)],
               sink' = Append(sink, Head(chan[q])),
               up' = up \/ (\E us : up' = DropUploads(us)), BridgeTyped',
               UNCHANGED <<slot, prep, guard, dec, writer, result, file, calls, ui, holder, cancels, astray>>
        PROVE  IInv'
    <2>1. PICK e : e = Head(chan[q])
      OBVIOUS
    <2>2. /\ ChanTyped' /\ e \in Events /\ 1 \in DOMAIN chan[q] /\ e = chan[q][1]
          /\ \A c \in Channels : \A i \in DOMAIN chan'[c] :
                \E j \in DOMAIN chan[c] : chan'[c][i] = chan[c][j]
      BY <1>0, <1>1, <2>1, TakeKeeps
    <2>3. GoodEvent(e)
      BY <1>0, <2>2
    <2>4. sink \in Seq(Events)
      BY <1>0 DEF DartTyped
    <2>5. sink' \in Seq(Events) /\ \A i \in DOMAIN sink' : GoodEvent(sink'[i])
      BY <1>0, <1>1, <2>1, <2>2, <2>3, <2>4, SinkGrows
    <2>6. /\ up' \in [Uploads -> UpRecords]
          /\ \A u \in Uploads : /\ up'[u].st = up[u].st /\ up'[u].of = up[u].of
                                /\ up'[u].body = up[u].body
      <3>1. CASE up' = up
        BY <1>0, <3>1 DEF CoreTyped
      <3>2. ASSUME NEW us, up' = DropUploads(us)
            PROVE  /\ up' \in [Uploads -> UpRecords]
                   /\ \A u \in Uploads : /\ up'[u].st = up[u].st /\ up'[u].of = up[u].of
                                         /\ up'[u].body = up[u].body
        BY <1>0, <3>2, DropKeeps
      <3> QED
        BY <1>1, <3>1, <3>2
    <2>7. CoreTyped'
      BY <1>0, <1>1, <2>6 DEF CoreTyped
    <2>8. DartTyped'
      BY <1>0, <1>1, <2>5 DEF DartTyped
    <2>9. \A c \in Channels : \A i \in DOMAIN chan'[c] :
            GoodEvent(chan'[c][i]) /\ (c = "web" <=> chan'[c][i].k = "download")
      <3> SUFFICES ASSUME NEW c \in Channels, NEW i \in DOMAIN chan'[c]
                   PROVE  GoodEvent(chan'[c][i]) /\ (c = "web" <=> chan'[c][i].k = "download")
        OBVIOUS
      <3>1. PICK j \in DOMAIN chan[c] : chan'[c][i] = chan[c][j]
        BY <2>2
      <3>2. GoodEvent(chan[c][j]) /\ (c = "web" <=> chan[c][j].k = "download")
        BY <1>0
      <3> QED
        BY <3>1, <3>2 DEF GoodEvent
    <2> QED
      BY <1>0, <1>1, <2>2, <2>5, <2>6, <2>7, <2>8, <2>9, QuietStep
  <1>2. CASE ListenV2
    <2>1. PICK e : e = Head(chan["v2"])
      OBVIOUS
    <2>2. PICK r : r = IF e.k = "upload" THEN up[e.x].of ELSE e.x
      OBVIOUS
    <2>3. /\ chan["v2"] # <<>> /\ chan' = [chan EXCEPT !["v2"] = Tail(@)] /\ sink' = Append(sink, e)
          /\ UNCHANGED <<slot, prep, guard, dec, writer, result, file, dl, server, listen,
                         pendingWeb, calls, ui, holder, cancels, astray>>
          /\ "v2" \in Channels
      BY <1>2, <2>1 DEF ListenV2, Channels
    <2>4. \/ e.k = "prepare" /\ pendingDecision' = r /\ UNCHANGED <<up, pendingUploads>>
          \/ /\ e.k = "aborted" /\ pendingDecision' = AfterAborted(r)
             /\ UNCHANGED <<up, pendingUploads>>
          \/ /\ e.k = "upload" /\ up' = DropUploads({pendingUploads[r]})
             /\ pendingUploads' = [pendingUploads EXCEPT ![r] = e.x] /\ UNCHANGED pendingDecision
          \/ /\ e.k = "end" /\ up' = DropUploads({pendingUploads[r]})
             /\ pendingUploads' = [pendingUploads EXCEPT ![r] = None] /\ UNCHANGED pendingDecision
      BY <1>2, <2>1, <2>2, Zenon DEF ListenV2
    <2>5. e \in Events /\ GoodEvent(e)
      <3>1. 1 \in DOMAIN chan["v2"] /\ e = chan["v2"][1] /\ e \in Events
        BY <1>0, <2>1, <2>3, TakeKeeps
      <3> QED
        BY <1>0, <2>3, <3>1
    <2>6. /\ e.k = "prepare" => r \in Preps
          /\ e.k = "upload" => e.x \in Uploads
      BY <2>2, <2>5 DEF GoodEvent
    <2>7. BridgeTyped'
      <3>1. pendingDecision \in Preps \cup {None} => AfterAborted(r) \in Preps \cup {None}
        BY DEF AfterAborted
      <3> QED
        BY <1>0, <2>3, <2>4, <2>6, <3>1 DEF BridgeTyped
    <2>8. up' = up \/ \E us : up' = DropUploads(us)
      BY <2>4
    <2> QED
      BY <1>1, <2>1, <2>3, <2>7, <2>8
  <1>3. CASE ListenWeb
    <2>1. PICK e : e = Head(chan["web"])
      OBVIOUS
    <2>2. PICK d : d = pendingWeb[KeyOf[e.x]]
      OBVIOUS
    <2>3. /\ chan["web"] # <<>> /\ chan' = [chan EXCEPT !["web"] = Tail(@)] /\ sink' = Append(sink, e)
          /\ dl' = DropWeb(d) /\ pendingWeb' = [pendingWeb EXCEPT ![KeyOf[e.x]] = e.x]
          /\ UNCHANGED <<slot, prep, guard, dec, up, writer, result, file, server, listen,
                         pendingDecision, pendingUploads, calls, ui, holder, cancels, astray>>
          /\ "web" \in Channels
      BY <1>3, <2>1, <2>2 DEF ListenWeb, Channels
    <2>4. e.x \in Downloads
      <3>1. 1 \in DOMAIN chan["web"] /\ e = chan["web"][1]
        BY <1>0, <2>1, <2>3, TakeKeeps
      <3> QED
        BY <1>0, <2>3, <3>1 DEF GoodEvent
    <2>5. /\ pendingWeb' \in [Keys -> Downloads \cup {None}]
          /\ d \in Downloads \cup {None}
      BY <1>0, <2>2, <2>3, <2>4 DEF BridgeTyped, Keys
    <2>6. dl' \in [Downloads -> {"idle", "sending", "waiting", "answered", "failed"}]
      BY <1>0, <2>3, <2>5 DEF BridgeTyped, DropWeb
    <2>7. BridgeTyped'
      BY <1>0, <2>3, <2>5, <2>6 DEF BridgeTyped
    <2> QED
      BY <1>1, <2>1, <2>3, <2>7
  <1> QED
    BY <1>2, <1>3

(* A call of Dart is about what an event named, or about the request shown. *)
LEMMA DartInv ==
    ASSUME IInv, DartEvent \/ UserDecides \/ UserCancels
    PROVE  IInv'
  <1>0. /\ CoreTyped /\ ChanTyped /\ BridgeTyped /\ DartTyped
        /\ \A q \in Channels : \A i \in DOMAIN chan[q] :
             GoodEvent(chan[q][i]) /\ (q = "web" <=> chan[q][i].k = "download")
        /\ \A i \in DOMAIN sink : GoodEvent(sink[i])
        /\ \A c \in calls : GoodCall(c)
        /\ ui.st # "" => ui.of \in Preps
        /\ ui \in [of : Preps \cup {None}, st : {"", "waiting", "receiving"}]
    BY Facts DEF DartTyped
  <1>1. ASSUME UNCHANGED <<core, bridge>>, DartTyped',
               \A i \in DOMAIN sink' : GoodEvent(sink'[i]),
               calls' = calls \/ (\E c : GoodCall(c) /\ calls' = calls \cup {c}),
               ui'.st # "" => ui'.of \in Preps
        PROVE  IInv'
    <2>1. CoreTyped' /\ ChanTyped' /\ BridgeTyped'
      BY <1>0, <1>1 DEF CoreTyped, ChanTyped, BridgeTyped, core, bridge
    <2>2. \A c \in calls' : GoodCall(c)
      BY <1>0, <1>1
    <2> QED
      BY <1>0, <1>1, <2>1, <2>2, QuietStep DEF core
  <1>2. NoUi \in [of : Preps \cup {None}, st : {"", "waiting", "receiving"}] /\ NoUi.st = ""
    BY DEF NoUi
  <1>3. CASE DartEvent
    <2>1. PICK e : e = Head(sink)
      OBVIOUS
    <2>2. sink # <<>> /\ sink' = Tail(sink) /\ UNCHANGED <<core, bridge, cancels, astray>>
      BY <1>3 DEF DartEvent
    <2>3. \/ /\ e.k = "prepare"
             /\ holder' = None /\ ui' = [of |-> e.x, st |-> "waiting"] /\ UNCHANGED calls
          \/ /\ e.k = "aborted"
             /\ ui' = (IF ui = [of |-> e.x, st |-> "waiting"] THEN NoUi ELSE ui)
             /\ UNCHANGED <<holder, calls>>
          \/ /\ e.k = "end"
             /\ holder' = (IF holder = e.x THEN None ELSE holder)
             /\ ui' = (IF ui.of = e.x THEN NoUi ELSE ui) /\ UNCHANGED calls
          \/ /\ e.k = "upload"
             /\ \E c \in {Event("respond", e.x), Event("fail", e.x), Event("cancel", up[e.x].of)} :
                  calls' = calls \cup {c}
             /\ UNCHANGED <<holder, ui>>
          \/ /\ e.k = "download" /\ calls' = calls \cup {Event("content", e.x)}
             /\ UNCHANGED <<holder, ui>>
      BY <1>3, <2>1, Zenon DEF DartEvent
    <2>4. /\ e = sink[1] /\ 1 \in DOMAIN sink /\ sink' \in Seq(Events)
          /\ \A i \in DOMAIN sink' : i + 1 \in DOMAIN sink /\ sink'[i] = sink[i + 1]
      <3>1. sink \in Seq(Events)
        BY <1>0 DEF DartTyped
      <3> QED
        BY <2>1, <2>2, <3>1
    <2>5. GoodEvent(e) /\ \A i \in DOMAIN sink' : GoodEvent(sink'[i])
      BY <1>0, <2>4
    <2>6. e.k = "upload" => up[e.x].of \in Preps
      BY <2>5 DEF GoodEvent, IInv, CoreInv, Sessions
    <2>7. calls' = calls \/ \E c \in Calls : GoodCall(c) /\ calls' = calls \cup {c}
      <3>1. ASSUME e.k = "upload",
                   NEW c \in {Event("respond", e.x), Event("fail", e.x), Event("cancel", up[e.x].of)}
            PROVE  c \in Calls /\ GoodCall(c)
        BY <2>5, <2>6, <3>1 DEF GoodEvent, GoodCall, Event, Calls
      <3>2. ASSUME e.k = "download" PROVE Event("content", e.x) \in Calls /\ GoodCall(Event("content", e.x))
        BY <2>5, <3>2 DEF GoodEvent, GoodCall, Event, Calls
      <3> QED
        BY <2>3, <3>1, <3>2
    <2>8. /\ ui' \in [of : Preps \cup {None}, st : {"", "waiting", "receiving"}]
          /\ ui'.st # "" => ui'.of \in Preps
          /\ holder' \in Preps \cup {None}
      <3>1. e.k \in {"prepare", "aborted", "end"} => e.x \in Preps
        BY <2>5 DEF GoodEvent
      <3>2. ASSUME e.k = "prepare" PROVE [of |-> e.x, st |-> "waiting"].of \in Preps
                /\ [of |-> e.x, st |-> "waiting"] \in [of : Preps \cup {None}, st : {"", "waiting", "receiving"}]
        BY <3>1, <3>2
      <3>3. /\ ui' \in [of : Preps \cup {None}, st : {"", "waiting", "receiving"}]
            /\ ui'.st # "" => ui'.of \in Preps
        BY <1>0, <1>2, <2>3, <3>2
      <3>4. holder' \in Preps \cup {None}
        BY <1>0, <2>3 DEF DartTyped
      <3> QED
        BY <3>3, <3>4
    <2>9. DartTyped'
      BY <1>0, <2>2, <2>4, <2>7, <2>8 DEF DartTyped
    <2> QED
      BY <1>1, <2>2, <2>5, <2>7, <2>8, <2>9
  <1>4. CASE UserDecides \/ UserCancels
    <2>1. PICK c \in {Event("accept", ui.of), Event("decline", ui.of), Event("cancel", ui.of)} :
            calls' = calls \cup {c}
      BY <1>4 DEF UserDecides, UserCancels
    <2>2. /\ ui.of \in Preps /\ UNCHANGED <<core, bridge, sink, holder, astray>>
          /\ ui' = [ui EXCEPT !.st = "receiving"] \/ ui' = NoUi
      BY <1>0, <1>4 DEF UserDecides, UserCancels
    <2>3. c \in Calls /\ GoodCall(c)
      BY <2>1, <2>2 DEF Event, Calls, GoodCall
    <2>4. /\ ui' \in [of : Preps \cup {None}, st : {"", "waiting", "receiving"}]
          /\ ui'.st # "" => ui'.of \in Preps
      BY <1>0, <1>2, <2>2
    <2>5. cancels' \in 0..MaxCancel
      <3>1. cancels' = cancels \/ (cancels < MaxCancel /\ cancels' = cancels + 1)
        BY <1>4 DEF UserDecides, UserCancels
      <3>2. cancels \in 0..MaxCancel /\ MaxCancel \in Nat
        BY <1>0, IsolateAssumption DEF DartTyped
      <3> QED
        BY <3>1, <3>2
    <2>6. DartTyped'
      BY <1>0, <2>1, <2>2, <2>3, <2>4, <2>5 DEF DartTyped
    <2>7. \A i \in DOMAIN sink' : GoodEvent(sink'[i])
      BY <1>0, <2>2
    <2> QED
      BY <1>1, <2>1, <2>2, <2>3, <2>4, <2>6, <2>7
  <1> QED
    BY <1>3, <1>4

(* A call of Dart answers a responder of a table, or frees a slot; what it *)
(* leaves under way is about the same session or upload.                   *)
LEMMA CallInv ==
    ASSUME IInv, NEW c \in calls,
           \/ CallDecide(c) \/ CallTarget(c) \/ CallSaved(c)
           \/ CallCancel(c) \/ CallForget(c) \/ CallContent(c)
    PROVE  IInv'
  <1>0. /\ CoreTyped /\ ChanTyped /\ BridgeTyped /\ DartTyped
        /\ \A q \in Channels : \A i \in DOMAIN chan[q] :
             GoodEvent(chan[q][i]) /\ (q = "web" <=> chan[q][i].k = "download")
        /\ \A i \in DOMAIN sink : GoodEvent(sink[i])
        /\ \A a \in calls : GoodCall(a)
        /\ ui.st # "" => ui.of \in Preps
    BY Facts
  <1>1. /\ GoodCall(c) /\ c \in Calls /\ calls \subseteq Calls
        /\ up \in [Uploads -> UpRecords]
        /\ pendingDecision \in Preps \cup {None}
        /\ pendingUploads \in [Preps -> Uploads \cup {None}]
        /\ pendingWeb \in [Keys -> Downloads \cup {None}]
    BY <1>0 DEF CoreTyped, BridgeTyped, DartTyped
  <1>2. ASSUME UNCHANGED <<slot, prep, guard, writer, result, file, chan, sink, ui>>,
               CoreTyped', BridgeTyped', DartTyped',
               \A u \in Uploads : /\ up'[u].st = up[u].st /\ up'[u].of = up[u].of
                                  /\ up'[u].body = up[u].body,
               calls' = calls \ {c} \/ (\E a : GoodCall(a) /\ calls' = (calls \ {c}) \cup {a})
        PROVE  IInv'
    <2>1. ChanTyped'
      BY <1>0, <1>2 DEF ChanTyped
    <2>2. \A a \in calls' : GoodCall(a)
      BY <1>0, <1>2
    <2> QED
      BY <1>0, <1>2, <2>1, <2>2, QuietStep
  <1>3. CASE CallDecide(c)
    <2>1. /\ c.k \in {"accept", "decline"} /\ calls' = calls \ {c}
          /\ holder' = (IF c.k = "accept" THEN c.x ELSE None) /\ pendingDecision' = None
          /\ UNCHANGED <<slot, prep, guard, up, writer, result, file, dl, chan, server, listen,
                         pendingUploads, pendingWeb, sink, ui, cancels>>
      BY <1>3 DEF CallDecide
    <2>2. \/ dec' = dec
          \/ \E p \in Preps, d \in Decisions : dec' = [dec EXCEPT ![p] = d]
      BY <1>1, <1>3 DEF CallDecide, Decisions
    <2>3. astray' = astray \/ \E p \in Preps : astray' = astray \cup {p}
      BY <1>1, <1>3 DEF CallDecide
    <2>4. holder' \in Preps \cup {None}
      BY <1>1, <2>1 DEF GoodCall
    <2>5. CoreTyped'
      BY <1>0, <2>1, <2>2 DEF CoreTyped
    <2>6. BridgeTyped' /\ DartTyped'
      BY <1>0, <2>1, <2>3, <2>4 DEF BridgeTyped, DartTyped
    <2> QED
      BY <1>2, <2>1, <2>5, <2>6
  <1>4. CASE CallTarget(c)
    <2>1. PICK r : r = up[c.x].of
      OBVIOUS
    <2>2. PICK u : u = pendingUploads[r]
      OBVIOUS
    <2>3. /\ c.k \in {"respond", "fail"}
          /\ pendingUploads' = [pendingUploads EXCEPT ![r] = None]
          /\ UNCHANGED <<slot, prep, guard, dec, writer, result, file, dl, chan, server, listen,
                         pendingDecision, pendingWeb, sink, ui, holder, cancels, astray>>
          /\ \/ /\ u # None /\ up[u].st = "waiting" /\ up' = [up EXCEPT ![u].target = "given"]
                /\ calls' = (calls \ {c}) \cup {Event("save", u)}
             \/ up' = DropUploads({u}) /\ calls' = calls \ {c}
      BY <1>4, <2>1, <2>2, Zenon DEF CallTarget
    <2>4. r \in Preps /\ u \in Uploads \cup {None}
      BY <1>1, <2>1, <2>2, <2>3 DEF GoodCall, IInv, CoreInv, Sessions
    <2>5. /\ up' \in [Uploads -> UpRecords]
          /\ \A v \in Uploads : /\ up'[v].st = up[v].st /\ up'[v].of = up[v].of
                                /\ up'[v].body = up[v].body
          /\ calls' \subseteq Calls
          /\ calls' = calls \ {c} \/ \E a : GoodCall(a) /\ calls' = (calls \ {c}) \cup {a}
      <3>1. ASSUME u # None, up[u].st = "waiting", up' = [up EXCEPT ![u].target = "given"],
                   calls' = (calls \ {c}) \cup {Event("save", u)}
            PROVE  /\ up' \in [Uploads -> UpRecords]
                   /\ \A v \in Uploads : /\ up'[v].st = up[v].st /\ up'[v].of = up[v].of
                                         /\ up'[v].body = up[v].body
                   /\ calls' \subseteq Calls
                   /\ calls' = calls \ {c} \/ \E a : GoodCall(a) /\ calls' = (calls \ {c}) \cup {a}
        <4> DEFINE w == [up[u] EXCEPT !.target = "given"]
        <4>1. w \in UpRecords /\ w.st = up[u].st /\ w.of = up[u].of /\ w.body = up[u].body
          BY <1>1, <2>4, <3>1 DEF UpRecords
        <4>2. up' = [up EXCEPT ![u] = w]
          BY <3>1, Zenon
        <4> HIDE DEF w
        <4>3. GoodCall(Event("save", u)) /\ Event("save", u) \in Calls
          BY <2>4, <3>1 DEF GoodCall, Event, Calls, Begun
        <4> QED
          BY <1>1, <2>4, <3>1, <4>1, <4>2, <4>3
      <3>2. ASSUME up' = DropUploads({u}), calls' = calls \ {c}
            PROVE  /\ up' \in [Uploads -> UpRecords]
                   /\ \A v \in Uploads : /\ up'[v].st = up[v].st /\ up'[v].of = up[v].of
                                         /\ up'[v].body = up[v].body
                   /\ calls' \subseteq Calls
                   /\ calls' = calls \ {c} \/ \E a : GoodCall(a) /\ calls' = (calls \ {c}) \cup {a}
        <4>1. /\ up' \in [Uploads -> UpRecords]
              /\ \A v \in Uploads : /\ up'[v].st = up[v].st /\ up'[v].of = up[v].of
                                    /\ up'[v].body = up[v].body
          BY <1>0, <3>2, DropKeeps
        <4> QED
          BY <1>1, <3>2, <4>1
      <3> QED
        BY <2>3, <3>1, <3>2
    <2>6. CoreTyped' /\ BridgeTyped' /\ DartTyped'
      BY <1>0, <2>3, <2>4, <2>5 DEF CoreTyped, BridgeTyped, DartTyped
    <2> QED
      BY <1>2, <2>3, <2>5, <2>6
  <1>5. CASE CallSaved(c)
    <2>1. calls' = calls \ {c} /\ UNCHANGED <<core, bridge, sink, ui, holder, cancels, astray>>
      BY <1>5 DEF CallSaved
    <2>2. CoreTyped' /\ BridgeTyped' /\ DartTyped'
      BY <1>0, <2>1 DEF CoreTyped, BridgeTyped, DartTyped, core, bridge
    <2> QED
      BY <1>2, <2>1, <2>2 DEF core
  <1>6. CASE CallForget(c)
    <2>1. /\ c.k = "forget" /\ up' = DropUploads(Forget(c.x)) /\ calls' = calls \ {c}
          /\ \/ UNCHANGED pendingUploads
             \/ pendingUploads' = [pendingUploads EXCEPT ![c.x] = None]
          /\ UNCHANGED <<slot, prep, guard, dec, writer, result, file, dl, chan, server, listen,
                         pendingDecision, pendingWeb, sink, ui, holder, cancels, astray>>
      BY <1>1, <1>6 DEF CallForget
    <2>2. /\ up' \in [Uploads -> UpRecords]
          /\ \A v \in Uploads : /\ up'[v].st = up[v].st /\ up'[v].of = up[v].of
                                /\ up'[v].body = up[v].body
      BY <1>0, <2>1, DropKeeps
    <2>3. CoreTyped' /\ BridgeTyped' /\ DartTyped'
      <3>1. CoreTyped'
        BY <1>0, <2>1, <2>2 DEF CoreTyped
      <3>2. pendingUploads' \in [Preps -> Uploads \cup {None}]
        BY <1>1, <2>1
      <3>3. BridgeTyped'
        BY <1>0, <2>1, <3>2 DEF BridgeTyped
      <3>4. DartTyped'
        BY <1>0, <2>1 DEF DartTyped
      <3> QED
        BY <3>1, <3>3, <3>4
    <2> QED
      BY <1>2, <2>1, <2>2, <2>3
  <1>7. CASE CallContent(c)
    <2>1. PICK d : d = pendingWeb[KeyOf[c.x]]
      OBVIOUS
    <2>2. /\ c.k = "content" /\ calls' = calls \ {c}
          /\ pendingWeb' = [pendingWeb EXCEPT ![KeyOf[c.x]] = None]
          /\ UNCHANGED <<slot, prep, guard, dec, up, writer, result, file, chan, server, listen,
                         pendingDecision, pendingUploads, sink, ui, holder, cancels>>
      BY <1>7 DEF CallContent
    <2>3. c.x \in Downloads /\ d \in Downloads \cup {None}
      BY <1>1, <2>1, <2>2 DEF GoodCall, Keys
    <2>4. /\ dl' = dl \/ (d # None /\ \E s \in {"answered", "failed"} : dl' = [dl EXCEPT ![d] = s])
          /\ astray' = astray \/ (d # None /\ astray' = astray \cup {d})
      BY <1>7, <2>1 DEF CallContent, Content
    <2>5. CoreTyped' /\ BridgeTyped' /\ DartTyped'
      <3>1. CoreTyped'
        BY <1>0, <2>2 DEF CoreTyped
      <3>2. /\ pendingWeb' \in [Keys -> Downloads \cup {None}]
            /\ astray' \subseteq Preps \cup Downloads
        BY <1>0, <1>1, <2>2, <2>3, <2>4 DEF DartTyped
      <3>3. dl' \in [Downloads -> {"idle", "sending", "waiting", "answered", "failed"}]
        BY <1>0, <2>3, <2>4 DEF BridgeTyped
      <3>4. BridgeTyped'
        BY <1>0, <2>2, <3>2, <3>3 DEF BridgeTyped
      <3>5. DartTyped'
        BY <1>0, <2>2, <3>2 DEF DartTyped
      <3> QED
        BY <3>1, <3>4, <3>5
    <2> QED
      BY <1>2, <2>2, <2>5
  <1>8. CASE CallCancel(c)
    <2>1. /\ c.k = "cancel"
          /\ slot' = (IF slot = [of |-> c.x, st |-> "active"] THEN FreeSlot ELSE slot)
          /\ holder' = (IF holder = c.x THEN None ELSE holder)
          /\ calls' = (calls \ {c}) \cup {Event("forget", c.x)}
          /\ UNCHANGED <<prep, guard, dec, up, writer, result, file, dl, chan, server,
                         bridge, sink, ui, cancels, astray>>
      BY <1>8 DEF CallCancel
    <2>2. /\ slot \in SlotRecords /\ slot' \in SlotRecords
          /\ slot' = slot \/ (slot.st = "active" /\ slot'.st = "free")
      <3>1. slot \in SlotRecords
        BY <1>0 DEF CoreTyped
      <3>2. FreeSlot \in SlotRecords /\ FreeSlot.st = "free"
        BY DEF FreeSlot, SlotRecords
      <3>3. slot' = slot \/ (slot.st = "active" /\ slot' = FreeSlot)
        BY <2>1
      <3> QED
        BY <3>1, <3>2, <3>3
    <2>3. GoodCall(Event("forget", c.x)) /\ Event("forget", c.x) \in Calls
      BY <1>1, <2>1 DEF GoodCall, Event, Calls
    <2>4. CoreTyped'
      BY <1>0, <2>1, <2>2 DEF CoreTyped
    <2>5. ChanTyped' /\ BridgeTyped' /\ DartTyped'
      BY <1>0, <1>1, <2>1, <2>3 DEF ChanTyped, BridgeTyped, DartTyped, bridge
    <2>6. SlotOwned'
      BY <2>1, <2>2 DEF IInv, CoreInv, SlotOwned
    <2>7. Sessions' /\ Written' /\ OkMeansWritten'
      BY <2>1 DEF IInv, CoreInv, Sessions, Begun, Written, OkMeansWritten
    <2>8. OneAttempt'
      BY <2>1, <2>2 DEF IInv, CoreInv, OneAttempt, Busy, Open
    <2>9. Named'
      <3>1. \A q \in Channels : \A i \in DOMAIN chan'[q] :
              GoodEvent(chan[q][i])' /\ (q = "web" <=> chan'[q][i].k = "download")
        BY <1>0, <2>1 DEF GoodEvent, Begun
      <3>2. \A i \in DOMAIN sink' : GoodEvent(sink[i])'
        BY <1>0, <2>1 DEF GoodEvent, Begun
      <3>3. \A a \in calls' : GoodCall(a)'
        BY <1>0, <2>1, <2>3 DEF GoodCall, Begun
      <3> QED
        BY <1>0, <2>1, <3>1, <3>2, <3>3 DEF Named
    <2> QED
      BY <2>4, <2>5, <2>6, <2>7, <2>8, <2>9, TypedIs DEF IInv, CoreInv
  <1> QED
    BY <1>3, <1>4, <1>5, <1>6, <1>7, <1>8

-----------------------------------------------------------------------------
(* The theorems *)

(* start_server begins with empty tables and no session. *)
LEMMA InitInv == Init => IInv
  <1> SUFFICES ASSUME Init PROVE IInv
    OBVIOUS
  <1>1. CoreTyped
    <2>1. slot \in SlotRecords
      BY DEF Init, FreeSlot, SlotRecords
    <2>2. up \in [Uploads -> UpRecords]
      BY DEF Init, UpRecords, UpStages, Bodies
    <2>3. file \in [Preps -> FileRecords]
      <3>1. 0 \in 0..MaxTries
        BY IsolateAssumption
      <3> QED
        BY <3>1 DEF Init, FileRecords
    <2> QED
      BY <2>1, <2>2, <2>3 DEF Init, CoreTyped, PrepStages, Decisions, Results
  <1>2. ChanTyped
    <2>1. ChanCap \in Nat /\ chan = [q \in Channels |-> <<>>]
      BY IsolateAssumption DEF Init
    <2> QED
      BY <2>1 DEF ChanTyped
  <1>3. BridgeTyped
    BY DEF Init, BridgeTyped
  <1>4. DartTyped
    <2>1. 0 \in 0..MaxCancel
      BY IsolateAssumption
    <2>2. NoUi \in [of : Preps \cup {None}, st : {"", "waiting", "receiving"}]
      BY DEF NoUi
    <2>3. sink \in Seq(Events) /\ calls \subseteq Calls
      <3>1. sink = <<>> /\ calls = {}
        BY DEF Init
      <3>2. <<>> \in Seq(Events)
        OBVIOUS
      <3> QED
        BY <3>1, <3>2
    <2> QED
      BY <2>1, <2>2, <2>3 DEF Init, DartTyped
  <1>5. Named
    <2>1. \A q \in Channels : chan[q] = <<>>
      BY DEF Init
    <2>2. \A i : i \notin DOMAIN <<>>
      OBVIOUS
    <2>3. /\ \A q \in Channels : \A i \in DOMAIN chan[q] : i \in DOMAIN <<>>
          /\ \A i \in DOMAIN sink : i \in DOMAIN <<>>
          /\ calls = {} /\ ui.st = ""
      BY <2>1 DEF Init, NoUi
    <2> QED
      BY <2>2, <2>3 DEF Named
  <1>6. CoreInv
    BY DEF Init, CoreInv, SlotOwned, Sessions, Written, OneAttempt, OkMeansWritten, FreeSlot, Busy, Begun
  <1> QED
    BY <1>1, <1>2, <1>3, <1>4, <1>5, <1>6, TypedIs DEF IInv

(* Every step of the core, the bridge, Dart and the writers keeps the invariant. *)
LEMMA NextInv == IInv /\ [Next]_vars => IInv'
  <1> SUFFICES ASSUME IInv, [Next]_vars PROVE IInv'
    OBVIOUS
  <1>1. ASSUME NEW r \in Preps, PrepStep(r) \/ PrepClaim(r) \/ PrepGone(r) PROVE IInv'
    BY <1>1, PrepInv
  <1>2. ASSUME NEW u \in Uploads, UpStep(u) \/ UpGone(u) \/ UpBody(u) \/ WriterFails(u) PROVE IInv'
    BY <1>2, UpInv
  <1>3. ASSUME NEW u \in Uploads, NEW r \in Preps, UpStart(u, r) PROVE IInv'
    BY <1>3, UpStartInv
  <1>4. CASE \/ \E d \in Downloads : DlStart(d) \/ DlEmit(d) \/ DlGone(d)
             \/ Stop \/ StopDone \/ \E q \in Channels : ListenClosed(q)
    BY <1>4, WebInv
  <1>5. CASE ListenV2 \/ ListenWeb
    BY <1>5, ListenInv
  <1>6. CASE DartEvent \/ UserDecides \/ UserCancels
    BY <1>6, DartInv
  <1>7. CASE CallStep
    BY <1>7, CallInv DEF CallStep
  <1>8. CASE UNCHANGED vars
    <2>1. UNCHANGED <<core, bridge, dart>>
      BY <1>8 DEF vars
    <2>2. CoreTyped /\ ChanTyped /\ BridgeTyped /\ DartTyped
      BY Facts
    <2>3. CoreTyped' /\ ChanTyped' /\ BridgeTyped' /\ DartTyped'
      BY <2>1, <2>2 DEF CoreTyped, ChanTyped, BridgeTyped, DartTyped, core, bridge, dart
    <2>4. UNCHANGED <<slot, prep, guard, up, writer, result, file, chan, sink, calls, ui>>
      BY <2>1 DEF core, dart
    <2>5. \A q \in Channels : \A i \in DOMAIN chan'[q] :
            GoodEvent(chan'[q][i]) /\ (q = "web" <=> chan'[q][i].k = "download")
      <3>1. \A q \in Channels : \A i \in DOMAIN chan[q] :
              GoodEvent(chan[q][i]) /\ (q = "web" <=> chan[q][i].k = "download")
        BY Facts
      <3> QED
        BY <2>4, <3>1
    <2>6. /\ \A i \in DOMAIN sink' : GoodEvent(sink'[i])
          /\ \A c \in calls' : GoodCall(c)
          /\ ui'.st # "" => ui'.of \in Preps
      BY <2>4, Facts
    <2> QED
      BY <2>3, <2>4, <2>5, <2>6, QuietStep
  <1> QED
    BY <1>1, <1>2, <1>3, <1>4, <1>5, <1>6, <1>7, <1>8 DEF Next, ListenStep

(* The inductive invariant: prompts own the session slot, uploads belong to *)
(* accepted sessions, at most one attempt at a file is at work, a writer    *)
(* succeeds with a whole body only, events and calls name what exists.      *)
THEOREM Invariance == Spec => []IInv
  <1>1. Init => IInv
    BY InitInv
  <1>2. IInv /\ [Next]_vars => IInv'
    BY NextInv
  <1> QED
    BY <1>1, <1>2, PTL DEF Spec

(* save_req_to_target and its detached writer: no two writers are at work on *)
(* one target, and respond_file_upload reports as received only what was     *)
(* written whole.                                                            *)
THEOREM WritersAreSound == Spec => []WritersSound
  <1>1. IInv => WritersSound
    BY DEF IInv, CoreInv, OneAttempt, Busy, OneWriterPerTarget, WritersSound
  <1> QED
    BY <1>1, Invariance, PTL
=============================================================================
