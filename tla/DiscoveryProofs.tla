-------------------------- MODULE DiscoveryProofs --------------------------
(***************************************************************************)
(* Proofs about the three modules that find other devices: Discovery, for  *)
(* every set of peers, calls, interfaces and hosts and every number of     *)
(* confirmations; Multicast, for every number of instances and sockets,    *)
(* every capacity of the channels and every limit of receive errors; and   *)
(* DeviceStore, for every finite set of devices and channels, every length *)
(* of the log and every capacity.  The three share no variable and no      *)
(* constant: each theorem is about one of them.                            *)
(***************************************************************************)
EXTENDS Discovery, Multicast, DeviceStore, FiniteSetTheorems, SequenceTheorems,
        WellFoundedInduction, TLAPS

(***************************************************************************)
(* Discovery: the store of peers, scans and staged discovery.              *)
(***************************************************************************)

Running(c, i) == scan[c][i].pc = "run"

(* scanning names exactly the interfaces with a running scan, and no        *)
(* interface has two.                                                       *)
ScanningOwned ==
    \A i \in Ifaces :
        /\ \A c \in Calls : Running(c, i) => i \in scanning
        /\ i \in scanning => \E c \in Calls : Running(c, i)
        /\ \A c, d \in Calls : Running(c, i) /\ Running(d, i) => c = d

(* The count that a staged discovery has read was not passed by the count   *)
(* of confirmations as long as nothing was confirmed since, and only then.  *)
SnapshotTells ==
    \A c \in Staged :
        staged[c].pc \in {"known", "grace"} =>
            /\ staged[c].snapshot =< count
            /\ staged[c].snapshot = count => c \in silent

IInv == TypeOK /\ ScanningOwned /\ SnapshotTells

(* The invariant holds initially. *)
LEMMA InitInv == Init => IInv
  <1> SUFFICES ASSUME Init PROVE IInv
    OBVIOUS
  <1>1. TypeOK
    <2>1. MaxFound \in Nat /\ Bursts \in Nat /\ EventCap \in Nat
      BY DiscoveryConstants
    <2>2. Nothing \in Work(Hosts) /\ Nothing \in Work(Favorites)
      BY DEF Nothing, Work
    <2>3. scan \in [Calls -> [Ifaces -> ScanState]]
      BY <2>2 DEF Init, ScanState
    <2>4. staged \in [Staged -> StagedState]
      BY <2>1, <2>2 DEF Init, StagedState
    <2> QED
      BY <2>1, <2>3, <2>4 DEF Init, TypeOK
  <1>2. ScanningOwned
    BY DEF Init, ScanningOwned, Running
  <1>3. SnapshotTells
    BY DEF Init, SnapshotTells
  <1> QED
    BY <1>1, <1>2, <1>3 DEF IInv

-----------------------------------------------------------------------------
(* The steps that confirm devices *)

(* A confirmation, or none, keeps the store and the count within their      *)
(* types; the count never falls, and who is still silent has seen it stay.  *)
LEMMA ProbedStep ==
    ASSUME TypeOK, NEW p, Probed(p) \/ (p \in Peers /\ Confirmed(p)) \/ UNCHANGED <<known, count, silent>>
    PROVE  /\ known' \subseteq Peers
           /\ count' \in 0 .. MaxFound
           /\ silent' \subseteq Staged
           /\ (count' = count /\ silent' = silent) \/ count' = count + 1
  BY DiscoveryConstants DEF TypeOK, Probed, Confirmed

(* So a step of this kind that leaves the calls at the same point keeps     *)
(* what the snapshots tell.                                                 *)
LEMMA ProbedKeepsSnapshots ==
    ASSUME TypeOK, SnapshotTells, NEW p,
           Probed(p) \/ (p \in Peers /\ Confirmed(p)) \/ UNCHANGED <<known, count, silent>>,
           \A c \in Staged : staged'[c].pc = staged[c].pc /\ staged'[c].snapshot = staged[c].snapshot
    PROVE  SnapshotTells'
  <1>1. (count' = count /\ silent' = silent) \/ count' = count + 1
    BY ProbedStep
  <1>2. \A c \in Staged : staged[c].snapshot \in Nat
    BY DiscoveryConstants DEF TypeOK, StagedState
  <1>3. count \in Nat
    BY DiscoveryConstants DEF TypeOK
  <1>4. CASE count' = count /\ silent' = silent
    BY <1>4 DEF SnapshotTells
  <1>5. CASE count' = count + 1
    BY <1>2, <1>3, <1>5 DEF SnapshotTells
  <1> QED
    BY <1>1, <1>4, <1>5

(* Announcements and registrations. *)
LEMMA HeardInv ==
    ASSUME IInv, (\E p \in Peers : Announced(p) \/ Answered(p)) \/ (\E p \in Outcomes : Register(p)) \/ AddDevice
    PROVE  IInv'
  <1> USE DEF IInv
  <1>1. UNCHANGED <<scanVars, staged, rounds>>
    BY DEF Announced, Answered, Register, AddDevice
  <1>2. \E p : Probed(p) \/ (p \in Peers /\ Confirmed(p)) \/ UNCHANGED <<known, count, silent>>
    BY DEF Announced, Answered, Register, AddDevice
  <1>3. answers' \subseteq Peers
    BY DEF Announced, Answered, Register, AddDevice, TypeOK
  <1>4. registers' \in Seq(Peers \cup {Own}) /\ Len(registers') =< EventCap
    <2>1. CASE \E p \in Outcomes : Register(p)
      <3>1. PICK p \in Peers \cup {Own} : Len(registers) < EventCap /\ registers' = Append(registers, p)
        BY <2>1 DEF Outcomes, Register
      <3> QED
        BY <3>1, DiscoveryConstants DEF TypeOK
    <2>2. CASE AddDevice
      BY <2>2, DiscoveryConstants DEF AddDevice, TypeOK
    <2>3. CASE \E p \in Peers : Announced(p) \/ Answered(p)
      BY <2>3 DEF Announced, Answered, TypeOK
    <2> QED
      BY <2>1, <2>2, <2>3
  <1>5. TypeOK'
    BY <1>1, <1>2, <1>3, <1>4, ProbedStep DEF TypeOK, scanVars
  <1>6. ScanningOwned'
    BY <1>1 DEF ScanningOwned, Running, scanVars
  <1>7. SnapshotTells'
    BY <1>1, <1>2, ProbedKeepsSnapshots
  <1> QED
    BY <1>5, <1>6, <1>7

-----------------------------------------------------------------------------
(* The steps of a scan *)

(* Starting a request, and its end, keep the work within the addresses. *)
LEMMA WorkTypes ==
    ASSUME NEW S, NEW w \in Work(S), NEW h \in S
    PROVE  Sent(w, h) \in Work(S) /\ Back(w, h) \in Work(S)
  BY DEF Work, Sent, Back

(* What a step of a scan does: it starts or leaves the interface, or goes   *)
(* on with it.                                                              *)
LEMMA ScanInv ==
    ASSUME IInv, NEW c \in Calls, NEW i \in Ifaces,
           ScanStart(c, i) \/ ScanRefused(c, i) \/ ScanDropped(c, i) \/ ScanStep(c, i)
    PROVE  IInv'
  <1> USE DEF IInv
  <1>1. PICK s \in ScanState :
          /\ scan' = [scan EXCEPT ![c] = [scan[c] EXCEPT ![i] = s]]
          /\ \/ ~Running(c, i) /\ s.pc = "run" /\ i \notin scanning /\ scanning' = scanning \cup {i}
             \/ Running(c, i) /\ s.pc = "done" /\ scanning' = scanning \ {i}
             \/ ~Running(c, i) /\ s.pc # "run" /\ scanning' = scanning
             \/ Running(c, i) /\ s.pc = "run" /\ scanning' = scanning
    <2>0. scan[c][i] \in ScanState /\ scan[c][i].work \in Work(Hosts)
      BY DEF TypeOK, ScanState
    <2>1. CASE ScanStart(c, i)
      <3> DEFINE s == [pc |-> "run", work |-> [left |-> Hosts, sent |-> {}]]
      <3>1. s \in ScanState
        BY DEF ScanState, Work
      <3> QED
        BY <2>1, <3>1 DEF ScanStart, Free, Running
    <2>2. CASE ScanRefused(c, i)
      <3> DEFINE s == [scan[c][i] EXCEPT !.pc = "done"]
      <3>1. s \in ScanState /\ s.pc = "done"
        BY <2>0 DEF ScanState
      <3>2. scan' = [scan EXCEPT ![c] = [scan[c] EXCEPT ![i] = s]]
        BY <2>2 DEF ScanRefused
      <3> HIDE DEF s
      <3> QED
        BY <2>2, <3>1, <3>2 DEF ScanRefused, Running
    <2>3. CASE ScanDropped(c, i) \/ ScanEnd(c, i)
      <3> DEFINE s == [pc |-> "done", work |-> Nothing]
      <3>1. s \in ScanState
        BY DEF ScanState, Work, Nothing
      <3> QED
        BY <2>3, <3>1 DEF ScanDropped, ScanEnd, ScanLeaves, Release, Running
    <2>4. ASSUME NEW h \in Hosts, ScanProbe(c, i, h) \/ \E p \in Outcomes : ScanProbed(c, i, h, p)
          PROVE  \E s \in ScanState :
                    /\ scan' = [scan EXCEPT ![c] = [scan[c] EXCEPT ![i] = s]]
                    /\ Running(c, i) /\ s.pc = "run" /\ scanning' = scanning
      <3>1. PICK w \in Work(Hosts) : scan' = [scan EXCEPT ![c][i].work = w]
        BY <2>0, <2>4, WorkTypes DEF ScanProbe, ScanProbed
      <3>2. Running(c, i) /\ scanning' = scanning
        BY <2>4 DEF ScanProbe, ScanProbed, Running
      <3> DEFINE s == [scan[c][i] EXCEPT !.work = w]
      <3>3. s \in ScanState /\ s.pc = "run"
        BY <2>0, <3>2 DEF ScanState, Running
      <3>4. scan' = [scan EXCEPT ![c] = [scan[c] EXCEPT ![i] = s]]
        BY <3>1
      <3> HIDE DEF s
      <3> QED
        BY <3>2, <3>3, <3>4
    <2> QED
      BY <2>1, <2>2, <2>3, <2>4 DEF ScanStep
  <1>2. UNCHANGED <<heard, staged, rounds>>
    BY DEF ScanStart, ScanRefused, ScanDropped, ScanStep, ScanEnd, ScanLeaves, ScanProbe, ScanProbed
  <1>3. \E p : Probed(p) \/ (p \in Peers /\ Confirmed(p)) \/ UNCHANGED <<known, count, silent>>
    BY DEF ScanStart, ScanRefused, ScanDropped, ScanStep, ScanEnd, ScanLeaves, ScanProbe, ScanProbed
  <1>4. scan' \in [Calls -> [Ifaces -> ScanState]] /\ scanning' \subseteq Ifaces
    BY <1>1 DEF TypeOK
  <1>5. TypeOK'
    BY <1>2, <1>3, <1>4, ProbedStep DEF TypeOK, heard
  <1>6. SnapshotTells'
    BY <1>2, <1>3, ProbedKeepsSnapshots
  <1>7. /\ Running(c, i)' <=> s.pc = "run"
        /\ \A d \in Calls, j \in Ifaces : <<d, j>> # <<c, i>> => (Running(d, j)' <=> Running(d, j))
    BY <1>1 DEF TypeOK, Running
  <1>8. ScanningOwned'
    <2> SUFFICES ASSUME NEW j \in Ifaces
                 PROVE  /\ \A d \in Calls : Running(d, j)' => j \in scanning'
                        /\ j \in scanning' => \E d \in Calls : Running(d, j)'
                        /\ \A d, e \in Calls : Running(d, j)' /\ Running(e, j)' => d = e
      BY DEF ScanningOwned
    <2>1. CASE j # i
      BY <1>1, <1>7, <2>1 DEF ScanningOwned
    <2>2. CASE j = i
      BY <1>1, <1>7, <2>2 DEF ScanningOwned
    <2> QED
      BY <2>1, <2>2
  <1> QED
    BY <1>5, <1>6, <1>8

-----------------------------------------------------------------------------
(* The steps of discover_staged *)

(* It changes its own record and rounds, and the count only by a            *)
(* confirmation.                                                            *)
LEMMA StagedInv ==
    ASSUME IInv, NEW c \in Staged,
           \/ StagedStart(c) \/ Grace(c) \/ Escalate(c) \/ Escalated(c) \/ AnnounceRound(c)
           \/ \E h \in Favorites : KnownProbe(c, h) \/ \E p \in Outcomes : KnownProbed(c, h, p)
    PROVE  IInv'
  <1> USE DEF IInv
  <1>0. staged[c] \in StagedState /\ staged[c].work \in Work(Favorites) /\ count \in 0 .. MaxFound
    BY DEF TypeOK, StagedState
  <1>1. UNCHANGED <<heard, scanVars>>
    BY DEF StagedStart, Grace, Escalate, Escalated, AnnounceRound, KnownProbe, KnownProbed
  <1>2. ScanningOwned'
    BY <1>1 DEF ScanningOwned, Running, scanVars
  <1>3. CASE StagedStart(c)
    <2> DEFINE s == [pc |-> "known", work |-> [left |-> Favorites, sent |-> {}], snapshot |-> count]
    <2>1. s \in StagedState
      BY <1>0 DEF StagedState, Work
    <2>2. staged' = [staged EXCEPT ![c] = s] /\ s.snapshot = count
      BY <1>3 DEF StagedStart
    <2>3. rounds' \in [Staged -> 0 .. Bursts]
      BY <1>3, DiscoveryConstants DEF StagedStart, TypeOK
    <2> HIDE DEF s
    <2>4. TypeOK'
      BY <1>1, <1>3, <2>1, <2>2, <2>3 DEF StagedStart, TypeOK, heard, scanVars
    <2>5. SnapshotTells'
      BY <1>0, <1>3, <2>2, DiscoveryConstants DEF StagedStart, TypeOK, SnapshotTells
    <2> QED
      BY <1>2, <2>4, <2>5
  <1>4. CASE Grace(c) \/ Escalate(c) \/ Escalated(c)
    <2>1. PICK a \in {"grace", "scan", "done"} :
            staged' = [staged EXCEPT ![c].pc = a] /\ (a = "grace" => staged[c].pc = "known")
      BY <1>4 DEF Grace, Escalate, Escalated
    <2>2. UNCHANGED <<known, count, rounds, silent>>
      BY <1>4 DEF Grace, Escalate, Escalated
    <2>3. staged' \in [Staged -> StagedState]
      BY <1>0, <2>1 DEF TypeOK, StagedState
    <2>4. TypeOK'
      BY <1>1, <2>2, <2>3 DEF TypeOK, heard, scanVars
    <2>5. SnapshotTells'
      BY <1>0, <2>1, <2>2 DEF TypeOK, SnapshotTells, StagedState
    <2> QED
      BY <1>2, <2>4, <2>5
  <1>5. CASE AnnounceRound(c)
    <2>1. rounds' \in [Staged -> 0 .. Bursts]
      BY <1>5, DiscoveryConstants DEF AnnounceRound, TypeOK
    <2>2. UNCHANGED <<known, count, staged, silent>>
      BY <1>5 DEF AnnounceRound
    <2> QED
      BY <1>1, <1>2, <2>1, <2>2 DEF TypeOK, SnapshotTells, heard, scanVars
  <1>6. ASSUME NEW h \in Favorites, KnownProbe(c, h) \/ \E p \in Outcomes : KnownProbed(c, h, p)
        PROVE  IInv'
    <2>1. PICK w \in Work(Favorites) : staged' = [staged EXCEPT ![c].work = w]
      BY <1>0, <1>6, WorkTypes DEF KnownProbe, KnownProbed
    <2>2. staged' \in [Staged -> StagedState]
      BY <1>0, <2>1 DEF TypeOK, StagedState
    <2>3. \A d \in Staged : staged'[d].pc = staged[d].pc /\ staged'[d].snapshot = staged[d].snapshot
      BY <1>0, <2>1 DEF TypeOK, StagedState
    <2>4. \E p : Probed(p) \/ (p \in Peers /\ Confirmed(p)) \/ UNCHANGED <<known, count, silent>>
      BY <1>6 DEF KnownProbe, KnownProbed
    <2>5. UNCHANGED rounds
      BY <1>6 DEF KnownProbe, KnownProbed
    <2>6. TypeOK'
      BY <1>1, <2>2, <2>4, <2>5, ProbedStep DEF TypeOK, heard, scanVars
    <2>7. SnapshotTells'
      BY <2>3, <2>4, ProbedKeepsSnapshots
    <2> QED
      BY <1>2, <2>6, <2>7
  <1> QED
    BY <1>3, <1>4, <1>5, <1>6

-----------------------------------------------------------------------------

(* Every step keeps the invariant. *)
LEMMA StepInv == IInv /\ [Next]_vars => IInv'
  <1> SUFFICES ASSUME IInv, [Next]_vars PROVE IInv'
    OBVIOUS
  <1>1. CASE UNCHANGED vars
    BY <1>1 DEF vars, heard, scanVars, IInv, TypeOK, ScanningOwned, Running, SnapshotTells
  <1>2. CASE Environment
    BY <1>2, HeardInv, StagedInv, ScanInv DEF Environment, Calls
  <1>3. CASE AddDevice \/ \E p \in Peers : Answered(p)
    BY <1>3, HeardInv
  <1>4. CASE \E c \in Calls, i \in Ifaces : ScanStep(c, i)
    BY <1>4, ScanInv
  <1>5. ASSUME NEW c \in Staged, StagedStep(c) \/ AnnounceRound(c)
        PROVE  IInv'
    <2>1. c \in Calls
      BY DEF Calls
    <2> QED
      BY <1>5, <2>1, StagedInv, ScanInv DEF StagedStep
  <1> QED
    BY <1>1, <1>2, <1>3, <1>4, <1>5 DEF Next

(* The inductive invariant holds in every reachable state. *)
THEOREM Invariance == Spec => []IInv
  BY InitInv, StepInv, PTL DEF Spec

(* Counting the running scans of an interface. *)
LEMMA OwnedIsExact == ScanningOwned => ScanningExact
  <1> SUFFICES ASSUME ScanningOwned, NEW i \in Ifaces
               PROVE  Cardinality({c \in Calls : scan[c][i].pc = "run"}) = IF i \in scanning THEN 1 ELSE 0
    BY DEF ScanningExact
  <1> DEFINE active == {c \in Calls : scan[c][i].pc = "run"}
  <1>1. CASE i \in scanning
    <2>1. PICK c \in Calls : Running(c, i)
      BY <1>1 DEF ScanningOwned
    <2>2. active = {c}
      BY <2>1 DEF ScanningOwned, Running
    <2> QED
      BY <1>1, <2>2, FS_Singleton
  <1>2. CASE i \notin scanning
    <2>1. active = {}
      BY <1>2 DEF ScanningOwned, Running
    <2> QED
      BY <1>2, <2>1, FS_EmptySet
  <1> QED
    BY <1>1, <1>2

(* The types, with the channel and the rounds within their bounds, and the  *)
(* exact account of scans: among any number of calls at most one scans an   *)
(* interface, and scanning names exactly the interfaces being scanned.      *)
THEOREM ScansAccounted == Spec => []ScansSound
  <1>1. IInv => ScansSound
    BY OwnedIsExact DEF IInv, ScansSound
  <1> QED
    BY <1>1, Invariance, PTL

(* A staged discovery goes on to scan the subnets only if nothing was       *)
(* confirmed between its start and the end of the grace period.             *)
THEOREM EscalationOnSilence == Spec => EscalatesOnSilence
  <1> DEFINE Silent == \A c \in Staged : staged[c].pc = "grace" /\ staged'[c].pc = "scan" => c \in silent
  <1>1. IInv /\ [Next]_vars => [Silent]_vars
    <2> SUFFICES ASSUME IInv, Next, NEW c \in Staged, staged[c].pc = "grace", staged'[c].pc = "scan"
                 PROVE  c \in silent
      OBVIOUS
    <2>0. staged \in [Staged -> StagedState]
      BY DEF IInv, TypeOK
    <2>1. \A d \in Staged : staged[d] \in StagedState
      BY <2>0
    <2>2. PICK d \in Staged : Escalate(d)
      <3>1. ~ UNCHANGED staged
        OBVIOUS
      <3>2. ~ \E d \in Staged : \/ StagedStart(d) \/ Grace(d) \/ Escalated(d) \/ AnnounceRound(d)
                                \/ \E h \in Favorites : KnownProbe(d, h) \/ \E p \in Outcomes : KnownProbed(d, h, p)
        BY <2>0, <2>1 DEF StagedStart, Grace, Escalated, AnnounceRound, KnownProbe, KnownProbed, StagedState
      <3>3. (\E d \in Calls, i \in Ifaces : ScanStart(d, i) \/ ScanRefused(d, i) \/ ScanDropped(d, i) \/ ScanStep(d, i))
               => UNCHANGED staged
        BY DEF ScanStart, ScanRefused, ScanDropped, ScanStep, ScanEnd, ScanLeaves, ScanProbe, ScanProbed
      <3>4. (\/ (\E p \in Peers : Announced(p) \/ Answered(p))
             \/ (\E p \in Outcomes : Register(p)) \/ AddDevice) => UNCHANGED staged
        BY DEF Announced, Answered, Register, AddDevice
      <3> QED
        BY <3>1, <3>2, <3>3, <3>4 DEF Next, Environment, StagedStep, Calls
    <2>3. d = c
      BY <2>0, <2>2 DEF Escalate
    <2>4. count = staged[c].snapshot
      BY <2>0, <2>1, <2>2, <2>3 DEF Escalate, StagedState
    <2> QED
      BY <2>4 DEF IInv, SnapshotTells
  <1> QED
    BY <1>1, Invariance, PTL DEF Spec, EscalatesOnSilence

-----------------------------------------------------------------------------
(***************************************************************************)
(* Multicast: sockets, supervisor and the stop of an instance.             *)
(***************************************************************************)

(* A loop's counter is the number of failed reads since the last datagram,  *)
(* and reaches the limit only where the loop gives up.                      *)
ErrorsCounted ==
    \A n \in Instances, i \in Sockets :
        /\ rx[n][i].errs = since[n][i]
        /\ rx[n][i].st = "failed" <=> rx[n][i].errs = MaxErrors
        /\ rx[n][i].st \in {"none", "ended"} => rx[n][i].errs = 0

(* Nothing of an instance exists before start_discovery has bound it. *)
Unborn(n) ==
    /\ stopTx[n].sender = "none" /\ stop[n] = "idle" /\ sup[n] = "none"
    /\ \A i \in Sockets : rx[n][i] = [st |-> "none", errs |-> 0]

BornByStart ==
    \A n \in Instances : IF start[n] = "done" THEN stopTx[n].sender # "none" ELSE Unborn(n)

(* Without a supervisor there is no socket. *)
Released(n) == sockets[n] = {} /\ \A i \in Sockets : rx[n][i].st \notin {"read", "send"}

SupervisorHolds ==
    \A n \in Instances : MulticastStopped(n) => Released(n)

(* The stop_tx lock is held exactly from the message to the supervisor      *)
(* until it was joined: an empty and free slot means a stopped instance.    *)
SlotLocked ==
    \A n \in Instances :
        /\ stopTx[n].sender = "sent" <=> stopTx[n].lock # Nobody
        /\ stopTx[n].sender = "taken" => MulticastStopped(n)

(* A stop that is past the lock holds it or found the slot empty. *)
StopPassed ==
    \A n \in Instances :
        /\ stop[n] = "wait" => stopTx[n].lock = Stopping(n) \/ stopTx[n].sender = "taken"
        /\ stop[n] \in {"clear", "done"} => stopTx[n].sender = "taken"

(* An instance nobody has asked to stop is the one RUNNING_DISCOVERY names. *)
HeldIsRunning ==
    \A n \in Instances : stopTx[n].sender = "held" => running.value = n

(* start_discovery keeps RUNNING_DISCOVERY locked and has dealt with its    *)
(* value before it binds.                                                   *)
StartPassed ==
    \A n \in Instances :
        /\ start[n] \in {"take", "wait", "bind"} => running.lock = Starting(n)
        /\ start[n] \in {"take", "wait"} => running.value \in Instances
        /\ start[n] = "wait" => stopTx[running.value].sender # "held"
        /\ start[n] = "bind" => \A m \in Instances : stopTx[m].sender # "held"

MulticastInv ==
    /\ MulticastTypeOK /\ ErrorsCounted
    /\ BornByStart /\ SupervisorHolds /\ SlotLocked /\ StopPassed
    /\ HeldIsRunning /\ StartPassed

-----------------------------------------------------------------------------

(* Callers of stop are told apart. *)
LEMMA CallersDiffer ==
    /\ \A n \in Instances : Stopping(n) # Nobody /\ Starting(n) # Nobody
    /\ \A m, n \in Instances : Stopping(m) # Starting(n)
    /\ \A m, n \in Instances : Starting(m) = Starting(n) => m = n
    /\ \A n \in Instances : Stopping(n) \in Callers /\ Starting(n) \in Callers
  BY DEF Stopping, Starting, Nobody, Callers

(* The invariant holds initially. *)
LEMMA MulticastInitInv == MulticastInit => MulticastInv
  <1> SUFFICES ASSUME MulticastInit PROVE MulticastInv
    OBVIOUS
  <1>0. MaxErrors \in Nat \ {0} /\ QueueCap \in Nat \ {0} /\ DiscoveryCap \in Nat \ {0}
    BY NaturalBounds
  <1>1. MulticastTypeOK
    BY <1>0 DEF MulticastInit, MulticastTypeOK, RxStates, SupStates
  <1>2. ErrorsCounted
    BY <1>0 DEF MulticastInit, ErrorsCounted
  <1>3. BornByStart /\ SupervisorHolds
    BY DEF MulticastInit, BornByStart, Unborn, SupervisorHolds, Released
  <1>4. SlotLocked /\ StopPassed /\ HeldIsRunning /\ StartPassed
    BY DEF MulticastInit, SlotLocked, StopPassed, HeldIsRunning, StartPassed
  <1> QED
    BY <1>1, <1>2, <1>3, <1>4 DEF MulticastInv

-----------------------------------------------------------------------------
(* The receive loops *)

Loops == [st : RxStates, errs : 0 .. MaxErrors]

(* A step of a loop that reads or sends keeps the invariant when it counts  *)
(* errors and ends as receive_loop does.                                    *)
LEMMA LoopInv ==
    ASSUME MulticastInv, NEW n \in Instances, NEW i \in Sockets,
           NEW r \in Loops, NEW k \in Nat,
           rx[n][i].st \in {"read", "send"},
           rx' = [rx EXCEPT ![n] = [rx[n] EXCEPT ![i] = r]],
           since' = [since EXCEPT ![n] = [since[n] EXCEPT ![i] = k]],
           r.errs = k, r.st = "failed" <=> r.errs = MaxErrors, r.st \notin {"none", "ended"},
           queue' \in [Instances -> Seq({"announced", "failed"})],
           \A m \in Instances : Len(queue'[m]) <= QueueCap,
           UNCHANGED <<sup, sockets, apiVars, lost>>
    PROVE  MulticastInv'
  <1> USE DEF MulticastInv
  <1>1. UNCHANGED <<sup, sockets, stopTx, events, listener, cancel, dart, running, start, stop, lost>>
    BY DEF apiVars
  <1>2. MulticastTypeOK'
    BY <1>1 DEF MulticastTypeOK, Loops
  <1>3. \A m \in Instances, j \in Sockets :
            /\ rx'[m][j] = IF m = n /\ j = i THEN r ELSE rx[m][j]
            /\ since'[m][j] = IF m = n /\ j = i THEN k ELSE since[m][j]
    BY DEF MulticastTypeOK
  <1>4. ErrorsCounted'
    BY <1>3 DEF ErrorsCounted
  <1>5. start[n] = "done"
    BY DEF BornByStart, Unborn
  <1>6. BornByStart'
    BY <1>1, <1>3, <1>5 DEF BornByStart, Unborn
  <1>7. ~MulticastStopped(n)
    BY DEF SupervisorHolds, Released
  <1>8. SupervisorHolds'
    BY <1>1, <1>3, <1>7 DEF SupervisorHolds, Released, MulticastStopped
  <1>9. SlotLocked' /\ StopPassed' /\ HeldIsRunning' /\ StartPassed'
    BY <1>1 DEF SlotLocked, StopPassed, HeldIsRunning, StartPassed, MulticastStopped
  <1> QED
    BY <1>2, <1>4, <1>6, <1>8, <1>9

(* A read that succeeds forgets the errors. *)
LEMMA AfterReadIs ==
    ASSUME NEW loop \in Loops, NEW st \in RxStates
    PROVE  AfterRead(loop, st) \in Loops /\ AfterRead(loop, st).st = st /\ AfterRead(loop, st).errs = 0
  <1>1. MaxErrors \in Nat \ {0}
    BY NaturalBounds
  <1>2. 0 \in 0 .. MaxErrors
    BY <1>1
  <1> QED
    BY <1>2 DEF AfterRead, Loops

(* The steps of receive_loop are of that form. *)
LEMMA ReceiveInv ==
    ASSUME MulticastInv, NEW n \in Instances, NEW i \in Sockets,
           \/ \E d \in {"ignored", "announced"} : Receive(n, i, d)
           \/ ReceiveFails(n, i) \/ SendEvent(n, i)
    PROVE  MulticastInv'
  <1>0. /\ rx[n][i] \in Loops /\ since[n][i] \in Nat /\ MaxErrors \in Nat \ {0} /\ QueueCap \in Nat
        /\ rx \in [Instances -> [Sockets -> Loops]] /\ since \in [Instances -> [Sockets -> Nat]]
        /\ queue \in [Instances -> Seq({"announced", "failed"})]
        /\ \A m \in Instances : Len(queue[m]) <= QueueCap
    BY NaturalBounds DEF MulticastInv, MulticastTypeOK, Loops
  <1>1. rx[n][i].errs = since[n][i] /\ (rx[n][i].st = "failed" <=> rx[n][i].errs = MaxErrors)
    BY DEF MulticastInv, ErrorsCounted
  <1>2. ASSUME NEW d \in {"ignored", "announced"}, Receive(n, i, d)
        PROVE  MulticastInv'
    <2> DEFINE st == IF d = "announced" THEN "send" ELSE "read"
               r == AfterRead(rx[n][i], st)
    <2>1. /\ r \in Loops /\ r.errs = 0 /\ 0 \in Nat /\ r.st \notin {"none", "ended"}
          /\ r.st = "failed" <=> r.errs = MaxErrors
      <3>1. st \in RxStates \ {"none", "ended", "failed"}
        BY DEF RxStates
      <3> HIDE DEF st
      <3> QED
        BY <1>0, <3>1, AfterReadIs
    <2>2. rx' = [rx EXCEPT ![n] = [rx[n] EXCEPT ![i] = r]]
      BY <1>2 DEF Receive
    <2>3. since' = [since EXCEPT ![n] = [since[n] EXCEPT ![i] = 0]]
      BY <1>2 DEF Receive
    <2>4. rx[n][i].st = "read" /\ UNCHANGED <<queue, sup, sockets, apiVars, lost>>
      BY <1>2 DEF Receive
    <2> HIDE DEF r
    <2> QED
      BY <1>0, <2>1, <2>2, <2>3, <2>4, LoopInv
  <1>3. CASE ReceiveFails(n, i)
    <2> DEFINE e == rx[n][i].errs + 1
               r == [st |-> IF e >= MaxErrors THEN "failed" ELSE "read", errs |-> e]
    <2>0. rx[n][i].st = "read" /\ UNCHANGED <<queue, sup, sockets, apiVars, lost>>
      BY <1>3 DEF ReceiveFails
    <2>1. rx[n][i].errs \in 0 .. MaxErrors /\ rx[n][i].errs # MaxErrors
      BY <1>0, <1>1, <2>0 DEF Loops
    <2>2. /\ r \in Loops /\ r.errs = e /\ e \in Nat /\ r.st \notin {"none", "ended"}
          /\ r.st = "failed" <=> r.errs = MaxErrors
      BY <1>0, <2>1 DEF Loops, RxStates
    <2>3. rx' = [rx EXCEPT ![n] = [rx[n] EXCEPT ![i] = r]]
      BY <1>3 DEF ReceiveFails, GivesUp
    <2>4. since' = [since EXCEPT ![n] = [since[n] EXCEPT ![i] = e]]
      BY <1>1, <1>3 DEF ReceiveFails
    <2> HIDE DEF r, e
    <2> QED
      BY <1>0, <2>0, <2>2, <2>3, <2>4, LoopInv
  <1>4. CASE SendEvent(n, i)
    <2> DEFINE r == [rx[n][i] EXCEPT !.st = "read"]
               k == since[n][i]
    <2>0. rx[n][i].st = "send" /\ UNCHANGED <<sup, sockets, apiVars, lost>>
      BY <1>4 DEF SendEvent
    <2>1. /\ r \in Loops /\ r.errs = k /\ k \in Nat /\ r.st \notin {"none", "ended"}
          /\ r.st = "failed" <=> r.errs = MaxErrors
      BY <1>0, <1>1, <2>0 DEF Loops, RxStates
    <2>2. rx' = [rx EXCEPT ![n] = [rx[n] EXCEPT ![i] = r]]
      BY <1>4 DEF SendEvent
    <2>3. since' = [since EXCEPT ![n] = [since[n] EXCEPT ![i] = k]]
      BY <1>0, <1>4 DEF SendEvent
    <2>4. queue' \in [Instances -> Seq({"announced", "failed"})] /\ \A m \in Instances : Len(queue'[m]) <= QueueCap
      BY <1>0, <1>4 DEF SendEvent
    <2> HIDE DEF r, k
    <2> QED
      BY <2>0, <2>1, <2>2, <2>3, <2>4, LoopInv
  <1> QED
    BY <1>2, <1>3, <1>4

-----------------------------------------------------------------------------
(* The supervisor *)
LEMMA SupervisorInv ==
    ASSUME MulticastInv, NEW n \in Instances, Supervisor(n)
    PROVE  MulticastInv'
  <1> USE DEF MulticastInv
  <1>0. QueueCap \in Nat /\ MaxErrors \in Nat \ {0}
    BY NaturalBounds
  <1>1. UNCHANGED <<stopTx, events, listener, cancel, dart, running, start, stop>>
    BY DEF Supervisor, SupFailed, SupStopped, SupClose, apiVars
  <1>2. HeldIsRunning' /\ StartPassed' /\ StopPassed'
    BY <1>1 DEF HeldIsRunning, StartPassed, StopPassed
  <1>3. sup[n] # "none" /\ sup[n] # "done" /\ start[n] = "done"
    BY DEF Supervisor, SupFailed, SupStopped, SupClose, BornByStart, Unborn
  <1>4. CASE SupFailed(n) \/ SupStopped(n)
    <2>1. sup' = [sup EXCEPT ![n] = "closing"] /\ UNCHANGED <<rx, since, sockets>>
      BY <1>4 DEF SupFailed, SupStopped
    <2>2. /\ queue' \in [Instances -> Seq({"announced", "failed"})]
          /\ \A m \in Instances : Len(queue'[m]) <= QueueCap
          /\ lost' \in [Instances -> BOOLEAN]
      <3>1. CASE SupFailed(n)
        <4>1. CASE Len(queue[n]) < QueueCap
          <5>1. queue[n] \in Seq({"announced", "failed"})
            BY DEF MulticastTypeOK
          <5>2. /\ Append(queue[n], "failed") \in Seq({"announced", "failed"})
                /\ Len(Append(queue[n], "failed")) <= QueueCap
            BY <1>0, <4>1, <5>1
          <5>3. queue' = [queue EXCEPT ![n] = Append(queue[n], "failed")] /\ lost' = lost
            BY <3>1, <4>1 DEF SupFailed
          <5> QED
            BY <5>2, <5>3 DEF MulticastTypeOK
        <4>2. CASE ~(Len(queue[n]) < QueueCap)
          BY <3>1, <4>2 DEF SupFailed, MulticastTypeOK
        <4> QED
          BY <4>1, <4>2
      <3>2. CASE SupStopped(n)
        BY <3>2 DEF SupStopped, MulticastTypeOK
      <3> QED
        BY <1>4, <3>1, <3>2
    <2>3. MulticastTypeOK'
      BY <1>1, <2>1, <2>2 DEF MulticastTypeOK, SupStates
    <2>4. \A m \in Instances : sup'[m] = IF m = n THEN "closing" ELSE sup[m]
      BY <2>1 DEF MulticastTypeOK
    <2>5. ErrorsCounted' /\ BornByStart'
      BY <1>1, <1>3, <2>1, <2>4 DEF ErrorsCounted, BornByStart, Unborn
    <2>6. SupervisorHolds' /\ SlotLocked'
      BY <1>1, <1>3, <2>1, <2>4 DEF SupervisorHolds, Released, SlotLocked, MulticastStopped
    <2> QED
      BY <1>2, <2>3, <2>5, <2>6
  <1>5. CASE SupClose(n)
    <2>1. /\ sup' = [sup EXCEPT ![n] = "done"] /\ sockets' = [sockets EXCEPT ![n] = {}]
          /\ UNCHANGED <<queue, lost>>
      BY <1>5 DEF SupClose
    <2>2. \A i \in Sockets : Shutdown(rx[n][i]) \in Loops
      BY <1>0 DEF Shutdown, Ended, MulticastTypeOK, Loops, RxStates
    <2>3. rx' = [rx EXCEPT ![n] = [i \in Sockets |-> Shutdown(rx[n][i])]]
      BY <1>5 DEF SupClose
    <2>4. since' = [since EXCEPT ![n] = [i \in Sockets |-> IF rx[n][i].st = "failed" THEN since[n][i] ELSE 0]]
      BY <1>5 DEF SupClose
    <2>5. MulticastTypeOK'
      <3>1. rx' \in [Instances -> [Sockets -> Loops]]
        BY <2>2, <2>3 DEF MulticastTypeOK, Loops
      <3>2. since' \in [Instances -> [Sockets -> Nat]]
        BY <2>4 DEF MulticastTypeOK
      <3> QED
        BY <1>1, <2>1, <3>1, <3>2 DEF MulticastTypeOK, SupStates, Loops
    <2>6. \A m \in Instances, i \in Sockets :
            /\ rx'[m][i] = IF m = n THEN Shutdown(rx[m][i]) ELSE rx[m][i]
            /\ since'[m][i] = IF m = n /\ rx[n][i].st # "failed" THEN 0 ELSE since[m][i]
      BY <2>3, <2>4 DEF MulticastTypeOK
    <2>7. ErrorsCounted'
      <3> SUFFICES ASSUME NEW m \in Instances, NEW i \in Sockets
                   PROVE  /\ rx'[m][i].errs = since'[m][i]
                          /\ rx'[m][i].st = "failed" <=> rx'[m][i].errs = MaxErrors
                          /\ rx'[m][i].st \in {"none", "ended"} => rx'[m][i].errs = 0
        BY DEF ErrorsCounted
      <3>1. CASE m # n
        BY <2>6, <3>1 DEF ErrorsCounted
      <3>2. CASE m = n /\ rx[n][i].st \in {"read", "send"}
        BY <1>0, <2>6, <3>2 DEF Shutdown, Ended
      <3>3. CASE m = n /\ rx[n][i].st = "failed"
        BY <2>6, <3>3 DEF Shutdown, ErrorsCounted
      <3>4. CASE m = n /\ rx[n][i].st \in {"none", "ended"}
        BY <2>6, <3>4 DEF Shutdown, ErrorsCounted
      <3> QED
        BY <3>1, <3>2, <3>3, <3>4 DEF MulticastTypeOK, RxStates
    <2>8. \A m \in Instances : sup'[m] = IF m = n THEN "done" ELSE sup[m]
      BY <2>1 DEF MulticastTypeOK
    <2>9. BornByStart'
      BY <1>1, <1>3, <2>6, <2>8 DEF BornByStart, Unborn
    <2>10. \A i \in Sockets : Shutdown(rx[n][i]).st \notin {"read", "send"}
      BY DEF Shutdown, Ended
    <2>11. SupervisorHolds'
      BY <2>1, <2>6, <2>8, <2>10 DEF SupervisorHolds, Released, MulticastStopped, MulticastTypeOK
    <2>12. SlotLocked'
      BY <1>1, <2>8 DEF SlotLocked, MulticastStopped
    <2> QED
      BY <1>2, <2>5, <2>7, <2>9, <2>11, <2>12
  <1> QED
    BY <1>4, <1>5 DEF Supervisor

-----------------------------------------------------------------------------
(* The channels and the stream, and the calls as they come: nothing of what *)
(* the instances and the locks rest on is changed.                          *)
LEMMA StreamInv ==
    ASSUME MulticastInv, NEW n \in Instances,
           \/ Answer(n) \/ Confirm(n) \/ Listen(n) \/ ListenEvent(n) \/ ListenCancelled(n)
           \/ HotRestart(n)
    PROVE  MulticastInv'
  <1> USE DEF MulticastInv
  <1>0. /\ DiscoveryCap \in Nat /\ QueueCap \in Nat
        /\ queue[n] \in Seq({"announced", "failed"}) /\ Len(queue[n]) <= QueueCap
        /\ events[n] \in Seq({"device", "failed"}) /\ Len(events[n]) <= DiscoveryCap
    BY NaturalBounds DEF MulticastTypeOK
  <1>1. UNCHANGED <<rx, since, sup, sockets, stopTx, cancel, running, start, stop>>
    BY DEF Answer, Confirm, Listen, ListenEvent, ListenCancelled, HotRestart, mcVars
  <1>2. queue' \in [Instances -> Seq({"announced", "failed"})] /\ \A m \in Instances : Len(queue'[m]) <= QueueCap
    <2>1. CASE Answer(n)
      <3>1. Tail(queue[n]) \in Seq({"announced", "failed"}) /\ Len(Tail(queue[n])) <= QueueCap
        BY <1>0, <2>1 DEF Answer
      <3>2. queue' = [queue EXCEPT ![n] = Tail(queue[n])]
        BY <2>1 DEF Answer
      <3> QED
        BY <3>1, <3>2 DEF MulticastTypeOK
    <2>2. CASE UNCHANGED queue
      BY <2>2 DEF MulticastTypeOK
    <2> QED
      BY <2>1, <2>2 DEF Confirm, Listen, ListenEvent, ListenCancelled, HotRestart, mcVars
  <1>3. events' \in [Instances -> Seq({"device", "failed"})] /\ \A m \in Instances : Len(events'[m]) <= DiscoveryCap
    <2>1. ASSUME NEW e \in {"device", "failed"}, Len(events[n]) < DiscoveryCap, events' = [events EXCEPT ![n] = Append(@, e)]
          PROVE  events' \in [Instances -> Seq({"device", "failed"})] /\ \A m \in Instances : Len(events'[m]) <= DiscoveryCap
      <3>1. Append(events[n], e) \in Seq({"device", "failed"}) /\ Len(Append(events[n], e)) <= DiscoveryCap
        BY <1>0, <2>1
      <3> QED
        BY <2>1, <3>1 DEF MulticastTypeOK
    <2>2. CASE events[n] # <<>> /\ events' = [events EXCEPT ![n] = Tail(@)]
      <3>1. Tail(events[n]) \in Seq({"device", "failed"}) /\ Len(Tail(events[n])) <= DiscoveryCap
        BY <1>0, <2>2
      <3> QED
        BY <2>2, <3>1 DEF MulticastTypeOK
    <2>3. CASE events' = [events EXCEPT ![n] = <<>>]
      <3>1. <<>> \in Seq({"device", "failed"}) /\ Len(<<>>) <= DiscoveryCap
        BY <1>0
      <3> QED
        BY <2>3, <3>1 DEF MulticastTypeOK
    <2>4. CASE UNCHANGED events
      BY <2>4 DEF MulticastTypeOK
    <2> QED
      BY <2>1, <2>2, <2>3, <2>4 DEF Answer, Confirm, Listen, ListenEvent, ListenCancelled, HotRestart
  <1>4. /\ listener' \in [Instances -> {"none", "listening", "ended"}]
        /\ dart' \in [Instances -> BOOLEAN] /\ lost' \in [Instances -> BOOLEAN]
    <2>1. listener' \in [Instances -> {"none", "listening", "ended"}]
      <3>1. UNCHANGED listener \/ \E l \in {"listening", "ended"} : listener' = [listener EXCEPT ![n] = l]
        BY DEF Answer, Confirm, Listen, ListenEvent, ListenCancelled, HotRestart
      <3> QED
        BY <3>1 DEF MulticastTypeOK
    <2>2. lost' \in [Instances -> BOOLEAN]
      BY DEF Answer, Confirm, Listen, ListenEvent, ListenCancelled, HotRestart, MulticastTypeOK
    <2>3. dart' \in [Instances -> BOOLEAN]
      BY DEF Answer, Confirm, Listen, ListenEvent, ListenCancelled, HotRestart, MulticastTypeOK
    <2> QED
      BY <2>1, <2>2, <2>3
  <1>5. MulticastTypeOK'
    BY <1>1, <1>2, <1>3, <1>4 DEF MulticastTypeOK
  <1>6. ErrorsCounted' /\ BornByStart' /\ SupervisorHolds'
    BY <1>1 DEF ErrorsCounted, BornByStart, Unborn, SupervisorHolds, Released, MulticastStopped
  <1>7. SlotLocked' /\ StopPassed' /\ HeldIsRunning' /\ StartPassed'
    BY <1>1 DEF SlotLocked, StopPassed, HeldIsRunning, StartPassed, MulticastStopped
  <1> QED
    BY <1>5, <1>6, <1>7

-----------------------------------------------------------------------------
(* Stopping an instance *)

(* Taking the sender: afterwards nobody finds it, the lock is the caller's  *)
(* if the sender was there, and else the instance is stopped.               *)
LEMMA LockStep ==
    ASSUME MulticastInv, NEW n \in Instances, NEW c \in Callers, c # Nobody, LockStopTx(n, c)
    PROVE  /\ stopTx' \in [Instances -> [sender : {"none", "held", "sent", "taken"}, lock : Callers \cup {Nobody}]]
           /\ \A m \in Instances : m # n => stopTx'[m] = stopTx[m]
           /\ \/ stopTx[n].sender = "held" /\ stopTx'[n].sender = "sent" /\ stopTx'[n].lock = c
              \/ stopTx[n].sender \in {"none", "taken"} /\ stopTx'[n] = stopTx[n]
           /\ stopTx[n].lock = Nobody
  <1>0. stopTx \in [Instances -> [sender : {"none", "held", "sent", "taken"}, lock : Callers \cup {Nobody}]]
    BY DEF MulticastInv, MulticastTypeOK
  <1>1. stopTx[n].lock = Nobody /\ stopTx[n].sender # "sent"
    BY DEF LockStopTx, MulticastInv, SlotLocked
  <1>2. CASE stopTx[n].sender = "held"
    <2>1. stopTx' = [stopTx EXCEPT ![n] = [sender |-> "sent", lock |-> c]]
      BY <1>2 DEF LockStopTx
    <2> QED
      BY <1>0, <1>1, <1>2, <2>1
  <1>3. CASE stopTx[n].sender # "held"
    <2>1. stopTx' = stopTx
      BY <1>0, <1>3 DEF LockStopTx
    <2> QED
      BY <1>0, <1>1, <1>3, <2>1
  <1> QED
    BY <1>2, <1>3

(* The end of the wait: only the caller that holds the lock changes the     *)
(* slot, and only when the supervisor is gone.                              *)
LEMMA WaitStep ==
    ASSUME MulticastInv, NEW n \in Instances, NEW c \in Callers, c # Nobody, Waited(n, c)
    PROVE  /\ stopTx' \in [Instances -> [sender : {"none", "held", "sent", "taken"}, lock : Callers \cup {Nobody}]]
           /\ cancel' \in [Instances -> BOOLEAN]
           /\ \A m \in Instances : m # n => stopTx'[m] = stopTx[m]
           /\ \/ /\ stopTx[n].lock = c /\ stopTx[n].sender = "sent" /\ MulticastStopped(n)
                 /\ stopTx'[n].sender = "taken" /\ stopTx'[n].lock = Nobody
              \/ stopTx[n].lock # c /\ stopTx'[n] = stopTx[n]
  <1>0. stopTx \in [Instances -> [sender : {"none", "held", "sent", "taken"}, lock : Callers \cup {Nobody}]]
    BY DEF MulticastInv, MulticastTypeOK
  <1>1. cancel' \in [Instances -> BOOLEAN]
    BY DEF Waited, MulticastInv, MulticastTypeOK
  <1>2. CASE stopTx[n].lock = c
    <2>1. stopTx' = [stopTx EXCEPT ![n] = [sender |-> "taken", lock |-> Nobody]] /\ MulticastStopped(n)
      BY <1>2 DEF Waited
    <2>2. stopTx[n].sender = "sent"
      BY <1>2 DEF MulticastInv, SlotLocked
    <2> QED
      BY <1>0, <1>1, <1>2, <2>1, <2>2
  <1>3. CASE stopTx[n].lock # c
    BY <1>0, <1>1, <1>3 DEF Waited
  <1> QED
    BY <1>2, <1>3

(* RsDiscovery::stop. *)
LEMMA StopInv ==
    ASSUME MulticastInv, NEW n \in Instances, Stop(n) \/ StopCall(n)
    PROVE  MulticastInv'
  <1> USE DEF MulticastInv
  <1>0. Stopping(n) \in Callers /\ Stopping(n) # Nobody
    BY CallersDiffer
  <1>1. UNCHANGED <<rx, since, queue, sup, sockets, events, listener, dart, start, lost>>
    BY DEF Stop, StopCall, StopTake, StopWait, StopClear, mcVars
  <1>2. stop[n] # "idle" => start[n] = "done" /\ stopTx[n].sender # "none"
    BY DEF BornByStart, Unborn
  <1>3. ErrorsCounted' /\ SupervisorHolds'
    BY <1>1 DEF ErrorsCounted, SupervisorHolds, Released, MulticastStopped
  <1>4. CASE Stop(n)
    <2>1. stop' = [stop EXCEPT ![n] = "take"] /\ start[n] = "done"
      BY <1>4 DEF Stop
    <2>2. UNCHANGED <<stopTx, cancel, running>>
      BY <1>4 DEF Stop
    <2>3. MulticastTypeOK'
      BY <1>1, <2>1, <2>2 DEF MulticastTypeOK
    <2>4. \A m \in Instances : stop'[m] = IF m = n THEN "take" ELSE stop[m]
      BY <2>1 DEF MulticastTypeOK
    <2>5. BornByStart' /\ SlotLocked' /\ StopPassed' /\ HeldIsRunning' /\ StartPassed'
      BY <1>1, <2>1, <2>2, <2>4
      DEF BornByStart, Unborn, SlotLocked, StopPassed, HeldIsRunning, StartPassed, MulticastStopped
    <2> QED
      BY <1>3, <2>3, <2>5
  <1>5. CASE StopTake(n)
    <2>1. stop[n] = "take" /\ stop' = [stop EXCEPT ![n] = "wait"] /\ LockStopTx(n, Stopping(n))
      BY <1>5 DEF StopTake
    <2>2. UNCHANGED <<cancel, running>>
      BY <1>5 DEF StopTake
    <2>3. /\ stopTx' \in [Instances -> [sender : {"none", "held", "sent", "taken"}, lock : Callers \cup {Nobody}]]
          /\ \A m \in Instances : m # n => stopTx'[m] = stopTx[m]
          /\ \/ stopTx[n].sender = "held" /\ stopTx'[n].sender = "sent" /\ stopTx'[n].lock = Stopping(n)
             \/ stopTx[n].sender \in {"none", "taken"} /\ stopTx'[n] = stopTx[n]
          /\ stopTx[n].lock = Nobody
      BY <1>0, <2>1, LockStep
    <2>4. MulticastTypeOK'
      BY <1>1, <2>1, <2>2, <2>3 DEF MulticastTypeOK
    <2>5. \A m \in Instances : stop'[m] = IF m = n THEN "wait" ELSE stop[m]
      BY <2>1 DEF MulticastTypeOK
    <2>6. BornByStart'
      BY <1>1, <1>2, <2>1, <2>3, <2>5 DEF BornByStart, Unborn
    <2>7. SlotLocked'
      BY <1>0, <1>1, <2>3 DEF SlotLocked, MulticastStopped
    <2>8. StopPassed'
      BY <1>2, <2>1, <2>3, <2>5 DEF StopPassed
    <2>9. HeldIsRunning'
      BY <2>2, <2>3 DEF HeldIsRunning
    <2>10. StartPassed'
      BY <1>1, <2>2, <2>3 DEF StartPassed
    <2> QED
      BY <1>3, <2>4, <2>6, <2>7, <2>8, <2>9, <2>10
  <1>6. CASE StopWait(n)
    <2>1. stop[n] = "wait" /\ stop' = [stop EXCEPT ![n] = "clear"] /\ Waited(n, Stopping(n))
      BY <1>6 DEF StopWait
    <2>2. UNCHANGED running
      BY <1>6 DEF StopWait
    <2>3. /\ stopTx' \in [Instances -> [sender : {"none", "held", "sent", "taken"}, lock : Callers \cup {Nobody}]]
          /\ cancel' \in [Instances -> BOOLEAN]
          /\ \A m \in Instances : m # n => stopTx'[m] = stopTx[m]
          /\ \/ /\ stopTx[n].lock = Stopping(n) /\ stopTx[n].sender = "sent" /\ MulticastStopped(n)
                /\ stopTx'[n].sender = "taken" /\ stopTx'[n].lock = Nobody
             \/ stopTx[n].lock # Stopping(n) /\ stopTx'[n] = stopTx[n]
      BY <1>0, <2>1, WaitStep
    <2>4. MulticastTypeOK'
      BY <1>1, <2>1, <2>2, <2>3 DEF MulticastTypeOK
    <2>5. \A m \in Instances : stop'[m] = IF m = n THEN "clear" ELSE stop[m]
      BY <2>1 DEF MulticastTypeOK
    <2>6. BornByStart'
      BY <1>1, <1>2, <2>1, <2>3, <2>5 DEF BornByStart, Unborn
    <2>7. SlotLocked'
      BY <1>1, <2>3 DEF SlotLocked, MulticastStopped
    <2>8. StopPassed'
      BY <2>1, <2>3, <2>5 DEF StopPassed
    <2>9. HeldIsRunning'
      BY <2>2, <2>3 DEF HeldIsRunning
    <2>10. StartPassed'
      BY <1>1, <2>2, <2>3 DEF StartPassed
    <2> QED
      BY <1>3, <2>4, <2>6, <2>7, <2>8, <2>9, <2>10
  <1>7. CASE StopClear(n)
    <2>1. stop[n] = "clear" /\ stop' = [stop EXCEPT ![n] = "done"] /\ running.lock = Nobody
      BY <1>7 DEF StopClear
    <2>2. UNCHANGED <<stopTx, cancel>>
      BY <1>7 DEF StopClear
    <2>3. /\ running' \in [value : Instances \cup {NoInstance}, lock : Callers \cup {Nobody}]
          /\ running'.lock = Nobody
          /\ running'.value = running.value \/ running.value = n
      BY <1>7, <2>1 DEF StopClear, MulticastTypeOK
    <2>4. MulticastTypeOK'
      BY <1>1, <2>1, <2>2, <2>3 DEF MulticastTypeOK
    <2>5. \A m \in Instances : stop'[m] = IF m = n THEN "done" ELSE stop[m]
      BY <2>1 DEF MulticastTypeOK
    <2>6. BornByStart' /\ SlotLocked' /\ StopPassed'
      BY <1>1, <1>2, <2>1, <2>2, <2>5 DEF BornByStart, Unborn, SlotLocked, StopPassed, MulticastStopped
    <2>7. stopTx[n].sender = "taken"
      BY <2>1 DEF StopPassed
    <2>8. HeldIsRunning'
      BY <2>2, <2>3, <2>7 DEF HeldIsRunning
    <2>9. \A m \in Instances : start[m] \notin {"take", "wait", "bind"}
      BY <2>1, CallersDiffer DEF StartPassed
    <2>10. StartPassed'
      BY <1>1, <2>9 DEF StartPassed
    <2> QED
      BY <1>3, <2>4, <2>6, <2>8, <2>10
  <1> QED
    BY <1>4, <1>5, <1>6, <1>7 DEF StopCall

-----------------------------------------------------------------------------
(* Starting an instance *)

(* start_discovery up to the binding. *)
LEMMA StartInv ==
    ASSUME MulticastInv, NEW n \in Instances, Start(n) \/ StartLock(n) \/ StartTake(n) \/ StartWait(n)
    PROVE  MulticastInv'
  <1> USE DEF MulticastInv
  <1>0. Starting(n) \in Callers /\ Starting(n) # Nobody
    BY CallersDiffer
  <1>1. UNCHANGED <<rx, since, queue, sup, sockets, events, listener, dart, stop, lost>>
    BY DEF Start, StartLock, StartTake, StartWait, mcVars
  <1>2. start[n] # "done"
    BY DEF Start, StartLock, StartTake, StartWait
  <1>3. ErrorsCounted' /\ SupervisorHolds'
    BY <1>1 DEF ErrorsCounted, SupervisorHolds, Released, MulticastStopped
  <1>4. CASE Start(n) \/ StartLock(n)
    <2>1. PICK a \in {"lock", "bind", "take"} : start' = [start EXCEPT ![n] = a]
      BY <1>4 DEF Start, StartLock
    <2>2. UNCHANGED <<stopTx, cancel>>
      BY <1>4 DEF Start, StartLock
    <2>3. \A m \in Instances : start'[m] = IF m = n THEN a ELSE start[m]
      BY <2>1 DEF MulticastTypeOK
    <2>4. /\ running' \in [value : Instances \cup {NoInstance}, lock : Callers \cup {Nobody}]
          /\ running'.value = running.value
          /\ a # "lock" => running'.lock = Starting(n) /\ running.lock = Nobody
          /\ a = "lock" => running'.lock = running.lock
          /\ a = "bind" => running.value = NoInstance
          /\ a = "take" => running.value # NoInstance
      <3>1. CASE Start(n)
        BY <2>3, <3>1 DEF Start, MulticastTypeOK
      <3>2. CASE StartLock(n)
        <4>1. running.lock = Nobody /\ running' = [running EXCEPT !.lock = Starting(n)]
          BY <3>2 DEF StartLock
        <4>2. a = IF running.value = NoInstance THEN "bind" ELSE "take"
          BY <2>3, <3>2 DEF StartLock, MulticastTypeOK
        <4> QED
          BY <1>0, <4>1, <4>2 DEF MulticastTypeOK
      <3> QED
        BY <1>4, <3>1, <3>2
    <2>5. MulticastTypeOK'
      BY <1>1, <2>1, <2>2, <2>4 DEF MulticastTypeOK
    <2>6. BornByStart' /\ SlotLocked' /\ StopPassed' /\ HeldIsRunning'
      BY <1>1, <1>2, <2>2, <2>3, <2>4
      DEF BornByStart, Unborn, SlotLocked, StopPassed, HeldIsRunning, MulticastStopped
    <2>7. \A m \in Instances : a # "lock" => start[m] \notin {"take", "wait", "bind"}
      BY <2>4, CallersDiffer DEF StartPassed
    <2>8. running.value = NoInstance => \A m \in Instances : stopTx[m].sender # "held"
      BY NaturalBounds DEF HeldIsRunning
    <2>9. StartPassed'
      <3> SUFFICES ASSUME NEW m \in Instances
                   PROVE  /\ start'[m] \in {"take", "wait", "bind"} => running'.lock = Starting(m)
                          /\ start'[m] \in {"take", "wait"} => running'.value \in Instances
                          /\ start'[m] = "wait" => stopTx'[running'.value].sender # "held"
                          /\ start'[m] = "bind" => \A k \in Instances : stopTx'[k].sender # "held"
        BY DEF StartPassed
      <3>1. CASE m = n
        BY <2>2, <2>3, <2>4, <2>8, <3>1 DEF MulticastTypeOK
      <3>2. CASE m # n
        BY <2>2, <2>3, <2>4, <2>7, <3>2 DEF StartPassed
      <3> QED
        BY <3>1, <3>2
    <2> QED
      BY <1>3, <2>5, <2>6, <2>9
  <1>5. CASE StartTake(n) \/ StartWait(n)
    <2> DEFINE v == running.value
    <2>1. PICK a \in {"wait", "bind"} : start' = [start EXCEPT ![n] = a]
      BY <1>5 DEF StartTake, StartWait
    <2>2. v \in Instances /\ running.lock = Starting(n) /\ UNCHANGED running
      BY <1>5 DEF StartTake, StartWait, StartPassed
    <2>3. \A m \in Instances : start'[m] = IF m = n THEN a ELSE start[m]
      BY <2>1 DEF MulticastTypeOK
    <2>4. /\ stopTx' \in [Instances -> [sender : {"none", "held", "sent", "taken"}, lock : Callers \cup {Nobody}]]
          /\ cancel' \in [Instances -> BOOLEAN]
          /\ \A m \in Instances : m # v => stopTx'[m] = stopTx[m]
          /\ stopTx'[v].sender # "held"
          /\ \/ stopTx[v].sender = "held" /\ stopTx'[v].sender = "sent" /\ stopTx'[v].lock = Starting(n) /\ stopTx[v].lock = Nobody
             \/ stopTx'[v] = stopTx[v]
             \/ /\ stopTx[v].lock = Starting(n) /\ stopTx[v].sender = "sent" /\ MulticastStopped(v)
                /\ stopTx'[v].sender = "taken" /\ stopTx'[v].lock = Nobody
      <3>1. CASE StartTake(n)
        <4>1. LockStopTx(v, Starting(n)) /\ UNCHANGED cancel
          BY <3>1 DEF StartTake
        <4> HIDE DEF v
        <4> QED
          BY <1>0, <2>2, <4>1, LockStep DEF MulticastTypeOK
      <3>2. CASE StartWait(n)
        <4>1. Waited(v, Starting(n)) /\ start[n] = "wait"
          BY <3>2 DEF StartWait
        <4>2. stopTx[v].sender # "held"
          BY <4>1 DEF StartPassed
        <4> HIDE DEF v
        <4> QED
          BY <1>0, <2>2, <4>1, <4>2, WaitStep
      <3> QED
        BY <1>5, <3>1, <3>2
    <2>5. MulticastTypeOK'
      BY <1>1, <2>1, <2>2, <2>4 DEF MulticastTypeOK
    <2> HIDE DEF v
    <2>6. BornByStart'
      <3> SUFFICES ASSUME NEW m \in Instances
                   PROVE  (IF start[m] = "done" THEN stopTx[m].sender # "none" ELSE Unborn(m))'
        BY DEF BornByStart
      <3>1. (IF start[m] = "done" THEN stopTx[m].sender # "none" ELSE Unborn(m)) /\ (start'[m] = "done" <=> start[m] = "done")
        BY <1>2, <2>3 DEF BornByStart
      <3>2. (stopTx[m].sender = "none" <=> stopTx'[m].sender = "none")
        BY <2>2, <2>4
      <3> QED
        BY <1>1, <3>1, <3>2 DEF Unborn
    <2>7. SlotLocked'
      BY <1>0, <1>1, <2>2, <2>4 DEF SlotLocked, MulticastStopped
    <2>8. StopPassed'
      BY <1>1, <2>2, <2>4, CallersDiffer DEF StopPassed
    <2>9. HeldIsRunning'
      BY <2>2, <2>4 DEF HeldIsRunning
    <2>10. \A m \in Instances : stopTx'[m].sender # "held"
      BY <2>2, <2>4 DEF HeldIsRunning, v
    <2>11. \A m \in Instances : m # n => start[m] \notin {"take", "wait", "bind"}
      BY <2>2, CallersDiffer DEF StartPassed
    <2>12. StartPassed'
      BY <2>2, <2>3, <2>10, <2>11 DEF StartPassed, v
    <2> QED
      BY <1>3, <2>5, <2>6, <2>7, <2>8, <2>9, <2>12
  <1> QED
    BY <1>4, <1>5

(* The binding: the instance is born and becomes the value of               *)
(* RUNNING_DISCOVERY, at a moment when no other is held.                    *)
LEMMA BindInv ==
    ASSUME MulticastInv, NEW n \in Instances, NEW b \in BOOLEAN, StartBind(n, b)
    PROVE  MulticastInv'
  <1> USE DEF MulticastInv
  <1>0. MaxErrors \in Nat \ {0}
    BY NaturalBounds
  <1>1. UNCHANGED <<since, queue, events, listener, cancel, stop, lost>>
    BY DEF StartBind
  <1>2. start[n] = "bind" /\ start' = [start EXCEPT ![n] = "done"] /\ running' = [value |-> n, lock |-> Nobody]
    BY DEF StartBind
  <1>3. Unborn(n)
    BY <1>2 DEF BornByStart
  <1>4. stopTx' = [stopTx EXCEPT ![n].sender = "held"]
    BY DEF StartBind
  <1>5. /\ stopTx' \in [Instances -> [sender : {"none", "held", "sent", "taken"}, lock : Callers \cup {Nobody}]]
        /\ stopTx'[n].sender = "held" /\ stopTx'[n].lock = stopTx[n].lock
        /\ \A m \in Instances : m # n => stopTx'[m] = stopTx[m]
    <2> DEFINE t == [stopTx[n] EXCEPT !.sender = "held"]
    <2>0. stopTx[n] \in [sender : {"none", "held", "sent", "taken"}, lock : Callers \cup {Nobody}]
      BY DEF MulticastTypeOK
    <2>1. /\ t \in [sender : {"none", "held", "sent", "taken"}, lock : Callers \cup {Nobody}]
          /\ t.sender = "held" /\ t.lock = stopTx[n].lock
      BY <2>0
    <2>2. stopTx' = [stopTx EXCEPT ![n] = t]
      BY <1>4
    <2> HIDE DEF t
    <2> QED
      BY <2>1, <2>2 DEF MulticastTypeOK
  <1>6. stopTx[n].lock = Nobody
    BY <1>3 DEF Unborn, SlotLocked
  <1>7. \A m \in Instances : stopTx[m].sender # "held"
    BY <1>2 DEF StartPassed
  <1>8. \A m \in Instances : m # n => start[m] \notin {"take", "wait", "bind"}
    BY <1>2, CallersDiffer DEF StartPassed
  <1>9. \A m \in Instances : start'[m] = IF m = n THEN "done" ELSE start[m]
    BY <1>2 DEF MulticastTypeOK
  <1>10. CASE b
    <2>1. Bind(n)
      BY <1>10 DEF StartBind
    <2>2. rx' = [rx EXCEPT ![n] = [i \in Sockets |-> [st |-> "read", errs |-> 0]]]
      BY <2>1 DEF Bind
    <2>3. \A m \in Instances, i \in Sockets : rx'[m][i] = IF m = n THEN [st |-> "read", errs |-> 0] ELSE rx[m][i]
      BY <2>2 DEF MulticastTypeOK
    <2>4. rx' \in [Instances -> [Sockets -> Loops]]
      <3>1. [st |-> "read", errs |-> 0] \in Loops
        BY <1>0 DEF Loops, RxStates
      <3> QED
        BY <2>2, <3>1 DEF MulticastTypeOK, Loops
    <2>5. /\ sup' \in [Instances -> SupStates] /\ sup'[n] = "select"
          /\ sockets' \in [Instances -> SUBSET Sockets]
          /\ \A m \in Instances : m # n => sup'[m] = sup[m] /\ sockets'[m] = sockets[m]
      BY <2>1 DEF Bind, MulticastTypeOK, SupStates
    <2>6. ErrorsCounted'
      <3> SUFFICES ASSUME NEW m \in Instances, NEW i \in Sockets
                   PROVE  /\ rx'[m][i].errs = since'[m][i]
                          /\ rx'[m][i].st = "failed" <=> rx'[m][i].errs = MaxErrors
                          /\ rx'[m][i].st \in {"none", "ended"} => rx'[m][i].errs = 0
        BY DEF ErrorsCounted
      <3>1. CASE m # n
        BY <1>1, <2>3, <3>1 DEF ErrorsCounted
      <3>2. CASE m = n
        <4>1. since[n][i] = 0
          BY <1>3 DEF Unborn, ErrorsCounted
        <4> QED
          BY <1>0, <1>1, <2>3, <3>2, <4>1
      <3> QED
        BY <3>1, <3>2
    <2>7. BornByStart'
      BY <1>1, <1>5, <1>9, <2>3, <2>5 DEF BornByStart, Unborn
    <2>8. SupervisorHolds' /\ SlotLocked'
      BY <1>5, <1>6, <2>3, <2>5 DEF SupervisorHolds, Released, SlotLocked, MulticastStopped
    <2>9. MulticastTypeOK'
      <3>1. running' \in [value : Instances \cup {NoInstance}, lock : Callers \cup {Nobody}]
        BY <1>2
      <3>2. dart' \in [Instances -> BOOLEAN]
        BY DEF StartBind, MulticastTypeOK
      <3>3. start' \in [Instances -> {"idle", "lock", "take", "wait", "bind", "done"}]
        BY <1>2 DEF MulticastTypeOK
      <3> QED
        BY <1>1, <1>5, <2>4, <2>5, <3>1, <3>2, <3>3 DEF MulticastTypeOK, Loops
    <2>10. StopPassed' /\ HeldIsRunning' /\ StartPassed'
      BY <1>1, <1>2, <1>3, <1>5, <1>7, <1>8, <1>9 DEF StopPassed, HeldIsRunning, StartPassed, Unborn
    <2> QED
      BY <2>6, <2>7, <2>8, <2>9, <2>10
  <1>11. CASE ~b
    <2>1. UNCHANGED <<rx, sup, sockets>>
      BY <1>11 DEF StartBind
    <2>2. ErrorsCounted' /\ BornByStart'
      BY <1>1, <1>5, <1>9, <2>1 DEF ErrorsCounted, BornByStart, Unborn
    <2>3. SupervisorHolds' /\ SlotLocked'
      BY <1>5, <1>6, <2>1 DEF SupervisorHolds, Released, SlotLocked, MulticastStopped
    <2>4. MulticastTypeOK'
      BY <1>1, <1>2, <1>5, <2>1 DEF MulticastTypeOK, StartBind
    <2>5. StopPassed' /\ HeldIsRunning' /\ StartPassed'
      BY <1>1, <1>2, <1>3, <1>5, <1>7, <1>8, <1>9 DEF StopPassed, HeldIsRunning, StartPassed, Unborn
    <2> QED
      BY <2>2, <2>3, <2>4, <2>5
  <1> QED
    BY <1>10, <1>11

-----------------------------------------------------------------------------

(* Every step keeps the invariant. *)
LEMMA MulticastStepInv == MulticastInv /\ [MulticastNext]_multicastVars => MulticastInv'
  <1> SUFFICES ASSUME MulticastInv, [MulticastNext]_multicastVars PROVE MulticastInv'
    OBVIOUS
  <1>1. CASE UNCHANGED multicastVars
    <2>1. UNCHANGED <<rx, since, queue, sup, sockets, stopTx, events, listener, cancel, dart, running, start, stop, lost>>
      BY <1>1 DEF multicastVars, mcVars, apiVars
    <2>2. MulticastTypeOK'
      BY <2>1 DEF MulticastInv, MulticastTypeOK
    <2>3. ErrorsCounted' /\ BornByStart' /\ SupervisorHolds'
      BY <2>1 DEF MulticastInv, ErrorsCounted, BornByStart, Unborn, SupervisorHolds, Released, MulticastStopped
    <2>4. SlotLocked' /\ StopPassed' /\ HeldIsRunning' /\ StartPassed'
      BY <2>1 DEF MulticastInv, SlotLocked, StopPassed, HeldIsRunning, StartPassed, MulticastStopped
    <2> QED
      BY <2>2, <2>3, <2>4 DEF MulticastInv
  <1>2. CASE MulticastNext
    <2>1. PICK n \in Instances :
            \/ \E i \in Sockets : SendEvent(n, i)
            \/ Supervisor(n) \/ Answer(n) \/ ListenEvent(n) \/ ListenCancelled(n)
            \/ StopCall(n) \/ StartCall(n)
            \/ Outside(n)
      BY <1>2 DEF MulticastNext
    <2>2. CASE \E i \in Sockets : SendEvent(n, i)
      BY <2>2, ReceiveInv
    <2>3. CASE Supervisor(n)
      BY <2>3, SupervisorInv
    <2>4. CASE Answer(n) \/ ListenEvent(n) \/ ListenCancelled(n)
      BY <2>4, StreamInv
    <2>5. CASE StopCall(n)
      BY <2>5, StopInv
    <2>6. CASE StartCall(n)
      BY <2>6, StartInv, BindInv DEF StartCall
    <2>7. CASE Outside(n)
      BY <2>7, ReceiveInv, StreamInv, StopInv, StartInv DEF Outside
    <2> QED
      BY <2>1, <2>2, <2>3, <2>4, <2>5, <2>6, <2>7
  <1> QED
    BY <1>1, <1>2

(* The inductive invariant holds in every reachable state. *)
THEOREM MulticastInvariance == MulticastSpec => []MulticastInv
  BY MulticastInitInv, MulticastStepInv, PTL DEF MulticastSpec

(* A socket is given up only after MAX_CONSECUTIVE_RECEIVE_ERRORS reads in  *)
(* a row failed, no channel is passed its capacity, and however starts,     *)
(* stops and hot restarts race, at most one instance is running that nobody *)
(* has asked to stop.                                                       *)
THEOREM SocketsAreSound == MulticastSpec => []SocketsSound
  <1>1. MulticastInv => SocketsSound
    <2> SUFFICES ASSUME MulticastInv PROVE SocketsSound
      OBVIOUS
    <2>1. MulticastTypeOK
      BY DEF MulticastInv
    <2>2. GivesUpInARow
      BY DEF MulticastInv, ErrorsCounted, GivesUpInARow
    <2>3. OneRunning
      BY DEF MulticastInv, HeldIsRunning, OneRunning
    <2> QED
      BY <2>1, <2>2, <2>3 DEF SocketsSound
  <1> QED
    BY <1>1, MulticastInvariance, PTL

(* RsDiscovery::stop returns only when the sockets are closed and the       *)
(* receive loops have ended, whoever stopped the instance.                  *)
THEOREM StopReleasesSockets == MulticastSpec => []StopReleases
  <1>1. MulticastInv => StopReleases
    BY DEF MulticastInv, StopReleases, StopPassed, SlotLocked, SupervisorHolds, Released
  <1> QED
    BY <1>1, MulticastInvariance, PTL

-----------------------------------------------------------------------------
(***************************************************************************)
(* DeviceStore: the devices of the application and what it keeps of them.  *)
(***************************************************************************)

(* The log holds the latest confirmations of a history. *)
Recent(logs, h) ==
    /\ Len(logs) <= Len(h)
    /\ \A i \in 1 .. Len(logs) : logs[i] = h[i + (Len(h) - Len(logs))]

\* The confirmations in the histories h.
Confirmations(h) == UNION {{<<q, i>> : i \in DOMAIN h[q]} : q \in Devices}

DeviceStates == [channels : SUBSET Channels, logs : Seq(Channels)]

StorePart ==
    /\ order \in Seq(Devices)
    /\ stored \in [Devices -> DeviceStates]
    /\ hist \in [Devices -> Seq(Channels)]
    /\ \A p \in Devices : Len(stored[p].logs) <= MaxLogs /\ Recent(stored[p].logs, hist[p])
    /\ IsFiniteSet(Confirmations(hist))
    /\ StoreSound

EventPart ==
    /\ emitting \subseteq [fp : Devices, kind : Kinds, n : Nat]
    /\ storeEvents \in Seq([fp : Devices, kind : Kinds]) /\ Len(storeEvents) <= ChannelCap
    /\ missed \subseteq Devices

SlotPart == slots \in Seq([fp : Devices, slot : 0 .. MaxSlots])

PairPart ==
    /\ \A f \in {paired, disk} : DOMAIN f \subseteq Devices /\ \A p \in DOMAIN f : f[p] \in Seq(Channels)
    /\ unsaved \in BOOLEAN
    /\ DiskCurrent

\* The highlight is on a row.
ListPart ==
    /\ list \in [open : BOOLEAN, rows : Seq(Rows), cursor : Nat]
    /\ list.cursor <= Len(list.rows)

(* What is kept of a paired device is the ranking of the store, or an event *)
(* that will refresh it is on its way or was dropped.                       *)
RefreshDue ==
    \A p \in DOMAIN paired \ missed : Known(p) =>
        \/ paired[p] \in RankedChannels(stored[p])
        \/ \E e \in emitting : e.fp = p
        \/ \E i \in DOMAIN storeEvents : storeEvents[i].fp = p

StoreInv ==
    /\ StorePart /\ EventPart /\ SlotPart /\ PairPart /\ ListPart /\ keys \in 0 .. MaxKeys
    /\ RefreshDue

(* The type invariant is part of it.                                        *)
LEMMA StoreTyped == StoreInv => StoreTypeOK
  BY DEF StoreInv, StorePart, EventPart, SlotPart, PairPart, ListPart, DeviceStates, StoreTypeOK

(* A set of numbers has a smallest member.                                  *)
LEMMA Smallest ==
    ASSUME NEW S, S \subseteq Nat, S # {}
    PROVE  \E x \in S : \A y \in S : x <= y
  <1> DEFINE Below == {ss \in Nat \X Nat : ss[1] < ss[2]}
  <1>1. IsWellFoundedOn(Below, Nat)
    BY NatLessThanWellFounded, Zenon DEF OpToRel
  <1>2. PICK x \in S : \A y \in S : <<y, x>> \notin Below
    <2> HIDE DEF Below
    <2> QED
      BY <1>1, WFMin
  <1>3. ASSUME NEW y \in S PROVE x <= y
    <2>1. x \in Nat /\ y \in Nat
      OBVIOUS
    <2>2. ASSUME y < x PROVE <<y, x>> \in Below
      <3>1. <<y, x>> \in Nat \X Nat
        BY <2>1, Zenon
      <3>2. <<y, x>>[1] = y /\ <<y, x>>[2] = x
        OBVIOUS
      <3> QED
        BY <2>2, <3>1, <3>2, Zenon
    <2>3. ~ (y < x)
      BY <1>2, <2>2, Zenon
    <2> QED
      BY <2>1, <2>3
  <1> QED
    BY <1>3

(* And a largest one, if it is bounded.                                     *)
LEMMA LargestIs ==
    ASSUME NEW S, NEW n \in Nat, S \subseteq 1 .. n, S # {}
    PROVE  Max(S) \in S /\ \A y \in S : y <= Max(S)
  <1> DEFINE T == {k \in Nat : n - k \in S}
  <1>1. ASSUME NEW y \in S PROVE n - y \in T
    <2>1. y \in 1 .. n
      OBVIOUS
    <2>2. n - y \in Nat /\ n - (n - y) = y
      BY <2>1
    <2> QED
      BY <2>2
  <1>2. T \subseteq Nat /\ T # {}
    BY <1>1
  <1>3. PICK k \in T : \A j \in T : k <= j
    <2> HIDE DEF T
    <2> QED
      BY <1>2, Smallest
  <1>4. n - k \in S
    OBVIOUS
  <1>5. ASSUME NEW y \in S PROVE n - k >= y
    <2>1. k <= n - y /\ k \in Nat /\ y \in 1 .. n
      BY <1>1, <1>3
    <2> QED
      BY <2>1
  <1>6. Max(S) \in S /\ \A y \in S : Max(S) >= y
    <2>1. \E x \in S : \A y \in S : x >= y
      BY <1>4, <1>5
    <2> QED
      BY <2>1 DEF Max
  <1>7. \A y \in S : y \in Nat
    OBVIOUS
  <1> QED
    BY <1>6, <1>7

LastIn(s, c) == SelectLastInSeq(s, LAMBDA l : l = c)

(* The last confirmation of a channel in a log.                             *)
LEMMA LastIs ==
    ASSUME NEW s \in Seq(Channels), NEW c
    PROVE  /\ LastIn(s, c) \in 0 .. Len(s)
           /\ LastIn(s, c) # 0 => s[LastIn(s, c)] = c
           /\ \A i \in 1 .. Len(s) : s[i] = c => i <= LastIn(s, c)
  <1> DEFINE I == {i \in 1 .. Len(s) : s[i] = c}
             n == LastIn(s, c)
  <1>1. n = IF I # {} THEN Max(I) ELSE 0
    BY DEF LastIn, SelectLastInSeq
  <1>2. Len(s) \in Nat
    OBVIOUS
  <1>3. CASE I = {}
    <2>1. n = 0
      BY <1>1, <1>3
    <2>2. \A i \in 1 .. Len(s) : s[i] # c
      BY <1>3
    <2> QED
      BY <1>2, <2>1, <2>2
  <1>4. CASE I # {}
    <2>1. I \subseteq 1 .. Len(s)
      OBVIOUS
    <2>2. n = Max(I)
      BY <1>1, <1>4
    <2>3. n \in I /\ \A y \in I : y <= n
      <3> HIDE DEF I
      <3> QED
        BY <1>2, <1>4, <2>1, <2>2, LargestIs
    <2>4. n \in 1 .. Len(s) /\ s[n] = c
      BY <2>3
    <2>5. \A i \in 1 .. Len(s) : s[i] = c => i <= n
      BY <2>3
    <2> QED
      BY <1>2, <2>4, <2>5
  <1> QED
    BY <1>3, <1>4

(* The members of a set of numbers, counted from below.                     *)
LEMMA NthIs ==
    ASSUME NEW S, S \subseteq Nat, IsFiniteSet(S), NEW i \in 1 .. Cardinality(S)
    PROVE  Nth(S, i) \in S /\ Cardinality({m \in S : m <= Nth(S, i)}) = i
  <1> DEFINE upto(n) == {m \in S : m <= n}
  <1> DEFINE rank == [n \in S |-> Cardinality(upto(n))]
  <1>1. ASSUME NEW n \in S PROVE IsFiniteSet(upto(n)) /\ Cardinality(upto(n)) \in 1 .. Cardinality(S)
    <2>1. upto(n) \in SUBSET S /\ upto(n) # {}
      OBVIOUS
    <2> HIDE DEF upto
    <2>2. IsFiniteSet(upto(n)) /\ Cardinality(upto(n)) <= Cardinality(S)
      BY <2>1, FS_Subset
    <2>3. Cardinality(upto(n)) \in Nat /\ Cardinality(S) \in Nat /\ Cardinality(upto(n)) # 0
      BY <2>1, <2>2, FS_CardinalityType, FS_EmptySet
    <2> QED
      BY <2>2, <2>3
  <1>2. ASSUME NEW k \in S, NEW n \in S, k < n PROVE Cardinality(upto(k)) # Cardinality(upto(n))
    <2>0. k \in Nat /\ n \in Nat /\ \A m \in S : m \in Nat
      OBVIOUS
    <2>1. upto(k) \in SUBSET upto(n) /\ n \in upto(n) /\ n \notin upto(k)
      <3>1. \A m \in S : m <= k => m <= n
        BY <1>2, <2>0
      <3>2. n <= n /\ ~ (n <= k)
        BY <1>2, <2>0
      <3> QED
        BY <3>1, <3>2
    <2> HIDE DEF upto
    <2> QED
      BY <1>1, <2>1, FS_Subset
  <1>3. rank \in [S -> 1 .. Cardinality(S)]
    BY <1>1
  <1>4. ASSUME NEW k \in S, NEW n \in S, rank[k] = rank[n] PROVE k = n
    <2>1. k \in Nat /\ n \in Nat
      OBVIOUS
    <2>2. Cardinality(upto(k)) = Cardinality(upto(n))
      BY <1>4
    <2> HIDE DEF upto, rank
    <2> QED
      BY <1>2, <2>1, <2>2
  <1>5. rank \in Injection(S, 1 .. Cardinality(S))
    <2> HIDE DEF rank
    <2> QED
      BY <1>3, <1>4 DEF Injection, IsInjective
  <1>6. Cardinality(S) \in Nat
    BY FS_CardinalityType
  <1>7. IsFiniteSet(1 .. Cardinality(S)) /\ Cardinality(1 .. Cardinality(S)) = Cardinality(S)
    BY <1>6, FS_Interval
  <1>8. rank \in Surjection(S, 1 .. Cardinality(S))
    <2> HIDE DEF rank
    <2> QED
      BY <1>5, <1>7, FS_Injection
  <1>9. \E n \in S : rank[n] = i
    <2> HIDE DEF rank
    <2> QED
      BY <1>8 DEF Surjection
  <1>10. \E n \in S : Cardinality({m \in S : m <= n}) = i
    BY <1>9
  <1> QED
    BY <1>10 DEF Nth

(* No member is counted twice.                                              *)
LEMMA NthDiffers ==
    ASSUME NEW S, S \subseteq Nat, IsFiniteSet(S),
           NEW i \in 1 .. Cardinality(S), NEW j \in 1 .. Cardinality(S), Nth(S, i) = Nth(S, j)
    PROVE  i = j
  <1>1. Cardinality({m \in S : m <= Nth(S, i)}) = i
    BY NthIs
  <1>2. Cardinality({m \in S : m <= Nth(S, j)}) = j
    BY NthIs
  <1> QED
    BY <1>1, <1>2

-----------------------------------------------------------------------------
(* The ranking of a device's channels lists each of them once.              *)
LEMMA RankedIs ==
    ASSUME NEW d, d.channels \subseteq Channels, NEW s \in RankedChannels(d)
    PROVE  /\ s \in Seq(d.channels) /\ s \in Seq(Channels)
           /\ \A e \in d.channels : \E i \in 1 .. Len(s) : s[i] = e
  <1> DEFINE n == Cardinality(d.channels)
  <1>1. IsFiniteSet(d.channels) /\ n \in Nat
    BY FS_Subset, FS_CardinalityType, StoreConstants
  <1>2. s \in [1 .. n -> d.channels] /\ \A i, j \in 1 .. n : i # j => s[i] # s[j]
    BY DEF RankedChannels, SetToSeqs
  <1>3. s \in Seq(d.channels) /\ Len(s) = n
    <2> HIDE DEF n
    <2> QED
      BY <1>1, <1>2
  <1>4. s \in Seq(Channels)
    BY <1>3, SeqMonotonic
  <1>5. s \in Injection(1 .. n, d.channels)
    <2> HIDE DEF n
    <2> QED
      BY <1>2 DEF Injection, IsInjective
  <1>6. IsFiniteSet(1 .. n) /\ Cardinality(1 .. n) = n
    BY <1>1, FS_Interval
  <1>7. s \in Surjection(1 .. n, d.channels)
    BY <1>1, <1>5, <1>6, FS_Injection
  <1>8. \A e \in d.channels : \E i \in 1 .. n : s[i] = e
    <2> HIDE DEF n
    <2> QED
      BY <1>7 DEF Surjection
  <1> QED
    BY <1>3, <1>4, <1>8

(* s lists the members of S, with none before one that outranks it.         *)
Ranking(d, S, s) ==
    /\ s \in [1 .. Cardinality(S) -> S]
    /\ \A i, j \in 1 .. Cardinality(S) : i # j => s[i] # s[j]
    /\ \A i, j \in 1 .. Cardinality(S) : Outranks(d, s[i], s[j]) => i < j

Rankable(d, S) == \E s : Ranking(d, S, s)

(* The rank of a channel as a number: its family, then its place in the log. *)
RankOf(d, c) == (IF c \in V6 THEN Len(d.logs) + 1 ELSE 0) + LastIn(d.logs, c)

(* Outranking is a comparison of numbers, so it has no cycles.              *)
LEMMA RankOfOutranks ==
    ASSUME NEW d, d.logs \in Seq(Channels), NEW c, NEW e
    PROVE  RankOf(d, c) \in Nat /\ (Outranks(d, c, e) => RankOf(d, c) > RankOf(d, e))
  <1>1. LastIn(d.logs, c) \in 0 .. Len(d.logs) /\ LastIn(d.logs, e) \in 0 .. Len(d.logs) /\ Len(d.logs) \in Nat
    BY LastIs
  <1>2. RankOf(d, c) = (IF c \in V6 THEN Len(d.logs) + 1 ELSE 0) + LastIn(d.logs, c)
        /\ RankOf(d, e) = (IF e \in V6 THEN Len(d.logs) + 1 ELSE 0) + LastIn(d.logs, e)
    BY DEF RankOf
  <1>3. Outranks(d, c, e) => \/ c \in V6 /\ e \notin V6
                             \/ (c \in V6 <=> e \in V6) /\ LastIn(d.logs, c) > LastIn(d.logs, e)
    BY DEF Outranks, LastConfirmed, LastIn
  <1> QED
    BY <1>1, <1>2, <1>3

(* Of some channels one outranks none.                                      *)
LEMMA LowestRank ==
    ASSUME NEW d, d.logs \in Seq(Channels), NEW S, S # {}
    PROVE  \E w \in S : \A x \in S : ~ Outranks(d, w, x)
  <1> DEFINE K == {RankOf(d, c) : c \in S}
  <1>1. K \subseteq Nat /\ K # {}
    BY RankOfOutranks
  <1>2. PICK k \in K : \A l \in K : k <= l
    <2> HIDE DEF K
    <2> QED
      BY <1>1, Smallest
  <1>3. PICK w \in S : k = RankOf(d, w)
    OBVIOUS
  <1>4. ASSUME NEW x \in S PROVE ~ Outranks(d, w, x)
    <2>1. RankOf(d, w) <= RankOf(d, x)
      BY <1>2, <1>3
    <2>2. RankOf(d, w) \in Nat /\ RankOf(d, x) \in Nat
      BY RankOfOutranks
    <2>3. Outranks(d, w, x) => RankOf(d, w) > RankOf(d, x)
      BY RankOfOutranks
    <2> QED
      BY <2>1, <2>2, <2>3
  <1> QED
    BY <1>4

(* That one is put last.                                                    *)
LEMMA RankLast ==
    ASSUME NEW d, d.logs \in Seq(Channels), NEW S, IsFiniteSet(S), NEW w \in S,
           \A x \in S : ~ Outranks(d, w, x), Rankable(d, S \ {w})
    PROVE  Rankable(d, S)
  <1> DEFINE n == Cardinality(S)
             k == Cardinality(S \ {w})
  <1>1. n \in Nat /\ k \in Nat /\ n = k + 1
    <2>1. IsFiniteSet(S \ {w}) /\ Cardinality(S \ {w}) = Cardinality(S) - 1
      BY FS_RemoveElement
    <2>2. Cardinality(S) \in Nat /\ Cardinality(S \ {w}) \in Nat
      BY <2>1, FS_CardinalityType
    <2> QED
      BY <2>1, <2>2
  <1>2. PICK f : Ranking(d, S \ {w}, f)
    BY DEF Rankable
  <1> DEFINE g == [i \in 1 .. n |-> IF i = n THEN w ELSE f[i]]
  <1>3. /\ f \in [1 .. k -> S \ {w}]
        /\ \A i, j \in 1 .. k : i # j => f[i] # f[j]
        /\ \A i, j \in 1 .. k : Outranks(d, f[i], f[j]) => i < j
    BY <1>2 DEF Ranking
  <1> HIDE DEF n, k
  <1>4. ASSUME NEW i \in 1 .. n, i # n PROVE i \in 1 .. k
    BY <1>1, <1>4
  <1>5. g[n] = w /\ \A i \in 1 .. n : i # n => g[i] = f[i] /\ g[i] \in S \ {w} /\ i \in 1 .. k
    BY <1>1, <1>3, <1>4
  <1>6. g \in [1 .. n -> S]
    BY <1>5
  <1> HIDE DEF g
  <1>7. \A i, j \in 1 .. n : i # j => g[i] # g[j]
    BY <1>3, <1>5
  <1>8. ASSUME NEW i \in 1 .. n, NEW j \in 1 .. n, Outranks(d, g[i], g[j]) PROVE i < j
    <2>1. i # n
      BY <1>5, <1>6, <1>8
    <2>2. CASE j = n
      BY <1>1, <2>1, <2>2
    <2>3. CASE j # n
      BY <1>3, <1>5, <1>8, <2>1, <2>3
    <2> QED
      BY <2>2, <2>3
  <1>9. Ranking(d, S, g)
    BY <1>6, <1>7, <1>8 DEF Ranking, n
  <1> QED
    BY <1>9 DEF Rankable

(* The channels of a device can be ranked, however many there are: take the *)
(* smallest set of channels that could not.                                 *)
LEMMA AllRankable ==
    ASSUME NEW d, d.logs \in Seq(Channels), NEW C \in SUBSET Channels
    PROVE  Rankable(d, C)
  <1> DEFINE Bad == {n \in Nat : \E S \in SUBSET Channels : Cardinality(S) = n /\ ~ Rankable(d, S)}
  <1>1. \A S \in SUBSET Channels : IsFiniteSet(S) /\ Cardinality(S) \in Nat
    BY FS_Subset, FS_CardinalityType, StoreConstants
  <1>2. ASSUME NEW n \in Bad, \A m \in Bad : n <= m PROVE FALSE
    <2>1. PICK S \in SUBSET Channels : Cardinality(S) = n /\ ~ Rankable(d, S)
      OBVIOUS
    <2>2. S # {}
      <3> SUFFICES ASSUME S = {} PROVE Rankable(d, S)
        BY <2>1
      <3>1. Cardinality(S) = 0 /\ 1 .. 0 = {}
        BY FS_EmptySet
      <3>2. Ranking(d, S, [i \in {} |-> i])
        BY <3>1 DEF Ranking
      <3> QED
        BY <3>2 DEF Rankable
    <2>3. PICK w \in S : \A x \in S : ~ Outranks(d, w, x)
      BY <2>2, LowestRank
    <2>4. S \ {w} \in SUBSET Channels /\ Cardinality(S \ {w}) = n - 1 /\ Cardinality(S \ {w}) \in Nat /\ n \in Nat
      <3>1. Cardinality(S \ {w}) = Cardinality(S) - 1
        BY <1>1, FS_RemoveElement
      <3>2. S \ {w} \in SUBSET Channels
        OBVIOUS
      <3> QED
        BY <1>1, <2>1, <3>1, <3>2
    <2>5. Rankable(d, S \ {w})
      <3> SUFFICES ASSUME ~ Rankable(d, S \ {w}) PROVE FALSE
        OBVIOUS
      <3>1. Cardinality(S \ {w}) \in Bad
        BY <2>4
      <3>2. n <= Cardinality(S \ {w})
        BY <1>2, <3>1
      <3> QED
        BY <2>4, <3>2
    <2> QED
      BY <1>1, <2>1, <2>3, <2>5, RankLast
  <1>3. Bad \subseteq Nat
    OBVIOUS
  <1>4. Bad = {}
    <2> HIDE DEF Bad
    <2> QED
      BY <1>2, <1>3, Smallest
  <1> QED
    BY <1>1, <1>4

(* There is a ranking of a device's channels, and a best one if it has any. *)
LEMMA RankingExists ==
    ASSUME NEW d, d.channels \subseteq Channels, d.logs \in Seq(Channels)
    PROVE  RankedChannels(d) # {} /\ (d.channels # {} => BestChannels(d) # {})
  <1>1. PICK s : Ranking(d, d.channels, s)
    BY AllRankable DEF Rankable
  <1>2. s \in SetToSeqs(d.channels) /\ DOMAIN s = 1 .. Cardinality(d.channels)
    BY <1>1 DEF Ranking, SetToSeqs
  <1>3. s \in RankedChannels(d)
    BY <1>1, <1>2 DEF Ranking, RankedChannels
  <1>4. ASSUME d.channels # {} PROVE BestChannels(d) # {}
    <2>1. \E i \in 1 .. Len(s) : TRUE
      BY <1>3, <1>4, RankedIs
    <2>2. s # <<>>
      BY <2>1
    <2> QED
      BY <1>3, <2>2 DEF BestChannels
  <1> QED
    BY <1>3, <1>4

(* The best channel is outranked by none.                                   *)
LEMMA BestIs ==
    ASSUME NEW d, d.channels \subseteq Channels, d.logs \in Seq(Channels), NEW c \in BestChannels(d)
    PROVE  c \in d.channels /\ \A e \in d.channels : ~ Outranks(d, e, c)
  <1>1. PICK s \in RankedChannels(d) : s # <<>> /\ c = Head(s)
    BY DEF BestChannels
  <1>2. /\ s \in Seq(d.channels)
        /\ \A e \in d.channels : \E i \in 1 .. Len(s) : s[i] = e
    BY RankedIs
  <1>3. 1 \in 1 .. Len(s) /\ c = s[1] /\ s[1] \in d.channels /\ DOMAIN s = 1 .. Len(s) /\ Len(s) \in Nat
    BY <1>1, <1>2
  <1>4. \A i, j \in DOMAIN s : Outranks(d, s[i], s[j]) => i < j
    BY DEF RankedChannels
  <1>5. ASSUME NEW e \in d.channels PROVE ~ Outranks(d, e, c)
    <2>1. PICK i \in 1 .. Len(s) : s[i] = e
      BY <1>2
    <2>2. Outranks(d, s[i], s[1]) => i < 1
      BY <1>3, <1>4
    <2>3. ~ (i < 1)
      BY <1>3
    <2> QED
      BY <1>3, <2>1, <2>2, <2>3, Zenon
  <1> QED
    BY <1>3, <1>5

(* The best channel of a device is of the preferred family, and of it the   *)
(* one confirmed last.                                                      *)
LEMMA BestFromRanking ==
    ASSUME StorePart
    PROVE  BestIsFreshest
  <1> SUFFICES ASSUME NEW p \in Devices, NEW c \in BestChannels(stored[p])
               PROVE  LET family == IF stored[p].channels \cap V6 # {}
                                    THEN stored[p].channels \cap V6 ELSE stored[p].channels
                      IN  /\ c \in family
                          /\ (\E e \in family : e \in Range(stored[p].logs)) =>
                               \A e \in family : LastIn(hist[p], e) <= LastIn(hist[p], c)
    BY DEF BestIsFreshest, LastIn
  <1> DEFINE d == stored[p]
             family == IF d.channels \cap V6 # {} THEN d.channels \cap V6 ELSE d.channels
             When(e) == LastIn(hist[p], e)
             old == Len(hist[p]) - Len(d.logs)
  <1>1. d.channels \subseteq Channels /\ d.logs \in Seq(Channels) /\ hist[p] \in Seq(Channels)
    BY DEF StorePart, DeviceStates
  <1>2. /\ Len(d.logs) \in Nat /\ Len(hist[p]) \in Nat /\ old \in Nat
        /\ Len(hist[p]) = Len(d.logs) + old
    <2>1. Len(d.logs) <= Len(hist[p])
      BY Zenon DEF StorePart, Recent
    <2>2. Len(d.logs) \in Nat /\ Len(hist[p]) \in Nat
      BY <1>1
    <2> QED
      BY <2>1, <2>2
  <1>9. \A i \in 1 .. Len(d.logs) : d.logs[i] = hist[p][i + old]
    BY Zenon DEF StorePart, Recent
  <1>3. c \in d.channels /\ \A e \in d.channels : ~ Outranks(d, e, c)
    BY <1>1, BestIs
  <1>4. \A e : LastConfirmed(d, e) = LastIn(d.logs, e)
    BY DEF LastConfirmed, LastIn
  <1> HIDE DEF d, old
  <1>5. \A e \in d.channels : /\ ~ (e \in V6 /\ c \notin V6)
                              /\ (e \in V6 <=> c \in V6) => ~ (LastIn(d.logs, e) > LastIn(d.logs, c))
    BY <1>3, <1>4 DEF Outranks
  <1>6. c \in family /\ family \subseteq d.channels /\ \A e \in family : e \in V6 <=> c \in V6
    BY <1>3, <1>5
  <1> HIDE DEF family
  <1>7. \A e \in family : ~ (LastIn(d.logs, e) > LastIn(d.logs, c))
    BY <1>5, <1>6
  <1>8. ASSUME NEW o \in family, o \in Range(d.logs), NEW e \in family
        PROVE  When(e) <= When(c)
    <2>1. PICK i \in 1 .. Len(d.logs) : d.logs[i] = o
      BY <1>1, <1>8 DEF Range
    <2>2. i <= LastIn(d.logs, o) /\ LastIn(d.logs, o) \in 0 .. Len(d.logs)
      BY <1>1, <2>1, LastIs
    <2>3. /\ LastIn(d.logs, c) \in 0 .. Len(d.logs)
          /\ LastIn(d.logs, c) # 0 => d.logs[LastIn(d.logs, c)] = c
      BY <1>1, LastIs
    <2>4. LastIn(d.logs, c) \in 1 .. Len(d.logs)
      BY <1>2, <1>7, <2>2, <2>3
    <2>5. hist[p][LastIn(d.logs, c) + old] = c /\ LastIn(d.logs, c) + old \in 1 .. Len(hist[p])
      <3>1. LastIn(d.logs, c) # 0
        BY <2>4
      <3>2. LastIn(d.logs, c) + old \in 1 .. Len(hist[p])
        BY <1>2, <2>4
      <3> QED
        BY <1>9, <2>3, <2>4, <3>1, <3>2
    <2>6. LastIn(d.logs, c) + old <= When(c) /\ When(c) \in 0 .. Len(hist[p])
      BY <1>1, <2>5, LastIs
    <2>7. When(e) \in 0 .. Len(hist[p]) /\ (When(e) # 0 => hist[p][When(e)] = e)
      BY <1>1, LastIs
    <2>8. CASE When(e) <= old
      BY <1>2, <2>4, <2>6, <2>7, <2>8
    <2>9. CASE ~ (When(e) <= old)
      <3>1. When(e) - old \in 1 .. Len(d.logs) /\ (When(e) - old) + old = When(e) /\ When(e) # 0
        BY <1>2, <2>7, <2>9
      <3>2. d.logs[When(e) - old] = e
        BY <1>9, <2>7, <3>1
      <3>3. When(e) - old <= LastIn(d.logs, e) /\ LastIn(d.logs, e) \in 0 .. Len(d.logs)
        BY <1>1, <3>1, <3>2, LastIs
      <3>4. LastIn(d.logs, e) <= LastIn(d.logs, c)
        BY <1>2, <1>7, <2>4, <3>3
      <3> QED
        BY <1>2, <2>4, <2>6, <2>7, <3>3, <3>4
    <2> QED
      BY <2>8, <2>9
  <1> QED
    BY <1>6, <1>8 DEF family, d

-----------------------------------------------------------------------------
(* A confirmation. *)

(* The log of a device and its history go on together.                      *)
LEMMA RecentGoesOn ==
    ASSUME NEW logs \in Seq(Channels), NEW h \in Seq(Channels), NEW c \in Channels,
           Recent(logs, h), Len(logs) <= MaxLogs
    PROVE  LET more == Capped(Append(logs, c))
           IN  /\ more \in Seq(Channels) /\ more # <<>> /\ Len(more) <= MaxLogs
               /\ Recent(more, Append(h, c))
  <1> DEFINE l == Append(logs, c)
             g == Append(h, c)
  <1>1. MaxLogs \in Nat \ {0}
    BY StoreConstants
  <1>2. /\ l \in Seq(Channels) /\ Len(l) = Len(logs) + 1 /\ Len(logs) \in Nat
        /\ g \in Seq(Channels) /\ Len(g) = Len(h) + 1 /\ Len(h) \in Nat
        /\ l # <<>> /\ Len(logs) <= Len(h)
    <2>1. Len(logs) <= Len(h)
      BY Zenon DEF Recent
    <2>2. l \in Seq(Channels) /\ Len(l) = Len(logs) + 1 /\ Len(logs) \in Nat
      OBVIOUS
    <2>3. g \in Seq(Channels) /\ Len(g) = Len(h) + 1 /\ Len(h) \in Nat
      OBVIOUS
    <2> HIDE DEF l, g
    <2>4. l # <<>>
      <3>1. Len(l) # 0
        BY <2>2
      <3> QED
        BY <3>1, Len(<<>>) = 0
    <2> QED
      BY <2>1, <2>2, <2>3, <2>4
  <1>3. \A i \in 1 .. Len(l) : l[i] = g[i + (Len(g) - Len(l))]
    <2> SUFFICES ASSUME NEW i \in 1 .. Len(l) PROVE l[i] = g[i + (Len(g) - Len(l))]
      OBVIOUS
    <2>1. i + (Len(g) - Len(l)) = i + (Len(h) - Len(logs))
      BY <1>2
    <2>2. CASE i = Len(l)
      <3>1. l[i] = c /\ i + (Len(h) - Len(logs)) = Len(h) + 1
        BY <1>2, <2>2
      <3> QED
        BY <2>1, <3>1
    <2>3. CASE i # Len(l)
      <3>1. i \in 1 .. Len(logs) /\ i + (Len(h) - Len(logs)) \in 1 .. Len(h)
        BY <1>2, <2>3
      <3>2. l[i] = logs[i] /\ g[i + (Len(h) - Len(logs))] = h[i + (Len(h) - Len(logs))]
        BY <3>1
      <3>3. logs[i] = h[i + (Len(h) - Len(logs))]
        BY <3>1, Zenon DEF Recent
      <3> QED
        BY <2>1, <3>2, <3>3
    <2> QED
      BY <2>2, <2>3
  <1> HIDE DEF l, g
  <1>4. CASE Len(l) > MaxLogs
    <2>1. Capped(l) = Tail(l)
      BY <1>4 DEF Capped
    <2>2. /\ Tail(l) \in Seq(Channels) /\ Len(Tail(l)) = Len(l) - 1
          /\ \A i \in 1 .. Len(Tail(l)) : Tail(l)[i] = l[i + 1]
      BY <1>2, HeadTailProperties
    <2>3. Len(Tail(l)) <= MaxLogs /\ Len(Tail(l)) <= Len(g) /\ Len(Tail(l)) # 0
      BY <1>1, <1>2, <1>4, <2>2
    <2>4. Tail(l) # <<>>
      BY <2>3, Len(<<>>) = 0
    <2>5. ASSUME NEW i \in 1 .. Len(Tail(l)) PROVE Tail(l)[i] = g[i + (Len(g) - Len(Tail(l)))]
      <3>0. Len(l) \in Nat /\ Len(g) \in Nat /\ Len(Tail(l)) = Len(l) - 1
        BY <1>2, <2>2
      <3>1. i + 1 \in 1 .. Len(l) /\ (i + 1) + (Len(g) - Len(l)) = i + (Len(g) - Len(Tail(l)))
        <4>1. \A a, b \in Nat : \A t : t = a - 1 =>
                \A k \in 1 .. t : k + 1 \in 1 .. a /\ (k + 1) + (b - a) = k + (b - t)
          OBVIOUS
        <4> QED
          BY <3>0, <4>1, Zenon
      <3> QED
        BY <1>3, <2>2, <3>1
    <2>6. Recent(Tail(l), g)
      BY <2>3, <2>5 DEF Recent
    <2> QED
      BY <2>1, <2>2, <2>3, <2>4, <2>6 DEF l, g
  <1>5. CASE ~ (Len(l) > MaxLogs)
    <2>1. Capped(l) = l
      BY <1>5 DEF Capped
    <2>2. Len(l) <= MaxLogs /\ Len(l) <= Len(g)
      BY <1>1, <1>2, <1>5
    <2>3. Recent(l, g)
      BY <1>3, <2>2 DEF Recent
    <2> QED
      BY <1>2, <2>1, <2>2, <2>3 DEF l, g
  <1> QED
    BY <1>4, <1>5

(* The confirmations are the pairs of a device and an index of its history. *)
LEMMA ConfirmationsAre ==
    ASSUME NEW h, NEW x
    PROVE  x \in Confirmations(h) <=> \E q \in Devices : \E i \in DOMAIN h[q] : x = <<q, i>>
  BY DEF Confirmations

(* A confirmation adds to the history.                                      *)
LEMMA ConfirmationsGrow ==
    ASSUME NEW h \in [Devices -> Seq(Channels)], NEW p \in Devices, NEW c \in Channels
    PROVE  Confirmations([h EXCEPT ![p] = Append(@, c)]) = Confirmations(h) \cup {<<p, Len(h[p]) + 1>>}
  <1> DEFINE g == [h EXCEPT ![p] = Append(@, c)]
             x == <<p, Len(h[p]) + 1>>
  <1>1. h[p] \in Seq(Channels) /\ Len(h[p]) \in Nat /\ DOMAIN h[p] = 1 .. Len(h[p])
    OBVIOUS
  <1>2. DOMAIN g[p] = 1 .. Len(h[p]) + 1 /\ \A q \in Devices : q # p => g[q] = h[q]
    BY <1>1
  <1>3. \A i : i \in DOMAIN g[p] <=> i \in DOMAIN h[p] \/ i = Len(h[p]) + 1
    <2> HIDE DEF g
    <2> QED
      BY <1>1, <1>2
  <1> HIDE DEF g
  <1>4. ASSUME NEW y \in Confirmations(g) PROVE y \in Confirmations(h) \cup {x}
    <2>1. PICK q \in Devices : \E i \in DOMAIN g[q] : y = <<q, i>>
      BY <1>4, ConfirmationsAre
    <2>2. PICK i \in DOMAIN g[q] : y = <<q, i>>
      BY <2>1
    <2>3. i \in DOMAIN h[q] \/ y = x
      BY <1>2, <1>3, <2>2, Zenon
    <2>4. i \in DOMAIN h[q] => y \in Confirmations(h)
      BY <2>2, ConfirmationsAre
    <2> QED
      BY <2>3, <2>4
  <1>5. x \in Confirmations(g)
    BY <1>3, ConfirmationsAre
  <1>6. ASSUME NEW y \in Confirmations(h) PROVE y \in Confirmations(g)
    <2>1. PICK q \in Devices : \E i \in DOMAIN h[q] : y = <<q, i>>
      BY <1>6, ConfirmationsAre
    <2>2. PICK i \in DOMAIN h[q] : y = <<q, i>>
      BY <2>1
    <2>3. i \in DOMAIN g[q]
      BY <1>2, <1>3, <2>2, Zenon
    <2> QED
      BY <2>2, <2>3, ConfirmationsAre
  <1>7. Confirmations(g) = Confirmations(h) \cup {x}
    BY <1>4, <1>5, <1>6
  <1> QED
    BY <1>7 DEF g

(* Merging a confirmed channel into a device.                               *)
LEMMA UpsertIs ==
    ASSUME NEW d \in DeviceStates, NEW c \in Channels, NEW h \in Seq(Channels),
           Len(d.logs) <= MaxLogs, Recent(d.logs, h)
    PROVE  /\ Upsert(d, c) \in DeviceStates
           /\ Upsert(d, c).logs # <<>> /\ Len(Upsert(d, c).logs) <= MaxLogs
           /\ Recent(Upsert(d, c).logs, Append(h, c))
           /\ Upsert(d, c).channels = {e \in d.channels : HostOf[e] # HostOf[c]} \cup {c}
  <1> DEFINE more == Capped(Append(d.logs, c))
             others == {e \in d.channels : ~SameEndpoint(e, c)} \cup {c}
  <1>1. d.channels \subseteq Channels /\ d.logs \in Seq(Channels)
    BY DEF DeviceStates
  <1>2. more \in Seq(Channels) /\ more # <<>> /\ Len(more) <= MaxLogs /\ Recent(more, Append(h, c))
    BY <1>1, RecentGoesOn
  <1>3. others \subseteq Channels /\ others = {e \in d.channels : HostOf[e] # HostOf[c]} \cup {c}
    BY <1>1 DEF SameEndpoint
  <1>4. Upsert(d, c).channels = others /\ Upsert(d, c).logs = more /\ Upsert(d, c) = [channels |-> others, logs |-> more]
    BY DEF Upsert
  <1> HIDE DEF more, others
  <1>5. Upsert(d, c) \in DeviceStates
    BY <1>2, <1>3, <1>4 DEF DeviceStates
  <1> QED
    BY <1>2, <1>3, <1>4, <1>5

(* The store stays sound.                                                   *)
LEMMA FoundKeepsStore ==
    ASSUME StorePart, NEW p \in Devices, NEW c \in Channels, Found(p, c)
    PROVE  StorePart'
  <1> DEFINE d == Upsert(stored[p], c)
             x == <<p, Len(hist[p]) + 1>>
  <1>1. /\ order \in Seq(Devices) /\ stored \in [Devices -> DeviceStates]
        /\ hist \in [Devices -> Seq(Channels)] /\ IsFiniteSet(Confirmations(hist))
        /\ IsInjective(order)
    BY DEF StorePart, StoreSound
  <1>2. /\ stored' = [stored EXCEPT ![p] = Upsert(@, c)]
        /\ hist' = [hist EXCEPT ![p] = Append(@, c)]
        /\ order' = IF Known(p) THEN order ELSE Append(order, p)
    BY Zenon DEF Found
  <1>3. /\ d \in DeviceStates /\ d.logs # <<>> /\ Len(d.logs) <= MaxLogs
        /\ Recent(d.logs, Append(hist[p], c))
        /\ d.channels = {e \in stored[p].channels : HostOf[e] # HostOf[c]} \cup {c}
    <2>1. stored[p] \in DeviceStates /\ hist[p] \in Seq(Channels)
      BY <1>1
    <2>2. Len(stored[p].logs) <= MaxLogs /\ Recent(stored[p].logs, hist[p])
      BY DEF StorePart
    <2> QED
      BY <2>1, <2>2, UpsertIs, Zenon
  <1>4. stored'[p] = d /\ \A q \in Devices : q # p => stored'[q] = stored[q]
    BY <1>1, <1>2, Zenon
  <1>5. hist'[p] = Append(hist[p], c) /\ \A q \in Devices : q # p => hist'[q] = hist[q]
    BY <1>1, <1>2, Zenon
  <1>6. IsFiniteSet(Confirmations(hist))'
    <2>1. Confirmations(hist') = Confirmations(hist) \cup {x}
      BY <1>1, <1>2, ConfirmationsGrow, Zenon
    <2>2. IsFiniteSet(Confirmations(hist) \cup {x})
      <3> HIDE DEF x
      <3> QED
        BY <1>1, FS_AddElement
    <2> QED
      BY <2>1, <2>2, Zenon
  <1>7. stored' \in [Devices -> DeviceStates]
    <2> HIDE DEF d
    <2> QED
      BY <1>1, <1>2, <1>3 DEF d
  <1>8. hist' \in [Devices -> Seq(Channels)]
    BY <1>1, <1>2
  <1>9. order' \in Seq(Devices)
    BY <1>1, <1>2
  <1>10. \A q \in Devices : Len(stored'[q].logs) <= MaxLogs /\ Recent(stored'[q].logs, hist'[q])
    <2>1. Len(stored'[p].logs) <= MaxLogs /\ Recent(stored'[p].logs, hist'[p])
      <3> HIDE DEF d
      <3> QED
        BY <1>3, <1>4, <1>5, Zenon
    <2>2. ASSUME NEW q \in Devices, q # p PROVE Len(stored'[q].logs) <= MaxLogs /\ Recent(stored'[q].logs, hist'[q])
      BY <1>4, <1>5, <2>2, Zenon DEF StorePart
    <2> QED
      BY <2>1, <2>2, Zenon
  <1>11. \A q \in Devices : Known(q) <=> q \in Range(order)
    BY DEF StorePart, StoreSound
  <1>12. \A q \in Devices : Known(q)' <=> Known(q) \/ q = p
    <2> HIDE DEF d
    <2> QED
      BY <1>3, <1>4, Zenon DEF Known
  <1>13. IsInjective(order') /\ \A q \in Devices : q \in Range(order') <=> q \in Range(order) \/ q = p
    <2>1. CASE Known(p)
      BY <1>1, <1>2, <1>11, <2>1
    <2>2. CASE ~ Known(p)
      <3>1. order' = Append(order, p)
        BY <1>2, <2>2
      <3>2. /\ Len(order) \in Nat /\ DOMAIN order = 1 .. Len(order)
            /\ DOMAIN order' = 1 .. Len(order) + 1 /\ order'[Len(order) + 1] = p
            /\ \A i \in 1 .. Len(order) : order'[i] = order[i]
        BY <1>1, <3>1
      <3>3. \A i \in DOMAIN order : order[i] # p
        BY <1>11, <2>2 DEF Range
      <3>4. \A i : i \in DOMAIN order' <=> i \in DOMAIN order \/ i = Len(order) + 1
        BY <3>2
      <3>5. IsInjective(order')
        BY <1>1, <3>2, <3>3, <3>4, Zenon DEF IsInjective
      <3>6. \A q : q \in Range(order') <=> q \in Range(order) \/ q = p
        BY <3>2, <3>4, Zenon DEF Range
      <3> QED
        BY <3>5, <3>6
    <2> QED
      BY <2>1, <2>2
  <1>14. \A q \in Devices : Known(q)' => Last(hist'[q]) \in stored'[q].channels
    <2>1. Last(hist'[p]) = c
      <3>1. hist[p] \in Seq(Channels)
        BY <1>1
      <3> QED
        BY <1>5, <3>1 DEF Last
    <2>2. c \in stored'[p].channels
      <3> HIDE DEF d
      <3> QED
        BY <1>3, <1>4
    <2>3. ASSUME NEW q \in Devices, q # p, Known(q) PROVE Last(hist'[q]) \in stored'[q].channels
      BY <1>4, <1>5, <2>3, Zenon DEF StorePart, StoreSound
    <2> QED
      BY <1>12, <2>1, <2>2, <2>3, Zenon
  <1>15. \A q \in Devices : \A e, f \in stored'[q].channels : HostOf[e] = HostOf[f] => e = f
    <2>1. \A q \in Devices : \A e, f \in stored[q].channels : HostOf[e] = HostOf[f] => e = f
      BY Zenon DEF StorePart, StoreSound
    <2>2. \A e, f \in d.channels : HostOf[e] = HostOf[f] => e = f
      <3> HIDE DEF d
      <3> QED
        BY <1>3, <2>1
    <2> HIDE DEF d
    <2> QED
      BY <1>4, <2>1, <2>2, Zenon
  <1>16. StoreSound'
    BY <1>11, <1>12, <1>13, <1>14, <1>15, Zenon DEF StoreSound
  <1> QED
    BY <1>6, <1>7, <1>8, <1>9, <1>10, <1>16, Zenon DEF StorePart

(* A step that leaves the store alone.                                      *)
LEMMA StoreLeft ==
    ASSUME StorePart, UNCHANGED storeVars
    PROVE  StorePart' /\ \A p \in Devices : Known(p)' = Known(p)
  <1>1. order' = order /\ stored' = stored /\ hist' = hist
    BY DEF storeVars
  <1> QED
    BY <1>1, Zenon DEF StorePart, StoreSound, Known

(* A confirmation, until its event is emitted.                              *)
LEMMA FoundKeeps ==
    ASSUME StoreInv, NEW p \in Devices, NEW c \in Reach[p], Found(p, c)
    PROVE  StoreInv'
  <1>1. StorePart /\ EventPart /\ SlotPart /\ PairPart /\ ListPart /\ keys \in 0 .. MaxKeys /\ RefreshDue
    BY Zenon DEF StoreInv
  <1>2. c \in Channels
    BY StoreConstants
  <1>3. StorePart'
    BY <1>1, <1>2, FoundKeepsStore
  <1>4. UNCHANGED <<storeEvents, missed, slots, pairVars, list, keys>>
    BY Zenon DEF Found
  <1>5. storeEvents' = storeEvents /\ missed' = missed /\ slots' = slots /\ list' = list /\ keys' = keys
    BY <1>4
  <1>6. paired' = paired /\ disk' = disk /\ unsaved' = unsaved
    BY <1>4 DEF pairVars
  <1>7. PICK kind \in Kinds : emitting' = emitting \cup {[fp |-> p, kind |-> kind, n |-> Cardinality(Confirmations(hist))]}
    BY DEF Found, Confirmations, Kinds
  <1>8. Cardinality(Confirmations(hist)) \in Nat
    BY <1>1, FS_CardinalityType DEF StorePart
  <1>9. EventPart'
    BY <1>1, <1>5, <1>7, <1>8 DEF EventPart
  <1>10. SlotPart' /\ ListPart' /\ (keys \in 0 .. MaxKeys)'
    BY <1>1, <1>5 DEF SlotPart, ListPart
  <1>11. PairPart'
    BY <1>1, <1>6 DEF PairPart, DiskCurrent
  <1>12. RefreshDue'
    <2> SUFFICES ASSUME NEW q \in DOMAIN paired' \ missed', Known(q)'
                 PROVE  \/ paired'[q] \in RankedChannels(stored'[q])
                        \/ \E e \in emitting' : e.fp = q
                        \/ \E i \in DOMAIN storeEvents' : storeEvents'[i].fp = q
      BY Zenon DEF RefreshDue
    <2>1. q \in Devices
      BY <1>1, <1>6, Zenon DEF PairPart
    <2>2. CASE q = p
      <3> DEFINE e == [fp |-> p, kind |-> kind, n |-> Cardinality(Confirmations(hist))]
      <3>1. e.fp = p
        OBVIOUS
      <3> HIDE DEF e
      <3>2. e \in emitting'
        BY <1>7 DEF e
      <3> QED
        BY <2>2, <3>1, <3>2
    <2>3. CASE q # p
      <3>1. stored'[q] = stored[q]
        BY <1>1, <2>1, <2>3, Zenon DEF Found, StorePart
      <3>2. Known(q)
        BY <3>1, Zenon DEF Known
      <3>3. \A e \in emitting : e \in emitting'
        BY <1>7
      <3> QED
        BY <1>1, <1>5, <1>6, <3>1, <3>2, <3>3, Zenon DEF RefreshDue
    <2> QED
      BY <2>2, <2>3
  <1> QED
    BY <1>3, <1>9, <1>10, <1>11, <1>12, Zenon DEF StoreInv

(* The emission of an event, or the loss of it.                             *)
LEMMA EmitKeeps ==
    ASSUME StoreInv, NEW e \in emitting, Emit(e)
    PROVE  StoreInv'
  <1>1. StorePart /\ EventPart /\ SlotPart /\ PairPart /\ ListPart /\ keys \in 0 .. MaxKeys /\ RefreshDue
    BY Zenon DEF StoreInv
  <1>2. UNCHANGED <<storeVars, slots, pairVars, list, keys>> /\ emitting' = emitting \ {e}
    BY Zenon DEF Emit
  <1>3. StorePart' /\ \A p \in Devices : Known(p)' = Known(p)
    BY <1>1, <1>2, StoreLeft
  <1>4. slots' = slots /\ list' = list /\ keys' = keys /\ paired' = paired /\ disk' = disk /\ unsaved' = unsaved /\ stored' = stored
    BY <1>2 DEF pairVars, storeVars
  <1>5. SlotPart' /\ ListPart' /\ (keys \in 0 .. MaxKeys)'
    BY <1>1, <1>4 DEF SlotPart, ListPart
  <1>6. PairPart'
    BY <1>1, <1>4 DEF PairPart, DiskCurrent
  <1>7. e.fp \in Devices /\ e.kind \in Kinds
    BY <1>1 DEF EventPart
  <1>8. /\ storeEvents \in Seq([fp : Devices, kind : Kinds]) /\ Len(storeEvents) <= ChannelCap
        /\ emitting \subseteq [fp : Devices, kind : Kinds, n : Nat] /\ missed \subseteq Devices
    BY <1>1 DEF EventPart
  <1>9. CASE Len(storeEvents) < ChannelCap
    <2>1. storeEvents' = Append(storeEvents, [fp |-> e.fp, kind |-> e.kind]) /\ missed' = missed \ {e.fp}
      BY <1>9, Zenon DEF Emit
    <2>2. /\ storeEvents' \in Seq([fp : Devices, kind : Kinds]) /\ Len(storeEvents') = Len(storeEvents) + 1
          /\ DOMAIN storeEvents' = 1 .. Len(storeEvents) + 1 /\ Len(storeEvents) \in Nat
          /\ storeEvents'[Len(storeEvents) + 1].fp = e.fp
          /\ DOMAIN storeEvents = 1 .. Len(storeEvents)
          /\ \A i \in 1 .. Len(storeEvents) : storeEvents'[i] = storeEvents[i]
      BY <1>7, <1>8, <2>1
    <2>3. ChannelCap \in Nat
      BY StoreConstants
    <2>4. EventPart'
      <3>1. Len(storeEvents') <= ChannelCap
        BY <1>9, <2>2, <2>3
      <3> QED
        BY <1>2, <1>8, <2>1, <2>2, <3>1 DEF EventPart
    <2>5. \A i : i \in DOMAIN storeEvents' <=> i \in DOMAIN storeEvents \/ i = Len(storeEvents) + 1
      BY <2>2
    <2>6. RefreshDue'
      <3> SUFFICES ASSUME NEW q \in DOMAIN paired' \ missed', Known(q)'
                   PROVE  \/ paired'[q] \in RankedChannels(stored'[q])
                          \/ \E f \in emitting' : f.fp = q
                          \/ \E i \in DOMAIN storeEvents' : storeEvents'[i].fp = q
        BY Zenon DEF RefreshDue
      <3>1. q \in Devices
        BY <1>1, <1>4, Zenon DEF PairPart
      <3>2. CASE q = e.fp
        BY <2>2, <2>5, <3>2, Zenon
      <3>3. CASE q # e.fp
        <4>1. q \in DOMAIN paired \ missed /\ Known(q)
          BY <1>3, <1>4, <2>1, <3>1, <3>3
        <4>2. \A f \in emitting : f.fp = q => f \in emitting'
          BY <1>2, <3>3
        <4>3. \A i \in DOMAIN storeEvents : i \in DOMAIN storeEvents' /\ storeEvents'[i] = storeEvents[i]
          BY <2>2, <2>5, Zenon
        <4> QED
          BY <1>1, <1>4, <4>1, <4>2, <4>3, Zenon DEF RefreshDue
      <3> QED
        BY <3>2, <3>3
    <2> QED
      BY <1>3, <1>5, <1>6, <2>4, <2>6, Zenon DEF StoreInv
  <1>10. CASE ~ (Len(storeEvents) < ChannelCap)
    <2>1. storeEvents' = storeEvents /\ missed' = missed \cup {e.fp}
      BY <1>10, Zenon DEF Emit
    <2>2. EventPart'
      BY <1>2, <1>7, <1>8, <2>1 DEF EventPart
    <2>3. RefreshDue'
      <3> SUFFICES ASSUME NEW q \in DOMAIN paired' \ missed', Known(q)'
                   PROVE  \/ paired'[q] \in RankedChannels(stored'[q])
                          \/ \E f \in emitting' : f.fp = q
                          \/ \E i \in DOMAIN storeEvents' : storeEvents'[i].fp = q
        BY Zenon DEF RefreshDue
      <3>1. q \in Devices
        BY <1>1, <1>4, Zenon DEF PairPart
      <3>2. q \in DOMAIN paired \ missed /\ Known(q) /\ q # e.fp
        BY <1>3, <1>4, <2>1, <3>1
      <3>3. \A f \in emitting : f.fp = q => f \in emitting'
        BY <1>2, <3>2
      <3> QED
        BY <1>1, <1>4, <2>1, <3>2, <3>3, Zenon DEF RefreshDue
    <2> QED
      BY <1>3, <1>5, <1>6, <2>2, <2>3, Zenon DEF StoreInv
  <1> QED
    BY <1>9, <1>10

-----------------------------------------------------------------------------
(* The paired devices. *)

(* A device is paired, or its channels are replaced, with the ranking.      *)
LEMMA InsertIs ==
    ASSUME StorePart, PairPart, NEW p \in Devices, NEW s \in RankedChannels(stored[p]), Insert(p, s)
    PROVE  /\ PairPart'
           /\ DOMAIN paired' = DOMAIN paired \cup {p} /\ paired'[p] = s
           /\ \A q \in DOMAIN paired : q # p => paired'[q] = paired[q]
  <1>1. s \in Seq(Channels)
    <2>1. stored[p].channels \subseteq Channels
      BY DEF StorePart, DeviceStates
    <2> QED
      BY <2>1, RankedIs
  <1>2. paired' = Put(p, s) /\ Save(Put(p, s))
    BY Zenon DEF Insert
  <1>3. DOMAIN Put(p, s) = DOMAIN paired \cup {p} /\ \A q \in DOMAIN paired \cup {p} : Put(p, s)[q] = IF q = p THEN s ELSE paired[q]
    BY DEF Put
  <1>4. DOMAIN Put(p, s) \subseteq Devices /\ \A q \in DOMAIN Put(p, s) : Put(p, s)[q] \in Seq(Channels)
    BY <1>1, <1>3, Zenon DEF PairPart
  <1>5. PairPart'
    <2>1. CASE disk' = Put(p, s) /\ unsaved' = FALSE
      BY <1>2, <1>4, <2>1, Zenon DEF PairPart, DiskCurrent
    <2>2. CASE UNCHANGED disk /\ unsaved' = TRUE
      BY <1>2, <1>4, <2>2, Zenon DEF PairPart, DiskCurrent
    <2> QED
      BY <1>2, <2>1, <2>2, Zenon DEF Save
  <1> QED
    BY <1>2, <1>3, <1>5, Zenon

(* A device is unpaired.                                                    *)
LEMMA RemovePairIs ==
    ASSUME PairPart, NEW p, RemovePair(p)
    PROVE  /\ PairPart'
           /\ DOMAIN paired' = DOMAIN paired \ {p}
           /\ \A q \in DOMAIN paired' : paired'[q] = paired[q]
  <1> DEFINE file == Restrict(paired, DOMAIN paired \ {p})
  <1>1. DOMAIN file = DOMAIN paired \ {p} /\ \A q \in DOMAIN file : file[q] = paired[q]
    BY DEF Restrict
  <1>2. paired' = file /\ Save(file)
    BY Zenon DEF RemovePair
  <1> HIDE DEF file
  <1>3. DOMAIN file \subseteq Devices /\ \A q \in DOMAIN file : file[q] \in Seq(Channels)
    BY <1>1, Zenon DEF PairPart
  <1>4. PairPart'
    <2>1. CASE disk' = file /\ unsaved' = FALSE
      BY <1>2, <1>3, <2>1, Zenon DEF PairPart, DiskCurrent
    <2>2. CASE UNCHANGED disk /\ unsaved' = TRUE
      BY <1>2, <1>3, <2>2, Zenon DEF PairPart, DiskCurrent
    <2> QED
      BY <1>2, <2>1, <2>2, Zenon DEF Save
  <1> QED
    BY <1>1, <1>2, <1>4, Zenon

(* The paired devices keep their refreshed ranking, and p has its own.      *)
LEMMA InsertRefreshes ==
    ASSUME StorePart, PairPart, RefreshDue, NEW p \in Devices, NEW s \in RankedChannels(stored[p]), Insert(p, s),
           UNCHANGED <<storeVars, eventVars>>
    PROVE  RefreshDue'
  <1>1. /\ DOMAIN paired' = DOMAIN paired \cup {p} /\ paired'[p] = s
        /\ \A q \in DOMAIN paired : q # p => paired'[q] = paired[q]
    BY InsertIs
  <1>2. emitting' = emitting /\ storeEvents' = storeEvents /\ missed' = missed /\ stored' = stored
    BY DEF storeVars, eventVars
  <1> SUFFICES ASSUME NEW q \in DOMAIN paired' \ missed', Known(q)'
               PROVE  \/ paired'[q] \in RankedChannels(stored'[q])
                      \/ \E f \in emitting' : f.fp = q
                      \/ \E i \in DOMAIN storeEvents' : storeEvents'[i].fp = q
    BY Zenon DEF RefreshDue
  <1>3. CASE q = p
    BY <1>1, <1>2, <1>3, Zenon
  <1>4. CASE q # p
    <2>1. q \in DOMAIN paired \ missed /\ Known(q) /\ paired'[q] = paired[q]
      BY <1>1, <1>2, <1>4, Zenon DEF Known
    <2> QED
      BY <1>2, <2>1, Zenon DEF RefreshDue
  <1> QED
    BY <1>3, <1>4

(* No pair is stale because another is removed.                             *)
LEMMA RemovePairRefreshes ==
    ASSUME PairPart, RefreshDue, NEW p, RemovePair(p), UNCHANGED <<storeVars, eventVars>>
    PROVE  RefreshDue'
  <1>1. DOMAIN paired' = DOMAIN paired \ {p} /\ \A q \in DOMAIN paired' : paired'[q] = paired[q]
    BY RemovePairIs
  <1>2. emitting' = emitting /\ storeEvents' = storeEvents /\ missed' = missed /\ stored' = stored
    BY DEF storeVars, eventVars
  <1> SUFFICES ASSUME NEW q \in DOMAIN paired' \ missed', Known(q)'
               PROVE  \/ paired'[q] \in RankedChannels(stored'[q])
                      \/ \E f \in emitting' : f.fp = q
                      \/ \E i \in DOMAIN storeEvents' : storeEvents'[i].fp = q
    BY Zenon DEF RefreshDue
  <1>3. q \in DOMAIN paired \ missed /\ Known(q) /\ paired'[q] = paired[q]
    BY <1>1, <1>2, Zenon DEF Known
  <1> QED
    BY <1>2, <1>3, Zenon DEF RefreshDue

(* The channels kept of a paired device are made to follow the store.       *)
LEMMA RefreshPairedIs ==
    ASSUME StorePart, PairPart, NEW e, RefreshPaired(e)
    PROVE  /\ PairPart' /\ DOMAIN paired' = DOMAIN paired
           /\ \A q \in DOMAIN paired : q # e.fp => paired'[q] = paired[q]
           /\ e.fp \in DOMAIN paired => paired'[e.fp] \in RankedChannels(stored[e.fp])
  <1>1. CASE e.fp \in DOMAIN paired
    <2>1. PICK s \in RankedChannels(stored[e.fp]) : Update(e.fp, s)
      BY <1>1, Zenon DEF RefreshPaired
    <2>2. e.fp \in Devices
      BY <1>1, Zenon DEF PairPart
    <2>3. CASE paired[e.fp] = s
      <3>1. paired' = paired /\ disk' = disk /\ unsaved' = unsaved
        BY <2>1, <2>3 DEF Update, pairVars
      <3> QED
        BY <2>3, <3>1, Zenon DEF PairPart, DiskCurrent
    <2>4. CASE paired[e.fp] # s
      <3>1. Insert(e.fp, s)
        BY <2>1, <2>4, Zenon DEF Update
      <3>2. /\ PairPart' /\ DOMAIN paired' = DOMAIN paired \cup {e.fp} /\ paired'[e.fp] = s
            /\ \A q \in DOMAIN paired : q # e.fp => paired'[q] = paired[q]
        BY <2>2, <3>1, InsertIs
      <3>3. DOMAIN paired' = DOMAIN paired
        BY <1>1, <3>2
      <3> QED
        BY <3>2, <3>3, Zenon
    <2> QED
      BY <2>3, <2>4
  <1>2. CASE e.fp \notin DOMAIN paired
    <2>1. paired' = paired /\ disk' = disk /\ unsaved' = unsaved
      BY <1>2 DEF RefreshPaired, pairVars
    <2> QED
      BY <1>2, <2>1, Zenon DEF PairPart, DiskCurrent
  <1> QED
    BY <1>1, <1>2

(* The hotkey of a device is a free one, or none.                           *)
LEMMA AssignIs ==
    ASSUME SlotPart, NEW p \in Devices
    PROVE  Assign(p) \in Seq([fp : Devices, slot : 0 .. MaxSlots])
  <1> DEFINE free == (1 .. MaxSlots) \ {slots[i].slot : i \in DOMAIN slots}
             key == IF free = {} THEN 0 ELSE CHOOSE s \in free : \A t \in free : s <= t
  <1>1. slots \in Seq([fp : Devices, slot : 0 .. MaxSlots])
    BY DEF SlotPart
  <1>2. MaxSlots \in Nat /\ free \subseteq 1 .. MaxSlots
    BY StoreConstants
  <1>3. key \in 0 .. MaxSlots
    <2> HIDE DEF free
    <2>1. CASE free = {}
      BY <1>2, <2>1
    <2>2. CASE free # {}
      <3>1. free \subseteq Nat
        BY <1>2
      <3>2. \E s \in free : \A t \in free : s <= t
        BY <2>2, <3>1, Smallest
      <3>3. (CHOOSE s \in free : \A t \in free : s <= t) \in free
        BY <3>2
      <3>4. key \in free
        BY <2>2, <3>3
      <3> HIDE DEF key
      <3>5. key \in 1 .. MaxSlots
        BY <1>2, <3>4
      <3> QED
        BY <1>2, <3>5
    <2> QED
      BY <2>1, <2>2
  <1>4. Assign(p) = IF \E i \in DOMAIN slots : slots[i].fp = p THEN slots ELSE Append(slots, [fp |-> p, slot |-> key])
    BY DEF Assign
  <1> HIDE DEF key, free
  <1> DEFINE entry == [fp |-> p, slot |-> key]
             taken == \E i \in DOMAIN slots : slots[i].fp = p
  <1>5. entry \in [fp : Devices, slot : 0 .. MaxSlots]
    BY <1>3
  <1> HIDE DEF entry
  <1>6. Append(slots, entry) \in Seq([fp : Devices, slot : 0 .. MaxSlots])
    BY <1>1, <1>5, AppendProperties
  <1>7. Assign(p) = IF taken THEN slots ELSE Append(slots, entry)
    BY <1>4 DEF entry
  <1> QED
    BY <1>1, <1>6, <1>7, Zenon

(* The application takes an event of the store.                             *)
LEMMA HandleDiscoveryKeeps ==
    ASSUME StoreInv, HandleDiscovery
    PROVE  StoreInv'
  <1> DEFINE h == Head(storeEvents)
  <1>1. StorePart /\ EventPart /\ SlotPart /\ PairPart /\ ListPart /\ keys \in 0 .. MaxKeys /\ RefreshDue
    BY Zenon DEF StoreInv
  <1>2. /\ storeEvents # <<>> /\ storeEvents' = Tail(storeEvents) /\ RefreshPaired(h)
        /\ slots' = (IF h.kind = "Discovered" THEN Assign(h.fp) ELSE slots)
    BY DEF HandleDiscovery
  <1>3. /\ UNCHANGED storeVars /\ stored' = stored /\ emitting' = emitting /\ missed' = missed
        /\ list' = list /\ keys' = keys
    BY DEF HandleDiscovery, storeVars
  <1>4. StorePart' /\ \A p \in Devices : Known(p)' = Known(p)
    BY <1>1, <1>3, StoreLeft
  <1>5. ListPart' /\ (keys \in 0 .. MaxKeys)'
    BY <1>1, <1>3 DEF ListPart
  <1>6. storeEvents \in Seq([fp : Devices, kind : Kinds]) /\ Len(storeEvents) <= ChannelCap /\ ChannelCap \in Nat
    BY <1>1, StoreConstants DEF EventPart
  <1>7. /\ h \in [fp : Devices, kind : Kinds] /\ h = storeEvents[1]
        /\ storeEvents' \in Seq([fp : Devices, kind : Kinds]) /\ Len(storeEvents') = Len(storeEvents) - 1
        /\ \A i \in 1 .. Len(storeEvents') : storeEvents'[i] = storeEvents[i + 1]
        /\ Len(storeEvents) \in Nat
    <2>1. /\ Head(storeEvents) \in [fp : Devices, kind : Kinds] /\ Tail(storeEvents) \in Seq([fp : Devices, kind : Kinds])
          /\ Len(Tail(storeEvents)) = Len(storeEvents) - 1
          /\ \A i \in 1 .. Len(Tail(storeEvents)) : Tail(storeEvents)[i] = storeEvents[i + 1]
      BY <1>2, <1>6, HeadTailProperties
    <2>2. Head(storeEvents) = storeEvents[1] /\ Len(storeEvents) \in Nat
      BY <1>6
    <2> QED
      BY <1>2, <2>1, <2>2, Zenon
  <1> HIDE DEF h
  <1>8. EventPart'
    <2>1. Len(storeEvents') <= ChannelCap
      BY <1>6, <1>7
    <2> QED
      BY <1>1, <1>3, <1>7, <2>1 DEF EventPart
  <1>9. SlotPart'
    <2>1. h.fp \in Devices
      BY <1>7
    <2>2. Assign(h.fp) \in Seq([fp : Devices, slot : 0 .. MaxSlots])
      BY <1>1, <2>1, AssignIs
    <2> QED
      BY <1>1, <1>2, <2>2, Zenon DEF SlotPart
  <1>10. /\ PairPart' /\ DOMAIN paired' = DOMAIN paired
         /\ \A q \in DOMAIN paired : q # h.fp => paired'[q] = paired[q]
         /\ h.fp \in DOMAIN paired => paired'[h.fp] \in RankedChannels(stored[h.fp])
    BY <1>1, <1>2, RefreshPairedIs
  <1>11. RefreshDue'
    <2> SUFFICES ASSUME NEW q \in DOMAIN paired' \ missed', Known(q)'
                 PROVE  \/ paired'[q] \in RankedChannels(stored'[q])
                        \/ \E f \in emitting' : f.fp = q
                        \/ \E i \in DOMAIN storeEvents' : storeEvents'[i].fp = q
      BY Zenon DEF RefreshDue
    <2>1. q \in DOMAIN paired \ missed /\ Known(q)
      BY <1>3, <1>10, Zenon DEF Known
    <2>2. CASE q = h.fp
      BY <1>3, <1>10, <2>1, <2>2, Zenon
    <2>3. CASE q # h.fp
      <3>1. paired'[q] = paired[q]
        BY <1>10, <2>1, <2>3
      <3>2. CASE \E i \in DOMAIN storeEvents : storeEvents[i].fp = q
        <4>1. PICK i \in 1 .. Len(storeEvents) : storeEvents[i].fp = q
          BY <1>6, <3>2
        <4>2. i # 1
          BY <1>7, <2>3, <4>1, Zenon
        <4>3. i - 1 \in 1 .. Len(storeEvents') /\ (i - 1) + 1 = i /\ DOMAIN storeEvents' = 1 .. Len(storeEvents')
          <5>1. DOMAIN storeEvents' = 1 .. Len(storeEvents')
            BY <1>7
          <5>2. i - 1 \in 1 .. Len(storeEvents') /\ (i - 1) + 1 = i
            BY <1>7, <4>2
          <5> QED
            BY <5>1, <5>2
        <4>4. storeEvents'[i - 1].fp = q
          BY <1>7, <4>1, <4>3
        <4> QED
          BY <4>3, <4>4
      <3>3. CASE ~ \E i \in DOMAIN storeEvents : storeEvents[i].fp = q
        BY <1>1, <1>3, <2>1, <3>1, <3>3, Zenon DEF RefreshDue
      <3> QED
        BY <3>2, <3>3
    <2> QED
      BY <2>2, <2>3
  <1> QED
    BY <1>4, <1>5, <1>8, <1>9, <1>10, <1>11, Zenon DEF StoreInv

-----------------------------------------------------------------------------
(* The device list. *)

(* The rows of the list are typed, and each device has one.                 *)
LEMMA DeviceRowsAre ==
    ASSUME StorePart, NEW pairs, DOMAIN pairs \subseteq Devices
    PROVE  /\ DeviceRows(pairs) \in Seq(Rows)
           /\ \A i, j \in 1 .. Len(DeviceRows(pairs)) :
                DeviceRows(pairs)[i].fp = DeviceRows(pairs)[j].fp => i = j
  <1> DEFINE row(p) == [fp |-> p, paired |-> p \in DOMAIN pairs, online |-> Known(p)]
             D == DOMAIN pairs
             rest == {k \in DOMAIN order : order[k] \notin D}
             n == Cardinality(D)
             m == Cardinality(rest)
             fp(i) == IF i <= n THEN Nth(D, i) ELSE order[Nth(rest, i - n)]
             rows == DeviceRows(pairs)
  <1>1. order \in Seq(Devices) /\ IsInjective(order) /\ DOMAIN order = 1 .. Len(order) /\ Len(order) \in Nat
    BY DEF StorePart, StoreSound
  <1>2. D \subseteq Devices /\ D \subseteq Nat /\ IsFiniteSet(D) /\ n \in Nat
    <2>1. IsFiniteSet(Devices) /\ Devices \subseteq Nat
      BY StoreConstants
    <2> HIDE DEF D
    <2>2. D \subseteq Devices
      BY DEF D
    <2>3. IsFiniteSet(D)
      BY <2>1, <2>2, FS_Subset
    <2>4. n \in Nat
      BY <2>3, FS_CardinalityType
    <2> QED
      BY <2>1, <2>2, <2>3, <2>4
  <1>3. rest \subseteq Nat /\ IsFiniteSet(rest) /\ m \in Nat
    <2>1. rest \subseteq 1 .. Len(order) /\ IsFiniteSet(1 .. Len(order)) /\ rest \subseteq Nat
      BY <1>1, FS_Interval
    <2> HIDE DEF rest
    <2>2. IsFiniteSet(rest)
      BY <2>1, FS_Subset
    <2>3. m \in Nat
      BY <2>2, FS_CardinalityType
    <2> QED
      BY <2>1, <2>2, <2>3
  <1>4. rows = [i \in 1 .. n + m |-> row(fp(i))]
    BY DEF DeviceRows
  <1>5. \A k \in rest : order[k] \in Devices /\ order[k] \notin D /\ k \in DOMAIN order
    BY <1>1
  <1> HIDE DEF rows, D, rest, n, m
  <1>6. ASSUME NEW i \in 1 .. n PROVE Nth(D, i) \in D
    BY <1>2, <1>6, NthIs DEF n
  <1>7. ASSUME NEW i \in 1 .. m PROVE Nth(rest, i) \in rest
    BY <1>3, <1>7, NthIs DEF m
  <1>8. ASSUME NEW i \in 1 .. n + m, ~ (i <= n) PROVE i - n \in 1 .. m
    BY <1>2, <1>3, <1>8
  <1>9. ASSUME NEW i \in 1 .. n + m, i <= n PROVE i \in 1 .. n
    BY <1>2, <1>3, <1>9
  <1>10. ASSUME NEW i \in 1 .. n + m PROVE fp(i) \in Devices
    <2>1. CASE i <= n
      BY <1>2, <1>6, <1>9, <2>1
    <2>2. CASE ~ (i <= n)
      BY <1>5, <1>7, <1>8, <2>2
    <2> QED
      BY <2>1, <2>2
  <1>11. ASSUME NEW p \in Devices PROVE row(p) \in Rows /\ row(p).fp = p
    BY DEF Rows, Known
  <1>12. n + m \in Nat
    BY <1>2, <1>3
  <1>13. rows \in [1 .. n + m -> Rows]
    <2> HIDE DEF row, fp
    <2> QED
      BY <1>4, <1>10, <1>11
  <1>14. rows \in Seq(Rows) /\ Len(rows) = n + m
    BY <1>12, <1>13
  <1>15. ASSUME NEW i \in 1 .. n + m PROVE rows[i].fp = fp(i)
    <2> HIDE DEF row, fp
    <2> QED
      BY <1>4, <1>10, <1>11, <1>15
  <1>16. ASSUME NEW i \in 1 .. n + m, NEW j \in 1 .. n + m, fp(i) = fp(j) PROVE i = j
    <2>1. CASE i <= n /\ j <= n
      <3>1. i \in 1 .. n /\ j \in 1 .. n /\ Nth(D, i) = Nth(D, j)
        BY <1>9, <1>16, <2>1
      <3> QED
        BY <1>2, <3>1, NthDiffers DEF n
    <2>2. CASE i <= n /\ ~ (j <= n)
      <3>1. fp(i) \in D /\ fp(j) \notin D
        BY <1>5, <1>6, <1>7, <1>8, <1>9, <2>2
      <3> QED
        BY <1>16, <3>1
    <2>3. CASE ~ (i <= n) /\ j <= n
      <3>1. fp(j) \in D /\ fp(i) \notin D
        BY <1>5, <1>6, <1>7, <1>8, <1>9, <2>3
      <3> QED
        BY <1>16, <3>1
    <2>4. CASE ~ (i <= n) /\ ~ (j <= n)
      <3>1. i - n \in 1 .. m /\ j - n \in 1 .. m
        BY <1>8, <2>4
      <3>2. order[Nth(rest, i - n)] = order[Nth(rest, j - n)]
        BY <1>16, <2>4
      <3>3. Nth(rest, i - n) = Nth(rest, j - n)
        BY <1>1, <1>5, <1>7, <3>1, <3>2, Zenon DEF IsInjective
      <3>4. i - n = j - n
        BY <1>3, <3>1, <3>3, NthDiffers DEF m
      <3> QED
        BY <1>2, <1>12, <3>4
    <2> QED
      BY <2>1, <2>2, <2>3, <2>4
  <1>17. \A i, j \in 1 .. Len(rows) : rows[i].fp = rows[j].fp => i = j
    BY <1>14, <1>15, <1>16, Zenon
  <1> QED
    BY <1>14, <1>17 DEF rows

(* The highlight goes to the row of its device, or to the first.            *)
LEMMA SetRowsIs ==
    ASSUME NEW rows \in Seq(Rows), \A i, j \in 1 .. Len(rows) : rows[i].fp = rows[j].fp => i = j
    PROVE  /\ SetRows(rows) \in [open : BOOLEAN, rows : Seq(Rows), cursor : Nat]
           /\ SetRows(rows).cursor <= Len(SetRows(rows).rows)
           /\ SetRows(rows).rows = rows
           /\ \A i \in DOMAIN rows :
                list.cursor # 0 /\ rows[i].fp = list.rows[list.cursor].fp => SetRows(rows).cursor = i
  <1> DEFINE same == {i \in DOMAIN rows : list.cursor # 0 /\ rows[i].fp = list.rows[list.cursor].fp}
             place == IF same = {} THEN SelectFirst(rows) ELSE CHOOSE i \in same : TRUE
  <1>1. DOMAIN rows = 1 .. Len(rows) /\ Len(rows) \in Nat
    OBVIOUS
  <1>2. SetRows(rows) = [open |-> TRUE, rows |-> rows, cursor |-> place]
    BY DEF SetRows
  <1>3. SelectFirst(rows) \in Nat /\ SelectFirst(rows) <= Len(rows)
    <2>1. CASE rows = <<>>
      BY <1>1, <2>1 DEF SelectFirst
    <2>2. CASE rows # <<>>
      <3>1. Len(rows) # 0 /\ SelectFirst(rows) = 1
        BY <2>2, EmptySeq DEF SelectFirst
      <3> QED
        BY <1>1, <3>1
    <2> QED
      BY <2>1, <2>2
  <1>4. place \in Nat /\ place <= Len(rows) /\ \A i \in same : place = i
    <2>1. CASE same = {}
      BY <1>3, <2>1
    <2>2. CASE same # {}
      <3>1. (CHOOSE i \in same : TRUE) \in same
        BY <2>2
      <3>2. place \in same
        BY <2>2, <3>1
      <3>3. same \subseteq 1 .. Len(rows) /\ \A i, j \in same : i = j
        BY <1>1
      <3> HIDE DEF same, place
      <3> QED
        BY <1>1, <3>2, <3>3
    <2> QED
      BY <2>1, <2>2
  <1>5. \A i \in DOMAIN rows : list.cursor # 0 /\ rows[i].fp = list.rows[list.cursor].fp => i \in same
    OBVIOUS
  <1> HIDE DEF same, place
  <1> QED
    BY <1>2, <1>4, <1>5

(* The rebuilt list, and the highlight in it.                               *)
LEMMA RebuiltList ==
    ASSUME StorePart, NEW pairs, DOMAIN pairs \subseteq Devices, list' = SetRows(DeviceRows(pairs))
    PROVE  /\ ListPart'
           /\ \A i \in DOMAIN list'.rows :
                list.cursor # 0 /\ list'.rows[i].fp = list.rows[list.cursor].fp => list'.cursor = i
  <1> DEFINE rows == DeviceRows(pairs)
  <1>1. rows \in Seq(Rows) /\ \A i, j \in 1 .. Len(rows) : rows[i].fp = rows[j].fp => i = j
    BY DeviceRowsAre
  <1> HIDE DEF rows
  <1>2. /\ SetRows(rows) \in [open : BOOLEAN, rows : Seq(Rows), cursor : Nat]
        /\ SetRows(rows).cursor <= Len(SetRows(rows).rows)
        /\ SetRows(rows).rows = rows
        /\ \A i \in DOMAIN rows :
             list.cursor # 0 /\ rows[i].fp = list.rows[list.cursor].fp => SetRows(rows).cursor = i
    BY <1>1, SetRowsIs
  <1>3. list' = SetRows(rows)
    BY DEF rows
  <1> QED
    BY <1>2, <1>3, Zenon DEF ListPart

(* A step that leaves the store, its events and the paired devices alone.   *)
LEMMA RestKept ==
    ASSUME StoreInv, UNCHANGED <<storeVars, eventVars, slots, pairVars>>
    PROVE  StorePart' /\ EventPart' /\ SlotPart' /\ PairPart' /\ RefreshDue'
  <1>1. StorePart /\ EventPart /\ SlotPart /\ PairPart /\ RefreshDue
    BY Zenon DEF StoreInv
  <1>2. StorePart' /\ stored' = stored
    BY <1>1, StoreLeft DEF storeVars
  <1>3. emitting' = emitting /\ storeEvents' = storeEvents /\ missed' = missed /\ slots' = slots
    BY DEF eventVars
  <1>4. paired' = paired /\ disk' = disk /\ unsaved' = unsaved
    BY DEF pairVars
  <1>5. EventPart' /\ SlotPart'
    BY <1>1, <1>3, Zenon DEF EventPart, SlotPart
  <1>6. PairPart'
    BY <1>1, <1>4, Zenon DEF PairPart, DiskCurrent
  <1>7. RefreshDue'
    BY <1>1, <1>2, <1>3, <1>4, Zenon DEF RefreshDue, Known
  <1> QED
    BY <1>2, <1>5, <1>6, <1>7

(* A key takes one of those left.                                           *)
LEMMA PressIs ==
    ASSUME keys \in 0 .. MaxKeys, Press
    PROVE  (keys \in 0 .. MaxKeys)'
  <1>1. MaxKeys \in Nat
    BY StoreConstants
  <1> QED
    BY <1>1 DEF Press

(* The list is refreshed under the highlight.                               *)
LEMMA TickKeeps ==
    ASSUME StoreInv, Tick
    PROVE  StoreInv'
  <1>1. StorePart /\ PairPart /\ keys \in 0 .. MaxKeys
    BY Zenon DEF StoreInv
  <1>2. /\ list' = SetRows(DeviceRows(paired)) /\ keys' = keys
        /\ UNCHANGED <<storeVars, eventVars, slots, pairVars>>
    BY DEF Tick
  <1>3. DOMAIN paired \subseteq Devices
    BY <1>1, Zenon DEF PairPart
  <1>4. ListPart'
    BY <1>1, <1>2, <1>3, RebuiltList
  <1> QED
    BY <1>1, <1>2, <1>4, RestKept, Zenon DEF StoreInv

(* The list is opened, closed, or the highlight moved.                      *)
LEMMA ListKeysKeep ==
    ASSUME StoreInv, OpenList \/ CloseList \/ \E delta \in {1, -1} : MoveCursor(delta)
    PROVE  StoreInv'
  <1>1. StorePart /\ PairPart /\ ListPart /\ keys \in 0 .. MaxKeys
    BY Zenon DEF StoreInv
  <1>2. Press /\ UNCHANGED <<storeVars, eventVars, slots, pairVars>>
    BY Zenon DEF OpenList, CloseList, MoveCursor
  <1>3. (keys \in 0 .. MaxKeys)'
    BY <1>1, <1>2, PressIs
  <1>4. ASSUME OpenList PROVE ListPart'
    <2> DEFINE rows == DeviceRows(paired)
    <2>1. DOMAIN paired \subseteq Devices
      BY <1>1, Zenon DEF PairPart
    <2>2. rows \in Seq(Rows)
      BY <1>1, <2>1, DeviceRowsAre
    <2>3. list' = [open |-> TRUE, rows |-> rows, cursor |-> SelectFirst(rows)]
      BY <1>4 DEF OpenList
    <2> HIDE DEF rows
    <2>4. SelectFirst(rows) \in Nat /\ SelectFirst(rows) <= Len(rows)
      <3>1. CASE rows = <<>>
        BY <2>2, <3>1 DEF SelectFirst
      <3>2. CASE rows # <<>>
        <4>1. Len(rows) # 0 /\ SelectFirst(rows) = 1 /\ Len(rows) \in Nat
          BY <2>2, <3>2, EmptySeq DEF SelectFirst
        <4> QED
          BY <4>1
      <3> QED
        BY <3>1, <3>2
    <2> QED
      BY <2>2, <2>3, <2>4 DEF ListPart
  <1>5. ASSUME CloseList PROVE ListPart'
    <2>1. list' = [open |-> FALSE, rows |-> <<>>, cursor |-> 0]
      BY <1>5 DEF CloseList, Closed
    <2>2. <<>> \in Seq(Rows) /\ Len(<<>>) = 0
      BY EmptySeq
    <2> QED
      BY <2>1, <2>2 DEF ListPart
  <1>6. ASSUME \E delta \in {1, -1} : MoveCursor(delta) PROVE ListPart'
    <2>1. PICK delta \in {1, -1} : MoveCursor(delta)
      BY <1>6
    <2> DEFINE n == Len(list.rows)
               place == ((list.cursor - 1 + delta + n) % n) + 1
    <2>2. n > 0 /\ list' = [list EXCEPT !.cursor = place]
      BY <2>1 DEF MoveCursor
    <2>3. list \in [open : BOOLEAN, rows : Seq(Rows), cursor : Nat]
      BY <1>1 DEF ListPart
    <2>4. n \in Nat /\ list.cursor \in Nat /\ delta \in Int
      BY <2>3
    <2> HIDE DEF n
    <2>5. place \in Nat /\ place <= n
      BY <2>2, <2>4
    <2> HIDE DEF place
    <2>6. list' \in [open : BOOLEAN, rows : Seq(Rows), cursor : Nat] /\ list'.cursor = place /\ list'.rows = list.rows
      BY <2>2, <2>3, <2>5
    <2> QED
      BY <2>5, <2>6, Zenon DEF ListPart, n
  <1>7. ListPart'
    BY <1>4, <1>5, <1>6
  <1> QED
    BY <1>2, <1>3, <1>7, RestKept, Zenon DEF StoreInv

(* P on the highlighted row.                                                *)
LEMMA PairKeyKeeps ==
    ASSUME StoreInv, PairKey
    PROVE  StoreInv'
  <1> DEFINE row == list.rows[list.cursor]
  <1>1. StorePart /\ EventPart /\ SlotPart /\ PairPart /\ ListPart /\ keys \in 0 .. MaxKeys /\ RefreshDue
    BY Zenon DEF StoreInv
  <1>2. /\ Press /\ list.cursor # 0 /\ list' = SetRows(DeviceRows(paired'))
        /\ UNCHANGED <<storeVars, eventVars, slots>>
        /\ IF row.paired THEN row.fp \in DOMAIN paired /\ RemovePair(row.fp)
           ELSE \E s \in RankedChannels(stored[row.fp]) : Insert(row.fp, s)
    BY DEF PairKey
  <1>3. row.fp \in Devices
    <2>1. /\ list.rows \in Seq(Rows) /\ list.cursor \in Nat /\ list.cursor <= Len(list.rows)
          /\ Len(list.rows) \in Nat
      BY <1>1 DEF ListPart
    <2>2. list.cursor \in 1 .. Len(list.rows)
      BY <1>2, <2>1
    <2>3. row \in Rows
      BY <2>1, <2>2
    <2> HIDE DEF row
    <2> QED
      BY <2>3 DEF Rows
  <1> HIDE DEF row
  <1>4. StorePart'
    BY <1>1, <1>2, StoreLeft
  <1>5. EventPart' /\ SlotPart'
    <2>1. emitting' = emitting /\ storeEvents' = storeEvents /\ missed' = missed /\ slots' = slots
      BY <1>2 DEF eventVars
    <2> QED
      BY <1>1, <2>1, Zenon DEF EventPart, SlotPart
  <1>6. (keys \in 0 .. MaxKeys)'
    BY <1>1, <1>2, PressIs
  <1>7. UNCHANGED <<storeVars, eventVars>>
    BY <1>2
  <1>8. PairPart' /\ RefreshDue'
    <2>1. CASE row.paired
      <3>1. RemovePair(row.fp)
        BY <1>2, <2>1
      <3> QED
        BY <1>1, <1>7, <3>1, RemovePairIs, RemovePairRefreshes
    <2>2. CASE ~ row.paired
      <3>1. PICK s \in RankedChannels(stored[row.fp]) : Insert(row.fp, s)
        BY <1>2, <2>2
      <3>2. PairPart'
        BY <1>1, <1>3, <3>1, InsertIs
      <3>3. RefreshDue'
        BY <1>1, <1>3, <1>7, <3>1, InsertRefreshes
      <3> QED
        BY <3>2, <3>3
    <2> QED
      BY <2>1, <2>2
  <1>9. ListPart'
    <2>1. PICK pairs : pairs = paired'
      OBVIOUS
    <2>2. DOMAIN pairs \subseteq Devices /\ list' = SetRows(DeviceRows(pairs))
      BY <1>2, <1>8, <2>1, Zenon DEF PairPart
    <2> QED
      BY <1>1, <2>2, RebuiltList
  <1> QED
    BY <1>4, <1>5, <1>6, <1>8, <1>9, Zenon DEF StoreInv

(* A sender is paired, whether the store knows it or not.                   *)
LEMMA AcceptAndPairKeeps ==
    ASSUME StoreInv, NEW p \in Devices, AcceptAndPair(p)
    PROVE  StoreInv'
  <1>1. StorePart /\ EventPart /\ SlotPart /\ PairPart /\ ListPart /\ keys \in 0 .. MaxKeys /\ RefreshDue
    BY Zenon DEF StoreInv
  <1>2. Press /\ UNCHANGED <<storeVars, eventVars, slots, list>>
    BY Zenon DEF AcceptAndPair
  <1>3. PICK s \in RankedChannels(stored[p]) : Insert(p, s)
    BY Zenon DEF AcceptAndPair
  <1>4. StorePart'
    BY <1>1, <1>2, StoreLeft
  <1>5. EventPart' /\ SlotPart' /\ ListPart'
    <2>1. emitting' = emitting /\ storeEvents' = storeEvents /\ missed' = missed /\ slots' = slots /\ list' = list
      BY <1>2 DEF eventVars
    <2> QED
      BY <1>1, <2>1, Zenon DEF EventPart, SlotPart, ListPart
  <1>6. (keys \in 0 .. MaxKeys)'
    BY <1>1, <1>2, PressIs
  <1>7. UNCHANGED <<storeVars, eventVars>>
    BY <1>2
  <1>8. PairPart'
    BY <1>1, <1>3, InsertIs
  <1>9. RefreshDue'
    BY <1>1, <1>3, <1>7, InsertRefreshes
  <1> QED
    BY <1>4, <1>5, <1>6, <1>8, <1>9, Zenon DEF StoreInv

-----------------------------------------------------------------------------
(* The start of the application. *)

(* Nothing is known, emitted, assigned or shown yet.                        *)
Started ==
    /\ order = <<>>
    /\ stored = [p \in Devices |-> Unknown]
    /\ hist = [p \in Devices |-> <<>>]
    /\ emitting = {} /\ storeEvents = <<>> /\ missed = {}
    /\ slots = <<>>
    /\ list = Closed

(* A fresh start satisfies the invariant, but for the paired devices.       *)
LEMMA StartedIs ==
    Started => /\ StorePart /\ EventPart /\ SlotPart /\ ListPart
               /\ \A p \in Devices : ~ Known(p)
  <1> SUFFICES ASSUME Started PROVE StorePart /\ EventPart /\ SlotPart /\ ListPart /\ \A p \in Devices : ~ Known(p)
    OBVIOUS
  <1>1. <<>> \in Seq(Channels) /\ <<>> \in Seq(Devices) /\ <<>> \in Seq([fp : Devices, kind : Kinds])
        /\ <<>> \in Seq([fp : Devices, slot : 0 .. MaxSlots]) /\ <<>> \in Seq(Rows) /\ Len(<<>>) = 0 /\ DOMAIN <<>> = {}
    OBVIOUS
  <1>2. MaxLogs \in Nat /\ ChannelCap \in Nat
    BY StoreConstants
  <1>3. ASSUME NEW p \in Devices PROVE stored[p] = Unknown /\ hist[p] = <<>>
    BY Zenon DEF Started
  <1>4. Unknown \in DeviceStates /\ Unknown.logs = <<>> /\ Unknown.channels = {}
    BY <1>1 DEF Unknown, DeviceStates
  <1>5. order \in Seq(Devices) /\ stored \in [Devices -> DeviceStates] /\ hist \in [Devices -> Seq(Channels)]
    BY <1>1, <1>4 DEF Started
  <1>6. ASSUME NEW p \in Devices PROVE Len(stored[p].logs) <= MaxLogs /\ Recent(stored[p].logs, hist[p])
    <2>1. stored[p].logs = <<>> /\ hist[p] = <<>>
      BY <1>3, <1>4, Zenon
    <2> QED
      BY <1>1, <1>2, <2>1 DEF Recent
  <1>7. IsFiniteSet(Confirmations(hist))
    <2>1. \A x : x \notin Confirmations(hist)
      <3> SUFFICES ASSUME NEW x, x \in Confirmations(hist) PROVE FALSE
        OBVIOUS
      <3>1. PICK q \in Devices : \E i \in DOMAIN hist[q] : x = <<q, i>>
        BY ConfirmationsAre
      <3>2. DOMAIN hist[q] = {}
        BY <1>1, <1>3, Zenon
      <3> QED
        BY <3>1, <3>2, Zenon
    <2>2. Confirmations(hist) = {}
      BY <2>1
    <2> QED
      BY <2>2, FS_EmptySet
  <1>8. \A p \in Devices : ~ Known(p) /\ stored[p].channels = {}
    BY <1>3, <1>4, Zenon DEF Known
  <1>9. IsInjective(order) /\ Range(order) = {}
    BY <1>1 DEF Started, IsInjective, Range
  <1>10. StoreSound
    BY <1>8, <1>9 DEF StoreSound
  <1>11. StorePart
    BY <1>5, <1>6, <1>7, <1>10, Zenon DEF StorePart
  <1>12. EventPart /\ SlotPart
    BY <1>1, <1>2 DEF Started, EventPart, SlotPart
  <1>13. ListPart
    BY <1>1 DEF Started, ListPart, Closed
  <1> QED
    BY <1>8, <1>11, <1>12, <1>13

(* The application is started again, from the file.                         *)
LEMMA RestartKeeps ==
    ASSUME StoreInv, Restart
    PROVE  StoreInv'
  <1>1. PairPart /\ keys \in 0 .. MaxKeys
    BY Zenon DEF StoreInv
  <1>2. Started'
    BY Zenon DEF Restart, Started
  <1>3. StorePart' /\ EventPart' /\ SlotPart' /\ ListPart' /\ (\A p \in Devices : ~ Known(p))'
    BY <1>2, StartedIs, PTL
  <1>4. paired' = disk /\ disk' = disk /\ unsaved' = FALSE /\ Press
    BY Zenon DEF Restart
  <1>5. PairPart'
    BY <1>1, <1>4, Zenon DEF PairPart, DiskCurrent
  <1>6. RefreshDue'
    BY <1>3, <1>5, Zenon DEF RefreshDue, PairPart
  <1>7. (keys \in 0 .. MaxKeys)'
    BY <1>1, <1>4, PressIs
  <1> QED
    BY <1>3, <1>5, <1>6, <1>7, Zenon DEF StoreInv

-----------------------------------------------------------------------------

(* The invariant holds initially. *)
LEMMA StoreInitInv == StoreInit => StoreInv
  <1> SUFFICES ASSUME StoreInit PROVE StoreInv
    OBVIOUS
  <1>1. Started
    BY Zenon DEF StoreInit, Started
  <1>2. StorePart /\ EventPart /\ SlotPart /\ ListPart /\ \A p \in Devices : ~ Known(p)
    BY <1>1, StartedIs
  <1>3. PICK S \in SUBSET Devices : disk \in [S -> {<<c>> : c \in Channels \ V6}]
    BY DEF StoreInit
  <1>4. DOMAIN disk \subseteq Devices /\ \A p \in DOMAIN disk : disk[p] \in Seq(Channels)
    <2>1. \A x \in {<<c>> : c \in Channels \ V6} : x \in Seq(Channels)
      <3>1. ASSUME NEW c \in Channels PROVE <<c>> \in Seq(Channels)
        OBVIOUS
      <3> QED
        BY <3>1, Zenon
    <2>2. DOMAIN disk = S /\ \A p \in S : disk[p] \in {<<c>> : c \in Channels \ V6}
      BY <1>3
    <2> QED
      BY <2>1, <2>2, Zenon
  <1>5. paired = disk /\ unsaved = FALSE /\ keys = MaxKeys
    BY Zenon DEF StoreInit
  <1>6. PairPart
    BY <1>4, <1>5, Zenon DEF PairPart, DiskCurrent
  <1>7. RefreshDue
    BY <1>2, <1>6, Zenon DEF RefreshDue, PairPart
  <1>8. keys \in 0 .. MaxKeys
    BY <1>5, StoreConstants
  <1> QED
    BY <1>2, <1>6, <1>7, <1>8 DEF StoreInv

(* Every step of the store and of the application preserves it. *)
LEMMA StoreStepInv == StoreInv /\ [StoreNext]_deviceVars => StoreInv'
  <1> SUFFICES ASSUME StoreInv, [StoreNext]_deviceVars PROVE StoreInv'
    OBVIOUS
  <1>1. CASE \E p \in Devices : \E c \in Reach[p] : Found(p, c)
    BY <1>1, FoundKeeps
  <1>2. CASE \E e \in emitting : Emit(e)
    BY <1>2, EmitKeeps
  <1>3. CASE HandleDiscovery
    BY <1>3, HandleDiscoveryKeeps
  <1>4. CASE Tick
    BY <1>4, TickKeeps
  <1>5. CASE OpenList \/ CloseList \/ \E delta \in {1, -1} : MoveCursor(delta)
    BY <1>5, ListKeysKeep
  <1>6. CASE PairKey
    BY <1>6, PairKeyKeeps
  <1>7. CASE \E p \in Devices : AcceptAndPair(p)
    BY <1>7, AcceptAndPairKeeps
  <1>8. CASE Restart
    BY <1>8, RestartKeeps
  <1>9. CASE UNCHANGED deviceVars
    <2>1. UNCHANGED <<storeVars, eventVars, slots, pairVars>> /\ list' = list /\ keys' = keys
      BY <1>9 DEF deviceVars
    <2>2. StorePart' /\ EventPart' /\ SlotPart' /\ PairPart' /\ RefreshDue'
      BY <2>1, RestKept
    <2> QED
      BY <2>1, <2>2, Zenon DEF StoreInv, ListPart
  <1> QED
    BY <1>1, <1>2, <1>3, <1>4, <1>5, <1>6, <1>7, <1>8, <1>9 DEF StoreNext

(* The invariant of the store and the application on top of it, whatever    *)
(* the confirmations, the keys pressed and the saves that fail.             *)
THEOREM StoreInvariance == StoreSpec => []StoreInv
  BY StoreInitInv, StoreStepInv, PTL DEF StoreSpec

(* The store has one entry per device, one channel per host, and the        *)
(* ranking made of them puts the freshest channel first (store.rs,          *)
(* get_best_channel).                                                       *)
THEOREM RankingIsSound == StoreSpec => []RankingSound
  <1>1. StoreInv => RankingSound
    <2> SUFFICES ASSUME StoreInv PROVE RankingSound
      OBVIOUS
    <2>1. StorePart
      BY Zenon DEF StoreInv
    <2> QED
      BY <2>1, StoreTyped, BestFromRanking, Zenon DEF StorePart, RankingSound
  <1> QED
    BY <1>1, StoreInvariance, PTL

(* Every device of the store has a best channel, and every device a ranking *)
(* to be kept: the choices of BestChannels and RefreshPaired, which stand   *)
(* for the sort of get_ranked_channels, are never empty.                    *)
THEOREM RankingIsDefined ==
    StoreSpec => [](\A p \in Devices : /\ RankedChannels(stored[p]) # {}
                                       /\ Known(p) => BestChannels(stored[p]) # {})
  <1>1. StoreInv => \A p \in Devices : /\ RankedChannels(stored[p]) # {}
                                       /\ Known(p) => BestChannels(stored[p]) # {}
    <2> SUFFICES ASSUME StoreInv, NEW p \in Devices
                 PROVE  RankedChannels(stored[p]) # {} /\ (Known(p) => BestChannels(stored[p]) # {})
      OBVIOUS
    <2>1. StorePart
      BY Zenon DEF StoreInv
    <2>2. stored[p].channels \subseteq Channels /\ stored[p].logs \in Seq(Channels)
      BY <2>1 DEF StorePart, DeviceStates
    <2>3. Known(p) => stored[p].channels # {}
      BY <2>1 DEF StorePart, StoreSound
    <2> QED
      BY <2>2, <2>3, RankingExists
  <1> QED
    BY <1>1, StoreInvariance, PTL

(* What is kept of the paired devices follows the store, and the file       *)
(* follows what is kept (refresh_paired_channels, PairedDevices).           *)
THEOREM PairedStaysKept == StoreSpec => []PairedKept
  <1>1. StoreInv => PairedKept
    <2> SUFFICES ASSUME StoreInv PROVE PairedKept
      OBVIOUS
    <2>1. RefreshDue /\ DiskCurrent
      BY Zenon DEF StoreInv, PairPart
    <2>2. PairedFresh
      <3> SUFFICES ASSUME Handled, NEW p \in DOMAIN paired \ missed, Known(p)
                   PROVE  paired[p] \in RankedChannels(stored[p])
        BY DEF PairedFresh
      <3>1. emitting = {} /\ DOMAIN storeEvents = {}
        BY EmptySeq DEF Handled
      <3> QED
        BY <2>1, <3>1 DEF RefreshDue
    <2> QED
      BY <2>1, <2>2 DEF PairedKept
  <1> QED
    BY <1>1, StoreInvariance, PTL

(* The highlight stays on its device while the list is refreshed (set_rows  *)
(* of device_list.rs): P never acts on another device than the one chosen.  *)
THEOREM HighlightStays == StoreSpec => HighlightKept
  <1>1. StoreInv /\ [StoreNext]_deviceVars =>
            [(Tick \/ PairKey) =>
                \A i \in DOMAIN list'.rows :
                    (list.cursor # 0 /\ list'.rows[i].fp = list.rows[list.cursor].fp)
                        => list'.cursor = i]_deviceVars
    <2> SUFFICES ASSUME StoreInv, [StoreNext]_deviceVars, Tick \/ PairKey
                 PROVE  \A i \in DOMAIN list'.rows :
                            (list.cursor # 0 /\ list'.rows[i].fp = list.rows[list.cursor].fp)
                                => list'.cursor = i
      OBVIOUS
    <2>1. StorePart
      BY Zenon DEF StoreInv
    <2>2. PairPart /\ PairPart'
      BY StoreStepInv, Zenon DEF StoreInv
    <2>3. PICK pairs : list' = SetRows(DeviceRows(pairs)) /\ DOMAIN pairs \subseteq Devices
      <3>1. CASE Tick
        BY <2>2, <3>1, Zenon DEF Tick, PairPart
      <3>2. CASE PairKey
        BY <2>2, <3>2, Zenon DEF PairKey, PairPart
      <3> QED
        BY <3>1, <3>2
    <2> QED
      BY <2>1, <2>3, RebuiltList
  <1> QED
    BY <1>1, StoreInvariance, PTL DEF StoreSpec, HighlightKept

============================================================================
