----------------------------- MODULE Discovery -----------------------------
(***************************************************************************)
(* How devices are looked for: announcements answered with a register      *)
(* request, probes of known channels, subnet scans and the staged          *)
(* discovery that escalates from one to the next.                          *)
(*                                                                         *)
(* packages/core/src/discovery/mod.rs, with MulticastHandle::announce of   *)
(* packages/core/src/multicast/mod.rs, as started by the terminal          *)
(* application (cli/src/app/mod.rs) and by the isolate API                 *)
(* (linko_isolates/rust/src/api/discovery.rs).  What a confirmation does   *)
(* to the store is module DeviceStore's, the sockets are Multicast's.      *)
(***************************************************************************)
EXTENDS Naturals, Sequences, FiniteSets

CONSTANTS
    Peers,      \* fingerprints of other devices
    Own,        \* this device's fingerprint
    Staged,     \* calls of discover_staged
    Direct,     \* calls of scan_subnet by the application
    Ifaces,     \* local interface addresses
    Hosts,      \* the other hosts of a subnet
    Favorites,  \* the known channels a staged discovery probes
    Bursts,     \* rounds of an announcement
    EventCap,   \* capacity of the server event channel
    MaxFound    \* bound: confirmations in a behaviour

ASSUME DiscoveryConstants ==
    /\ Own \notin Peers
    /\ Staged \cap Direct = {}
    /\ {Bursts, EventCap, MaxFound} \subseteq Nat \ {0}

VARIABLES
    answers,   \* announcements being answered
    registers, \* Register events of the server on their way to the app
    known,     \* the fingerprints in the store
    count,     \* DiscoveryState.confirmations
    scanning,  \* DiscoveryState.scanning
    scan,      \* scan[c][i]: scan_subnet for interface i, called by c
    staged,    \* the escalating half of discover_staged
    rounds,    \* its announcing half: rounds left
    silent     \* history: calls since whose start nothing was confirmed

heard == <<answers, registers>>
scanVars == <<scanning, scan>>
vars == <<heard, known, count, scanVars, staged, rounds, silent>>

Calls == Staged \cup Direct

\* The addresses still to be probed and those with a request under way.
Work(of) == [left : SUBSET of, sent : SUBSET of]
Nothing == [left |-> {}, sent |-> {}]

ScanState == [pc : {"idle", "run", "done"}, work : Work(Hosts)]
StagedState == [pc : {"idle", "known", "grace", "scan", "done"},
                work : Work(Favorites), snapshot : 0 .. MaxFound]

TypeOK ==
    /\ answers \subseteq Peers
    /\ registers \in Seq(Peers \cup {Own}) /\ Len(registers) =< EventCap
    /\ known \subseteq Peers
    /\ count \in 0 .. MaxFound
    /\ scanning \subseteq Ifaces
    /\ scan \in [Calls -> [Ifaces -> ScanState]]
    /\ staged \in [Staged -> StagedState]
    /\ rounds \in [Staged -> 0 .. Bursts]
    /\ silent \subseteq Staged

Init ==
    /\ answers = {} /\ registers = <<>> /\ known = {} /\ count = 0
    /\ scanning = {}
    /\ scan = [c \in Calls |-> [i \in Ifaces |-> [pc |-> "idle", work |-> Nothing]]]
    /\ staged = [c \in Staged |-> [pc |-> "idle", work |-> Nothing, snapshot |-> 0]]
    /\ rounds = [c \in Staged |-> 0]
    /\ silent = {}

(***************************************************************************)
(* Confirmations                                                           *)
(***************************************************************************)

\* DiscoveryState::found
Confirmed(p) ==
    /\ count < MaxFound
    /\ count' = count + 1
    /\ known' = known \cup {p}
    /\ silent' = {}

\* The outcome of probe: a device, or nothing (this device's own answer is
\* ignored, just as no answer at all is).
Probed(p) == IF p \in Peers THEN Confirmed(p) ELSE UNCHANGED <<count, known, silent>>

Outcomes == Peers \cup {Own}

\* The answering task reads an announcement while answering is on.
Announced(p) ==
    /\ p \notin answers
    /\ answers' = answers \cup {p}
    /\ UNCHANGED <<registers, known, count, scanVars, staged, rounds, silent>>

\* The register request to the announcing device succeeds, or not.
Answered(p) ==
    /\ p \in answers
    /\ answers' = answers \ {p}
    /\ Confirmed(p) \/ UNCHANGED <<known, count, silent>>
    /\ UNCHANGED <<registers, scanVars, staged, rounds>>

\* The register endpoint.  Nothing happens when the certificate does not prove
\* the fingerprint, or when the channel is full: the event is not awaited.
Register(p) ==
    /\ Len(registers) < EventCap
    /\ registers' = Append(registers, p)
    /\ UNCHANGED <<answers, known, count, scanVars, staged, rounds, silent>>

\* The app feeds a device that registered into the store, except itself.
AddDevice ==
    /\ registers # <<>>
    /\ registers' = Tail(registers)
    /\ Probed(Head(registers))
    /\ UNCHANGED <<answers, scanVars, staged, rounds>>

(***************************************************************************)
(* scan_subnet                                                             *)
(***************************************************************************)
MayScan(c) == c \in Staged => staged[c].pc = "scan"

\* Mutant: insert's result is not looked at.
FreeAlways(i) == TRUE

\* Whether insert entered a new address.
Free(i) == i \notin scanning

\* The interface is entered into scanning; a call that finds it there returns.
ScanStart(c, i) ==
    /\ MayScan(c)
    /\ scan[c][i].pc = "idle"
    /\ Free(i)
    /\ scanning' = scanning \cup {i}
    /\ scan' = [scan EXCEPT ![c][i] = [pc |-> "run", work |-> [left |-> Hosts, sent |-> {}]]]
    /\ UNCHANGED <<heard, known, count, staged, rounds, silent>>

ScanRefused(c, i) ==
    /\ MayScan(c)
    /\ scan[c][i].pc = "idle"
    /\ ~Free(i)
    /\ scan' = [scan EXCEPT ![c][i].pc = "done"]
    /\ UNCHANGED <<heard, known, count, scanning, staged, rounds, silent>>

Sent(work, h) == [left |-> work.left \ {h}, sent |-> work.sent \cup {h}]
Back(work, h) == [work EXCEPT !.sent = @ \ {h}]

ScanProbe(c, i, h) ==
    /\ scan[c][i].pc = "run" /\ h \in scan[c][i].work.left
    /\ scan' = [scan EXCEPT ![c][i].work = Sent(@, h)]
    /\ UNCHANGED <<heard, known, count, scanning, staged, rounds, silent>>

ScanProbed(c, i, h, p) ==
    /\ scan[c][i].pc = "run" /\ h \in scan[c][i].work.sent
    /\ scan' = [scan EXCEPT ![c][i].work = Back(@, h)]
    /\ Probed(p)
    /\ UNCHANGED <<heard, scanning, staged, rounds>>

\* Mutant: only a scan that ran to its end gives the interface back.
ReleaseIfComplete(c, i) == scanning' = IF scan[c][i].work = Nothing THEN scanning \ {i} ELSE scanning

\* ScanGuard's drop.
Release(c, i) == scanning' = scanning \ {i}

\* The scan has returned, or its future was dropped with requests under way.
ScanLeaves(c, i) ==
    /\ scan' = [scan EXCEPT ![c][i] = [pc |-> "done", work |-> Nothing]]
    /\ Release(c, i)
    /\ UNCHANGED <<heard, known, count, staged, rounds, silent>>

ScanEnd(c, i) == scan[c][i] = [pc |-> "run", work |-> Nothing] /\ ScanLeaves(c, i)

ScanDropped(c, i) == c \in Direct /\ scan[c][i].pc = "run" /\ ScanLeaves(c, i)

(***************************************************************************)
(* discover_staged                                                         *)
(***************************************************************************)
StagedStart(c) ==
    /\ staged[c].pc = "idle"
    /\ staged' = [staged EXCEPT ![c] =
                     [pc |-> "known", work |-> [left |-> Favorites, sent |-> {}],
                      snapshot |-> count]]
    /\ rounds' = [rounds EXCEPT ![c] = Bursts]
    /\ silent' = silent \cup {c}
    /\ UNCHANGED <<heard, known, count, scanVars>>

\* discover_known_http_channels
KnownProbe(c, h) ==
    /\ staged[c].pc = "known" /\ h \in staged[c].work.left
    /\ staged' = [staged EXCEPT ![c].work = Sent(@, h)]
    /\ UNCHANGED <<heard, known, count, scanVars, rounds, silent>>

KnownProbed(c, h, p) ==
    /\ staged[c].pc = "known" /\ h \in staged[c].work.sent
    /\ staged' = [staged EXCEPT ![c].work = Back(@, h)]
    /\ Probed(p)
    /\ UNCHANGED <<heard, scanVars, rounds>>

\* Mutant: the count is read after the known channels were probed.
GraceCounts(c) ==
    /\ staged[c].pc = "known" /\ staged[c].work = Nothing
    /\ staged' = [staged EXCEPT ![c] = [@ EXCEPT !.pc = "grace", !.snapshot = count]]
    /\ UNCHANGED <<heard, known, count, scanVars, rounds, silent>>

Grace(c) ==
    /\ staged[c].pc = "known" /\ staged[c].work = Nothing
    /\ staged' = [staged EXCEPT ![c].pc = "grace"]
    /\ UNCHANGED <<heard, known, count, scanVars, rounds, silent>>

\* The grace period is over: scan unless something was confirmed.
Escalate(c) ==
    /\ staged[c].pc = "grace"
    /\ staged' = [staged EXCEPT ![c].pc = IF count = staged[c].snapshot THEN "scan" ELSE "done"]
    /\ UNCHANGED <<heard, known, count, scanVars, rounds, silent>>

\* try_join_all over the interfaces.
Escalated(c) ==
    /\ staged[c].pc = "scan"
    /\ \A i \in Ifaces : scan[c][i].pc = "done"
    /\ staged' = [staged EXCEPT ![c].pc = "done"]
    /\ UNCHANGED <<heard, known, count, scanVars, rounds, silent>>

\* Mutant: one round too many.
AnnounceRoundMore(c) ==
    /\ staged[c].pc # "idle" /\ rounds[c] >= 0
    /\ \E n \in {0, rounds[c] - 1} : rounds' = [rounds EXCEPT ![c] = n]
    /\ UNCHANGED <<heard, known, count, scanVars, staged, silent>>

\* One round of the announcement; without multicast there is none.
AnnounceRound(c) ==
    /\ rounds[c] > 0
    /\ \E n \in {0, rounds[c] - 1} : rounds' = [rounds EXCEPT ![c] = n]
    /\ UNCHANGED <<heard, known, count, scanVars, staged, silent>>

----------------------------------------------------------------------------

ScanStep(c, i) ==
    \/ ScanEnd(c, i)
    \/ \E h \in Hosts : ScanProbe(c, i, h) \/ \E p \in Outcomes : ScanProbed(c, i, h, p)

StagedStep(c) ==
    \/ Grace(c) \/ Escalate(c) \/ Escalated(c)
    \/ \E h \in Favorites : KnownProbe(c, h) \/ \E p \in Outcomes : KnownProbed(c, h, p)
    \/ \E i \in Ifaces : ScanStart(c, i) \/ ScanRefused(c, i)

Environment ==
    \/ \E p \in Peers : Announced(p)
    \/ \E p \in Outcomes : Register(p)
    \/ \E c \in Staged : StagedStart(c)
    \/ \E c \in Direct, i \in Ifaces : ScanStart(c, i) \/ ScanRefused(c, i) \/ ScanDropped(c, i)

Next ==
    \/ Environment
    \/ AddDevice \/ \E p \in Peers : Answered(p)
    \/ \E c \in Calls, i \in Ifaces : ScanStep(c, i)
    \/ \E c \in Staged : StagedStep(c) \/ AnnounceRound(c)

Spec == Init /\ [][Next]_vars

(***************************************************************************)
(* Requests end by their timeout at the latest and timers fire; calls and  *)
(* the network are free.                                                   *)
(***************************************************************************)
Fairness ==
    /\ \A c \in Calls, i \in Ifaces : WF_vars(ScanStep(c, i))
    /\ \A c \in Staged : WF_vars(StagedStep(c)) /\ WF_vars(AnnounceRound(c))

FairSpec == Spec /\ Fairness

----------------------------------------------------------------------------
(***************************************************************************)
(* Properties                                                              *)
(***************************************************************************)

\* At most one scan runs per interface, among the calls of several staged
\* discoveries and of the application, and scanning names exactly the
\* interfaces being scanned: dropping one scan never frees another's.
ScanningExact ==
    \A i \in Ifaces :
        LET active == {c \in Calls : scan[c][i].pc = "run"}
        IN  Cardinality(active) = IF i \in scanning THEN 1 ELSE 0

\* The state invariant of discovery: the types, with the channel and the
\* rounds within their bounds, and the exact account of running scans.
ScansSound == TypeOK /\ ScanningExact

\* A staged discovery scans the subnets only if nothing at all was confirmed
\* from its start until the end of the grace period.
EscalatesOnSilence ==
    [][\A c \in Staged : staged[c].pc = "grace" /\ staged'[c].pc = "scan" => c \in silent]_vars

\* Every staged discovery ends, and so does every scan: the interfaces are
\* free again, also after a scan's future was dropped half way.
ScansEnd ==
    <>[](/\ scanning = {}
         /\ \A c \in Staged : staged[c].pc \in {"idle", "done"} /\ rounds[c] = 0)

=============================================================================
