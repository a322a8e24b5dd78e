---------------------------- MODULE DeviceStore ----------------------------
(***************************************************************************)
(* The store of discovered devices and the terminal application on top of  *)
(* it: the event channel between them, the hotkeys, the paired devices and *)
(* their file, and the device list overlay.                                *)
(*                                                                         *)
(* packages/core/src/discovery/store.rs and found of discovery/mod.rs;     *)
(* cli/src/app/discovery.rs, app/devices.rs, device_list.rs, slots.rs and  *)
(* storage/paired.rs.                                                      *)
(*                                                                         *)
(* Confirmations come from tasks on several threads; between the store's   *)
(* update and the emission of its event the store is unlocked.             *)
(***************************************************************************)
EXTENDS Naturals, Sequences, FiniteSets, SequencesExt, Functions

CONSTANTS
    Devices,      \* fingerprints of other devices, as numbers in their order
    Channels,     \* addresses: a host with a port
    V6,           \* the channels that dial an IPv6 address
    HostOf,       \* the host of a channel
    Reach,        \* the channels each device can be confirmed on
    ChannelCap,   \* capacity of the event channel (16)
    MaxLogs,      \* MAX_LOGS
    MaxSlots,     \* hotkeys (9)
    MaxConfirmed, \* bound: confirmations in a behaviour
    MaxKeys       \* bound: keys pressed in a behaviour

ASSUME StoreConstants ==
    /\ IsFiniteSet(Devices) /\ Devices \subseteq Nat
    /\ IsFiniteSet(Channels)
    /\ V6 \subseteq Channels /\ DOMAIN HostOf = Channels
    /\ Reach \in [Devices -> SUBSET Channels]
    /\ {ChannelCap, MaxLogs, MaxSlots, MaxConfirmed} \subseteq Nat \ {0}
    /\ MaxKeys \in Nat

VARIABLES
    order,       \* the fingerprints of the store, in discovery order
    stored,      \* the stored state of a device
    hist,        \* history: every confirmation of a device
    emitting,    \* confirmations whose event is not emitted yet
    storeEvents, \* the event channel
    missed,      \* history: devices whose last event was dropped
    slots,       \* Slots.assigned
    paired,      \* PairedDevices in memory: the channels of the paired devices
    disk,        \* paired-v2.json
    unsaved,     \* history: the last save failed
    list,        \* the device list overlay
    keys         \* bound: keys left

storeVars == <<order, stored, hist>>
eventVars == <<emitting, storeEvents, missed>>
pairVars == <<paired, disk, unsaved>>
deviceVars == <<storeVars, eventVars, slots, pairVars, list, keys>>

Kinds == {"Discovered", "Updated"}
Unknown == [channels |-> {}, logs |-> <<>>]
Rows == [fp : Devices, paired : BOOLEAN, online : BOOLEAN]
Closed == [open |-> FALSE, rows |-> <<>>, cursor |-> 0]

StoreTypeOK ==
    /\ order \in Seq(Devices)
    /\ \A p \in Devices : /\ stored[p].channels \subseteq Channels
                        /\ stored[p].logs \in Seq(Channels)
                        /\ Len(stored[p].logs) <= MaxLogs
                        /\ hist[p] \in Seq(Channels)
    /\ emitting \subseteq [fp : Devices, kind : Kinds, n : Nat]
    /\ storeEvents \in Seq([fp : Devices, kind : Kinds]) /\ Len(storeEvents) <= ChannelCap
    /\ missed \subseteq Devices
    /\ slots \in Seq([fp : Devices, slot : 0 .. MaxSlots])
    /\ \A f \in {paired, disk} : /\ DOMAIN f \subseteq Devices
                                 /\ \A p \in DOMAIN f : f[p] \in Seq(Channels)
    /\ unsaved \in BOOLEAN
    /\ list \in [open : BOOLEAN, rows : Seq(Rows), cursor : Nat]
    /\ keys \in 0 .. MaxKeys

(***************************************************************************)
(* store.rs                                                                *)
(***************************************************************************)
Known(p) == stored[p].logs # <<>>

\* Where in the logs the channel was last confirmed; 0 when the log cap has
\* dropped its confirmations.
LastConfirmed(d, c) == SelectLastInSeq(d.logs, LAMBDA l : l = c)

\* Mutant: confirmations are sorted without Reverse, the oldest first.
OutranksOldest(d, c, e) ==
    \/ c \in V6 /\ e \notin V6
    \/ (c \in V6 <=> e \in V6) /\ LastConfirmed(d, c) < LastConfirmed(d, e)

\* get_ranked_channels puts c before e whenever this holds; otherwise their
\* order is a hash map's.  Every channel of the store is Available.
Outranks(d, c, e) ==
    \/ c \in V6 /\ e \notin V6
    \/ (c \in V6 <=> e \in V6) /\ LastConfirmed(d, c) > LastConfirmed(d, e)

RankedChannels(d) ==
    {s \in SetToSeqs(d.channels) :
        \A i, j \in DOMAIN s : Outranks(d, s[i], s[j]) => i < j}

\* get_best_channel
BestChannels(d) == {Head(s) : s \in RankedChannels(d) \ {<<>>}}

\* Mutant: channels are merged only when the port is the same too.
SameEndpointExactly(c, e) == c = e

SameEndpoint(c, e) == HostOf[c] = HostOf[e]

\* Mutant: the log keeps one entry too many.
CappedLate(logs) == IF Len(logs) > MaxLogs + 1 THEN Tail(logs) ELSE logs

Capped(logs) == IF Len(logs) > MaxLogs THEN Tail(logs) ELSE logs

Upsert(d, c) ==
    [channels |-> {e \in d.channels : ~SameEndpoint(e, c)} \cup {c},
     logs |-> Capped(Append(d.logs, c))]

----------------------------------------------------------------------------

StoreInit ==
    /\ order = <<>>
    /\ stored = [p \in Devices |-> Unknown]
    /\ hist = [p \in Devices |-> <<>>]
    /\ emitting = {} /\ storeEvents = <<>> /\ missed = {}
    /\ slots = <<>>
    /\ disk \in UNION {[S -> {<<c>> : c \in Channels \ V6}] : S \in SUBSET Devices}
    /\ paired = disk
    /\ unsaved = FALSE
    /\ list = Closed
    /\ keys = MaxKeys

(***************************************************************************)
(* DiscoveryState::found: the store under its lock, then the event with    *)
(* try_send.                                                               *)
(***************************************************************************)
Found(p, c) ==
    LET n == Cardinality(UNION {{<<q, i>> : i \in DOMAIN hist[q]} : q \in Devices})
        kind == IF Known(p) THEN "Updated" ELSE "Discovered"
    IN  /\ n < MaxConfirmed
        /\ stored' = [stored EXCEPT ![p] = Upsert(@, c)]
        /\ hist' = [hist EXCEPT ![p] = Append(@, c)]
        /\ order' = IF Known(p) THEN order ELSE Append(order, p)
        /\ emitting' = emitting \cup {[fp |-> p, kind |-> kind, n |-> n]}
        /\ UNCHANGED <<storeEvents, missed, slots, pairVars, list, keys>>

Emit(e) ==
    /\ emitting' = emitting \ {e}
    /\ IF Len(storeEvents) < ChannelCap
       THEN /\ storeEvents' = Append(storeEvents, [fp |-> e.fp, kind |-> e.kind])
            /\ missed' = missed \ {e.fp}
       ELSE /\ missed' = missed \cup {e.fp}
            /\ UNCHANGED storeEvents
    /\ UNCHANGED <<storeVars, slots, pairVars, list, keys>>

(***************************************************************************)
(* storage/paired.rs: every change is saved with write and rename, or the  *)
(* save fails and only this run knows of it.                               *)
(***************************************************************************)
Save(file) == \/ disk' = file /\ unsaved' = FALSE
              \/ UNCHANGED disk /\ unsaved' = TRUE

Put(p, s) == [q \in DOMAIN paired \cup {p} |-> IF q = p THEN s ELSE paired[q]]

Insert(p, s) == paired' = Put(p, s) /\ Save(Put(p, s))

\* Mutant: the file is written by the next change.
RemovePairUnsaved(p) ==
    /\ paired' = Restrict(paired, DOMAIN paired \ {p})
    /\ UNCHANGED <<disk, unsaved>>

RemovePair(p) ==
    LET file == Restrict(paired, DOMAIN paired \ {p})
    IN  paired' = file /\ Save(file)

\* Saved only when something changed.
Update(p, s) == IF paired[p] = s THEN UNCHANGED pairVars ELSE Insert(p, s)

(***************************************************************************)
(* handle_discovery                                                        *)
(***************************************************************************)

\* Slots::assign; a device beyond the last hotkey keeps none (0).
Assign(p) ==
    LET free == (1 .. MaxSlots) \ {slots[i].slot : i \in DOMAIN slots}
    IN  IF \E i \in DOMAIN slots : slots[i].fp = p THEN slots
        ELSE Append(slots, [fp |-> p,
                            slot |-> IF free = {} THEN 0
                                     ELSE CHOOSE s \in free : \A t \in free : s <= t])

\* Mutant: a re-confirmation returns before the channels are refreshed.
RefreshPairedOnce(e) ==
    IF e.kind = "Discovered" /\ e.fp \in DOMAIN paired
    THEN \E s \in RankedChannels(stored[e.fp]) : Update(e.fp, s)
    ELSE UNCHANGED pairVars

\* refresh_paired_channels reads the store, not the event.
RefreshPaired(e) ==
    IF e.fp \in DOMAIN paired
    THEN \E s \in RankedChannels(stored[e.fp]) : Update(e.fp, s)
    ELSE UNCHANGED pairVars

HandleDiscovery ==
    /\ storeEvents # <<>>
    /\ storeEvents' = Tail(storeEvents)
    /\ RefreshPaired(Head(storeEvents))
    /\ slots' = LET event == Head(storeEvents)
                IN  IF event.kind = "Discovered" THEN Assign(event.fp) ELSE slots
    /\ UNCHANGED <<storeVars, emitting, missed, list, keys>>

(***************************************************************************)
(* devices.rs and device_list.rs.  Rows without a device (headers, the     *)
(* placeholder) cannot be highlighted and are left out.                    *)
(***************************************************************************)
\* The member of S that i of its members do not exceed.
Nth(S, i) == CHOOSE n \in S : Cardinality({m \in S : m <= n}) = i

\* The paired devices in the order of their map, then the rest of the store.
DeviceRows(pairs) ==
    LET row(p) == [fp |-> p, paired |-> p \in DOMAIN pairs, online |-> Known(p)]
        n == Cardinality(DOMAIN pairs)
        rest == {k \in DOMAIN order : order[k] \notin DOMAIN pairs}
    IN  [i \in 1 .. n + Cardinality(rest) |->
            row(IF i <= n THEN Nth(DOMAIN pairs, i) ELSE order[Nth(rest, i - n)])]

SelectFirst(rows) == IF rows = <<>> THEN 0 ELSE 1

\* Mutant: the highlight keeps its position.
SetRowsInPlace(rows) ==
    [open |-> TRUE, rows |-> rows,
     cursor |-> IF list.cursor \in DOMAIN rows THEN list.cursor ELSE SelectFirst(rows)]

\* The highlight stays on its device, or goes to the first.
SetRows(rows) ==
    LET same == {i \in DOMAIN rows : list.cursor # 0 /\ rows[i].fp = list.rows[list.cursor].fp}
    IN  [open |-> TRUE, rows |-> rows,
         cursor |-> IF same = {} THEN SelectFirst(rows) ELSE CHOOSE i \in same : TRUE]

Tick ==
    /\ list.open
    /\ list' = SetRows(DeviceRows(paired))
    /\ UNCHANGED <<storeVars, eventVars, slots, pairVars, keys>>

Press == keys > 0 /\ keys' = keys - 1

OpenList ==
    /\ Press
    /\ ~list.open
    /\ list' = LET rows == DeviceRows(paired)
               IN  [open |-> TRUE, rows |-> rows, cursor |-> SelectFirst(rows)]
    /\ UNCHANGED <<storeVars, eventVars, slots, pairVars>>

CloseList ==
    /\ Press
    /\ list.open
    /\ list' = Closed
    /\ UNCHANGED <<storeVars, eventVars, slots, pairVars>>

\* rem_euclid over the device rows.
MoveCursor(delta) ==
    LET n == Len(list.rows)
    IN  /\ Press
        /\ list.open /\ n > 0
        /\ list' = [list EXCEPT !.cursor = ((@ - 1 + delta + n) % n) + 1]
        /\ UNCHANGED <<storeVars, eventVars, slots, pairVars>>

\* P on the highlighted row, as it was drawn: pair a device of the store or
\* remove a paired one.  The rows are rebuilt at once.
PairKey ==
    /\ Press
    /\ list.open /\ list.cursor # 0
    /\ LET row == list.rows[list.cursor]
       IN  IF row.paired
           THEN row.fp \in DOMAIN paired /\ RemovePair(row.fp)
           ELSE \E s \in RankedChannels(stored[row.fp]) : Insert(row.fp, s)
    /\ list' = SetRows(DeviceRows(paired'))
    /\ UNCHANGED <<storeVars, eventVars, slots>>

\* The user accepts a transfer request and pairs its sender, whom the store
\* may not know yet.
AcceptAndPair(p) ==
    /\ Press
    /\ ~list.open
    /\ \E s \in RankedChannels(stored[p]) : Insert(p, s)
    /\ UNCHANGED <<storeVars, eventVars, slots, list>>

\* The application ends, or crashes, and is started again.
Restart ==
    /\ Press
    /\ order' = <<>>
    /\ stored' = [p \in Devices |-> Unknown]
    /\ hist' = [p \in Devices |-> <<>>]
    /\ emitting' = {} /\ storeEvents' = <<>> /\ missed' = {}
    /\ slots' = <<>>
    /\ paired' = disk
    /\ unsaved' = FALSE
    /\ list' = Closed
    /\ UNCHANGED disk

----------------------------------------------------------------------------

StoreNext ==
    \/ \E p \in Devices : \E c \in Reach[p] : Found(p, c)
    \/ \E e \in emitting : Emit(e)
    \/ HandleDiscovery
    \/ Tick \/ OpenList \/ CloseList \/ PairKey
    \/ \E delta \in {1, -1} : MoveCursor(delta)
    \/ \E p \in Devices : AcceptAndPair(p)
    \/ Restart

StoreSpec == StoreInit /\ [][StoreNext]_deviceVars

----------------------------------------------------------------------------
(***************************************************************************)
(* Properties                                                              *)
(***************************************************************************)
Handled == emitting = {} /\ storeEvents = <<>>

\* However confirmations race, the store has one entry per device in
\* discovery order and one channel per host, the newest among them.
StoreSound ==
    /\ IsInjective(order)
    /\ \A p \in Devices :
        /\ Known(p) <=> p \in Range(order)
        /\ Known(p) => Last(hist[p]) \in stored[p].channels
        /\ \A c, e \in stored[p].channels : HostOf[c] = HostOf[e] => c = e

\* The best channel of a device is an IPv6 one if there is one, and of those
\* the most recently confirmed, as long as the log still knows when that was.
BestIsFreshest ==
    \A p \in Devices :
        LET d == stored[p]
            When(c) == SelectLastInSeq(hist[p], LAMBDA l : l = c)
            family == IF d.channels \cap V6 # {} THEN d.channels \cap V6 ELSE d.channels
        IN  \A c \in BestChannels(d) :
                /\ c \in family
                /\ (\E e \in family : e \in Range(d.logs)) =>
                        \A e \in family : When(e) <= When(c)

\* The store's state invariant: entries, channels and the capped log agree,
\* and the ranking made from them is right.
RankingSound == StoreTypeOK /\ StoreSound /\ BestIsFreshest

\* With all events handled, what is kept of a paired device for the next run
\* is the store's ranking, unless the device's last event was dropped.
PairedFresh ==
    Handled => \A p \in DOMAIN paired \ missed :
                    Known(p) => paired[p] \in RankedChannels(stored[p])

\* The file is what the application believes, unless saving failed: whoever
\* was unpaired is not paired again by the next start.
DiskCurrent == unsaved \/ disk = paired

\* What the next run starts from is what this one knows: the paired devices
\* in memory follow the store, and the file follows the memory.
PairedKept == PairedFresh /\ DiskCurrent

\* While the list is refreshed under the user's hands the highlight stays on
\* its device, as long as that is listed: a key never acts on another device
\* than the one chosen.
HighlightKept ==
    [][(Tick \/ PairKey) =>
        \A i \in DOMAIN list'.rows :
            (list.cursor # 0 /\ list'.rows[i].fp = list.rows[list.cursor].fp)
                => list'.cursor = i]_deviceVars

\* The application assigns a hotkey entry to every device entering the store,
\* once all events are handled (the module comment of app/discovery.rs;
\* found says that dropping an event only costs a refresh).
HotkeyForEach ==
    Handled => \A p \in Range(order) : \E i \in DOMAIN slots : slots[i].fp = p

=============================================================================
