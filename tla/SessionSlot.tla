----------------------------- MODULE SessionSlot -----------------------------
(***************************************************************************)
(* What the upload endpoints promise about the single session slot: every  *)
(* session passes once through pending and active, at most one at a time,  *)
(* and a session that left the slot never comes back                       *)
(* (packages/core/src/http/server/mod.rs, V2State::session).               *)
(***************************************************************************)
CONSTANT Sessions

VARIABLE phase   \* [Sessions -> {"new", "pending", "active", "gone"}]

SlotFree == \A s \in Sessions : phase[s] \notin {"pending", "active"}

Move(s, from, to) == phase[s] = from /\ phase' = [phase EXCEPT ![s] = to]

Init == phase = [s \in Sessions |-> "new"]

Claim(s)    == SlotFree /\ Move(s, "new", "pending")
Refuse(s)   == ~SlotFree /\ Move(s, "new", "gone")
Release(s)  == Move(s, "pending", "gone")
Activate(s) == Move(s, "pending", "active")
End(s)      == Move(s, "active", "gone")

Next ==
    \E s \in Sessions : Claim(s) \/ Refuse(s) \/ Release(s) \/ Activate(s) \/ End(s)

Spec == Init /\ [][Next]_phase
=============================================================================
