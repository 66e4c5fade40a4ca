----------------------------- MODULE ScratchSlot -----------------------------
(***************************************************************************)
(* What the padded decryption scratch buffer promises (spec sections 3 and *)
(* 5): a single-slot, non-reentrant resource.  A session fills the slot    *)
(* only while it is empty, and only the session holding the slot empties   *)
(* it again.  Nobody's content is overwritten or discarded by another.     *)
(***************************************************************************)
CONSTANTS
  Sessions,   \* the sessions that may use the slot
  Data,       \* what a filled slot may hold
  Free,       \* the owner of an empty slot
  Blank       \* the data of an empty slot

VARIABLE slot

Empty == [owner |-> Free, data |-> Blank]

Init == slot = Empty

(* Session s stores its data in the empty slot. *)
Fill(s) ==
  /\ slot = Empty
  /\ \E d \in Data : slot' = [owner |-> s, data |-> d]

(* The holder of the slot clears it. *)
Clear(s) ==
  /\ slot.owner = s
  /\ slot' = Empty

Next == \E s \in Sessions : Fill(s) \/ Clear(s)

Spec == Init /\ [][Next]_slot

=============================================================================
