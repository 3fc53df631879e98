----------------------------- MODULE ModelSlot -----------------------------
(***************************************************************************)
(* What the model manager promises of the GPU (llm/model_manager.py:5-9):  *)
(* one slot.  A model enters it only when it is empty, so no load ever     *)
(* finds another model there, and two loads never race.                    *)
(***************************************************************************)
CONSTANT Models

VARIABLE slot       \* the models the manager has loaded

Init == slot = {}

Load(m) == slot = {} /\ slot' = {m}

Free == slot # {} /\ slot' = {}

Next == Free \/ \E m \in Models : Load(m)

Spec == Init /\ [][Next]_slot
=============================================================================
