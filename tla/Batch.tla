------------------------------- MODULE Batch -------------------------------
(***************************************************************************)
(* Abstract call-sequence builder (spec.md sections 3 and 4.1): a batch is *)
(* created empty, calls are appended whose back-references name earlier   *)
(* calls only, it is finalised, then submitted once and applied as a whole *)
(* or not at all; a batch whose construction or submission throws is       *)
(* discarded and never applied.  Both scripts' builders refine it.         *)
(***************************************************************************)
EXTENDS Naturals, Sequences

VARIABLES batch, phase, applied

Refs(c) == { c.args[j].cmd : j \in { j \in DOMAIN c.args : c.args[j].kind = "result" } }

Init ==
    /\ batch = <<>>
    /\ phase = "building"
    /\ applied = FALSE

\* Any call descriptor is appended, provided it only refers back.
AddCall ==
    /\ phase = "building"
    /\ Len(batch') = Len(batch) + 1
    /\ SubSeq(batch', 1, Len(batch)) = batch
    /\ Refs(batch'[Len(batch')]) \subseteq 1..Len(batch)
    /\ UNCHANGED <<phase, applied>>

Finalize ==
    /\ phase = "building"
    /\ phase' = "final"
    /\ UNCHANGED <<batch, applied>>

Submit ==
    /\ phase = "final"
    /\ phase' = "submitted"
    /\ applied' \in BOOLEAN
    /\ UNCHANGED batch

Discard ==
    /\ phase \in {"building", "final"}
    /\ phase' = "discarded"
    /\ UNCHANGED <<batch, applied>>

Next == AddCall \/ Finalize \/ Submit \/ Discard

Spec == Init /\ [][Next]_<<batch, phase, applied>>
=============================================================================
