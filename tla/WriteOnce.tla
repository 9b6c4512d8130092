----------------------------- MODULE WriteOnce -----------------------------
(***************************************************************************)
(* What a no-replace publication promises: a register that takes one value *)
(* and keeps it for ever, and a set of values reported to callers as       *)
(* published.  A value is reported only while the register holds it, so    *)
(* all callers that are told "published" were told about the same value.   *)
(***************************************************************************)
CONSTANTS
  Values,
  Empty      \* not a value

VARIABLES
  value,     \* the value that survives every crash, or Empty
  reported   \* the values whose publication was reported as a success

vars == <<value, reported>>

Init ==
  /\ value = Empty
  /\ reported = {}

\* The register is filled once; callers may be told in the same step.
Publish(v) ==
  /\ value = Empty
  /\ value' = v
  /\ reported' \in {reported, reported \cup {v}}

\* A further caller is told, of the value that is there.
Report ==
  /\ value # Empty
  /\ reported' = reported \cup {value}
  /\ UNCHANGED value

Next == (\E v \in Values : Publish(v)) \/ Report

Spec == Init /\ [][Next]_vars
=============================================================================
