------------------------------ MODULE Delivery ------------------------------
(***************************************************************************)
(* What the event pipeline promises, without goroutines or a channel: an   *)
(* item that was accepted is resolved at most once, as processed or as     *)
(* failed; nothing is accepted once the intake is sealed; and the program  *)
(* may only complete when everything it accepted is resolved.  The program *)
(* may also crash, and then promises nothing more.                         *)
(***************************************************************************)
CONSTANT Items          \* whatever the sources hand to the pipeline

VARIABLES accepted,     \* items taken from the sources
          processed,    \* items enriched (or skipped) and checked
          failed,       \* items given up because enrichment failed
          phase         \* "open", "sealed", "complete" or "crashed"

vars == <<accepted, processed, failed, phase>>

Resolved == processed \cup failed

Running == phase \in {"open", "sealed"}

Init ==
  /\ accepted = {}
  /\ processed = {}
  /\ failed = {}
  /\ phase = "open"

Accept(d) ==
  /\ phase = "open"
  /\ d \notin accepted
  /\ accepted' = accepted \cup {d}
  /\ UNCHANGED <<processed, failed, phase>>

Resolve(d) ==
  /\ Running
  /\ d \in accepted \ Resolved
  /\ \/ processed' = processed \cup {d} /\ UNCHANGED failed
     \/ failed' = failed \cup {d} /\ UNCHANGED processed
  /\ UNCHANGED <<accepted, phase>>

Seal ==
  /\ phase = "open"
  /\ phase' = "sealed"
  /\ UNCHANGED <<accepted, processed, failed>>

Complete ==
  /\ phase = "sealed"
  /\ accepted = Resolved
  /\ phase' = "complete"
  /\ UNCHANGED <<accepted, processed, failed>>

Crash ==
  /\ Running
  /\ phase' = "crashed"
  /\ UNCHANGED <<accepted, processed, failed>>

Next ==
  \/ \E d \in Items : Accept(d) \/ Resolve(d)
  \/ Seal
  \/ Complete
  \/ Crash

Spec == Init /\ [][Next]_vars

=============================================================================
