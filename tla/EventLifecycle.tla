---------------------------- MODULE EventLifecycle ----------------------------
(***************************************************************************)
(* What the retry_event table promises of each row, with no consumer,      *)
(* message or crash in sight: an event is attempted one at a time, at most *)
(* MaxRetry times, a failed attempt reopens it until the last one buries   *)
(* it, and completed and dead are final.                                   *)
(***************************************************************************)
EXTENDS Naturals

CONSTANTS Ids, MaxRetry

VARIABLES status, count

vars == <<status, count>>

Init ==
  /\ status = [e \in Ids |-> "none"]
  /\ count = [e \in Ids |-> 0]

Become(e, s) == status' = [status EXCEPT ![e] = s]

Record(e) ==
  /\ status[e] = "none"
  /\ Become(e, "open")
  /\ UNCHANGED count

Attempt(e) ==
  /\ status[e] = "open"
  /\ count[e] < MaxRetry
  /\ Become(e, "processing")
  /\ count' = [count EXCEPT ![e] = @ + 1]

Reopen(e) ==
  /\ status[e] = "processing"
  /\ count[e] < MaxRetry
  /\ Become(e, "open")
  /\ UNCHANGED count

Bury(e) ==
  /\ status[e] = "processing"
  /\ count[e] = MaxRetry
  /\ Become(e, "dead")
  /\ UNCHANGED count

Complete(e) ==
  /\ status[e] = "processing"
  /\ Become(e, "completed")
  /\ UNCHANGED count

Next == \E e \in Ids : Record(e) \/ Attempt(e) \/ Reopen(e) \/ Bury(e) \/ Complete(e)

Spec == Init /\ [][Next]_vars
================================================================================
