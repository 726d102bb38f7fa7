------------------------------ MODULE RunLedger ------------------------------
(***************************************************************************)
(* What the checkpoint store promises about a run, whatever crashes in     *)
(* between: the stages already paid for stay in the database until both    *)
(* output files of the run are on disk, a run is complete only then, and,  *)
(* when no two processes overlap, completion is final.                     *)
(***************************************************************************)
CONSTANTS Run,       \* run identifiers
          Stage,     \* stages of a run
          Exclusive  \* a Boolean: one process at a time works on the database

VARIABLES status,    \* "absent", "running", "failed" or "complete"
          saved,     \* the stages of a run that a resume would not pay for again
          published  \* the runs whose output files have been written

vars == <<status, saved, published>>

Init ==
  /\ status = [r \in Run |-> "absent"]
  /\ saved = [r \in Run |-> {}]
  /\ published = {}

\* Work on a complete run goes on only in a second process.
Open(r) == Exclusive => status[r] # "complete"

Record(r) ==
  /\ status[r] = "absent"
  /\ status' = [status EXCEPT ![r] = "running"]
  /\ UNCHANGED <<saved, published>>

Save(r, s) ==
  /\ Open(r)
  /\ saved' = [saved EXCEPT ![r] = @ \cup {s}]
  /\ UNCHANGED <<status, published>>

Fail(r) ==
  /\ status[r] # "absent"
  /\ Open(r)
  /\ status' = [status EXCEPT ![r] = "failed"]
  /\ UNCHANGED <<saved, published>>

Publish(r) ==
  /\ Open(r)
  /\ published' = published \cup {r}
  /\ UNCHANGED <<status, saved>>

Complete(r) ==
  /\ r \in published
  /\ status[r] # "absent"
  /\ status' = [status EXCEPT ![r] = "complete"]
  /\ UNCHANGED <<saved, published>>

Forget(r) ==
  /\ r \in published
  /\ saved' = [saved EXCEPT ![r] = {}]
  /\ UNCHANGED <<status, published>>

Next ==
  \E r \in Run :
    \/ Record(r) \/ Fail(r) \/ Publish(r) \/ Complete(r) \/ Forget(r)
    \/ \E s \in Stage : Save(r, s)

Spec == Init /\ [][Next]_vars
=============================================================================
