------------------------------ MODULE AuditTrail ------------------------------
(***************************************************************************)
(* What callers want of the audit log: a trail that only grows, by one     *)
(* whole record at a time, where a call that is acknowledged has its       *)
(* record on the trail.  A call that fails may have left its record or     *)
(* not: the caller of Append blocks the install either way.  AuditLog      *)
(* implements this when calls do not overlap and no write stops between a  *)
(* line and its newline.                                                   *)
(***************************************************************************)
EXTENDS Naturals, Sequences

CONSTANTS Procs, Data

VARIABLES
  trail,      \* the records, oldest first
  pending,    \* what each process is recording, at most one thing
  confirmed   \* how many calls were acknowledged

trailVars == <<trail, pending, confirmed>>

TrailInit ==
  /\ trail = <<>>
  /\ pending = [p \in Procs |-> {}]
  /\ confirmed = 0

Submit(p, d) ==
  /\ pending[p] = {}
  /\ pending' = [pending EXCEPT ![p] = {d}]
  /\ UNCHANGED <<trail, confirmed>>

Confirm(p) ==
  /\ \E d \in pending[p] : trail' = Append(trail, d)
  /\ pending' = [pending EXCEPT ![p] = {}]
  /\ confirmed' = confirmed + 1

Fail(p) ==
  /\ pending[p] # {}
  /\ trail' = trail \/ \E d \in pending[p] : trail' = Append(trail, d)
  /\ pending' = [pending EXCEPT ![p] = {}]
  /\ UNCHANGED confirmed

TrailNext ==
  \E p \in Procs : (\E d \in Data : Submit(p, d)) \/ Confirm(p) \/ Fail(p)

TrailSpec == TrailInit /\ [][TrailNext]_trailVars
==============================================================================
