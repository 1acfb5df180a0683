----------------------------- MODULE RunLifecycle -----------------------------
(***************************************************************************)
(* What the audit row of a plugin run promises to whoever reads it, in the *)
(* words of the documentation.  plugins/models.py:16-17: it is created     *)
(* running, and updated once with its final status and finished_at.        *)
(* docs/plugins.md:47-50: an asynchronous one is created queued, and moves *)
(* queued -> running -> succeeded | failed.  There is no other way out of  *)
(* the queue, and no end without finished_at.                              *)
(***************************************************************************)
CONSTANT Runs
VARIABLE audit

Unwritten == [status |-> "absent", finished |-> FALSE]

Init == audit = [r \in Runs |-> Unwritten]

Move(r, from, to, fin) ==
  /\ audit[r].status = from
  /\ audit' = [audit EXCEPT ![r] = [status |-> to, finished |-> fin]]

Appear(r) == Move(r, "absent", "queued", FALSE) \/ Move(r, "absent", "running", FALSE)

LeaveQueue(r) == Move(r, "queued", "running", FALSE)

End(r) == Move(r, "running", "succeeded", TRUE) \/ Move(r, "running", "failed", TRUE)

Next == \E r \in Runs : Appear(r) \/ LeaveQueue(r) \/ End(r)

Moves == Init /\ [][Next]_audit

Spec ==
  /\ Moves
  /\ \A r \in Runs : WF_audit(LeaveQueue(r)) /\ WF_audit(End(r))
=============================================================================
