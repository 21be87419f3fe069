-------------------------------- MODULE Lists --------------------------------
(***************************************************************************)
(* The loop that takes a user out of a slice in place: q = q[:0], and then *)
(* an append for every other one (removeFromDotaQueueLocked, LeaveGroup).  *)
(***************************************************************************)
EXTENDS Naturals, Sequences

\* What the loop leaves of q, u removed: the others keep their order.
Kept(q, u) ==
  LET out[i \in 0..Len(q)] == IF i = 0 THEN <<>>
                              ELSE IF q[i] # u THEN Append(out[i-1], q[i]) ELSE out[i-1]
  IN  out[Len(q)]
=============================================================================
