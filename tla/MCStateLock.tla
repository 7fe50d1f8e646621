---------------------------- MODULE MCStateLock ----------------------------
(* Two processes.  In the first configuration p1 runs two queued tasks, one  *)
(* of which may not wait, and p2 a queued task: two tasks can find the         *)
(* directory of a dead one stale and take it over at once.  In the second p1   *)
(* runs three queued tasks, so that an entry can leave from the middle, and    *)
(* p2 a task without a policy that can take a stalled lease over.              *)
EXTENDS StateLock, TLC

CONSTANTS t1, t2, t3, t4, p1, p2

MCProcOf == t1 :> p1 @@ t2 :> p1 @@ t3 :> p2

Symmetric == Permutations({t1, t2, t3})

MCProcOfStall == t1 :> p1 @@ t2 :> p1 @@ t3 :> p1 @@ t4 :> p2
=============================================================================
