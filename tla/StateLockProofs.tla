-------------------------- MODULE StateLockProofs --------------------------
(* Proofs about StateLock, for any number of tasks and processes.          *)
EXTENDS StateLock, TLAPS

(* Every reachable state is well typed.                                    *)
LEMMA TypeInit == Init => TypeOK
  BY StateLockAssumption DEF Init, TypeOK, Places, Trying, Leased

LEMMA TypeNext == TypeOK /\ [Next]_vars => TypeOK'
  <1> SUFFICES ASSUME TypeOK, [Next]_vars PROVE TypeOK'
    OBVIOUS
  <1> USE StateLockAssumption DEF TypeOK, Places, Trying, Leased
  <1>1. ASSUME NEW t \in Task, Queueing(t) PROVE TypeOK'
    <2>1. CASE Enter(t)
      BY <2>1 DEF Enter, Goto
    <2>2. CASE Expire(t)
      BY <2>2 DEF Expire
    <2>3. CASE Abort(t)
      BY <2>3 DEF Abort
    <2>4. CASE LeaveQueue(t)
      BY <2>4 DEF LeaveQueue, Exit, Depart, Leave, Settle, Goto
    <2>5. CASE Ready(t)
      BY <2>5 DEF Ready, Goto
    <2> QED BY <1>1, <2>1, <2>2, <2>3, <2>4, <2>5 DEF Queueing
  <1>2. ASSUME NEW t \in Task, Locking(t) PROVE TypeOK'
    <2>1. CASE Create(t) BY <2>1 DEF Create, MakeDir, Goto
    <2>2. CASE Exists(t) BY <2>2 DEF Exists, Observe, Goto
    <2>3. CASE Look(t) BY <2>3 DEF Look, Observe, Goto
    <2>4. CASE RemoveStale(t) BY <2>4 DEF RemoveStale, RemoveDir, Victim, Goto
    <2>5. CASE Remake(t) BY <2>5 DEF Remake, MakeDir, Observe, Goto
    <2>6. CASE Probe(t) BY <2>6 DEF Probe, Victim, Goto
    <2>7. CASE Backoff(t) BY <2>7 DEF Backoff, Observe, Goto
    <2>8. CASE Retry(t) BY <2>8 DEF Retry, Observe, Goto
    <2>9. CASE GiveUp(t) BY <2>9 DEF GiveUp, Exit, Depart, Leave, Settle, Goto
    <2>10. CASE ProbeFails(t)
      BY <2>10 DEF ProbeFails, RemoveDir, Victim, Depart, Leave, Settle, Goto
    <2>11. CASE Fail(t) BY <2>11 DEF Fail, Exit, Depart, Leave, Settle, Goto
    <2>12. CASE Accept(t) BY <2>12 DEF Accept, Settle, Goto
    <2>13. CASE Refuse(t) BY <2>13 DEF Refuse, Settle, Goto
    <2>14. CASE Remove(t) BY <2>14 DEF Remove, RemoveDir, Victim, Goto
    <2>15. CASE Left(t) BY <2>15 DEF Left, Exit, Depart, Leave, Settle, Goto
    <2>16. CASE Refresh(t) BY <2>16 DEF Refresh
    <2>17. CASE Compromised(t) BY <2>17 DEF Compromised
    <2> QED
      BY <1>2, <2>1, <2>2, <2>3, <2>4, <2>5, <2>6, <2>7, <2>8, <2>9, <2>10, <2>11, <2>12,
         <2>13, <2>14, <2>15, <2>16, <2>17 DEF Locking, Try
  <1>3. ASSUME NEW t \in Task, Updating(t) PROVE TypeOK'
    <2>1. CASE Read(t) BY <2>1 DEF Read, Goto
    <2>2. CASE Stage(t) BY <2>2 DEF Stage, AssertHeld, Goto
    <2>3. CASE Submit(t) BY <2>3 DEF Submit, AssertHeld, Goto
    <2>4. CASE Rename(t) BY <2>4 DEF Rename, Goto
    <2>5. CASE Finish(t) BY <2>5 DEF Finish, Goto
    <2> QED BY <1>3, <2>1, <2>2, <2>3, <2>4, <2>5 DEF Updating
  <1>4. CASE Age
    BY <1>4 DEF Age
  <1>5. ASSUME NEW p \in Process, Crash(p) PROVE TypeOK'
    BY <1>5 DEF Crash
  <1>6. CASE UNCHANGED vars
    BY <1>6 DEF vars
  <1> QED
    BY <1>1, <1>2, <1>3, <1>4, <1>5, <1>6 DEF Next

THEOREM TypeCorrect == Spec => []TypeOK
  BY TypeInit, TypeNext, PTL DEF Spec
-----------------------------------------------------------------------------
(* The lease.  Without stalls a directory only ages when its maker is gone.    *)
(* So whoever is at a place of the lease made a directory that is not stale,   *)
(* until a taker that looked before it was made removes it; and from then on   *)
(* it is overrun.                                                              *)
LeaseInv ==
    ~MayStall => \A t \in Task \ overrun : Holding(t) => dir = t /\ ~stale

LEMMA LeaseInit == Init => LeaseInv
  BY DEF Init, LeaseInv, Holding, Leased

LEMMA LeaseNext == TypeOK /\ LeaseInv /\ [Next]_vars => LeaseInv'
  <1> SUFFICES ASSUME TypeOK, LeaseInv, [Next]_vars, ~MayStall,
                      NEW u \in Task, u \notin overrun', Holding(u)'
               PROVE  (dir = u /\ ~stale)'
    BY StateLockAssumption DEF LeaseInv
  <1> USE StateLockAssumption DEF TypeOK, LeaseInv, Holding, Leased
  <1>1. ASSUME NEW t \in Task, Queueing(t) PROVE (dir = u /\ ~stale)'
    BY <1>1 DEF Queueing, Enter, Expire, Abort, LeaveQueue, Ready, Exit, Depart, Goto
  <1>2. ASSUME NEW t \in Task, Locking(t) PROVE (dir = u /\ ~stale)'
    <2>1. CASE Create(t)
      BY <2>1 DEF Create, MakeDir, Goto
    <2>2. CASE Remake(t)
      BY <2>2 DEF Remake, MakeDir, Observe, Goto
    <2>3. CASE RemoveStale(t)
      <3>1. u # t /\ u \notin overrun /\ Holding(u)
        BY <2>3 DEF RemoveStale, Goto
      <3>2. dir = u /\ ~stale
        BY <3>1
      <3> QED BY <2>3, <3>1, <3>2 DEF RemoveStale, Victim
    <2>4. CASE Probe(t)
      BY <2>4 DEF Probe, Victim, Goto
    <2>5. CASE ProbeFails(t)
      <3>1. u # t /\ u \notin overrun /\ Holding(u)
        BY <2>5 DEF ProbeFails, Depart, Goto
      <3>2. t \in overrun
        BY <2>5, <3>1 DEF ProbeFails
      <3> QED BY <2>5, <3>1, <3>2 DEF ProbeFails, Victim
    <2>6. CASE Remove(t)
      <3>1. u # t /\ u \notin overrun /\ Holding(u)
        BY <2>6 DEF Remove, Goto
      <3>2. t \in overrun
        BY <2>6, <3>1 DEF Remove
      <3> QED BY <2>6, <3>1, <3>2 DEF Remove, Victim
    <2>7. CASE \/ Exists(t) \/ Look(t) \/ Backoff(t) \/ Retry(t) \/ GiveUp(t) \/ Fail(t)
               \/ Left(t)
      BY <2>7 DEF Exists, Look, Backoff, Retry, GiveUp, Fail, Left, Observe, Exit, Depart, Goto
    <2>8. CASE Accept(t) \/ Refuse(t)
      BY <2>8 DEF Accept, Refuse, Settle, Goto
    <2>9. CASE Refresh(t) \/ Compromised(t)
      BY <2>9 DEF Refresh, Compromised
    <2> QED
      BY <1>2, <2>1, <2>2, <2>3, <2>4, <2>5, <2>6, <2>7, <2>8, <2>9 DEF Locking, Try
  <1>3. ASSUME NEW t \in Task, Updating(t) PROVE (dir = u /\ ~stale)'
    BY <1>3 DEF Updating, Read, Stage, Submit, AssertHeld, Rename, Finish, Goto
  <1>4. CASE Age
    BY <1>4 DEF Age
  <1>5. ASSUME NEW p \in Process, Crash(p) PROVE (dir = u /\ ~stale)'
    BY <1>5 DEF Crash
  <1>6. CASE UNCHANGED vars
    BY <1>6 DEF vars
  <1> QED BY <1>1, <1>2, <1>3, <1>4, <1>5, <1>6 DEF Next

(* One task at a time holds the lease, whatever crashes, aborts, times out or  *)
(* is released late, except for those that a take-over hit which had looked    *)
(* at the directory before they made theirs.                                   *)
THEOREM LeaseIsExclusive == Spec => []MutualExclusion
  <1>1. LeaseInv => MutualExclusion
    BY DEF LeaseInv, MutualExclusion
  <1> QED BY <1>1, LeaseInit, LeaseNext, TypeCorrect, PTL DEF Spec

(* A holder's snapshot is still the content of the file when it renames,       *)
(* unless it, or who replaced the file before it, was hit by such a take-over. *)
THEOREM UpdatesSurvive == Spec => []NoLostUpdate
  <1>1. Init => NoLostUpdate
    BY DEF Init, NoLostUpdate
  <1>2. TypeOK /\ LeaseInv /\ NoLostUpdate /\ [Next]_vars => NoLostUpdate'
    <2> SUFFICES ASSUME TypeOK, LeaseInv, NoLostUpdate, [Next]_vars, ~MayStall,
                        NEW u \in Task, u \notin overrun',
                        (pc[u] \in {"read", "staged", "renaming"})'
                 PROVE  current'[u]
      BY StateLockAssumption DEF NoLostUpdate
    <2> USE StateLockAssumption DEF TypeOK, LeaseInv, NoLostUpdate, Holding, Leased
    <2>1. ASSUME NEW t \in Task, Queueing(t) PROVE current'[u]
      BY <2>1 DEF Queueing, Enter, Expire, Abort, LeaveQueue, Ready, Exit, Depart, Goto
    <2>2. ASSUME NEW t \in Task, Locking(t) PROVE current'[u]
      <3>1. CASE \/ Create(t) \/ Exists(t) \/ Look(t) \/ RemoveStale(t) \/ Remake(t)
                 \/ Probe(t) \/ Backoff(t) \/ Retry(t)
        BY <3>1 DEF Create, Exists, Look, RemoveStale, Remake, Probe, Backoff, Retry, MakeDir,
                    Observe, Goto
      <3>2. CASE GiveUp(t) \/ ProbeFails(t) \/ Fail(t) \/ Left(t)
        BY <3>2 DEF GiveUp, ProbeFails, Fail, Left, Exit, Depart, Goto
      <3>3. CASE \/ Accept(t) \/ Refuse(t) \/ Remove(t) \/ Refresh(t) \/ Compromised(t)
        BY <3>3 DEF Accept, Refuse, Remove, Refresh, Compromised, Goto
      <3> QED BY <2>2, <3>1, <3>2, <3>3 DEF Locking, Try
    <2>3. ASSUME NEW t \in Task, Updating(t) PROVE current'[u]
      <3>1. CASE Rename(t)
        <4>1. u # t /\ u \notin overrun /\ pc[u] \in {"read", "staged", "renaming"}
          BY <3>1 DEF Rename, Goto
        <4>2. current[u] /\ dir = u
          BY <4>1
        <4>3. t \in overrun
          BY <3>1, <4>1, <4>2 DEF Rename
        <4> QED BY <3>1, <4>2, <4>3 DEF Rename
      <3>2. CASE Read(t) \/ Stage(t) \/ Submit(t) \/ Finish(t)
        BY <3>2 DEF Read, Stage, Submit, AssertHeld, Finish, Goto
      <3> QED BY <2>3, <3>1, <3>2 DEF Updating
    <2>4. CASE Age
      BY <2>4 DEF Age
    <2>5. ASSUME NEW p \in Process, Crash(p) PROVE current'[u]
      BY <2>5 DEF Crash
    <2>6. CASE UNCHANGED vars
      BY <2>6 DEF vars
    <2> QED BY <2>1, <2>2, <2>3, <2>4, <2>5, <2>6 DEF Next
  <1>3. Spec => []LeaseInv
    BY LeaseInit, LeaseNext, TypeCorrect, PTL DEF Spec
  <1> QED BY <1>1, <1>2, <1>3, TypeCorrect, PTL DEF Spec

-----------------------------------------------------------------------------
(* The queue.  The entries of a process are totally ordered by ahead, an     *)
(* entry past the queue is first in that order, and the first is awake.      *)
Entered == \A t \in Queued : t \in slot <=> pc[t] # "idle"
Passed == \A t \in Task : ahead[t] # {} => pc[t] = "queued"
Within == \A t \in Task : pc[t] = "queued" => t \in slot
Ordered ==
    \A s, t \in Task :
        s \in ahead[t] => /\ s \in slot
                         /\ s # t
                         /\ ProcOf[s] = ProcOf[t]
                         /\ ahead[s] \subseteq ahead[t]
Total ==
    \A s, t \in slot :
        s # t /\ ProcOf[s] = ProcOf[t] => s \in ahead[t] \/ t \in ahead[s]
FirstAwake == \A t \in woken : ahead[t] = {}

QueueInv == Entered /\ Passed /\ Within /\ Ordered /\ Total /\ FirstAwake /\ HeadAwake

LEMMA QueueInit == Init => QueueInv
  BY StateLockAssumption
  DEF Init, QueueInv, Entered, Passed, Within, Ordered, Total, FirstAwake, HeadAwake

(* A departure keeps the order of those who stay, and wakes the new head.    *)
LEMMA LeaveKeepsQueue ==
  ASSUME TypeOK, QueueInv, NEW t \in Task, Depart(t) PROVE QueueInv'
  <1> USE StateLockAssumption DEF TypeOK, QueueInv, Depart, Leave, Goto
  <1>1. Entered' /\ Passed' /\ Within'
    BY DEF Entered, Passed, Within
  <1>2. Ordered'
    BY DEF Ordered
  <1>3. Total'
    BY DEF Total
  <1>4. FirstAwake'
    BY DEF FirstAwake
  <1>5. HeadAwake'
    <2> SUFFICES ASSUME NEW u \in Task, pc'[u] = "queued", ahead'[u] = {}
                 PROVE  u \in woken'
      BY DEF HeadAwake
    <2>1. u # t /\ pc[u] = "queued" /\ u \in slot /\ ahead[u] \subseteq {t}
      BY DEF Within
    <2>2. CASE ahead[u] = {}
      BY <2>1, <2>2 DEF HeadAwake
    <2>3. CASE ahead[u] = {t}
      <3>1. ahead[t] = {} /\ t \in slot
        BY <2>3 DEF Ordered
      <3> QED BY <2>1, <2>3, <3>1
    <2> QED BY <2>1, <2>2, <2>3
  <1> QED BY <1>1, <1>2, <1>3, <1>4, <1>5 DEF QueueInv

LEMMA EnterKeepsQueue ==
  ASSUME TypeOK, QueueInv, NEW t \in Task, Enter(t) PROVE QueueInv'
  <1> USE StateLockAssumption DEF TypeOK, QueueInv, Enter, Goto
  <1>1. CASE t \notin Queued
    BY <1>1 DEF Entered, Passed, Within, Ordered, Total, FirstAwake, HeadAwake
  <1>2. CASE t \in Queued
    <2> DEFINE before == {u \in slot : ProcOf[u] = ProcOf[t]}
    <2>1. t \notin slot /\ ahead[t] = {} /\ t \notin woken
      BY <1>2 DEF Entered, Passed
    <2>2. /\ slot' = slot \union {t}
          /\ ahead' = [ahead EXCEPT ![t] = before]
          /\ pc' = [pc EXCEPT ![t] = IF before = {} THEN "trying" ELSE "queued"]
          /\ woken' = woken
      BY <1>2
    <2> HIDE DEF before
    <2>3. before \subseteq slot
      BY DEF before
    <2>4. Entered' /\ Passed' /\ Within'
      BY <1>2, <2>1, <2>2, <2>3 DEF Entered, Passed, Within
    <2>5. Ordered'
      BY <1>2, <2>1, <2>2 DEF Ordered, before
    <2>6. Total'
      BY <1>2, <2>1, <2>2 DEF Total, before
    <2>7. FirstAwake'
      BY <2>1, <2>2 DEF FirstAwake
    <2>8. HeadAwake'
      BY <2>1, <2>2 DEF HeadAwake
    <2> QED BY <2>4, <2>5, <2>6, <2>7, <2>8 DEF QueueInv
  <1> QED BY <1>1, <1>2

LEMMA QueueNext == TypeOK /\ QueueInv /\ [Next]_vars => QueueInv'
  <1> SUFFICES ASSUME TypeOK, QueueInv, [Next]_vars PROVE QueueInv'
    OBVIOUS
  <1> USE StateLockAssumption DEF TypeOK
  <1>1. ASSUME NEW t \in Task, Queueing(t) PROVE QueueInv'
    <2>1. CASE Enter(t)
      BY <2>1, EnterKeepsQueue
    <2>2. CASE LeaveQueue(t)
      BY <2>2, LeaveKeepsQueue DEF LeaveQueue, Exit
    <2>3. CASE Expire(t) \/ Abort(t)
      BY <2>3 DEF Expire, Abort, QueueInv, Entered, Passed, Within, Ordered, Total,
                  FirstAwake, HeadAwake
    <2>4. CASE Ready(t)
      BY <2>4 DEF Ready, Goto, QueueInv, Entered, Passed, Within, Ordered, Total,
                  FirstAwake, HeadAwake
    <2> QED BY <1>1, <2>1, <2>2, <2>3, <2>4 DEF Queueing
  <1>2. ASSUME NEW t \in Task, Locking(t) PROVE QueueInv'
    <2>1. CASE GiveUp(t) \/ ProbeFails(t) \/ Fail(t) \/ Left(t)
      BY <2>1, LeaveKeepsQueue DEF GiveUp, ProbeFails, Fail, Left, Exit
    <2>2. CASE \/ Create(t) \/ Exists(t) \/ Look(t) \/ RemoveStale(t) \/ Remake(t)
               \/ Probe(t) \/ Backoff(t) \/ Retry(t)
      BY <2>2 DEF Create, Exists, Look, RemoveStale, Remake, Probe, Backoff, Retry, MakeDir,
                  Observe, Goto, QueueInv, Entered, Passed, Within, Ordered, Total,
                  FirstAwake, HeadAwake
    <2>3. CASE Accept(t) \/ Refuse(t) \/ Remove(t)
      BY <2>3 DEF Accept, Refuse, Remove, Goto, QueueInv, Entered, Passed, Within, Ordered,
                  Total, FirstAwake, HeadAwake
    <2>4. CASE Refresh(t) \/ Compromised(t)
      BY <2>4 DEF Refresh, Compromised, QueueInv, Entered, Passed, Within, Ordered,
                  Total, FirstAwake, HeadAwake
    <2> QED BY <1>2, <2>1, <2>2, <2>3, <2>4 DEF Locking, Try
  <1>3. ASSUME NEW t \in Task, Updating(t) PROVE QueueInv'
    BY <1>3 DEF Updating, Read, Stage, Submit, AssertHeld, Rename, Finish, Goto,
                QueueInv, Entered, Passed, Within, Ordered, Total, FirstAwake, HeadAwake
  <1>4. CASE Age
    BY <1>4 DEF Age, QueueInv, Entered, Passed, Within, Ordered, Total, FirstAwake,
                HeadAwake
  <1>5. ASSUME NEW p \in Process, Crash(p) PROVE QueueInv'
    <2> USE <1>5 DEF Crash, QueueInv
    <2>1. Entered' /\ Passed' /\ Within'
      BY DEF Entered, Passed, Within
    <2>2. Ordered'
      BY DEF Ordered
    <2>3. Total'
      BY DEF Total
    <2>4. FirstAwake' /\ HeadAwake'
      BY DEF FirstAwake, HeadAwake
    <2> QED BY <2>1, <2>2, <2>3, <2>4
  <1>6. CASE UNCHANGED vars
    BY <1>6 DEF vars, QueueInv, Entered, Passed, Within, Ordered, Total, FirstAwake,
                HeadAwake
  <1> QED BY <1>1, <1>2, <1>3, <1>4, <1>5, <1>6 DEF Next

(* Of the queued tasks of one process one is past the queue, even when the   *)
(* lease itself is taken over from a stalled holder.                         *)
THEOREM QueueIsExclusive == Spec => []LocalExclusion
  <1>1. TypeOK /\ QueueInv => LocalExclusion
    BY StateLockAssumption
    DEF TypeOK, QueueInv, Entered, Passed, Total, LocalExclusion
  <1> QED BY <1>1, QueueInit, QueueNext, TypeCorrect, PTL DEF Spec

(* No departure, of whatever kind, leaves the new head of a queue asleep.    *)
THEOREM NoLostWakeUp == Spec => []HeadAwake
  <1>1. QueueInv => HeadAwake
    BY DEF QueueInv
  <1> QED BY <1>1, QueueInit, QueueNext, TypeCorrect, PTL DEF Spec
=============================================================================
