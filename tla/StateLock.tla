----------------------------- MODULE StateLock -----------------------------
(***************************************************************************)
(* The lease every private state file is updated under: an in-process     *)
(* FIFO queue (src/core/private-state-file-lock.ts) in front of the lock  *)
(* directory of proper-lockfile, and the atomic replacement of the file   *)
(* (src/core/private-state-file.ts) by the task that holds the lease.     *)
(*                                                                         *)
(* One path is modelled.  A Task is one asynchronous operation of one      *)
(* Process that wants the path: it enters, waits, updates the file and     *)
(* releases, again and again.  Time is abstract: a deadline may pass and   *)
(* a signal may abort at any moment a task is waiting.                     *)
(***************************************************************************)
EXTENDS Naturals

CONSTANTS
    Task,       \* asynchronous operations
    Process,    \* operating system processes
    ProcOf,     \* the process a task runs in
    Queued,     \* tasks that pass a contention policy, and so join the queue
    NoWait,     \* queued tasks whose timeoutMs is 0: their deadline is their start
    MayStall,   \* may a live holder miss its refresh until the lease looks stale?
    NoTask      \* the lock directory does not exist

ASSUME StateLockAssumption ==
    /\ ProcOf \in [Task -> Process]
    /\ Queued \subseteq Task
    /\ NoWait \subseteq Queued
    /\ MayStall \in BOOLEAN
    /\ NoTask \notin Task

VARIABLES
    pc,         \* where each task is
    slot,       \* tasks with an entry in their process's queue
    ahead,      \* the entries in front of a task in its queue (its order)
    woken,      \* tasks whose ready() was called
    expired,    \* the task's deadline has passed
    aborted,    \* the task's signal has aborted
    dir,        \* the task that made the lock directory, or NoTask
    stale,      \* the directory was not refreshed for staleMs
    lost,       \* onCompromised was called for the task's lease
    current,    \* the task's snapshot of the file is what the file holds
    overrun     \* holders that a late take-over got in the way of (history)

vars == <<pc, slot, ahead, woken, expired, aborted, dir, stale, lost, current, overrun>>

(* The places of one lock() call, each before the file operation it awaits:  *)
(* mkdir, stat, rmdir of a stale directory, mkdir again, and the stat and    *)
(* utimes of the own directory; "refused" is its ELOCKED.                    *)
Trying == {"trying", "looking", "removing", "remaking", "probing"}
Leased == {"probing", "got", "held", "read", "staged", "renaming", "releasing"}
Places == {"idle", "queued", "refused", "backoff", "leaving"} \union Trying \union Leased

(* The lease is a task's from the moment lock() makes the directory until    *)
(* its release removes it.                                                   *)
Holding(t) == pc[t] \in Leased

(* Waiting for the lease: in the queue, at lock(), or asleep between tries.  *)
Waiting(t) == pc[t] \in {"queued", "refused", "backoff"} \union Trying

Goto(t, place) == pc' = [pc EXCEPT ![t] = place]

Init ==
    /\ pc = [t \in Task |-> "idle"]
    /\ slot = {}
    /\ ahead = [t \in Task |-> {}]
    /\ woken = {}
    /\ expired = [t \in Task |-> FALSE]
    /\ aborted = [t \in Task |-> FALSE]
    /\ dir = NoTask
    /\ stale = FALSE
    /\ lost = [t \in Task |-> FALSE]
    /\ current = [t \in Task |-> FALSE]
    /\ overrun = {}

-----------------------------------------------------------------------------
(* The queue of one process.                                               *)

(* Mutants of Leave: a dead entry stays woken; only a release wakes the next; *)
(* the entry behind is woken wherever the leaving one stood.                  *)
LeaveKeepsWoken(t) ==
    /\ slot' = slot \ {t}
    /\ ahead' = [u \in Task |-> IF u = t THEN {} ELSE ahead[u] \ {t}]
    /\ woken' = woken \union
                  {u \in slot : t \in slot /\ ahead[t] = {} /\ ahead[u] = {t}}

LeaveSilently(t) ==
    /\ slot' = slot \ {t}
    /\ ahead' = [u \in Task |-> IF u = t THEN {} ELSE ahead[u] \ {t}]
    /\ woken' = (woken \ {t}) \union
                  {u \in slot : pc[t] = "leaving" /\ ahead[t] = {} /\ ahead[u] = {t}}

LeaveWakesFollower(t) ==
    /\ slot' = slot \ {t}
    /\ ahead' = [u \in Task |-> IF u = t THEN {} ELSE ahead[u] \ {t}]
    /\ woken' = (woken \ {t}) \union
                  {u \in slot : t \in slot /\ ahead[u] = ahead[t] \union {t}}

(* leave(): take the entry out; only the head's departure wakes a successor. *)
Leave(t) ==
    /\ slot' = slot \ {t}
    /\ ahead' = [u \in Task |-> IF u = t THEN {} ELSE ahead[u] \ {t}]
    /\ woken' = (woken \ {t}) \union
                  {u \in slot : t \in slot /\ ahead[t] = {} /\ ahead[u] = {t}}

(* The deadline and the signal matter only until the lease is accepted.      *)
Settle(t) ==
    /\ expired' = [expired EXCEPT ![t] = FALSE]
    /\ aborted' = [aborted EXCEPT ![t] = FALSE]

Depart(t) ==
    /\ Goto(t, "idle")
    /\ Leave(t)
    /\ Settle(t)
    /\ lost' = [lost EXCEPT ![t] = FALSE]
    /\ current' = [current EXCEPT ![t] = FALSE]

Exit(t) ==
    /\ Depart(t)
    /\ overrun' = overrun \ {t}
    /\ UNCHANGED <<dir, stale>>

(* acquire: with a policy the task takes a place at the end of the queue and *)
(* goes straight on when it is alone there.                                  *)
Enter(t) ==
    LET before == {u \in slot : ProcOf[u] = ProcOf[t]} IN
    /\ pc[t] = "idle"
    /\ expired' = [expired EXCEPT ![t] = t \in NoWait]
    /\ IF t \in Queued
         THEN /\ slot' = slot \union {t}
              /\ ahead' = [ahead EXCEPT ![t] = before]
              /\ Goto(t, IF before = {} THEN "trying" ELSE "queued")
         ELSE /\ UNCHANGED <<slot, ahead>>
              /\ Goto(t, "trying")
    /\ UNCHANGED <<woken, aborted, dir, stale, lost, current, overrun>>

(* The timer of the wait, or the caller's signal.                          *)
Expire(t) ==
    /\ t \in Queued
    /\ Waiting(t) \/ pc[t] = "got"
    /\ ~expired[t]
    /\ expired' = [expired EXCEPT ![t] = TRUE]
    /\ UNCHANGED <<pc, slot, ahead, woken, aborted, dir, stale, lost, current, overrun>>

Abort(t) ==
    /\ t \in Queued
    /\ Waiting(t) \/ pc[t] = "got"
    /\ ~aborted[t]
    /\ aborted' = [aborted EXCEPT ![t] = TRUE]
    /\ UNCHANGED <<pc, slot, ahead, woken, expired, dir, stale, lost, current, overrun>>

LeaveQueueOnAbort(t) ==  \* mutant: no timer while queued
    /\ pc[t] = "queued"
    /\ aborted[t]
    /\ Exit(t)

(* The race of ready, timer and signal in the queue: whichever settles it,  *)
(* the signal and the deadline are looked at again before going on.         *)
LeaveQueue(t) ==
    /\ pc[t] = "queued"
    /\ expired[t] \/ aborted[t]
    /\ Exit(t)

Ready(t) ==
    /\ pc[t] = "queued"
    /\ t \in woken
    /\ ~expired[t]
    /\ ~aborted[t]
    /\ Goto(t, "trying")
    /\ UNCHANGED <<slot, ahead, woken, expired, aborted, dir, stale, lost, current, overrun>>

-----------------------------------------------------------------------------
(* The lock directory.  lock() of proper-lockfile awaits one file operation   *)
(* after the other, and others may act between any two of them.               *)

(* Whose directory t takes away or claims while it is that task's lease.     *)
Victim(t) == {u \in Task : u # t /\ u = dir /\ Holding(u)}

MakeDir(t) ==
    /\ dir' = t
    /\ stale' = FALSE
    /\ Goto(t, "probing")
    /\ UNCHANGED <<slot, ahead, woken, expired, aborted, lost, current, overrun>>

RemoveDir == dir' = NoTask /\ stale' = FALSE

(* A step of lock() that leaves the directory alone.                         *)
Observe(t, place) ==
    /\ Goto(t, place)
    /\ UNCHANGED <<slot, ahead, woken, expired, aborted, dir, stale, lost, current, overrun>>

CreateOverHolder(t) ==  \* mutant: a directory that exists is taken for the own
    /\ pc[t] = "trying"
    /\ MakeDir(t)

(* mkdir makes the directory, or fails with EEXIST.                          *)
Create(t) ==
    /\ pc[t] = "trying"
    /\ dir = NoTask
    /\ MakeDir(t)

Exists(t) ==
    /\ pc[t] = "trying"
    /\ dir # NoTask
    /\ Observe(t, "looking")

(* Then stat: it is gone, it is stale, or it is locked.                      *)
Look(t) ==
    /\ pc[t] = "looking"
    /\ Observe(t, IF dir = NoTask THEN "remaking" ELSE IF stale THEN "removing" ELSE "refused")

(* rmdir of what was stale when looked at; by now it may be another's, made  *)
(* after a faster task took the stale one away.                              *)
RemoveStale(t) ==
    /\ pc[t] = "removing"
    /\ RemoveDir
    /\ overrun' = overrun \union (IF stale THEN {} ELSE Victim(t))
    /\ Goto(t, "remaking")
    /\ UNCHANGED <<slot, ahead, woken, expired, aborted, lost, current>>

(* The second mkdir does not look at the age of what it finds.               *)
Remake(t) ==
    /\ pc[t] = "remaking"
    /\ IF dir = NoTask THEN MakeDir(t) ELSE Observe(t, "refused")

(* The new directory is touched to see how precise its times are; if that    *)
(* fails it is removed.  Neither asks whose it is.                           *)
Probe(t) ==
    /\ pc[t] = "probing"
    /\ dir # NoTask
    /\ dir' = t
    /\ stale' = FALSE
    /\ overrun' = overrun \union (IF t \in overrun THEN Victim(t) ELSE {})
    /\ Goto(t, "got")
    /\ UNCHANGED <<slot, ahead, woken, expired, aborted, lost, current>>

ProbeFails(t) ==
    /\ pc[t] = "probing"
    /\ RemoveDir
    /\ Depart(t)
    /\ overrun' = (overrun \ {t}) \union (IF t \in overrun THEN Victim(t) ELSE {})

(* ELOCKED: sleep for the next try while the deadline allows one.  A task    *)
(* without a policy is retried inside lock() itself, a few times.            *)
Backoff(t) ==
    /\ pc[t] = "refused"
    /\ ~expired[t]
    /\ Observe(t, "backoff")

(* The sleep ends at the latest at the deadline, and one more try follows.   *)
Retry(t) ==
    /\ pc[t] = "backoff"
    /\ ~aborted[t]
    /\ Observe(t, "trying")

(* ELOCKED at the deadline or after the last retry, or the abort noticed     *)
(* before a try: the entry leaves the queue and the caller gets the error.   *)
GiveUp(t) ==
    /\ \/ pc[t] = "refused" /\ (t \in Queued => expired[t])
       \/ pc[t] = "backoff" /\ aborted[t]
    /\ Exit(t)

(* Any other error of lock().                                                *)
Fail(t) ==
    /\ pc[t] \in {"trying", "looking", "removing", "remaking"}
    /\ Exit(t)

(* lock() returned.  A late or aborted acquisition is given back; timeoutMs  *)
(* = 0 asks for one attempt, however long it takes.  The deadline itself is  *)
(* still in time, so an expired task may go either way.                      *)
Accept(t) ==
    /\ pc[t] = "got"
    /\ ~aborted[t]
    /\ Goto(t, "held")
    /\ Settle(t)
    /\ UNCHANGED <<slot, ahead, woken, dir, stale, lost, current, overrun>>

Refuse(t) ==
    /\ pc[t] = "got"
    /\ aborted[t] \/ (expired[t] /\ t \notin NoWait)
    /\ Goto(t, "releasing")
    /\ Settle(t)
    /\ UNCHANGED <<slot, ahead, woken, dir, stale, lost, current, overrun>>

(* release(): the directory is removed, whoever made it, unless the task     *)
(* knows that its lease was lost; then the queue moves on.                   *)
Remove(t) ==
    /\ pc[t] = "releasing"
    /\ IF lost[t]
         THEN UNCHANGED <<dir, stale, overrun>>
         ELSE /\ RemoveDir
              /\ overrun' = overrun \union (IF t \in overrun THEN Victim(t) ELSE {})
    /\ Goto(t, "leaving")
    /\ UNCHANGED <<slot, ahead, woken, expired, aborted, lost, current>>

Left(t) ==
    /\ pc[t] = "leaving"
    /\ Exit(t)

(* A directory nobody refreshes grows stale: its maker died, or, when        *)
(* MayStall, was held up for staleMs.                                        *)
Age ==
    /\ dir # NoTask
    /\ ~stale
    /\ MayStall \/ ~Holding(dir)
    /\ stale' = TRUE
    /\ UNCHANGED <<pc, slot, ahead, woken, expired, aborted, dir, lost, current, overrun>>

(* The refresh timer of a lease: it touches its own directory, and reports   *)
(* one that is gone or somebody else's.                                      *)
Refresh(t) ==
    /\ Holding(t)
    /\ dir = t
    /\ stale
    /\ stale' = FALSE
    /\ UNCHANGED <<pc, slot, ahead, woken, expired, aborted, dir, lost, current, overrun>>

Compromised(t) ==
    /\ Holding(t)
    /\ dir # t
    /\ ~lost[t]
    /\ lost' = [lost EXCEPT ![t] = TRUE]
    /\ UNCHANGED <<pc, slot, ahead, woken, expired, aborted, dir, stale, current, overrun>>

-----------------------------------------------------------------------------
(* The holder's work: read, write a temporary file, replace the file.      *)

ReadCached(t) ==  \* mutant: works on what it read under an earlier lease
    /\ pc[t] = "held"
    /\ ~lost[t]
    /\ Goto(t, "read")
    /\ UNCHANGED <<slot, ahead, woken, expired, aborted, dir, stale, lost, current, overrun>>

Read(t) ==
    /\ pc[t] = "held"
    /\ ~lost[t]
    /\ Goto(t, "read")
    /\ current' = [current EXCEPT ![t] = TRUE]
    /\ UNCHANGED <<slot, ahead, woken, expired, aborted, dir, stale, lost, overrun>>

(* write() asserts the lease before it stages the temporary file, and again  *)
(* before it renames it.                                                     *)
AssertHeld(t, from, to) ==
    /\ pc[t] = from
    /\ ~lost[t]
    /\ Goto(t, to)
    /\ UNCHANGED <<slot, ahead, woken, expired, aborted, dir, stale, lost, current, overrun>>

Stage(t) == AssertHeld(t, "read", "staged")
Submit(t) == AssertHeld(t, "staged", "renaming")

(* rename lands: every other snapshot of the file is now out of date.        *)
Rename(t) ==
    /\ pc[t] = "renaming"
    /\ Goto(t, "held")
    /\ current' = [u \in Task |-> FALSE]
    /\ overrun' = overrun \union (IF t \in overrun THEN {u \in Task : current[u]} ELSE {})
    /\ UNCHANGED <<slot, ahead, woken, expired, aborted, dir, stale, lost>>

(* The work ends, succeeds or throws, and its lease is released.             *)
Finish(t) ==
    /\ pc[t] \in {"held", "read", "staged"}
    /\ Goto(t, "releasing")
    /\ current' = [current EXCEPT ![t] = FALSE]
    /\ UNCHANGED <<slot, ahead, woken, expired, aborted, dir, stale, lost, overrun>>

(* A process dies: its queue goes with it, its directory stays.              *)
Crash(p) ==
    LET Dead(t) == ProcOf[t] = p
        Clear(flag) == [t \in Task |-> ~Dead(t) /\ flag[t]]
    IN
    /\ \E t \in Task : Dead(t) /\ pc[t] # "idle"
    /\ pc' = [t \in Task |-> IF Dead(t) THEN "idle" ELSE pc[t]]
    /\ slot' = {t \in slot : ~Dead(t)}
    /\ ahead' = [t \in Task |-> IF Dead(t) THEN {} ELSE ahead[t]]
    /\ woken' = {t \in woken : ~Dead(t)}
    /\ expired' = Clear(expired)
    /\ aborted' = Clear(aborted)
    /\ lost' = Clear(lost)
    /\ current' = Clear(current)
    /\ overrun' = {t \in overrun : ~Dead(t)}
    /\ UNCHANGED <<dir, stale>>

-----------------------------------------------------------------------------
Queueing(t) == Enter(t) \/ Expire(t) \/ Abort(t) \/ LeaveQueue(t) \/ Ready(t)
Try(t) ==
    \/ Create(t) \/ Exists(t) \/ Look(t) \/ RemoveStale(t) \/ Remake(t)
    \/ Probe(t) \/ Backoff(t) \/ Retry(t) \/ GiveUp(t)
Locking(t) ==
    \/ Try(t) \/ ProbeFails(t) \/ Fail(t) \/ Accept(t) \/ Refuse(t)
    \/ Remove(t) \/ Left(t) \/ Refresh(t) \/ Compromised(t)
Updating(t) == Read(t) \/ Stage(t) \/ Submit(t) \/ Rename(t) \/ Finish(t)

Next ==
    \/ \E t \in Task : Queueing(t) \/ Locking(t) \/ Updating(t)
    \/ Age
    \/ \E p \in Process : Crash(p)

(* Timers fire and settled promises continue.  How long a holder works, and  *)
(* whether anyone aborts, is nobody's promise.                               *)
Fairness ==
    \A t \in Task :
        /\ WF_vars(Expire(t))
        /\ WF_vars(LeaveQueue(t) \/ Ready(t))
        /\ WF_vars(Try(t) \/ ProbeFails(t))

Spec == Init /\ [][Next]_vars /\ Fairness

-----------------------------------------------------------------------------
(* Types.                                                                   *)
TypeOK ==
    /\ pc \in [Task -> Places]
    /\ slot \subseteq Queued
    /\ ahead \in [Task -> SUBSET Task]
    /\ woken \subseteq slot
    /\ expired \in [Task -> BOOLEAN]
    /\ aborted \in [Task -> BOOLEAN]
    /\ dir \in Task \union {NoTask}
    /\ stale \in BOOLEAN
    /\ lost \in [Task -> BOOLEAN]
    /\ current \in [Task -> BOOLEAN]
    /\ overrun \subseteq Task

(* While no live holder is held up past staleMs, two tasks hold the lease at  *)
(* once for one reason only, across crashes, take-overs, late leases and      *)
(* releases: a task that had found a dead holder's directory stale removed    *)
(* the fresh one that a faster task had put in its place, or what follows     *)
(* from that until those it hit are through.                                  *)
MutualExclusion ==
    ~MayStall => \A s, t \in Task \ overrun : Holding(s) /\ Holding(t) => s = t

(* ... and, but for them, what a holder read is still in the file when its    *)
(* own rename replaces it: no update is lost between the read and the rename. *)
NoLostUpdate ==
    ~MayStall =>
        \A t \in Task \ overrun : pc[t] \in {"read", "staged", "renaming"} => current[t]

(* The queue keeps its promise even when leases are taken over from stalled  *)
(* holders: of the tasks of one process that queue, one is past the queue.   *)
LocalExclusion ==
    \A s, t \in Queued :
        /\ ProcOf[s] = ProcOf[t]
        /\ pc[s] \notin {"idle", "queued"}
        /\ pc[t] \notin {"idle", "queued"}
        => s = t

(* No lost wake-up: whoever waits at the head of a queue has been called,    *)
(* however those in front left (served, timed out, aborted or failed).       *)
HeadAwake ==
    \A t \in Task : pc[t] = "queued" /\ ahead[t] = {} => t \in woken

(* Nobody waits for ever on a holder that never finishes: every wait of a    *)
(* queued task ends with the lease or with an error.                         *)
WaitsEnd == \A t \in Queued : Waiting(t) ~> ~Waiting(t)
=============================================================================
