---------------------------- MODULE IssueSession ----------------------------
(***************************************************************************)
(* How one issue gets its native session and its first turns on OpenClaw   *)
(* (src/agent/openclaw-session-create.ts, openclaw-session-turn.ts,         *)
(* openclaw-send-turn.ts, openclaw-turn.ts and their entry in               *)
(* openclaw-dispatch-admission.ts).                                         *)
(*                                                                         *)
(* A transaction of the dispatch journal works on a snapshot of the record  *)
(* and saves before and after every native call.  The native calls cross a  *)
(* gateway: they may be lost, arrive after their sender is gone, or be      *)
(* carried out without the answer coming back.  Whoever finds an attempt    *)
(* that is noted but not answered only reads back what became of it.        *)
(*                                                                         *)
(* Left out: phase, blocker and retry, which decide what the coordinator is *)
(* offered and what occupies a slot but guard none of these steps; calls of *)
(* runs other than the turn's own; claims (AssignmentClaim); resets and      *)
(* retirement (DispatchJournal).                                            *)
(***************************************************************************)
EXTENDS Naturals

CONSTANT Txn    \* transactions, one after the other by each of these callers

VARIABLES
    file,       \* the record of the issue in the journal
    pc,         \* where each transaction is
    seen,       \* the record as it last read or saved it
    slot,       \* the turn it advances
    view,       \* what it read in the native session
    outcome,    \* what agent.wait told it of its turn
    session,    \* the native session
    input,      \* the native inputs
    log,        \* inputs in its transcript
    expected,   \* the transcript an input insists on
    creates,    \* submissions of sessions.create (history)
    sends       \* submissions of each turn (history)

vars == <<file, pc, seen, slot, view, outcome, session, input, log, expected, creates, sends>>
local == <<slot, view, outcome>>
native == <<session, input, log, expected>>
history == <<creates, sends>>

(* firstTurn and assessmentTurn.                                             *)
Slot == {"first", "assess"}

Statuses == {"none", "attempted", "accepted", "consumed", "completed"}
Rank == [none |-> 0, attempted |-> 1, accepted |-> 2, consumed |-> 3, completed |-> 4]

(* event stands for consumedByEventId.                                       *)
Turn == [status : Statuses, event : BOOLEAN, cancelled : BOOLEAN, inactive : BOOLEAN,
         failed : BOOLEAN]
NoTurn == [status |-> "none", event |-> FALSE, cancelled |-> FALSE, inactive |-> FALSE,
           failed |-> FALSE]
Attempted == [NoTurn EXCEPT !.status = "attempted"]

(* creation is request and sessionCreation.attempted; sid that the session's  *)
(* id is known; verified stands for threadId too; selected for assessment,    *)
(* asked for assessmentCaller.                                                *)
Record == [creation : {"none", "intended", "attempted"}, sid : BOOLEAN, effective : BOOLEAN,
           verified : BOOLEAN, selected : BOOLEAN, asked : BOOLEAN, result : BOOLEAN,
           first : Turn, assess : Turn]
Routed == [creation |-> "none", sid |-> FALSE, effective |-> FALSE, verified |-> FALSE,
           selected |-> FALSE, asked |-> FALSE, result |-> FALSE, first |-> NoTurn,
           assess |-> NoTurn]

(* Whose inputs the transcript may hold.                                      *)
Author == Slot \union {"person"}
Inputs == {"none", "sent", "pending", "running", "replied", "failed", "stopping", "stopped"}
Unread == [state |-> "none", busy |-> FALSE, log |-> {}]

Init ==
    /\ file = Routed
    /\ pc = [t \in Txn |-> "idle"]
    /\ seen = [t \in Txn |-> Routed]
    /\ slot = [t \in Txn |-> "first"]
    /\ view = [t \in Txn |-> Unread]
    /\ outcome = [t \in Txn |-> "none"]
    /\ session = "none"
    /\ input = [s \in Slot |-> "none"]
    /\ log = {}
    /\ expected = [s \in Slot |-> {}]
    /\ creates = 0
    /\ sends = [s \in Slot |-> 0]

-----------------------------------------------------------------------------
(* mergeStateSnapshot on the record: b is what the transaction saw, p what it *)
(* proposes, c what the file holds.  Setting what was unset is a reservation; *)
(* two transactions never both succeed in it.                                 *)
ConflictingFlag(b, p, c) == p # b /\ c # b /\ ~b
MergeFlagLast(b, p, c) == p  \* mutant: what was not edited is written as it was read
MergeFlag(b, p, c) == IF p = b THEN c ELSE p

(* preserveOpenClawProgress: of two advances of a turn the further one stays. *)
Overtaken(b, p, c) == Rank[p] > Rank[b] /\ Rank[c] > Rank[p]
ConflictingStatus(b, p, c) ==
    /\ p # b /\ c # b
    /\ ~Overtaken(b, p, c)
    /\ p # c \/ p = "completed"
MergeStatus(b, p, c) == IF p = b \/ Overtaken(b, p, c) THEN c ELSE p

ConflictingTurnEdit(b, p, c) ==  \* mutant: two equal attempts of a turn are one
    /\ p # b /\ c # b
    /\ b # NoTurn
    /\ ConflictingStatus(b.status, p.status, c.status)

ConflictingTurn(b, p, c) ==
    /\ p # b /\ c # b
    /\ \/ b = NoTurn
       \/ ConflictingStatus(b.status, p.status, c.status)
       \/ \E f \in {"event", "cancelled", "inactive", "failed"} :
            ConflictingFlag(b[f], p[f], c[f])
MergeTurn(b, p, c) ==
    IF p = b THEN c
    ELSE IF c = b THEN p
    ELSE [f \in DOMAIN NoTurn |->
            IF f = "status" THEN MergeStatus(b[f], p[f], c[f]) ELSE MergeFlag(b[f], p[f], c[f])]

Flags == {"sid", "effective", "verified", "selected", "asked", "result"}

(* request, threadId, effective and assessment must be as they were.          *)
SameProtected(b, c) ==
    /\ (b.creation = "none") = (c.creation = "none")
    /\ b.verified = c.verified /\ b.effective = c.effective
    /\ b.selected = c.selected

ConflictingEdit(b, p, c) ==  \* mutant: two equal attempts of a creation are one
    /\ p # b
    /\ \/ ~SameProtected(b, c)
       \/ \E f \in Flags : ConflictingFlag(b[f], p[f], c[f])
       \/ \E s \in Slot : ConflictingTurn(b[s], p[s], c[s])

Conflicting(b, p, c) ==
    /\ p # b
    /\ \/ ~SameProtected(b, c)
       \/ p.creation # b.creation /\ c.creation # b.creation
       \/ \E f \in Flags : ConflictingFlag(b[f], p[f], c[f])
       \/ \E s \in Slot : ConflictingTurn(b[s], p[s], c[s])
Merge(b, p, c) ==
    [f \in DOMAIN Routed |->
        IF f \in Slot THEN MergeTurn(b[f], p[f], c[f]) ELSE MergeFlag(b[f], p[f], c[f])]

(* validRecord: what every save demands of what it writes.                    *)
ValidTurn(turn) ==
    /\ turn.event = (turn.status \in {"consumed", "completed"})
    /\ turn.failed => turn.status = "completed"

ValidBeside(r) ==  \* mutant: an assessment beside an investigation
    /\ r.sid => r.creation = "attempted"
    /\ r.verified => r.sid
    /\ r.verified = r.effective
    /\ \A s \in Slot : r[s] # NoTurn => r.verified /\ ValidTurn(r[s])
    /\ r.assess # NoTurn => r.selected
    /\ r.asked \/ r.result => r.assess # NoTurn /\ r.asked

Valid(r) ==
    /\ r.sid => r.creation = "attempted"
    /\ r.verified => r.sid
    /\ r.verified = r.effective
    /\ \A s \in Slot : r[s] # NoTurn => r.verified /\ ValidTurn(r[s])
    /\ r.assess # NoTurn => r.selected /\ (r.first = NoTurn \/ r.first.status = "completed")
    /\ r.asked \/ r.result => r.assess # NoTurn /\ r.asked

-----------------------------------------------------------------------------
Goto(t, place) == pc' = [pc EXCEPT ![t] = place]

(* save: commits the proposal and refreshes the snapshot.  A transaction      *)
(* whose save would conflict or be invalid can only End.                      *)
Merged(t, proposal) == Merge(seen[t], proposal, file)

Commit(t, proposal) ==
    /\ ~Conflicting(seen[t], proposal, file)
    /\ Valid(Merged(t, proposal))
    /\ file' = Merged(t, proposal)

Save(t, proposal) ==
    /\ Commit(t, proposal)
    /\ seen' = [seen EXCEPT ![t] = Merged(t, proposal)]

(* The last save of a transaction.                                            *)
Finish(t, proposal) ==
    /\ Commit(t, proposal)
    /\ seen' = [seen EXCEPT ![t] = Routed]
    /\ Goto(t, "idle")
    /\ slot' = [slot EXCEPT ![t] = "first"]
    /\ view' = [view EXCEPT ![t] = Unread]
    /\ outcome' = [outcome EXCEPT ![t] = "none"]

(* Any transaction may end anywhere: refused by a check of its authority,     *)
(* conflicting, failing, cancelled or crashed.                                *)
End(t) ==
    /\ pc[t] # "idle"
    /\ Goto(t, "idle")
    /\ seen' = [seen EXCEPT ![t] = Routed]
    /\ slot' = [slot EXCEPT ![t] = "first"]
    /\ view' = [view EXCEPT ![t] = Unread]
    /\ outcome' = [outcome EXCEPT ![t] = "none"]
    /\ UNCHANGED <<file, native, history>>

Begin(t, place, s) ==
    /\ pc[t] = "idle"
    /\ Goto(t, place)
    /\ seen' = [seen EXCEPT ![t] = file]
    /\ slot' = [slot EXCEPT ![t] = s]
    /\ UNCHANGED <<file, view, outcome, native, history>>

(* The turn of the transaction in its snapshot, and the record with another.  *)
Current(t) == seen[t][slot[t]]
WithTurn(t, turn) == [seen[t] EXCEPT ![slot[t]] = turn]

-----------------------------------------------------------------------------
(* Entries.  prepare; reconcile, start and assess, which continue with what    *)
(* the record already has; and next, which looks after an intent whose         *)
(* assignment was superseded.                                                  *)
Prepare(t) ==
    /\ file.creation = "none"
    /\ Begin(t, "preparing", "first")

Fresh == file.first = NoTurn /\ file.assess = NoTurn
Latest == IF file.assess = NoTurn THEN "first" ELSE "assess"

Reconcile(t) ==
    /\ file.creation # "none"
    /\ Begin(t, IF Fresh THEN "creating" ELSE "turn", Latest)

Start(t) ==
    /\ file.creation # "none"
    /\ Begin(t, "turn", Latest)

Assess(t) ==
    /\ file.creation # "none"
    /\ Begin(t, IF file.assess = NoTurn THEN "selecting" ELSE "turn", "assess")

(* What a predecessor had been assigned is created first by every call; the   *)
(* turn that follows does as if it had begun afterwards.                      *)
Inherit(t) ==
    /\ file.creation # "none"
    /\ Begin(t, "creating", Latest)

Superseded(t) ==
    /\ file.creation = "attempted"
    /\ Fresh
    /\ Begin(t, "observing", "first")

-----------------------------------------------------------------------------
(* createIssueSession.                                                        *)
Busy == \E s \in Slot : input[s] \in {"running", "stopping"}
Pending == {s \in Slot : input[s] = "pending"}

Intend(t) ==
    /\ pc[t] = "preparing"
    /\ Save(t, [seen[t] EXCEPT !.creation = "intended"])
    /\ Goto(t, "creating")
    /\ UNCHANGED <<local, native, history>>

AttemptCreate(t) ==
    /\ pc[t] = "creating"
    /\ seen[t].creation = "intended"
    /\ Save(t, [seen[t] EXCEPT !.creation = "attempted"])
    /\ Goto(t, "submitting")
    /\ UNCHANGED <<local, native, history>>

SubmitCreate(t) ==
    /\ pc[t] = "submitting"
    /\ creates' = creates + 1
    /\ session' = IF session = "none" THEN "requested" ELSE session
    /\ Goto(t, "submitted")
    /\ UNCHANGED <<file, seen, local, input, log, expected, sends>>

(* The answer arrives.                                                        *)
Created(t) ==
    /\ pc[t] = "submitted"
    /\ session = "open"
    /\ Save(t, [seen[t] EXCEPT !.sid = TRUE])
    /\ Goto(t, "reading back")
    /\ UNCHANGED <<local, native, history>>

(* An earlier attempt is never repeated.                                      *)
Attempts(t) ==
    /\ pc[t] = "creating"
    /\ seen[t].creation = "attempted"
    /\ Goto(t, "reading back")
    /\ UNCHANGED <<file, seen, local, native, history>>

(* verifyEmptyIssueSession: the session is there and nothing happened in it.  *)
Empty == session = "open" /\ log = {} /\ ~Busy

ReadBack(t) ==
    /\ pc[t] \in {"reading back", "observing"}
    /\ Empty
    /\ pc[t] = "observing" => Pending = {}
    /\ Goto(t, "read back")
    /\ UNCHANGED <<file, seen, local, native, history>>

Verify(t) ==
    /\ pc[t] = "read back"
    /\ Finish(t, [seen[t] EXCEPT !.sid = TRUE, !.effective = TRUE, !.verified = TRUE])
    /\ UNCHANGED <<native, history>>

(* next finds the session of a superseded intent in use, and notes that.  Its  *)
(* settings are in the record already, from the description.                  *)
Disturbed(t) ==
    /\ pc[t] = "observing"
    /\ session = "open"
    /\ ~Empty \/ Pending # {}
    /\ Goto(t, "disturbed")
    /\ UNCHANGED <<file, seen, local, native, history>>

Noted(t) == [seen[t] EXCEPT !.effective = TRUE]

Note(t) ==
    /\ pc[t] = "disturbed"
    /\ Finish(t, Noted(t))
    /\ UNCHANGED <<native, history>>

-----------------------------------------------------------------------------
(* selectOpenClawAssessment, before the first attempt of an assessment.       *)
Select(t) ==
    /\ pc[t] = "selecting"
    /\ Save(t, [seen[t] EXCEPT !.selected = TRUE])
    /\ Goto(t, "turn")
    /\ UNCHANGED <<local, native, history>>

(* advanceIssueTurn.  A turn the record has is only reconciled.               *)
Retained(t) ==
    /\ pc[t] = "turn"
    /\ seen[t].verified
    /\ Current(t) # NoTurn
    /\ Goto(t, "reconciling")
    /\ UNCHANGED <<file, seen, local, native, history>>

(* A new one needs an idle session: empty, or with a completed investigation  *)
(* and its answer as the last entry.                                          *)
Investigated(t) ==
    /\ seen[t].first.status = "completed"
    /\ ~seen[t].first.failed
    /\ log = {"first"}

Idle(t) ==
    /\ pc[t] = "turn"
    /\ seen[t].verified
    /\ Current(t) = NoTurn
    /\ session = "open" /\ ~Busy /\ Pending = {}
    /\ IF slot[t] = "assess" /\ seen[t].first # NoTurn THEN Investigated(t) ELSE log = {}
    /\ view' = [view EXCEPT ![t] = [Unread EXCEPT !.log = log]]
    /\ Goto(t, "idle session")
    /\ UNCHANGED <<file, seen, slot, outcome, native, history>>

(* sendOpenClawTurn.                                                          *)
AttemptTurn(t) ==
    /\ pc[t] = "idle session"
    /\ Save(t, WithTurn(t, Attempted))
    /\ Goto(t, "sending")
    /\ UNCHANGED <<local, native, history>>

Send(t) ==
    LET s == slot[t] IN
    /\ pc[t] = "sending"
    /\ sends' = [sends EXCEPT ![s] = sends[s] + 1]
    /\ input' = [input EXCEPT ![s] = IF input[s] = "none" THEN "sent" ELSE input[s]]
    /\ expected' = [expected EXCEPT ![s] = view[t].log]
    /\ Goto(t, "sent")
    /\ UNCHANGED <<file, seen, local, session, log, creates>>

Accepted(t) ==
    /\ pc[t] = "sent"
    /\ input[slot[t]] \notin {"none", "sent"}
    /\ Save(t, WithTurn(t, [Current(t) EXCEPT !.status = "accepted"]))
    /\ Goto(t, "reconciling")
    /\ UNCHANGED <<local, native, history>>

-----------------------------------------------------------------------------
(* reconcileOpenClawTurn: chat.history, a save, agent.wait, a save.           *)
Observe(t) ==
    /\ pc[t] = "reconciling"
    /\ Current(t).status # "completed"
    /\ view' = [view EXCEPT ![t] = [state |-> input[slot[t]], busy |-> Busy, log |-> {}]]
    /\ Goto(t, "observed")
    /\ UNCHANGED <<file, seen, slot, outcome, native, history>>

Cancelled(t) == view[t].state \in {"stopping", "stopped"} \/ Current(t).cancelled
QuietQueue(t) == view[t].state # "pending"  \* mutant: a run that is still active is forgotten

Quiet(t) == ~view[t].busy /\ view[t].state # "pending"
Abandon(t) ==
    Finish(t, WithTurn(t, [Current(t) EXCEPT !.cancelled = TRUE, !.inactive = Quiet(t)]))

RecordCancelled(t) ==
    /\ pc[t] = "observed"
    /\ Cancelled(t)
    /\ Abandon(t)
    /\ UNCHANGED <<native, history>>

RecordReceipt(t, turn) ==
    /\ pc[t] = "observed"
    /\ ~Cancelled(t)
    /\ Save(t, WithTurn(t, [turn EXCEPT !.inactive = FALSE]))
    /\ Goto(t, "recorded")
    /\ UNCHANGED <<local, native, history>>

(* The receipt, or the input's own entry in the transcript.                   *)
RecordConsumed(t) ==
    /\ view[t].state \in {"running", "replied", "failed"} \/ Current(t).event
    /\ view[t].state # "pending"
    /\ RecordReceipt(t, [Current(t) EXCEPT !.status = "consumed", !.event = TRUE])

RecordPendingAsRead(t) ==  \* mutant: the receipt's state is taken for the turn's
    /\ view[t].state = "pending"
    /\ ~Current(t).event
    /\ RecordReceipt(t, [Current(t) EXCEPT !.status = view[t].state])

RecordPending(t) ==
    /\ view[t].state = "pending"
    /\ ~Current(t).event
    /\ RecordReceipt(t, [Current(t) EXCEPT !.status = "accepted"])

Wait(t) ==
    /\ pc[t] = "recorded"
    /\ outcome' = [outcome EXCEPT ![t] = input[slot[t]]]
    /\ Goto(t, "waited")
    /\ UNCHANGED <<file, seen, slot, view, native, history>>

Aborted(t) ==
    /\ pc[t] = "waited"
    /\ outcome[t] \in {"stopping", "stopped"}
    /\ Abandon(t)
    /\ UNCHANGED <<native, history>>

Failed(t) ==
    /\ pc[t] = "waited"
    /\ outcome[t] = "failed"
    /\ Quiet(t) /\ Current(t).event
    /\ Finish(t, WithTurn(t, [Current(t) EXCEPT !.status = "completed", !.failed = TRUE]))
    /\ UNCHANGED <<native, history>>

(* The answer is in the history that was read.  An assessment is complete     *)
(* only with its result.                                                      *)
Completed(t) ==
    /\ pc[t] = "waited"
    /\ outcome[t] = "replied"
    /\ Quiet(t) /\ view[t].state = "replied"
    /\ Current(t).status = "consumed"
    /\ slot[t] = "assess" => seen[t].result
    /\ Finish(t, WithTurn(t, [Current(t) EXCEPT !.status = "completed"]))
    /\ UNCHANGED <<native, history>>

-----------------------------------------------------------------------------
(* issueAssessmentAction, called from within the assessment's own run.        *)
Called == input["assess"] = "running" /\ file.assess # NoTurn /\ file.verified /\ file.selected

Context(t) == Called /\ Begin(t, "context", "assess")
Result(t) == Called /\ file.asked /\ Begin(t, "result", "assess")

SaveContext(t) ==
    /\ pc[t] = "context"
    /\ Finish(t, [seen[t] EXCEPT !.asked = TRUE, !.assess.event = TRUE,
                   !.assess.status = IF @ = "completed" THEN @ ELSE "consumed"])
    /\ UNCHANGED <<native, history>>

SaveResult(t) ==
    /\ pc[t] = "result"
    /\ Finish(t, [seen[t] EXCEPT !.result = TRUE])
    /\ UNCHANGED <<native, history>>

-----------------------------------------------------------------------------
(* The gateway (external).  An input is accepted when the transcript is as its *)
(* sender knew it, runs when no other does, and may be stopped.  People may    *)
(* write in the session as well.                                              *)
Open ==
    /\ session = "requested"
    /\ session' = "open"
    /\ UNCHANGED <<file, pc, seen, local, input, log, expected, history>>

Visit ==
    /\ session = "open" /\ "person" \notin log
    /\ log' = log \union {"person"}
    /\ UNCHANGED <<file, pc, seen, local, session, input, expected, history>>

Become(s, state) == input' = [input EXCEPT ![s] = state]

Arrive(s) ==
    /\ input[s] = "sent" /\ log = expected[s]
    /\ Become(s, "pending") /\ log' = log

Run(s) ==
    /\ input[s] = "pending" /\ ~Busy
    /\ Become(s, "running") /\ log' = log \union {s}

Stop(s) ==
    \/ input[s] = "pending" /\ Become(s, "stopped") /\ log' = log
    \/ input[s] = "running" /\ Become(s, "stopping") /\ log' = log
    \/ input[s] = "stopping" /\ Become(s, "stopped") /\ log' = log

Settle(s) ==
    /\ input[s] = "running"
    /\ Become(s, "replied") \/ Become(s, "failed")
    /\ log' = log

Gateway(s) ==
    /\ Arrive(s) \/ Run(s) \/ Stop(s) \/ Settle(s)
    /\ UNCHANGED <<file, pc, seen, local, session, expected, history>>

-----------------------------------------------------------------------------
Entering(t) ==
    \/ Prepare(t) \/ Reconcile(t) \/ Start(t) \/ Assess(t) \/ Inherit(t) \/ Superseded(t)
    \/ Context(t) \/ Result(t)
Creating(t) ==
    \/ Intend(t) \/ AttemptCreate(t) \/ SubmitCreate(t) \/ Created(t) \/ Attempts(t)
    \/ ReadBack(t) \/ Verify(t) \/ Disturbed(t) \/ Note(t)
Sending(t) ==
    Select(t) \/ Retained(t) \/ Idle(t) \/ AttemptTurn(t) \/ Send(t) \/ Accepted(t)
Reconciling(t) ==
    \/ Observe(t) \/ RecordCancelled(t) \/ RecordConsumed(t) \/ RecordPending(t) \/ Wait(t)
    \/ Aborted(t) \/ Failed(t) \/ Completed(t)
Reporting(t) == SaveContext(t) \/ SaveResult(t)

Step(t) ==
    Entering(t) \/ Creating(t) \/ Sending(t) \/ Reconciling(t) \/ Reporting(t) \/ End(t)

Next == (\E t \in Txn : Step(t)) \/ Open \/ Visit \/ \E s \in Slot : Gateway(s)

Spec == Init /\ [][Next]_vars

-----------------------------------------------------------------------------
(* Types.                                                                   *)
Places == {"idle", "preparing", "creating", "submitting", "submitted", "reading back", "observing",
           "read back", "disturbed", "selecting", "turn", "idle session", "sending", "sent", "reconciling",
           "observed", "recorded", "waited", "context", "result"}

TypeOK ==
    /\ file \in Record
    /\ pc \in [Txn -> Places]
    /\ seen \in [Txn -> Record]
    /\ slot \in [Txn -> Slot]
    /\ view \in [Txn -> [state : Inputs, busy : BOOLEAN, log : SUBSET Author]]
    /\ outcome \in [Txn -> Inputs]
    /\ session \in {"none", "requested", "open"}
    /\ input \in [Slot -> Inputs]
    /\ log \in SUBSET Author
    /\ expected \in [Slot -> SUBSET Author]
    /\ creates \in Nat
    /\ sends \in [Slot -> Nat]

(* One record never leads to a second session, whoever prepares or           *)
(* reconciles it, whatever answers are lost and whoever dies in between.     *)
CreatedOnce == creates <= 1

(* No turn is submitted a second time.                                       *)
SentOnce == \A s \in Slot : sends[s] <= 1

(* Whoever starts and whoever assesses, from whatever snapshots: no           *)
(* assessment is submitted beside an investigation that may still run.        *)
Turnwise ==
    sends["first"] > 0 /\ sends["assess"] > 0 => input["first"] \in {"replied", "failed"}

(* What the record says of the session and its turns is so, although it was  *)
(* read before it was saved, and pieced together from two readings: a turn    *)
(* accepted, consumed, answered or failed is one, and what is called          *)
(* inactive will not run.                                                    *)
Custody ==
    /\ file.sid \/ file.verified => session = "open"
    /\ \A s \in Slot : LET turn == file[s] IN
         /\ Rank[turn.status] >= Rank["accepted"] => input[s] \notin {"none", "sent"}
         /\ turn.event => s \in log
         /\ turn.status = "completed" => input[s] = IF turn.failed THEN "failed" ELSE "replied"
         /\ turn.inactive => input[s] = "stopped"

(* What one transaction recorded of a turn or of the session is not undone by *)
(* another that knew less.                                                    *)
ProgressKept ==
    [][/\ \A s \in Slot : /\ Rank[file[s].status] <= Rank[file'[s].status]
                          /\ file[s].event => file'[s].event
                          /\ file[s].cancelled => file'[s].cancelled
       /\ \A f \in Flags : file[f] => file'[f]]_vars

(* An issue-specific failure does not stop unrelated work                     *)
(* (channels/github/CONFIG.md:142): when next finds the session of a           *)
(* superseded intent in use, it can save that and go on.  A conflict only      *)
(* makes it busy until its next call.                                        *)
GoesOn ==
    \A t \in Txn : pc[t] = "disturbed" =>
        Conflicting(seen[t], Noted(t), file) \/ Valid(Merged(t, Noted(t)))

(* Both submissions follow AttemptOnce: whoever attempts, answers, reads back  *)
(* or dies, no session and no turn is submitted before its attempt is on       *)
(* record, nor again afterwards, and none is recorded as created or accepted   *)
(* that is not.                                                              *)
Effects == {"session"} \union Slot
A == INSTANCE AttemptOnce WITH
       Effect <- Effects,
       noted <- {e \in Effects : IF e = "session" THEN file.creation = "attempted"
                                 ELSE file[e].status # "none"},
       sent <- [e \in Effects |-> IF e = "session" THEN creates ELSE sends[e]],
       done <- {e \in Effects : IF e = "session" THEN session = "open"
                                ELSE input[e] \notin {"none", "sent"}},
       known <- {e \in Effects : IF e = "session" THEN file.sid
                                 ELSE Rank[file[e].status] >= Rank["accepted"]}
ImplementsAttempts == A!Spec
=============================================================================
