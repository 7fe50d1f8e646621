------------------------- MODULE IssueSessionProofs -------------------------
(* Proofs about IssueSession, for any number of callers.                     *)
EXTENDS IssueSession, TLAPS

(* The fields of the record, for the provers.                                *)
LEMMA Fields ==
    /\ DOMAIN NoTurn = {"status", "event", "cancelled", "inactive", "failed"}
    /\ DOMAIN Routed = {"creation", "sid", "effective", "verified", "selected", "asked", "result",
                        "first", "assess"}
    /\ NoTurn \in Turn /\ Routed \in Record
    /\ NoTurn.status = "none" /\ Attempted.status = "attempted" /\ Attempted \in Turn
  BY DEF NoTurn, Routed, Turn, Record, Statuses, Attempted

LEMMA Successor == \A n \in Nat : n + 1 \in Nat
  OBVIOUS

LEMMA RankType == \A s \in Statuses : Rank[s] \in Nat
  BY DEF Rank, Statuses

LEMMA MergedTurn ==
    ASSUME NEW b \in Turn, NEW p \in Turn, NEW c \in Turn
    PROVE  MergeTurn(b, p, c) \in Turn
  <1> DEFINE m == [status |-> MergeStatus(b.status, p.status, c.status),
                   event |-> MergeFlag(b.event, p.event, c.event),
                   cancelled |-> MergeFlag(b.cancelled, p.cancelled, c.cancelled),
                   inactive |-> MergeFlag(b.inactive, p.inactive, c.inactive),
                   failed |-> MergeFlag(b.failed, p.failed, c.failed)]
  <1>1. m \in Turn
    BY DEF Turn, MergeStatus, MergeFlag
  <1>2. [f \in DOMAIN NoTurn |->
            IF f = "status" THEN MergeStatus(b[f], p[f], c[f]) ELSE MergeFlag(b[f], p[f], c[f])]
        = m
    BY Fields
  <1> QED BY <1>1, <1>2 DEF MergeTurn

LEMMA MergedFields ==
    ASSUME NEW b \in Record, NEW p \in Record, NEW c \in Record
    PROVE  Merge(b, p, c) =
             [creation |-> MergeFlag(b.creation, p.creation, c.creation),
              sid |-> MergeFlag(b.sid, p.sid, c.sid),
              effective |-> MergeFlag(b.effective, p.effective, c.effective),
              verified |-> MergeFlag(b.verified, p.verified, c.verified),
              selected |-> MergeFlag(b.selected, p.selected, c.selected),
              asked |-> MergeFlag(b.asked, p.asked, c.asked),
              result |-> MergeFlag(b.result, p.result, c.result),
              first |-> MergeTurn(b.first, p.first, c.first),
              assess |-> MergeTurn(b.assess, p.assess, c.assess)]
  BY Fields DEF Merge, Slot

LEMMA MergedRecord ==
    ASSUME NEW b \in Record, NEW p \in Record, NEW c \in Record
    PROVE  Merge(b, p, c) \in Record
  <1>1. /\ MergeTurn(b.first, p.first, c.first) \in Turn
        /\ MergeTurn(b.assess, p.assess, c.assess) \in Turn
    BY MergedTurn DEF Record
  <1> QED BY <1>1, MergedFields DEF Record, MergeFlag

LEMMA Proposal ==
    ASSUME NEW r \in Record, NEW s \in Slot, NEW turn \in Turn
    PROVE  /\ [r EXCEPT ![s] = turn] \in Record
           /\ [r EXCEPT ![s] = turn].creation = r.creation
           /\ [r EXCEPT ![s] = turn][s] = turn
           /\ \A u \in Slot : u # s => [r EXCEPT ![s] = turn][u] = r[u]
           /\ r[s] \in Turn
  <1>1. CASE s = "first"
    BY <1>1 DEF Record, Slot
  <1>2. CASE s = "assess"
    BY <1>2 DEF Record, Slot
  <1> QED BY <1>1, <1>2 DEF Slot

-----------------------------------------------------------------------------
LEMMA SaveType ==
    ASSUME TypeOK, NEW t \in Txn, NEW p \in Record, Save(t, p)
    PROVE  file' \in Record /\ seen' \in [Txn -> Record]
  <1>1. Merge(seen[t], p, file) \in Record
    BY MergedRecord DEF TypeOK
  <1> QED BY <1>1 DEF Save, Commit, Merged, TypeOK

LEMMA RestType ==
    ASSUME TypeOK, NEW t \in Txn
    PROVE  /\ [seen EXCEPT ![t] = Routed] \in [Txn -> Record]
           /\ [pc EXCEPT ![t] = "idle"] \in [Txn -> Places]
           /\ [slot EXCEPT ![t] = "first"] \in [Txn -> Slot]
           /\ [view EXCEPT ![t] = Unread] \in
                [Txn -> [state : Inputs, busy : BOOLEAN, log : SUBSET Author]]
           /\ [outcome EXCEPT ![t] = "none"] \in [Txn -> Inputs]
  BY Fields DEF TypeOK, Unread, Inputs, Slot, Author, Places

LEMMA FinishType ==
    ASSUME TypeOK, NEW t \in Txn, NEW p \in Record, Finish(t, p), UNCHANGED <<native, history>>
    PROVE  TypeOK'
  <1>1. Merge(seen[t], p, file) \in Record
    BY MergedRecord DEF TypeOK
  <1>2. file' \in Record /\ seen' \in [Txn -> Record] /\ pc' \in [Txn -> Places]
    BY <1>1, RestType DEF Finish, Commit, Merged, Goto
  <1>3. /\ slot' \in [Txn -> Slot]
        /\ view' \in [Txn -> [state : Inputs, busy : BOOLEAN, log : SUBSET Author]]
        /\ outcome' \in [Txn -> Inputs]
    BY RestType DEF Finish
  <1> QED BY <1>2, <1>3 DEF TypeOK, native, history

LEMMA PlaceType ==
    ASSUME TypeOK, NEW t \in Txn, NEW place \in Places, Goto(t, place)
    PROVE  pc' \in [Txn -> Places]
  BY DEF TypeOK, Goto

LEMMA BeginType ==
    ASSUME TypeOK, NEW t \in Txn, NEW place \in Places, NEW s \in Slot, Begin(t, place, s)
    PROVE  TypeOK'
  <1>1. pc' \in [Txn -> Places]
    BY PlaceType DEF Begin
  <1> QED BY <1>1 DEF Begin, TypeOK, native, history

(* What a transaction saves or finishes with is a record.                    *)
LEMMA TurnType ==
    ASSUME TypeOK, NEW t \in Txn
    PROVE  /\ Current(t) \in Turn
           /\ \A turn \in Turn : WithTurn(t, turn) \in Record
  <1>1. seen[t] \in Record /\ slot[t] \in Slot
    BY DEF TypeOK
  <1>2. seen[t][slot[t]] \in Turn
    BY <1>1 DEF Record, Slot
  <1>3. ASSUME NEW turn \in Turn
        PROVE  [seen[t] EXCEPT ![slot[t]] = turn] \in Record
    BY <1>1, Proposal
  <1> QED BY <1>2, <1>3 DEF Current, WithTurn

LEMMA TypeInit == Init => TypeOK
  BY Fields DEF Init, TypeOK, Unread, Inputs, Slot, Places

LEMMA EnteringType ==
    ASSUME TypeOK, NEW t \in Txn, Entering(t)
    PROVE  TypeOK'
  <1>1. Latest \in Slot /\ "first" \in Slot /\ "assess" \in Slot
    BY DEF Latest, Slot
  <1>2. {"preparing", "creating", "turn", "selecting", "observing", "context", "result"}
          \subseteq Places
    BY DEF Places
  <1>3. \E place \in Places, s \in Slot : Begin(t, place, s)
    BY <1>1, <1>2 DEF Entering, Prepare, Reconcile, Start, Assess, Inherit, Superseded, Context, Result
  <1> QED BY <1>3, BeginType

LEMMA CreatingType ==
    ASSUME TypeOK, NEW t \in Txn, Creating(t)
    PROVE  TypeOK'
  <1> {"creating", "submitting", "submitted", "reading back", "read back", "disturbed"}
        \subseteq Places
    BY DEF Places
  <1> seen[t] \in Record
    BY DEF TypeOK
  <1>1. CASE Intend(t)
    <2>1. [seen[t] EXCEPT !.creation = "intended"] \in Record
      BY DEF Record
    <2> QED BY <1>1, <2>1, SaveType, PlaceType DEF Intend, TypeOK, local, native, history
  <1>2. CASE AttemptCreate(t)
    <2>1. [seen[t] EXCEPT !.creation = "attempted"] \in Record
      BY DEF Record
    <2> QED BY <1>2, <2>1, SaveType, PlaceType DEF AttemptCreate, TypeOK, local, native, history
  <1>3. CASE SubmitCreate(t)
    <2>1. creates' \in Nat
      <3>1. creates \in Nat /\ creates' = creates + 1
        BY <1>3 DEF SubmitCreate, TypeOK
      <3> QED BY <3>1, Successor
    <2>3. session' \in {"none", "requested", "open"}
      BY <1>3 DEF SubmitCreate, TypeOK
    <2>2. pc' \in [Txn -> Places]
      BY <1>3, PlaceType DEF SubmitCreate
    <2> QED BY <1>3, <2>1, <2>2, <2>3 DEF SubmitCreate, TypeOK, local
  <1>4. CASE Created(t)
    <2>1. [seen[t] EXCEPT !.sid = TRUE] \in Record
      BY DEF Record
    <2> QED BY <1>4, <2>1, SaveType, PlaceType DEF Created, TypeOK, local, native, history
  <1>5. CASE Attempts(t)
    BY <1>5, PlaceType DEF Attempts, TypeOK, local, native, history
  <1>6. CASE ReadBack(t)
    BY <1>6, PlaceType DEF ReadBack, TypeOK, local, native, history
  <1>7. CASE Verify(t)
    <2>1. [seen[t] EXCEPT !.sid = TRUE, !.effective = TRUE, !.verified = TRUE] \in Record
      BY DEF Record
    <2> QED BY <1>7, <2>1, FinishType DEF Verify
  <1>8. CASE Disturbed(t)
    BY <1>8, PlaceType DEF Disturbed, TypeOK, local, native, history
  <1>9. CASE Note(t)
    <2>1. Noted(t) \in Record
      BY DEF Noted, Record
    <2> QED BY <1>9, <2>1, FinishType DEF Note
  <1> QED BY <1>1, <1>2, <1>3, <1>4, <1>5, <1>6, <1>7, <1>8, <1>9 DEF Creating

LEMMA SendingType ==
    ASSUME TypeOK, NEW t \in Txn, Sending(t)
    PROVE  TypeOK'
  <1> {"turn", "reconciling", "idle session", "sending", "sent"} \subseteq Places
    BY DEF Places
  <1> seen[t] \in Record
    BY DEF TypeOK
  <1>1. CASE Select(t)
    <2>1. [seen[t] EXCEPT !.selected = TRUE] \in Record
      BY DEF Record
    <2> QED BY <1>1, <2>1, SaveType, PlaceType DEF Select, TypeOK, local, native, history
  <1>2. CASE Retained(t)
    BY <1>2, PlaceType DEF Retained, TypeOK, local, native, history
  <1>3. CASE Idle(t)
    <2>1. [Unread EXCEPT !.log = log] \in [state : Inputs, busy : BOOLEAN, log : SUBSET Author]
      BY DEF Unread, Inputs, TypeOK
    <2> QED BY <1>3, <2>1, PlaceType DEF Idle, TypeOK, native, history
  <1>4. CASE AttemptTurn(t)
    <2>1. WithTurn(t, Attempted) \in Record
      BY TurnType, Fields
    <2> QED BY <1>4, <2>1, SaveType, PlaceType DEF AttemptTurn, TypeOK, local, native, history
  <1>5. CASE Send(t)
    <2>1. slot[t] \in Slot /\ view[t].log \in SUBSET Author /\ "sent" \in Inputs
      BY DEF TypeOK, Inputs
    <2>2. input' \in [Slot -> Inputs]
      BY <1>5, <2>1 DEF Send, TypeOK
    <2>3. sends' \in [Slot -> Nat]
      <3>1. sends[slot[t]] + 1 \in Nat
        <4>1. sends[slot[t]] \in Nat
          BY <2>1 DEF TypeOK
        <4> QED BY <4>1, Successor
      <3> QED BY <1>5, <3>1 DEF Send, TypeOK
    <2>4. expected' \in [Slot -> SUBSET Author]
      BY <1>5, <2>1 DEF Send, TypeOK
    <2>5. pc' \in [Txn -> Places]
      BY <1>5, PlaceType DEF Send
    <2> QED BY <1>5, <2>2, <2>3, <2>4, <2>5 DEF Send, TypeOK, local
  <1>6. CASE Accepted(t)
    <2>1. [Current(t) EXCEPT !.status = "accepted"] \in Turn
      BY TurnType DEF Turn, Statuses
    <2>2. WithTurn(t, [Current(t) EXCEPT !.status = "accepted"]) \in Record
      BY <2>1, TurnType
    <2> QED BY <1>6, <2>2, SaveType, PlaceType DEF Accepted, TypeOK, local, native, history
  <1> QED BY <1>1, <1>2, <1>3, <1>4, <1>5, <1>6 DEF Sending

LEMMA AbandonType ==
    ASSUME TypeOK, NEW t \in Txn, Abandon(t), UNCHANGED <<native, history>>
    PROVE  TypeOK'
  <1>1. [Current(t) EXCEPT !.cancelled = TRUE, !.inactive = Quiet(t)] \in Turn
    BY TurnType DEF Turn, Quiet
  <1> QED BY <1>1, TurnType, FinishType DEF Abandon

LEMMA ReceiptType ==
    ASSUME TypeOK, NEW t \in Txn, NEW turn \in Turn, RecordReceipt(t, turn)
    PROVE  TypeOK'
  <1>1. WithTurn(t, [turn EXCEPT !.inactive = FALSE]) \in Record
    BY TurnType DEF Turn
  <1>2. "recorded" \in Places
    BY DEF Places
  <1> QED BY <1>1, <1>2, SaveType, PlaceType DEF RecordReceipt, TypeOK, local, native, history

LEMMA ReconcilingType ==
    ASSUME TypeOK, NEW t \in Txn, Reconciling(t)
    PROVE  TypeOK'
  <1> {"observed", "waited"} \subseteq Places
    BY DEF Places
  <1> slot[t] \in Slot
    BY DEF TypeOK
  <1>1. CASE Observe(t)
    <2>1. [state |-> input[slot[t]], busy |-> Busy, log |-> {}]
            \in [state : Inputs, busy : BOOLEAN, log : SUBSET Author]
      BY DEF TypeOK, Busy
    <2> QED BY <1>1, <2>1, PlaceType DEF Observe, TypeOK, native, history
  <1>2. CASE RecordCancelled(t)
    BY <1>2, AbandonType DEF RecordCancelled
  <1>3. CASE RecordConsumed(t)
    <2>1. [Current(t) EXCEPT !.status = "consumed", !.event = TRUE] \in Turn
      BY TurnType DEF Turn, Statuses
    <2> QED BY <1>3, <2>1, ReceiptType DEF RecordConsumed
  <1>4. CASE RecordPending(t)
    <2>1. [Current(t) EXCEPT !.status = "accepted"] \in Turn
      BY TurnType DEF Turn, Statuses
    <2> QED BY <1>4, <2>1, ReceiptType DEF RecordPending
  <1>5. CASE Wait(t)
    BY <1>5, PlaceType DEF Wait, TypeOK, native, history
  <1>6. CASE Aborted(t)
    BY <1>6, AbandonType DEF Aborted
  <1>7. CASE Failed(t)
    <2>1. [Current(t) EXCEPT !.status = "completed", !.failed = TRUE] \in Turn
      BY TurnType DEF Turn, Statuses
    <2> QED BY <1>7, <2>1, TurnType, FinishType DEF Failed
  <1>8. CASE Completed(t)
    <2>1. [Current(t) EXCEPT !.status = "completed"] \in Turn
      BY TurnType DEF Turn, Statuses
    <2> QED BY <1>8, <2>1, TurnType, FinishType DEF Completed
  <1> QED BY <1>1, <1>2, <1>3, <1>4, <1>5, <1>6, <1>7, <1>8 DEF Reconciling

(* The record as the assessment's own calls leave it.                        *)
LEMMA Reported ==
    ASSUME NEW r \in Record
    PROVE  LET turn == [r.assess EXCEPT !.event = TRUE,
                          !.status = IF @ = "completed" THEN @ ELSE "consumed"]
               told == [r EXCEPT !.asked = TRUE, !.assess.event = TRUE,
                          !.assess.status = IF @ = "completed" THEN @ ELSE "consumed"]
           IN  /\ turn \in Turn
               /\ told = [r EXCEPT !.asked = TRUE, !.assess = turn]
               /\ told \in Record
  BY DEF Record, Turn, Statuses

LEMMA ReportingType ==
    ASSUME TypeOK, NEW t \in Txn, Reporting(t)
    PROVE  TypeOK'
  <1> seen[t] \in Record
    BY DEF TypeOK
  <1>1. CASE SaveContext(t)
    BY <1>1, Reported, FinishType DEF SaveContext
  <1>2. CASE SaveResult(t)
    <2>1. [seen[t] EXCEPT !.result = TRUE] \in Record
      BY DEF Record
    <2> QED BY <1>2, <2>1, FinishType DEF SaveResult
  <1> QED BY <1>1, <1>2 DEF Reporting

LEMMA GatewayType ==
    ASSUME TypeOK, NEW s \in Slot, Gateway(s)
    PROVE  TypeOK'
  <1>1. {"pending", "running", "replied", "failed", "stopping", "stopped"} \subseteq Inputs
    BY DEF Inputs
  <1>2. input' \in [Slot -> Inputs] /\ log' \in SUBSET Author
    BY <1>1 DEF Author, Gateway, Arrive, Run, Stop, Settle, Become, TypeOK
  <1> QED BY <1>2 DEF Gateway, TypeOK, local, history

LEMMA TypeStep == TypeOK /\ [Next]_vars => TypeOK'
  <1> SUFFICES ASSUME TypeOK, [Next]_vars PROVE TypeOK'
    OBVIOUS
  <1>1. ASSUME NEW t \in Txn, Step(t) PROVE TypeOK'
    <2>1. CASE End(t)
      BY <2>1, RestType DEF End, Goto, TypeOK, native, history
    <2> QED BY <1>1, <2>1, EnteringType, CreatingType, SendingType, ReconcilingType,
               ReportingType DEF Step
  <1>2. CASE Open \/ Visit
    BY <1>2 DEF Open, Visit, Author, TypeOK, local, history
  <1>3. CASE UNCHANGED vars
    BY <1>3 DEF vars, TypeOK
  <1> QED BY <1>1, <1>2, <1>3, GatewayType DEF Next

(* The record, the snapshots and what is known of the native session are of  *)
(* the shape the code's schemas give them.                                   *)
THEOREM TypeCorrect == Spec => []TypeOK
  BY TypeInit, TypeStep, PTL DEF Spec

-----------------------------------------------------------------------------
(* Why nothing is submitted twice.  The attempt is in the file before the     *)
(* call is made, only its writer makes the call, and the merge lets nobody     *)
(* write it over a record it did not see.                                    *)
CreateInv ==
    /\ creates = 0 \/ creates = 1
    /\ creates # 0 => file.creation = "attempted"
    /\ \A t \in Txn : pc[t] = "submitting" => creates = 0 /\ file.creation = "attempted"
    /\ \A t, u \in Txn : pc[t] = "submitting" /\ pc[u] = "submitting" => t = u
    /\ \A t \in Txn : pc[t] = "preparing" => seen[t].creation = "none"

SendInv ==
    /\ \A s \in Slot : sends[s] = 0 \/ sends[s] = 1
    /\ \A s \in Slot : sends[s] # 0 => file[s].status # "none"
    /\ \A t \in Txn : pc[t] = "sending" => sends[slot[t]] = 0 /\ file[slot[t]].status # "none"
    /\ \A t, u \in Txn : pc[t] = "sending" /\ pc[u] = "sending" /\ slot[t] = slot[u] => t = u
    /\ \A t \in Txn : pc[t] = "idle session" => seen[t][slot[t]] = NoTurn

IInv == TypeOK /\ CreateInv /\ SendInv

(* What one transaction leaves of the others.                                *)
Others(t) ==
    \A u \in Txn : u # t => pc'[u] = pc[u] /\ seen'[u] = seen[u] /\ slot'[u] = slot[u]

(* An attempt, once written, stays written.                                  *)
Kept ==
    /\ file.creation = "attempted" => file'.creation = "attempted"
    /\ \A s \in Slot : file[s].status # "none" => file'[s].status # "none"

(* A step of t that neither submits nor obtains the right to.                *)
Modest(t) ==
    /\ Others(t)
    /\ Kept
    /\ UNCHANGED history
    /\ pc'[t] \notin {"submitting", "sending"}
    /\ pc'[t] = "preparing" => seen'[t].creation = "none"
    /\ pc'[t] = "idle session" => seen'[t][slot'[t]] = NoTurn

LEMMA ModestStep ==
    ASSUME IInv, NEW t \in Txn, Modest(t), TypeOK'
    PROVE  IInv'
  <1>1. CreateInv'
    <2>1. CreateInv /\ creates' = creates /\ Others(t) /\ Kept
      BY DEF IInv, Modest, history
    <2>2. /\ pc'[t] # "submitting"
          /\ pc'[t] = "preparing" => seen'[t].creation = "none"
      BY DEF Modest
    <2> QED BY <2>1, <2>2 DEF CreateInv, Others, Kept
  <1>2. SendInv'
    <2>1. \A u \in Txn : slot[u] \in Slot /\ slot'[u] \in Slot
      BY DEF IInv, TypeOK
    <2>2. SendInv /\ sends' = sends
      BY DEF IInv, Modest, history
    <2>3. \A s \in Slot : sends'[s] # 0 => file'[s].status # "none"
      BY <2>2 DEF SendInv, Modest, Kept
    <2>4. \A u \in Txn : pc'[u] = "sending" => pc[u] = "sending" /\ slot'[u] = slot[u]
      BY DEF Modest, Others
    <2>5. \A u \in Txn : pc'[u] = "sending" =>
            sends'[slot'[u]] = 0 /\ file'[slot'[u]].status # "none"
      BY <2>1, <2>2, <2>4 DEF SendInv, Modest, Kept
    <2>6. \A u, v \in Txn :
            pc'[u] = "sending" /\ pc'[v] = "sending" /\ slot'[u] = slot'[v] => u = v
      BY <2>2, <2>4 DEF SendInv
    <2>7. \A u \in Txn : pc'[u] = "idle session" => seen'[u][slot'[u]] = NoTurn
      BY <2>2 DEF SendInv, Modest, Others
    <2> QED BY <2>2, <2>3, <2>5, <2>6, <2>7 DEF SendInv
  <1> QED BY <1>1, <1>2 DEF IInv

LEMMA StatusKept ==
    ASSUME NEW b \in Turn, NEW p \in Turn, NEW c \in Turn,
           p.status = "none" => b.status = "none", c.status # "none"
    PROVE  MergeTurn(b, p, c).status # "none"
  <1>1. CASE p = b
    BY <1>1 DEF MergeTurn
  <1>2. CASE p # b /\ c = b
    BY <1>2 DEF MergeTurn
  <1>3. CASE p # b /\ c # b
    <2>1. MergeTurn(b, p, c).status = MergeStatus(b.status, p.status, c.status)
      BY <1>3, Fields DEF MergeTurn
    <2> QED BY <2>1 DEF MergeStatus
  <1> QED BY <1>1, <1>2, <1>3

(* A proposal that takes nothing back.                                       *)
Proper(t, p) ==
    /\ p.creation = seen[t].creation
    /\ \A s \in Slot : p[s].status = "none" => seen[t][s].status = "none"

LEMMA MergeKept ==
    ASSUME TypeOK, NEW t \in Txn, NEW p \in Record, Proper(t, p),
           file' = Merge(seen[t], p, file)
    PROVE  Kept
  <1> seen[t] \in Record /\ file \in Record
    BY DEF TypeOK
  <1>1. file'.creation = file.creation
    BY MergedFields DEF MergeFlag, Proper
  <1>2. ASSUME NEW s \in Slot, file[s].status # "none"
        PROVE  file'[s].status # "none"
    <2>1. file'[s] = MergeTurn(seen[t][s], p[s], file[s])
      BY MergedFields DEF Slot
    <2>2. seen[t][s] \in Turn /\ p[s] \in Turn /\ file[s] \in Turn
      BY DEF Record, Slot
    <2> QED BY <1>2, <2>1, <2>2, StatusKept DEF Proper
  <1> QED BY <1>1, <1>2 DEF Kept

(* Saves of one and the same kind: what t leaves of the others and the record. *)
LEMMA SaveModest ==
    ASSUME TypeOK, NEW t \in Txn, NEW p \in Record, Proper(t, p), Save(t, p),
           NEW place, Goto(t, place), place \notin {"submitting", "sending", "preparing", "idle session"},
           UNCHANGED slot, UNCHANGED history
    PROVE  Modest(t)
  <1>1. Kept
    BY MergeKept DEF Save, Commit, Merged
  <1>2. Others(t)
    BY DEF Save, Goto, Others, TypeOK
  <1>3. pc'[t] = place
    BY DEF Goto, TypeOK
  <1> QED BY <1>1, <1>2, <1>3 DEF Modest

LEMMA FinishModest ==
    ASSUME TypeOK, NEW t \in Txn, NEW p \in Record, Proper(t, p), Finish(t, p),
           UNCHANGED history
    PROVE  Modest(t)
  <1>1. Kept
    BY MergeKept DEF Finish, Commit, Merged
  <1>2. Others(t)
    BY DEF Finish, Commit, Merged, Goto, Others, TypeOK
  <1>3. pc'[t] = "idle"
    BY DEF Finish, Commit, Merged, Goto, TypeOK
  <1> QED BY <1>1, <1>2, <1>3 DEF Modest

(* Steps that leave the file alone.                                          *)
LEMMA StillModest ==
    ASSUME TypeOK, NEW t \in Txn, NEW place, Goto(t, place),
           place \notin {"submitting", "sending", "preparing", "idle session"},
           UNCHANGED <<file, seen, slot>>, UNCHANGED history
    PROVE  Modest(t)
  <1>1. pc'[t] = place /\ Others(t)
    BY DEF Goto, Others, TypeOK
  <1> QED BY <1>1 DEF Modest, Kept

LEMMA TurnProper ==
    ASSUME TypeOK, NEW t \in Txn, NEW turn \in Turn,
           turn.status = "none" => Current(t).status = "none"
    PROVE  Proper(t, WithTurn(t, turn)) /\ WithTurn(t, turn) \in Record
  <1>1. seen[t] \in Record /\ slot[t] \in Slot
    BY DEF TypeOK
  <1> DEFINE r == [seen[t] EXCEPT ![slot[t]] = turn]
  <1>2. /\ r \in Record /\ r.creation = seen[t].creation
        /\ r[slot[t]] = turn
        /\ \A u \in Slot : u # slot[t] => r[u] = seen[t][u]
    BY <1>1, Proposal
  <1> QED BY <1>2 DEF Current, WithTurn, Proper

LEMMA EnteringModest ==
    ASSUME TypeOK, NEW t \in Txn, Entering(t)
    PROVE  Modest(t)
  <1>1. \E place \in Places \ {"submitting", "sending", "idle session"}, s \in Slot :
          Begin(t, place, s) /\ (place = "preparing" => file.creation = "none")
    <2>1. Latest \in Slot /\ "first" \in Slot /\ "assess" \in Slot
      BY DEF Latest, Slot
    <2>2. {"preparing", "creating", "turn", "selecting", "observing", "context", "result"}
            \subseteq Places \ {"submitting", "sending", "idle session"}
      BY DEF Places
    <2> QED
      BY <2>1, <2>2
      DEF Entering, Prepare, Reconcile, Start, Assess, Inherit, Superseded, Context, Result
  <1>2. PICK place \in Places \ {"submitting", "sending", "idle session"}, s \in Slot :
          Begin(t, place, s) /\ (place = "preparing" => file.creation = "none")
    BY <1>1
  <1>3. pc'[t] = place /\ seen'[t] = file /\ Others(t)
    BY <1>2 DEF Begin, Goto, Others, TypeOK
  <1> QED BY <1>2, <1>3 DEF Begin, Modest, Kept

(* What a save of another creation or another turn found in the file.        *)
LEMMA Unseen ==
    ASSUME TypeOK, NEW t \in Txn, NEW p \in Record, ~Conflicting(seen[t], p, file)
    PROVE  /\ p.creation # seen[t].creation => file.creation = seen[t].creation
           /\ \A s \in Slot : p[s] # seen[t][s] /\ seen[t][s] = NoTurn => file[s] = NoTurn
  <1> QED BY DEF Conflicting, ConflictingTurn

LEMMA CreationSaved ==
    ASSUME TypeOK, NEW t \in Txn, NEW v \in {"intended", "attempted"}, seen[t].creation # v,
           Save(t, [seen[t] EXCEPT !.creation = v])
    PROVE  /\ file.creation = seen[t].creation
           /\ file'.creation = v
           /\ \A s \in Slot : file'[s] = file[s]
  <1> DEFINE p == [seen[t] EXCEPT !.creation = v]
  <1>1. seen[t] \in Record /\ file \in Record
    BY DEF TypeOK
  <1>2. p \in Record /\ p.creation = v /\ \A s \in Slot : p[s] = seen[t][s]
    BY <1>1 DEF Record, Slot
  <1>3. file' = Merge(seen[t], p, file) /\ ~Conflicting(seen[t], p, file)
    BY DEF Save, Commit, Merged
  <1> HIDE DEF p
  <1>4. file.creation = seen[t].creation
    BY <1>2, <1>3, Unseen
  <1>5. file'.creation = v
    BY <1>1, <1>2, <1>3, MergedFields DEF MergeFlag
  <1>6. file'.first = file.first /\ file'.assess = file.assess
    BY <1>1, <1>2, <1>3, MergedFields DEF MergeTurn, Slot
  <1> QED BY <1>4, <1>5, <1>6 DEF Slot

LEMMA IntendStep ==
    ASSUME IInv, NEW t \in Txn, Intend(t), TypeOK'
    PROVE  IInv'
  <1>1. TypeOK /\ seen[t].creation = "none"
    BY DEF Intend, IInv, CreateInv
  <1>2. file.creation = "none" /\ \A s \in Slot : file'[s] = file[s]
    BY <1>1, CreationSaved DEF Intend
  <1>3. pc'[t] = "creating" /\ Others(t)
    BY <1>1 DEF Intend, Save, Goto, Others, local, TypeOK
  <1>4. Modest(t)
    BY <1>2, <1>3 DEF Modest, Kept, Intend
  <1> QED BY <1>4, ModestStep

(* A step of the creation leaves the turns as they are.                      *)
LEMMA TurnsKept ==
    ASSUME IInv, UNCHANGED <<sends, slot>>, \A s \in Slot : file'[s] = file[s],
           \A u \in Txn : /\ pc'[u] = "sending" => pc[u] = "sending"
                          /\ pc'[u] = "idle session" =>
                               pc[u] = "idle session" /\ seen'[u] = seen[u]
    PROVE  SendInv'
  <1>1. SendInv /\ \A u \in Txn : slot[u] \in Slot
    BY DEF IInv, TypeOK
  <1>2. sends' = sends /\ slot' = slot
    OBVIOUS
  <1>3. \A s \in Slot : (sends'[s] = 0 \/ sends'[s] = 1)
                        /\ (sends'[s] # 0 => file'[s].status # "none")
    BY <1>1, <1>2 DEF SendInv
  <1>4. ASSUME NEW u \in Txn, pc'[u] = "sending"
        PROVE  sends'[slot'[u]] = 0 /\ file'[slot'[u]].status # "none"
    <2>1. pc[u] = "sending" /\ slot[u] \in Slot /\ slot'[u] = slot[u]
      BY <1>1, <1>2, <1>4
    <2>2. sends[slot[u]] = 0 /\ file[slot[u]].status # "none"
      BY <1>1, <2>1 DEF SendInv
    <2> QED BY <1>2, <2>1, <2>2
  <1>5. ASSUME NEW u \in Txn, NEW v \in Txn,
               pc'[u] = "sending", pc'[v] = "sending", slot'[u] = slot'[v]
        PROVE  u = v
    <2>1. pc[u] = "sending" /\ pc[v] = "sending" /\ slot[u] = slot[v]
      BY <1>2, <1>5
    <2> QED BY <1>1, <2>1 DEF SendInv
  <1>6. ASSUME NEW u \in Txn, pc'[u] = "idle session"
        PROVE  seen'[u][slot'[u]] = NoTurn
    <2>1. pc[u] = "idle session" /\ seen'[u] = seen[u] /\ slot'[u] = slot[u]
      BY <1>2, <1>6
    <2> QED BY <1>1, <2>1 DEF SendInv
  <1> QED BY <1>3, <1>4, <1>5, <1>6 DEF SendInv

(* Only one transaction writes the attempt, and none has called before.      *)
LEMMA AttemptCreateStep ==
    ASSUME IInv, NEW t \in Txn, AttemptCreate(t), TypeOK'
    PROVE  IInv'
  <1>1. TypeOK /\ seen[t].creation = "intended"
    BY DEF AttemptCreate, IInv
  <1>2. /\ file.creation = "intended" /\ file'.creation = "attempted"
        /\ \A s \in Slot : file'[s] = file[s]
    BY <1>1, CreationSaved DEF AttemptCreate
  <1>3. pc'[t] = "submitting" /\ Others(t)
    BY <1>1 DEF AttemptCreate, Save, Goto, Others, local, TypeOK
  <1>4. UNCHANGED <<creates, sends, slot>>
    BY DEF AttemptCreate, local, history
  <1>5. creates = 0 /\ \A u \in Txn : pc[u] # "submitting"
    BY <1>2 DEF IInv, CreateInv
  <1>6. CreateInv'
    BY <1>2, <1>3, <1>4, <1>5 DEF IInv, CreateInv, Others
  <1>7. SendInv'
    <2>1. \A u \in Txn : /\ pc'[u] = "sending" => pc[u] = "sending"
                         /\ pc'[u] = "idle session" => pc[u] = "idle session" /\ seen'[u] = seen[u]
      BY <1>3 DEF Others
    <2> QED BY <2>1, <1>2, <1>4, TurnsKept
  <1> QED BY <1>6, <1>7 DEF IInv

LEMMA SubmitCreateStep ==
    ASSUME IInv, NEW t \in Txn, SubmitCreate(t), TypeOK'
    PROVE  IInv'
  <1>1. /\ creates = 0 /\ file.creation = "attempted"
        /\ \A u \in Txn : pc[u] = "submitting" => u = t
    BY DEF SubmitCreate, IInv, CreateInv
  <1>2. creates' = 1
    BY <1>1 DEF SubmitCreate
  <1>3. /\ pc' = [pc EXCEPT ![t] = "submitted"] /\ UNCHANGED <<file, seen, slot, sends>>
    BY DEF SubmitCreate, Goto, local
  <1>4. /\ pc'[t] = "submitted"
        /\ \A u \in Txn : u # t => pc'[u] = pc[u]
    BY <1>3 DEF IInv, TypeOK
  <1>5. CreateInv'
    BY <1>1, <1>2, <1>3, <1>4 DEF IInv, CreateInv
  <1>6. SendInv'
    <2>1. \A u \in Txn : /\ pc'[u] = "sending" => pc[u] = "sending"
                         /\ pc'[u] = "idle session" => pc[u] = "idle session" /\ seen'[u] = seen[u]
      BY <1>3, <1>4
    <2> QED BY <2>1, <1>3, TurnsKept
  <1> QED BY <1>5, <1>6 DEF IInv

LEMMA CreatingStep ==
    ASSUME IInv, NEW t \in Txn, Creating(t)
    PROVE  IInv'
  <1> TypeOK /\ seen[t] \in Record
    BY DEF IInv, TypeOK
  <1>t. TypeOK'
    BY CreatingType
  <1>1. CASE Created(t)
    <2>1. LET p == [seen[t] EXCEPT !.sid = TRUE] IN p \in Record /\ Proper(t, p)
      BY DEF Record, Proper, Slot
    <2> QED BY <1>1, <1>t, <2>1, SaveModest, ModestStep DEF Created, local
  <1>2. CASE Attempts(t) \/ ReadBack(t) \/ Disturbed(t)
    BY <1>2, <1>t, StillModest, ModestStep DEF Attempts, ReadBack, Disturbed, local
  <1>3. CASE Verify(t)
    <2>1. LET p == [seen[t] EXCEPT !.sid = TRUE, !.effective = TRUE, !.verified = TRUE]
          IN  p \in Record /\ Proper(t, p)
      BY DEF Record, Proper, Slot
    <2> QED BY <1>3, <1>t, <2>1, FinishModest, ModestStep DEF Verify
  <1>4. CASE Note(t)
    <2>1. Noted(t) \in Record /\ Proper(t, Noted(t))
      BY DEF Noted, Record, Proper, Slot
    <2> QED BY <1>4, <1>t, <2>1, FinishModest, ModestStep DEF Note
  <1> QED
    BY <1>t, <1>1, <1>2, <1>3, <1>4, IntendStep, AttemptCreateStep, SubmitCreateStep DEF Creating

(* The session was idle and the turn absent when t read them; the merge makes  *)
(* sure that the turn still is.                                              *)
LEMMA AttemptSaved ==
    ASSUME IInv, NEW t \in Txn, AttemptTurn(t)
    PROVE  /\ seen[t][slot[t]] = NoTurn /\ file[slot[t]] = NoTurn
           /\ file'[slot[t]] = Attempted
           /\ \A u \in Slot : u # slot[t] => file'[u] = file[u]
           /\ file'.creation = file.creation
  <1> DEFINE s == slot[t]
             p == WithTurn(t, Attempted)
  <1>1. s \in Slot /\ seen[t] \in Record /\ file \in Record
    BY DEF IInv, TypeOK
  <1>2. seen[t][s] = NoTurn
    BY DEF AttemptTurn, IInv, SendInv
  <1>3. /\ p \in Record /\ p.creation = seen[t].creation
        /\ p[s] = Attempted /\ Attempted # NoTurn
        /\ \A u \in Slot : u # s => p[u] = seen[t][u]
    BY <1>1, Proposal, Fields DEF WithTurn
  <1>4. file' = Merge(seen[t], p, file) /\ ~Conflicting(seen[t], p, file)
    BY DEF AttemptTurn, Save, Commit, Merged
  <1> HIDE DEF p
  <1>5. file[s] = NoTurn
    BY <1>1, <1>2, <1>3, <1>4, Unseen DEF IInv
  <1>6. \A u \in Slot : file'[u] = MergeTurn(seen[t][u], p[u], file[u])
    BY <1>1, <1>3, <1>4, MergedFields DEF Slot
  <1>7. file'[s] = Attempted /\ \A u \in Slot : u # s => file'[u] = file[u]
    BY <1>1, <1>2, <1>3, <1>5, <1>6 DEF MergeTurn
  <1>8. file'.creation = file.creation
    BY <1>1, <1>3, <1>4, MergedFields DEF MergeFlag
  <1> QED BY <1>2, <1>5, <1>7, <1>8

LEMMA AttemptTurnStep ==
    ASSUME IInv, NEW t \in Txn, AttemptTurn(t), TypeOK'
    PROVE  IInv'
  <1> DEFINE s == slot[t]
  <1>1. TypeOK /\ s \in Slot /\ \A u \in Txn : slot[u] \in Slot
    BY DEF IInv, TypeOK
  <1>2. Attempted.status # "none"
    BY Fields
  <1>3. file[s] = NoTurn
    BY AttemptSaved
  <1>4. sends[s] = 0 /\ \A u \in Txn : ~(pc[u] = "sending" /\ slot[u] = s)
    BY <1>1, <1>3, Fields DEF IInv, SendInv
  <1>5. file'[s] = Attempted /\ \A u \in Slot : u # s => file'[u] = file[u]
    BY AttemptSaved
  <1>6. file'.creation = file.creation
    BY AttemptSaved
  <1>7. pc'[t] = "sending" /\ Others(t) /\ UNCHANGED <<creates, sends, slot>>
    BY <1>1 DEF AttemptTurn, Save, Goto, Others, local, history, TypeOK
  <1>8. CreateInv'
    BY <1>6, <1>7 DEF IInv, CreateInv, Others
  <1>9. SendInv'
    <2>1. \A u \in Slot : file[u].status # "none" => file'[u].status # "none"
      BY <1>2, <1>5
    <2>2. \A u \in Txn : u # t /\ pc'[u] = "sending" =>
            /\ pc[u] = "sending" /\ slot[u] # s
            /\ sends[slot[u]] = 0 /\ file[slot[u]].status # "none"
      BY <1>4, <1>7 DEF IInv, SendInv, Others
    <2>3. \A u, v \in Txn :
            pc'[u] = "sending" /\ pc'[v] = "sending" /\ slot'[u] = slot'[v] => u = v
      BY <2>2, <1>7 DEF IInv, SendInv
    <2>4. \A u \in Txn : pc'[u] = "sending" =>
            sends'[slot'[u]] = 0 /\ file'[slot'[u]].status # "none"
      BY <1>1, <1>2, <1>4, <1>5, <1>7, <2>1, <2>2
    <2>5. ASSUME NEW u \in Txn, pc'[u] = "idle session"
          PROVE  seen'[u][slot'[u]] = NoTurn
      <3>1. u # t /\ pc[u] = "idle session" /\ seen'[u] = seen[u] /\ slot'[u] = slot[u]
        BY <1>7, <2>5 DEF Others
      <3> QED BY <3>1 DEF IInv, SendInv
    <2> QED BY <1>7, <2>1, <2>3, <2>4, <2>5 DEF IInv, SendInv
  <1> QED BY <1>8, <1>9 DEF IInv

LEMMA SendStep ==
    ASSUME IInv, NEW t \in Txn, Send(t), TypeOK'
    PROVE  IInv'
  <1> DEFINE s == slot[t]
  <1>1. /\ s \in Slot /\ \A u \in Txn : slot[u] \in Slot
        /\ pc \in [Txn -> Places] /\ sends \in [Slot -> Nat]
    BY DEF IInv, TypeOK
  <1>2. /\ sends[s] = 0 /\ file[s].status # "none"
        /\ \A u \in Txn : pc[u] = "sending" /\ slot[u] = s => u = t
    BY DEF Send, IInv, SendInv
  <1>3. UNCHANGED <<file, seen, slot, creates>>
    BY DEF Send, local
  <1>4. pc'[t] = "sent" /\ \A u \in Txn : u # t => pc'[u] = pc[u]
    BY <1>1 DEF Send, Goto
  <1>5. sends'[s] = 1 /\ \A u \in Slot : u # s => sends'[u] = sends[u]
    <2>1. sends' = [sends EXCEPT ![s] = sends[s] + 1] /\ sends[s] + 1 = 1
      BY <1>2 DEF Send
    <2> QED BY <1>1, <2>1
  <1>6. CreateInv'
    BY <1>3, <1>4 DEF IInv, CreateInv
  <1>7. SendInv'
    <2>1. SendInv
      BY DEF IInv
    <2>2. \A u \in Txn : pc'[u] = "sending" => u # t /\ pc[u] = "sending" /\ slot[u] # s
      BY <1>2, <1>4
    <2>3. \A u \in Slot : (sends'[u] = 0 \/ sends'[u] = 1)
                          /\ (sends'[u] # 0 => file'[u].status # "none")
      BY <2>1, <1>2, <1>3, <1>5 DEF SendInv
    <2>4. \A u \in Txn : pc'[u] = "sending" =>
            sends'[slot'[u]] = 0 /\ file'[slot'[u]].status # "none"
      BY <2>1, <2>2, <1>1, <1>3, <1>5 DEF SendInv
    <2>5. \A u, v \in Txn :
            pc'[u] = "sending" /\ pc'[v] = "sending" /\ slot'[u] = slot'[v] => u = v
      BY <2>1, <2>2, <1>3 DEF SendInv
    <2>6. \A u \in Txn : pc'[u] = "idle session" => seen'[u][slot'[u]] = NoTurn
      BY <2>1, <1>3, <1>4 DEF SendInv
    <2> QED BY <2>3, <2>4, <2>5, <2>6 DEF SendInv
  <1> QED BY <1>6, <1>7 DEF IInv

LEMMA SendingStep ==
    ASSUME IInv, NEW t \in Txn, Sending(t)
    PROVE  IInv'
  <1> TypeOK /\ seen[t] \in Record
    BY DEF IInv, TypeOK
  <1>t. TypeOK'
    BY SendingType
  <1>1. CASE Select(t)
    <2>1. LET p == [seen[t] EXCEPT !.selected = TRUE] IN p \in Record /\ Proper(t, p)
      BY DEF Record, Proper, Slot
    <2> QED BY <1>1, <1>t, <2>1, SaveModest, ModestStep DEF Select, local
  <1>2. CASE Retained(t)
    BY <1>2, <1>t, StillModest, ModestStep DEF Retained, local
  <1>3. CASE Idle(t)
    <2>1. pc'[t] = "idle session" /\ Others(t) /\ seen'[t][slot'[t]] = NoTurn
      BY <1>3 DEF Idle, Goto, Others, Current, TypeOK
    <2>2. Modest(t)
      BY <1>3, <2>1 DEF Modest, Kept, Idle
    <2> QED BY <1>t, <2>2, ModestStep
  <1>4. CASE Accepted(t)
    <2>1. LET turn == [Current(t) EXCEPT !.status = "accepted"]
          IN  turn \in Turn /\ turn.status # "none"
      BY TurnType DEF Turn, Statuses
    <2> QED BY <1>4, <1>t, <2>1, TurnProper, SaveModest, ModestStep DEF Accepted, local
  <1> QED BY <1>t, <1>1, <1>2, <1>3, <1>4, AttemptTurnStep, SendStep DEF Sending

LEMMA AbandonModest ==
    ASSUME TypeOK, NEW t \in Txn, Abandon(t), UNCHANGED history
    PROVE  Modest(t)
  <1>1. LET turn == [Current(t) EXCEPT !.cancelled = TRUE, !.inactive = Quiet(t)]
        IN  turn \in Turn /\ turn.status = Current(t).status
    BY TurnType DEF Turn, Quiet
  <1> QED BY <1>1, TurnProper, FinishModest DEF Abandon

LEMMA ReceiptModest ==
    ASSUME TypeOK, NEW t \in Txn, NEW turn \in Turn, turn.status # "none",
           RecordReceipt(t, turn)
    PROVE  Modest(t)
  <1>1. LET kept == [turn EXCEPT !.inactive = FALSE]
        IN  kept \in Turn /\ kept.status # "none"
    BY DEF Turn
  <1> QED BY <1>1, TurnProper, SaveModest DEF RecordReceipt, local

LEMMA ReconcilingModest ==
    ASSUME TypeOK, NEW t \in Txn, Reconciling(t)
    PROVE  Modest(t)
  <1>1. CASE Observe(t)
    BY <1>1, StillModest DEF Observe
  <1>2. CASE RecordCancelled(t)
    BY <1>2, AbandonModest DEF RecordCancelled
  <1>3. CASE RecordConsumed(t)
    <2>1. LET turn == [Current(t) EXCEPT !.status = "consumed", !.event = TRUE]
          IN  turn \in Turn /\ turn.status # "none"
      BY TurnType DEF Turn, Statuses
    <2> QED BY <1>3, <2>1, ReceiptModest DEF RecordConsumed
  <1>4. CASE RecordPending(t)
    <2>1. LET turn == [Current(t) EXCEPT !.status = "accepted"]
          IN  turn \in Turn /\ turn.status # "none"
      BY TurnType DEF Turn, Statuses
    <2> QED BY <1>4, <2>1, ReceiptModest DEF RecordPending
  <1>5. CASE Wait(t)
    BY <1>5, StillModest DEF Wait
  <1>6. CASE Aborted(t)
    BY <1>6, AbandonModest DEF Aborted
  <1>7. CASE Failed(t)
    <2>1. LET turn == [Current(t) EXCEPT !.status = "completed", !.failed = TRUE]
          IN  turn \in Turn /\ turn.status # "none"
      BY TurnType DEF Turn, Statuses
    <2> QED BY <1>7, <2>1, TurnProper, FinishModest DEF Failed
  <1>8. CASE Completed(t)
    <2>1. LET turn == [Current(t) EXCEPT !.status = "completed"]
          IN  turn \in Turn /\ turn.status # "none"
      BY TurnType DEF Turn, Statuses
    <2> QED BY <1>8, <2>1, TurnProper, FinishModest DEF Completed
  <1> QED BY <1>1, <1>2, <1>3, <1>4, <1>5, <1>6, <1>7, <1>8 DEF Reconciling

LEMMA ReportingModest ==
    ASSUME TypeOK, NEW t \in Txn, Reporting(t)
    PROVE  Modest(t)
  <1> seen[t] \in Record
    BY DEF TypeOK
  <1>1. CASE SaveContext(t)
    <2> DEFINE turn == [seen[t].assess EXCEPT !.event = TRUE,
                          !.status = IF @ = "completed" THEN @ ELSE "consumed"]
               told == [seen[t] EXCEPT !.asked = TRUE, !.assess = turn]
    <2>1. told \in Record /\ Finish(t, told) /\ UNCHANGED history
      BY <1>1, Reported DEF SaveContext
    <2>2. turn.status # "none"
      BY DEF Record, Turn, Statuses
    <2>3. told.creation = seen[t].creation /\ told.first = seen[t].first /\ told.assess = turn
      BY DEF Record
    <2>4. Proper(t, told)
      BY <2>2, <2>3 DEF Proper, Slot
    <2> QED BY <2>1, <2>4, FinishModest
  <1>2. CASE SaveResult(t)
    <2>1. LET p == [seen[t] EXCEPT !.result = TRUE] IN p \in Record /\ Proper(t, p)
      BY DEF Record, Proper, Slot
    <2> QED BY <1>2, <2>1, FinishModest DEF SaveResult
  <1> QED BY <1>1, <1>2 DEF Reporting

LEMMA EndModest ==
    ASSUME TypeOK, NEW t \in Txn, End(t)
    PROVE  Modest(t)
  <1>1. pc'[t] = "idle" /\ Others(t)
    BY DEF End, Goto, Others, TypeOK
  <1> QED BY <1>1 DEF End, Modest, Kept

LEMMA IInvInit == Init => IInv
  BY TypeInit DEF Init, IInv, CreateInv, SendInv, Slot

LEMMA IInvStep == IInv /\ [Next]_vars => IInv'
  <1> SUFFICES ASSUME IInv, [Next]_vars PROVE IInv'
    OBVIOUS
  <1>t. TypeOK /\ TypeOK'
    BY TypeStep DEF IInv
  <1>1. ASSUME NEW t \in Txn, Step(t) PROVE IInv'
    <2>1. CASE Entering(t) \/ Reconciling(t) \/ Reporting(t) \/ End(t)
      BY <1>t, <2>1, ModestStep, EnteringModest, ReconcilingModest, ReportingModest, EndModest
    <2> QED BY <1>1, <2>1, CreatingStep, SendingStep DEF Step
  <1>2. CASE Open \/ Visit \/ (\E s \in Slot : Gateway(s)) \/ UNCHANGED vars
    <2>1. UNCHANGED <<file, pc, seen, slot, creates, sends>>
      BY <1>2 DEF Open, Visit, Gateway, vars, local, history
    <2> QED BY <1>t, <2>1 DEF IInv, CreateInv, SendInv
  <1> QED BY <1>1, <1>2 DEF Next

THEOREM Inductive == Spec => []IInv
  BY IInvInit, IInvStep, PTL DEF Spec

(* However many callers prepare, reconcile and answer an issue, and wherever  *)
(* they die, sessions.create is submitted for it at most once.               *)
THEOREM OneSession == Spec => []CreatedOnce
  <1>1. IInv => CreatedOnce
    BY DEF IInv, CreateInv, CreatedOnce
  <1> QED BY <1>1, Inductive, PTL

(* ... and sessions.send at most once for each of its turns.                 *)
THEOREM OneSubmission == Spec => []SentOnce
  <1>1. IInv => SentOnce
    <2>1. \A n : n = 0 \/ n = 1 => n <= 1
      OBVIOUS
    <2> QED BY <2>1 DEF IInv, SendInv, SentOnce
  <1> QED BY <1>1, Inductive, PTL

-----------------------------------------------------------------------------
(* Why the record tells the truth.  What a transaction saves was so when it   *)
(* read it; what it read has only gone forth since; and the merge takes what   *)
(* is further, of two records that are both true.                            *)

(* was is what an input was when it was read, now what it may be by now.      *)
Since(was, now) ==
    /\ was \in {"replied", "failed", "stopped"} => now = was
    /\ was = "stopping" => now \in {"stopping", "stopped"}
    /\ was = "running" => now \notin {"none", "sent", "pending"}
    /\ was = "pending" => now \notin {"none", "sent"}

TrueTurn(turn, now, ran) ==
    /\ turn.status \in {"accepted", "consumed", "completed"} => now \notin {"none", "sent"}
    /\ turn.event => ran
    /\ turn.status = "completed" => now = IF turn.failed THEN "failed" ELSE "replied"
    /\ turn.failed => turn.status = "completed"
    /\ turn.inactive => now = "stopped"
    /\ turn.cancelled => now \in {"stopping", "stopped"}

TrueRecord(r, open, inputs, ran) ==
    /\ r.sid \/ r.verified => open = "open"
    /\ \A s \in Slot : TrueTurn(r[s], inputs[s], s \in ran)
Truth(r) == TrueRecord(r, session, input, log)

(* A record that takes nothing back of another.                              *)
TurnAhead(b, p) ==
    /\ Rank[b.status] <= Rank[p.status]
    /\ b.event => p.event
    /\ b.cancelled => p.cancelled
    /\ b.failed => p.failed
Ahead(b, p) ==
    /\ \A s \in Slot : TurnAhead(b[s], p[s])
    /\ \A f \in Flags : b[f] => p[f]

LEMMA RankValues ==
    /\ Rank["none"] = 0 /\ Rank["attempted"] = 1 /\ Rank["accepted"] = 2
    /\ Rank["consumed"] = 3 /\ Rank["completed"] = 4
  BY DEF Rank

LEMMA StatusMerged ==
    ASSUME NEW b \in Statuses, NEW p \in Statuses, NEW c \in Statuses,
           Rank[b] <= Rank[p], ~ConflictingStatus(b, p, c)
    PROVE  LET m == MergeStatus(b, p, c) IN
           /\ m = p \/ m = c
           /\ p = b => m = c
           /\ p # b /\ p = "completed" => m = "completed"
           /\ c = "completed" => m = "completed"
           /\ Rank[c] <= Rank[m]
  BY RankValues DEF Statuses, ConflictingStatus, Overtaken, MergeStatus

LEMMA FlagMerged ==
    ASSUME NEW b \in BOOLEAN, NEW p \in BOOLEAN, NEW c \in BOOLEAN
    PROVE  /\ MergeFlag(b, p, c) => p \/ c
           /\ (b => p) => (c => MergeFlag(b, p, c))
           /\ (b => p) => (MergeFlag(b, p, c) => c \/ (p /\ ~b))
           /\ p /\ ~b => MergeFlag(b, p, c)
  BY DEF MergeFlag

(* Two true accounts of a turn make a true one, and one that is ahead.        *)
LEMMA TurnMerged ==
    ASSUME NEW b \in Turn, NEW p \in Turn, NEW c \in Turn, NEW now, NEW ran,
           TurnAhead(b, p), ~ConflictingTurn(b, p, c),
           TrueTurn(b, now, ran), TrueTurn(p, now, ran), TrueTurn(c, now, ran)
    PROVE  TrueTurn(MergeTurn(b, p, c), now, ran) /\ TurnAhead(c, MergeTurn(b, p, c))
  <1> DEFINE m == MergeTurn(b, p, c)
  <1>0. \A s \in Statuses : Rank[s] <= Rank[s]
    BY RankType
  <1>1. CASE p = b
    BY <1>0, <1>1 DEF MergeTurn, TurnAhead, Turn
  <1>2. CASE p # b /\ c = b
    BY <1>2 DEF MergeTurn
  <1>3. CASE p # b /\ c # b
    <2>1. /\ m.status = MergeStatus(b.status, p.status, c.status)
          /\ m.event = MergeFlag(b.event, p.event, c.event)
          /\ m.cancelled = MergeFlag(b.cancelled, p.cancelled, c.cancelled)
          /\ m.inactive = MergeFlag(b.inactive, p.inactive, c.inactive)
          /\ m.failed = MergeFlag(b.failed, p.failed, c.failed)
      BY <1>3, Fields DEF MergeTurn
    <2>2. ~ConflictingStatus(b.status, p.status, c.status)
      BY <1>3 DEF ConflictingTurn
    <2> HIDE DEF m
    <2>3. /\ b.status \in Statuses /\ p.status \in Statuses /\ c.status \in Statuses
          /\ b.event \in BOOLEAN /\ p.event \in BOOLEAN /\ c.event \in BOOLEAN
          /\ b.cancelled \in BOOLEAN /\ p.cancelled \in BOOLEAN /\ c.cancelled \in BOOLEAN
          /\ b.inactive \in BOOLEAN /\ p.inactive \in BOOLEAN /\ c.inactive \in BOOLEAN
          /\ b.failed \in BOOLEAN /\ p.failed \in BOOLEAN /\ c.failed \in BOOLEAN
      BY DEF Turn
    <2>4. /\ m.status = p.status \/ m.status = c.status
          /\ p.status = b.status => m.status = c.status
          /\ p.status # b.status /\ p.status = "completed" => m.status = "completed"
          /\ c.status = "completed" => m.status = "completed"
          /\ Rank[c.status] <= Rank[m.status]
      BY <2>1, <2>2, <2>3, StatusMerged DEF TurnAhead
    <2>5. /\ m.event => p.event \/ c.event
          /\ c.event => m.event
      BY <2>1, <2>3, FlagMerged DEF TurnAhead
    <2>6. /\ m.cancelled => p.cancelled \/ c.cancelled
          /\ c.cancelled => m.cancelled
      BY <2>1, <2>3, FlagMerged DEF TurnAhead
    <2>7. m.inactive => p.inactive \/ c.inactive
      BY <2>1, <2>3, FlagMerged
    <2>8. /\ c.failed => m.failed
          /\ m.failed => c.failed \/ (p.failed /\ ~b.failed)
          /\ p.failed /\ ~b.failed => m.failed
      BY <2>1, <2>3, FlagMerged DEF TurnAhead
    <2>9. TurnAhead(c, m)
      BY <2>4, <2>5, <2>6, <2>8 DEF TurnAhead
    <2>10. m.failed => m.status = "completed" /\ now = "failed"
      <3>1. CASE c.failed
        BY <3>1, <2>4 DEF TrueTurn
      <3>2. CASE p.failed /\ ~b.failed
        <4>1. p.status = "completed" /\ now = "failed"
          BY <3>2 DEF TrueTurn
        <4>2. b.status # "completed"
          BY <3>2, <4>1 DEF TrueTurn
        <4> QED BY <4>1, <4>2, <2>4
      <3> QED BY <3>1, <3>2, <2>8
    <2>11. m.status = "completed" /\ ~m.failed => now = "replied"
      <3> SUFFICES ASSUME m.status = "completed", ~m.failed PROVE now = "replied"
        OBVIOUS
      <3>1. ~c.failed
        BY <2>8
      <3>2. CASE c.status = "completed"
        BY <3>1, <3>2 DEF TrueTurn
      <3>3. CASE c.status # "completed"
        <4>1. p.status = "completed" /\ b.status # "completed"
          BY <3>3, <2>4
        <4>2. ~b.failed
          BY <4>1 DEF TrueTurn
        <4>3. ~p.failed
          BY <4>2, <2>8
        <4> QED BY <4>1, <4>3 DEF TrueTurn
      <3> QED BY <3>2, <3>3
    <2>12. TrueTurn(m, now, ran)
      <3>1. m.status \in {"accepted", "consumed", "completed"} => now \notin {"none", "sent"}
        BY <2>4 DEF TrueTurn
      <3>2. m.event => ran
        BY <2>5 DEF TrueTurn
      <3>3. m.cancelled => now \in {"stopping", "stopped"}
        BY <2>6 DEF TrueTurn
      <3>4. m.inactive => now = "stopped"
        BY <2>7 DEF TrueTurn
      <3>5. m.status = "completed" => now = IF m.failed THEN "failed" ELSE "replied"
        BY <2>10, <2>11
      <3> QED BY <3>1, <3>2, <3>3, <3>4, <3>5, <2>10 DEF TrueTurn
    <2> QED BY <2>9, <2>12 DEF m
  <1> QED BY <1>1, <1>2, <1>3

LEMMA RecordsMerged ==
    ASSUME NEW b \in Record, NEW p \in Record, NEW c \in Record,
           NEW open, NEW inputs, NEW ran,
           Ahead(b, p), ~Conflicting(b, p, c),
           TrueRecord(b, open, inputs, ran), TrueRecord(p, open, inputs, ran),
           TrueRecord(c, open, inputs, ran)
    PROVE  TrueRecord(Merge(b, p, c), open, inputs, ran) /\ Ahead(c, Merge(b, p, c))
  <1> DEFINE m == Merge(b, p, c)
  <1>1. \A f \in Flags : m[f] = MergeFlag(b[f], p[f], c[f])
    BY MergedFields DEF Flags
  <1>2. \A s \in Slot : m[s] = MergeTurn(b[s], p[s], c[s])
    BY MergedFields DEF Slot
  <1> HIDE DEF m
  <1>3. \A f \in Flags : b[f] \in BOOLEAN /\ p[f] \in BOOLEAN /\ c[f] \in BOOLEAN
    BY DEF Flags, Record
  <1>4. \A s \in Slot : b[s] \in Turn /\ p[s] \in Turn /\ c[s] \in Turn
    BY DEF Slot, Record
  <1>5. ASSUME NEW s \in Slot
        PROVE  TrueTurn(m[s], inputs[s], s \in ran) /\ TurnAhead(c[s], m[s])
    <2>1. p = b => p[s] = b[s]
      OBVIOUS
    <2>2. CASE p = b
      <3>1. m[s] = c[s]
        BY <1>2, <2>1, <2>2 DEF MergeTurn
      <3>2. TurnAhead(c[s], c[s])
        BY <1>4, RankType DEF TurnAhead, Turn
      <3> QED BY <3>1, <3>2 DEF TrueRecord
    <2>3. CASE p # b
      <3>1. ~ConflictingTurn(b[s], p[s], c[s])
        BY <2>3 DEF Conflicting
      <3> QED BY <3>1, <1>2, <1>4, TurnMerged DEF TrueRecord, Ahead
    <2> QED BY <2>2, <2>3
  <1>6. ASSUME NEW f \in Flags
        PROVE  (m[f] => p[f] \/ c[f]) /\ (c[f] => m[f])
    BY <1>1, <1>3, FlagMerged DEF Ahead
  <1>7. m.sid \/ m.verified => open = "open"
    <2>1. (m.sid => p.sid \/ c.sid) /\ (m.verified => p.verified \/ c.verified)
      BY <1>6 DEF Flags
    <2> QED BY <2>1 DEF TrueRecord
  <1> QED BY <1>5, <1>6, <1>7 DEF m, TrueRecord, Ahead

-----------------------------------------------------------------------------
(* An input is in the transcript when it ran.                                *)
RanInv ==
    \A s \in Slot :
        /\ input[s] \in {"running", "stopping", "replied", "failed"} => s \in log
        /\ s \in log => input[s] \notin {"none", "sent", "pending"}

(* What a transaction read of its turn, and what it may rely on at each place. *)
Read(t) == view[t].state
Reading == {"read back", "context", "sending", "sent", "observed", "recorded", "waited"}
ReadInv(t) ==
    /\ pc[t] = "read back" => session = "open"
    /\ pc[t] = "context" => "assess" \in log
    /\ pc[t] \in {"sending", "sent"} => Current(t) = Attempted
    /\ pc[t] \in {"observed", "recorded", "waited"} =>
         /\ Since(Read(t), input[slot[t]])
         /\ Read(t) \in {"running", "stopping"} => view[t].busy
         /\ Read(t) \in {"running", "replied", "failed"} => slot[t] \in log
    /\ pc[t] = "observed" =>
         /\ Current(t).status # "completed"
         /\ Current(t).cancelled => Read(t) \in {"stopping", "stopped"}
         /\ Current(t).event => slot[t] \in log /\ Read(t) \notin {"none", "sent", "pending"}
    /\ pc[t] \in {"recorded", "waited"} => Read(t) \notin {"none", "sent", "stopping", "stopped"}
    /\ pc[t] = "waited" => Since(outcome[t], input[slot[t]])

KnownInv ==
    /\ RanInv
    /\ Valid(file) /\ Truth(file)
    /\ \A t \in Txn : Valid(seen[t]) /\ Truth(seen[t]) /\ ReadInv(t)

(* How the native session goes forth.                                        *)
Forth ==
    /\ session = "open" => session' = "open"
    /\ \A s \in Slot : Since(input[s], input'[s])
    /\ log \subseteq log'

LEMMA SinceSelf == \A x : Since(x, x)
  BY DEF Since

LEMMA SinceTwice ==
    ASSUME NEW x \in Inputs, NEW y \in Inputs, NEW z \in Inputs, Since(x, y), Since(y, z)
    PROVE  Since(x, z)
  BY DEF Since, Inputs

LEMMA StillForth == ASSUME UNCHANGED native PROVE Forth
  BY SinceSelf DEF native, Forth

LEMMA TruthForth ==
    ASSUME TypeOK, Forth, NEW r \in Record, Truth(r)
    PROVE  TrueRecord(r, session', input', log')
  <1>1. r.sid \/ r.verified => session' = "open"
    BY DEF Truth, TrueRecord, Forth
  <1>2. ASSUME NEW s \in Slot
        PROVE  TrueTurn(r[s], input'[s], s \in log')
    <2>1. Since(input[s], input'[s]) /\ (s \in log => s \in log') /\ input[s] \in Inputs
      BY DEF Forth, TypeOK
    <2>2. TrueTurn(r[s], input[s], s \in log)
      BY DEF Truth, TrueRecord
    <2>3. input[s] \notin {"none", "sent"} => input'[s] \notin {"none", "sent"}
      BY <2>1 DEF Since, Inputs
    <2> QED BY <2>1, <2>2, <2>3 DEF TrueTurn, Since
  <1> QED BY <1>1, <1>2 DEF TrueRecord

(* A transaction that stays where it is keeps what it relies on.             *)
LEMMA ReadForth ==
    ASSUME TypeOK, TypeOK', Forth, NEW u \in Txn, ReadInv(u), pc'[u] = pc[u], seen'[u] = seen[u],
           slot'[u] = slot[u], view'[u] = view[u], outcome'[u] = outcome[u]
    PROVE  ReadInv(u)'
  <1>1. /\ slot[u] \in Slot /\ Read(u) \in Inputs /\ outcome[u] \in Inputs
        /\ input[slot[u]] \in Inputs /\ input'[slot[u]] \in Inputs
    BY DEF TypeOK, Read
  <1>2. Since(input[slot[u]], input'[slot[u]])
    BY <1>1 DEF Forth
  <1>3. Current(u)' = Current(u) /\ Read(u)' = Read(u)
    BY DEF Current, Read
  <1>4. Since(Read(u), input[slot[u]]) => Since(Read(u), input'[slot[u]])
    BY <1>1, <1>2, SinceTwice
  <1>5. Since(outcome[u], input[slot[u]]) => Since(outcome[u], input'[slot[u]])
    BY <1>1, <1>2, SinceTwice
  <1>6. session = "open" => session' = "open"
    BY DEF Forth
  <1>7. \A x \in log : x \in log'
    BY DEF Forth
  <1> QED BY <1>3, <1>4, <1>5, <1>6, <1>7 DEF ReadInv

LEMMA ReadNothing ==
    ASSUME NEW t \in Txn, pc'[t] \notin Reading
    PROVE  ReadInv(t)'
  BY DEF ReadInv, Reading

(* t moves, and the others stay where they are.                              *)
Alone(t) ==
    \A u \in Txn : u # t =>
        /\ pc'[u] = pc[u] /\ seen'[u] = seen[u] /\ slot'[u] = slot[u]
        /\ view'[u] = view[u] /\ outcome'[u] = outcome[u]

LEMMA AloneKnown ==
    ASSUME TypeOK, TypeOK', KnownInv, NEW t \in Txn, Alone(t), Forth, RanInv',
           Valid(file'), TrueRecord(file', session', input', log'),
           Valid(seen'[t]), TrueRecord(seen'[t], session', input', log'), ReadInv(t)'
    PROVE  KnownInv'
  <1>1. ASSUME NEW u \in Txn
        PROVE  (Valid(seen[u]) /\ Truth(seen[u]) /\ ReadInv(u))'
    <2>1. CASE u = t
      BY <2>1 DEF Truth
    <2>2. CASE u # t
      <3>1. Valid(seen[u]) /\ Truth(seen[u]) /\ ReadInv(u)
        BY DEF KnownInv
      <3>2. /\ pc'[u] = pc[u] /\ seen'[u] = seen[u] /\ slot'[u] = slot[u]
            /\ view'[u] = view[u] /\ outcome'[u] = outcome[u]
        BY <2>2 DEF Alone
      <3>3. ReadInv(u)'
        BY <3>1, <3>2, ReadForth
      <3>4. seen[u] \in Record
        BY DEF TypeOK
      <3>5. TrueRecord(seen[u], session', input', log')
        BY <3>1, <3>4, TruthForth
      <3> QED BY <3>1, <3>2, <3>3, <3>5 DEF Truth
    <2> QED BY <2>1, <2>2
  <1>2. (Valid(file) /\ Truth(file))'
    BY DEF Truth
  <1> QED BY <1>1, <1>2 DEF KnownInv

LEMMA RoutedKnown == Valid(Routed) /\ \A o, i, l : TrueRecord(Routed, o, i, l)
  BY DEF Routed, NoTurn, Valid, TrueRecord, TrueTurn, Slot

LEMMA SelfAhead == \A r \in Record : Ahead(r, r)
  BY RankType DEF Ahead, TurnAhead, Record, Turn, Slot

LEMMA RanStill == ASSUME RanInv, UNCHANGED native PROVE RanInv'
  BY DEF RanInv, native

-----------------------------------------------------------------------------
(* The kinds of steps.  What is saved was true; what is begun is read from the  *)
(* file; and of the rest the record knows nothing.                           *)
Onward == KnownInv' /\ Ahead(file, file')

LEMMA CommitKnown ==
    ASSUME TypeOK, KnownInv, NEW t \in Txn, NEW p \in Record, Ahead(seen[t], p), Truth(p),
           Commit(t, p), UNCHANGED native
    PROVE  /\ Valid(file') /\ TrueRecord(file', session', input', log')
           /\ Ahead(file, file') /\ file' = Merged(t, p)
  <1>1. seen[t] \in Record /\ file \in Record /\ Truth(seen[t]) /\ Truth(file)
    BY DEF TypeOK, KnownInv
  <1>2. Truth(Merged(t, p)) /\ Ahead(file, Merged(t, p))
    BY <1>1, RecordsMerged DEF Commit, Merged, Truth
  <1> QED BY <1>2 DEF Commit, Truth, native

LEMMA SaveKnown ==
    ASSUME TypeOK, TypeOK', KnownInv, NEW t \in Txn, NEW p \in Record, Ahead(seen[t], p), Truth(p),
           Save(t, p), NEW place, Goto(t, place), UNCHANGED <<local, native>>, ReadInv(t)'
    PROVE  Onward
  <1>1. /\ Valid(file') /\ TrueRecord(file', session', input', log')
        /\ Ahead(file, file') /\ file' = Merged(t, p)
    BY CommitKnown DEF Save
  <1>2. seen'[t] = file'
    BY <1>1 DEF Save, TypeOK
  <1>3. Alone(t)
    BY DEF Alone, Save, Goto, local, TypeOK
  <1> QED BY <1>1, <1>2, <1>3, StillForth, RanStill, AloneKnown DEF Onward, KnownInv

LEMMA RestAlone ==
    ASSUME TypeOK, NEW t \in Txn, Goto(t, "idle"), seen' = [seen EXCEPT ![t] = Routed],
           slot' = [slot EXCEPT ![t] = "first"], view' = [view EXCEPT ![t] = Unread],
           outcome' = [outcome EXCEPT ![t] = "none"]
    PROVE  Alone(t) /\ seen'[t] = Routed /\ ReadInv(t)'
  <1>1. pc'[t] = "idle"
    BY DEF Goto, TypeOK
  <1>2. ReadInv(t)'
    BY <1>1, ReadNothing DEF Reading
  <1> QED BY <1>2 DEF Alone, Goto, TypeOK

LEMMA FinishKnown ==
    ASSUME TypeOK, TypeOK', KnownInv, NEW t \in Txn, NEW p \in Record, Ahead(seen[t], p), Truth(p),
           Finish(t, p), UNCHANGED native
    PROVE  Onward
  <1>1. /\ Valid(file') /\ TrueRecord(file', session', input', log')
        /\ Ahead(file, file')
    BY CommitKnown DEF Finish
  <1>2. Alone(t) /\ seen'[t] = Routed /\ ReadInv(t)'
    BY RestAlone DEF Finish
  <1> QED BY <1>1, <1>2, StillForth, RanStill, RoutedKnown, AloneKnown DEF Onward, KnownInv

LEMMA FileStill ==
    ASSUME TypeOK, KnownInv, UNCHANGED <<file, native>>
    PROVE  /\ Valid(file') /\ TrueRecord(file', session', input', log') /\ Ahead(file, file')
           /\ Valid(file) /\ Truth(file) /\ RanInv' /\ Forth
  <1>1. Valid(file) /\ Truth(file) /\ RanInv
    BY DEF KnownInv
  <1>2. Ahead(file, file')
    BY SelfAhead DEF TypeOK
  <1> QED BY <1>1, <1>2, StillForth, RanStill DEF Truth, native

LEMMA BeginKnown ==
    ASSUME TypeOK, TypeOK', KnownInv, NEW t \in Txn, NEW place, NEW s, Begin(t, place, s),
           place \in Reading => place = "context" /\ "assess" \in log
    PROVE  Onward
  <1>1. UNCHANGED <<file, native>>
    BY DEF Begin
  <1>2. Alone(t) /\ seen'[t] = file /\ pc'[t] = place
    BY DEF Begin, Alone, Goto, TypeOK
  <1>3. ReadInv(t)'
    BY <1>1, <1>2 DEF ReadInv, Reading, native
  <1> QED BY <1>1, <1>2, <1>3, FileStill, AloneKnown DEF Onward, native, Truth

LEMMA StillKnown ==
    ASSUME TypeOK, TypeOK', KnownInv, NEW t \in Txn, Alone(t), seen'[t] = seen[t],
           UNCHANGED <<file, native>>, ReadInv(t)'
    PROVE  Onward
  <1>1. Valid(seen[t]) /\ Truth(seen[t])
    BY DEF KnownInv
  <1> QED BY <1>1, FileStill, AloneKnown DEF Onward, native, Truth

-----------------------------------------------------------------------------
(* Proposals of a turn.                                                      *)
LEMMA TurnProposed ==
    ASSUME TypeOK, KnownInv, NEW t \in Txn, NEW turn \in Turn,
           TurnAhead(Current(t), turn), TrueTurn(turn, input[slot[t]], slot[t] \in log)
    PROVE  /\ WithTurn(t, turn) \in Record
           /\ Ahead(seen[t], WithTurn(t, turn)) /\ Truth(WithTurn(t, turn))
  <1> DEFINE r == WithTurn(t, turn)
  <1>1. seen[t] \in Record /\ slot[t] \in Slot /\ Truth(seen[t])
    BY DEF TypeOK, KnownInv
  <1>2. /\ r \in Record /\ r[slot[t]] = turn
        /\ \A u \in Slot : u # slot[t] => r[u] = seen[t][u]
    BY <1>1, Proposal DEF WithTurn
  <1>3. \A f \in Flags : r[f] = seen[t][f]
    BY <1>1 DEF WithTurn, Record, Flags, Slot
  <1> HIDE DEF r
  <1>4. \A u \in Slot : TurnAhead(seen[t][u], seen[t][u])
    BY <1>1, SelfAhead DEF Ahead
  <1>5. Ahead(seen[t], r)
    BY <1>2, <1>3, <1>4 DEF Ahead, Current
  <1>6. r.sid = seen[t].sid /\ r.verified = seen[t].verified
    BY <1>3 DEF Flags
  <1>7. Truth(r)
    BY <1>1, <1>2, <1>6 DEF Truth, TrueRecord
  <1> QED BY <1>2, <1>5, <1>7 DEF r

(* Proposals of something else.                                              *)
LEMMA OtherProposed ==
    ASSUME TypeOK, KnownInv, NEW t \in Txn, NEW p \in Record, \A s \in Slot : p[s] = seen[t][s],
           \A f \in Flags : seen[t][f] => p[f], p.sid \/ p.verified => session = "open"
    PROVE  Ahead(seen[t], p) /\ Truth(p)
  <1>1. seen[t] \in Record /\ Truth(seen[t])
    BY DEF TypeOK, KnownInv
  <1>2. \A s \in Slot : TurnAhead(seen[t][s], seen[t][s])
    BY <1>1, SelfAhead DEF Ahead
  <1> QED BY <1>1, <1>2 DEF Ahead, Truth, TrueRecord

(* What the transaction has of its turn.                                     *)
LEMMA CurrentKnown ==
    ASSUME TypeOK, KnownInv, NEW t \in Txn
    PROVE  /\ Current(t) \in Turn /\ slot[t] \in Slot
           /\ TrueTurn(Current(t), input[slot[t]], slot[t] \in log)
           /\ Current(t) # NoTurn => ValidTurn(Current(t))
           /\ Read(t) \in Inputs /\ input[slot[t]] \in Inputs /\ outcome[t] \in Inputs
           /\ input[slot[t]] \in {"running", "stopping", "replied", "failed"} => slot[t] \in log
           /\ slot[t] \in log => input[slot[t]] \notin {"none", "sent", "pending"}
           /\ ReadInv(t)
  <1>1. seen[t] \in Record /\ slot[t] \in Slot /\ Truth(seen[t]) /\ Valid(seen[t]) /\ ReadInv(t)
    BY DEF TypeOK, KnownInv
  <1>2. Current(t) \in Turn
    BY TurnType
  <1>3. /\ TrueTurn(Current(t), input[slot[t]], slot[t] \in log)
        /\ Current(t) # NoTurn => ValidTurn(Current(t))
    BY <1>1 DEF Current, Truth, TrueRecord, Valid
  <1>4. /\ input[slot[t]] \in {"running", "stopping", "replied", "failed"} => slot[t] \in log
        /\ slot[t] \in log => input[slot[t]] \notin {"none", "sent", "pending"}
    BY <1>1 DEF KnownInv, RanInv
  <1>5. Read(t) \in Inputs /\ input[slot[t]] \in Inputs /\ outcome[t] \in Inputs
    BY <1>1 DEF TypeOK, Read
  <1> QED BY <1>1, <1>2, <1>3, <1>4, <1>5

-----------------------------------------------------------------------------
LEMMA EnteringKnown ==
    ASSUME TypeOK, TypeOK', KnownInv, NEW t \in Txn, Entering(t)
    PROVE  Onward
  <1>1. CASE Context(t)
    <2>1. "assess" \in log
      BY <1>1 DEF Context, Called, KnownInv, RanInv, Slot
    <2> QED BY <1>1, <2>1, BeginKnown DEF Context
  <1>2. CASE Result(t)
    BY <1>2, BeginKnown DEF Result, Reading
  <1>3. CASE Prepare(t)
    BY <1>3, BeginKnown DEF Prepare, Reading
  <1>4. CASE Reconcile(t)
    <2> DEFINE place == IF Fresh THEN "creating" ELSE "turn"
    <2>1. Begin(t, place, Latest)
      BY <1>4 DEF Reconcile
    <2>2. place \notin Reading
      BY DEF Reading
    <2> QED BY <2>1, <2>2, BeginKnown
  <1>5. CASE Start(t)
    BY <1>5, BeginKnown DEF Start, Reading
  <1>6. CASE Assess(t)
    <2> DEFINE place == IF file.assess = NoTurn THEN "selecting" ELSE "turn"
    <2>1. Begin(t, place, "assess")
      BY <1>6 DEF Assess
    <2>2. place \notin Reading
      BY DEF Reading
    <2> QED BY <2>1, <2>2, BeginKnown
  <1>7. CASE Inherit(t)
    BY <1>7, BeginKnown DEF Inherit, Reading
  <1>8. CASE Superseded(t)
    BY <1>8, BeginKnown DEF Superseded, Reading
  <1> QED BY <1>1, <1>2, <1>3, <1>4, <1>5, <1>6, <1>7, <1>8 DEF Entering

LEMMA Nothing ==
    ASSUME TypeOK, NEW t \in Txn, NEW place, place \notin Reading, Goto(t, place)
    PROVE  ReadInv(t)'
  <1>1. pc'[t] = place
    BY DEF Goto, TypeOK
  <1> QED BY <1>1, ReadNothing

LEMMA CreatingKnown ==
    ASSUME TypeOK, TypeOK', KnownInv, NEW t \in Txn, Creating(t)
    PROVE  Onward
  <1> seen[t] \in Record
    BY DEF TypeOK
  <1>o. seen[t].sid \/ seen[t].verified => session = "open"
    BY DEF KnownInv, Truth, TrueRecord
  <1>1. CASE Intend(t)
    <2> DEFINE p == [seen[t] EXCEPT !.creation = "intended"]
    <2>1. /\ p \in Record /\ (\A s \in Slot : p[s] = seen[t][s])
          /\ (\A f \in Flags : seen[t][f] => p[f])
          /\ p.sid = seen[t].sid /\ p.verified = seen[t].verified
      BY DEF Record, Slot, Flags
    <2> HIDE DEF p
    <2>2. p.sid \/ p.verified => session = "open"
      BY <2>1, <1>o
    <2>3. Ahead(seen[t], p) /\ Truth(p)
      BY <2>1, <2>2, OtherProposed
    <2>4. ReadInv(t)'
      BY <1>1, Nothing DEF Intend, Reading
    <2> QED BY <1>1, <2>1, <2>3, <2>4, SaveKnown DEF Intend, p
  <1>2. CASE AttemptCreate(t)
    <2> DEFINE p == [seen[t] EXCEPT !.creation = "attempted"]
    <2>1. /\ p \in Record /\ (\A s \in Slot : p[s] = seen[t][s])
          /\ (\A f \in Flags : seen[t][f] => p[f])
          /\ p.sid = seen[t].sid /\ p.verified = seen[t].verified
      BY DEF Record, Slot, Flags
    <2> HIDE DEF p
    <2>2. p.sid \/ p.verified => session = "open"
      BY <2>1, <1>o
    <2>3. Ahead(seen[t], p) /\ Truth(p)
      BY <2>1, <2>2, OtherProposed
    <2>4. ReadInv(t)'
      BY <1>2, Nothing DEF AttemptCreate, Reading
    <2> QED BY <1>2, <2>1, <2>3, <2>4, SaveKnown DEF AttemptCreate, p
  <1>3. CASE SubmitCreate(t)
    <2>1. Goto(t, "submitted") /\ UNCHANGED <<file, seen, local, input, log>>
      BY <1>3 DEF SubmitCreate
    <2>2. Alone(t) /\ seen'[t] = seen[t]
      BY <2>1 DEF Alone, Goto, local, TypeOK
    <2>3. ReadInv(t)'
      BY <2>1, Nothing DEF Reading
    <2>4. Forth
      BY <1>3, SinceSelf DEF SubmitCreate, Forth
    <2>5. RanInv'
      BY <2>1 DEF KnownInv, RanInv
    <2>6. /\ file \in Record /\ Valid(file) /\ Truth(file) /\ Valid(seen[t]) /\ Truth(seen[t])
      BY DEF TypeOK, KnownInv
    <2>7. /\ TrueRecord(file, session', input', log')
          /\ TrueRecord(seen[t], session', input', log')
      BY <2>4, <2>6, TruthForth
    <2> QED BY <2>1, <2>2, <2>3, <2>4, <2>5, <2>6, <2>7, AloneKnown, SelfAhead DEF Onward
  <1>4. CASE Created(t)
    <2> DEFINE p == [seen[t] EXCEPT !.sid = TRUE]
    <2>1. p \in Record /\ (\A s \in Slot : p[s] = seen[t][s]) /\ (\A f \in Flags : seen[t][f] => p[f])
      BY DEF Record, Slot, Flags
    <2>2. Ahead(seen[t], p) /\ Truth(p)
      BY <1>4, <2>1, OtherProposed DEF Created
    <2>3. ReadInv(t)'
      BY <1>4, Nothing DEF Created, Reading
    <2> QED BY <1>4, <2>1, <2>2, <2>3, SaveKnown DEF Created
  <1>5. CASE Attempts(t)
    <2>1. ReadInv(t)'
      BY <1>5, Nothing DEF Attempts, Reading
    <2> QED BY <1>5, <2>1, StillKnown DEF Attempts, Alone, Goto, local, TypeOK
  <1>6. CASE ReadBack(t)
    <2>1. pc'[t] = "read back" /\ session' = "open"
      BY <1>6 DEF ReadBack, Empty, Goto, native, TypeOK
    <2>2. ReadInv(t)'
      BY <2>1 DEF ReadInv
    <2> QED BY <1>6, <2>2, StillKnown DEF ReadBack, Alone, Goto, local, TypeOK
  <1>7. CASE Verify(t)
    <2> DEFINE p == [seen[t] EXCEPT !.sid = TRUE, !.effective = TRUE, !.verified = TRUE]
    <2>1. p \in Record /\ (\A s \in Slot : p[s] = seen[t][s]) /\ (\A f \in Flags : seen[t][f] => p[f])
      BY DEF Record, Slot, Flags
    <2>2. session = "open"
      BY <1>7 DEF Verify, KnownInv, ReadInv
    <2>3. Ahead(seen[t], p) /\ Truth(p)
      BY <2>1, <2>2, OtherProposed
    <2> QED BY <1>7, <2>1, <2>3, FinishKnown DEF Verify
  <1>8. CASE Disturbed(t)
    <2>1. ReadInv(t)'
      BY <1>8, Nothing DEF Disturbed, Reading
    <2> QED BY <1>8, <2>1, StillKnown DEF Disturbed, Alone, Goto, local, TypeOK
  <1>9. CASE Note(t)
    <2>1. /\ Noted(t) \in Record /\ (\A s \in Slot : Noted(t)[s] = seen[t][s])
          /\ (\A f \in Flags : seen[t][f] => Noted(t)[f])
          /\ Noted(t).sid = seen[t].sid /\ Noted(t).verified = seen[t].verified
      BY DEF Noted, Record, Slot, Flags
    <2>2. Ahead(seen[t], Noted(t)) /\ Truth(Noted(t))
      BY <2>1, <1>o, OtherProposed
    <2> QED BY <1>9, <2>1, <2>2, FinishKnown DEF Note
  <1> QED BY <1>1, <1>2, <1>3, <1>4, <1>5, <1>6, <1>7, <1>8, <1>9 DEF Creating

LEMMA SendingKnown ==
    ASSUME IInv, TypeOK', KnownInv, NEW t \in Txn, Sending(t)
    PROVE  Onward
  <1> TypeOK /\ seen[t] \in Record /\ slot[t] \in Slot
    BY DEF IInv, TypeOK
  <1>1. CASE Select(t)
    <2> DEFINE p == [seen[t] EXCEPT !.selected = TRUE]
    <2>1. /\ p \in Record /\ (\A s \in Slot : p[s] = seen[t][s])
          /\ (\A f \in Flags : seen[t][f] => p[f])
          /\ p.sid = seen[t].sid /\ p.verified = seen[t].verified
      BY DEF Record, Slot, Flags
    <2>2. Ahead(seen[t], p) /\ Truth(p)
      <3>1. seen[t].sid \/ seen[t].verified => session = "open"
        BY DEF KnownInv, Truth, TrueRecord
      <3> QED BY <2>1, <3>1, OtherProposed
    <2>3. ReadInv(t)'
      BY <1>1, Nothing DEF Select, Reading
    <2> QED BY <1>1, <2>1, <2>2, <2>3, SaveKnown DEF Select
  <1>2. CASE Retained(t)
    <2>1. ReadInv(t)'
      BY <1>2, Nothing DEF Retained, Reading
    <2> QED BY <1>2, <2>1, StillKnown DEF Retained, Alone, Goto, local, TypeOK
  <1>3. CASE Idle(t)
    <2>1. ReadInv(t)'
      BY <1>3, Nothing DEF Idle, Reading
    <2> QED BY <1>3, <2>1, StillKnown DEF Idle, Alone, Goto, TypeOK
  <1>4. CASE AttemptTurn(t)
    <2> DEFINE p == WithTurn(t, Attempted)
    <2>1. Current(t) = NoTurn
      BY <1>4, AttemptSaved DEF Current
    <2>2. TurnAhead(NoTurn, Attempted)
      BY RankValues DEF TurnAhead, NoTurn, Attempted
    <2>3. TrueTurn(Attempted, input[slot[t]], slot[t] \in log)
      BY DEF TrueTurn, NoTurn, Attempted
    <2>4. p \in Record /\ Ahead(seen[t], p) /\ Truth(p)
      BY <2>1, <2>2, <2>3, Fields, TurnProposed
    <2>5. file'[slot[t]] = Attempted
      BY <1>4, AttemptSaved
    <2>6. pc'[t] = "sending" /\ seen'[t] = file' /\ slot' = slot
      BY <1>4 DEF AttemptTurn, Save, Commit, Goto, local, TypeOK
    <2>7. Current(t)' = Attempted
      BY <2>5, <2>6 DEF Current
    <2>8. ReadInv(t)'
      BY <2>6, <2>7 DEF ReadInv
    <2> QED BY <1>4, <2>4, <2>8, SaveKnown DEF AttemptTurn
  <1>5. CASE Send(t)
    <2>1. Goto(t, "sent") /\ UNCHANGED <<file, seen, local, session, log>>
      BY <1>5 DEF Send
    <2>2. Alone(t) /\ seen'[t] = seen[t] /\ pc'[t] = "sent" /\ slot'[t] = slot[t]
      BY <2>1 DEF Alone, Goto, local, TypeOK
    <2>3. Current(t) = Attempted
      BY <1>5 DEF Send, KnownInv, ReadInv
    <2>4. ReadInv(t)'
      BY <2>2, <2>3 DEF ReadInv, Current
    <2>5. input' = [input EXCEPT ![slot[t]] = IF input[slot[t]] = "none" THEN "sent" ELSE input[slot[t]]]
      BY <1>5 DEF Send
    <2>6. \A s \in Slot : input'[s] = input[s] \/ (input[s] = "none" /\ input'[s] = "sent")
      BY <2>5 DEF TypeOK
    <2>7. Forth
      BY <2>1, <2>6, SinceSelf DEF Forth, Since
    <2>8. RanInv'
      BY <2>1, <2>6 DEF KnownInv, RanInv
    <2>9. /\ file \in Record /\ Valid(file) /\ Truth(file) /\ Valid(seen[t]) /\ Truth(seen[t])
      BY DEF TypeOK, KnownInv
    <2>10. /\ TrueRecord(file, session', input', log')
           /\ TrueRecord(seen[t], session', input', log')
      BY <2>7, <2>9, TruthForth
    <2> QED BY <2>1, <2>2, <2>4, <2>7, <2>8, <2>9, <2>10, AloneKnown, SelfAhead DEF Onward
  <1>6. CASE Accepted(t)
    <2> DEFINE turn == [Current(t) EXCEPT !.status = "accepted"]
    <2>1. Current(t) = Attempted
      BY <1>6 DEF Accepted, KnownInv, ReadInv
    <2>2. /\ turn.status = "accepted" /\ ~turn.event /\ ~turn.cancelled /\ ~turn.inactive
          /\ ~turn.failed /\ turn \in Turn
      BY <2>1, Fields DEF Attempted, NoTurn, Turn, Statuses
    <2>3. TurnAhead(Current(t), turn)
      BY <2>1, <2>2, RankValues DEF TurnAhead, Attempted, NoTurn
    <2>4. TrueTurn(turn, input[slot[t]], slot[t] \in log)
      BY <1>6, <2>2 DEF Accepted, TrueTurn
    <2>5. ReadInv(t)'
      BY <1>6, Nothing DEF Accepted, Reading
    <2>6. /\ WithTurn(t, turn) \in Record /\ Ahead(seen[t], WithTurn(t, turn))
          /\ Truth(WithTurn(t, turn))
      BY <2>2, <2>3, <2>4, TurnProposed
    <2> QED BY <1>6, <2>5, <2>6, SaveKnown DEF Accepted
  <1> QED BY <1>1, <1>2, <1>3, <1>4, <1>5, <1>6 DEF Sending

(* What t read says that the turn was stopped, or is about to be.            *)
LEMMA AbandonKnown ==
    ASSUME TypeOK, TypeOK', KnownInv, NEW t \in Txn, Abandon(t), UNCHANGED native,
           input[slot[t]] \in {"stopping", "stopped"}, Quiet(t) => input[slot[t]] = "stopped"
    PROVE  Onward
  <1> DEFINE turn == [Current(t) EXCEPT !.cancelled = TRUE, !.inactive = Quiet(t)]
  <1>1. /\ Current(t) \in Turn /\ TrueTurn(Current(t), input[slot[t]], slot[t] \in log)
    BY CurrentKnown
  <1>2. /\ turn \in Turn /\ turn.status = Current(t).status /\ turn.event = Current(t).event
        /\ turn.failed = Current(t).failed /\ turn.cancelled /\ turn.inactive = Quiet(t)
    BY <1>1 DEF Turn, Quiet
  <1> HIDE DEF turn
  <1>3. TurnAhead(Current(t), turn)
    BY <1>1, <1>2, RankType DEF TurnAhead, Turn
  <1>4. TrueTurn(turn, input[slot[t]], slot[t] \in log)
    BY <1>1, <1>2 DEF TrueTurn
  <1>5. /\ WithTurn(t, turn) \in Record /\ Ahead(seen[t], WithTurn(t, turn))
        /\ Truth(WithTurn(t, turn))
    BY <1>2, <1>3, <1>4, TurnProposed
  <1> QED BY <1>5, FinishKnown DEF Abandon, turn

(* The receipt, of a turn that is not complete.                              *)
LEMMA ReceiptKnown ==
    ASSUME TypeOK, TypeOK', KnownInv, NEW t \in Txn, NEW turn \in Turn, RecordReceipt(t, turn),
           TurnAhead(Current(t), turn), Read(t) \notin {"none", "sent", "stopping", "stopped"},
           TrueTurn([turn EXCEPT !.inactive = FALSE], input[slot[t]], slot[t] \in log)
    PROVE  Onward
  <1> DEFINE kept == [turn EXCEPT !.inactive = FALSE]
  <1>1. /\ kept \in Turn /\ kept.status = turn.status /\ kept.event = turn.event
        /\ kept.cancelled = turn.cancelled /\ kept.failed = turn.failed
    BY DEF Turn
  <1>2. TurnAhead(Current(t), kept)
    BY <1>1 DEF TurnAhead
  <1> HIDE DEF kept
  <1>3. /\ WithTurn(t, kept) \in Record /\ Ahead(seen[t], WithTurn(t, kept))
        /\ Truth(WithTurn(t, kept))
    BY <1>1, <1>2, TurnProposed DEF kept
  <1>4. pc[t] = "observed" /\ pc'[t] = "recorded" /\ UNCHANGED <<local, native>>
    BY DEF RecordReceipt, Goto, TypeOK
  <1>5. ReadInv(t)
    BY CurrentKnown
  <1>6. ReadInv(t)'
    BY <1>4, <1>5 DEF ReadInv, Read, local, native
  <1> QED BY <1>3, <1>6, SaveKnown DEF RecordReceipt, kept

LEMMA ReconcilingKnown ==
    ASSUME TypeOK, TypeOK', KnownInv, NEW t \in Txn, Reconciling(t)
    PROVE  Onward
  <1> DEFINE now == input[slot[t]]
             ran == slot[t] \in log
  <1>1. /\ Current(t) \in Turn /\ slot[t] \in Slot /\ TrueTurn(Current(t), now, ran)
        /\ Current(t) # NoTurn => ValidTurn(Current(t))
        /\ Read(t) \in Inputs /\ now \in Inputs /\ outcome[t] \in Inputs
        /\ now \in {"running", "stopping", "replied", "failed"} => ran
        /\ ran => now \notin {"none", "sent", "pending"}
        /\ ReadInv(t)
    BY CurrentKnown
  <1>2. CASE Observe(t)
    <2>1. /\ pc'[t] = "observed" /\ view'[t] = [state |-> now, busy |-> Busy, log |-> {}]
          /\ Alone(t) /\ seen'[t] = seen[t] /\ slot'[t] = slot[t] /\ UNCHANGED <<file, native>>
      BY <1>2 DEF Observe, Goto, Alone, TypeOK
    <2>2. Read(t)' = now /\ Current(t)' = Current(t) /\ (view'[t].busy <=> Busy)
      BY <2>1 DEF Read, Current
    <2>3. now \in {"running", "stopping"} => Busy
      BY <1>1 DEF Busy
    <2>4. Current(t).status # "completed"
      BY <1>2 DEF Observe
    <2>5. ReadInv(t)'
      <3>1. Since(Read(t)', input'[slot'[t]])
        BY <2>1, <2>2, SinceSelf DEF native
      <3>2. /\ Current(t).cancelled => now \in {"stopping", "stopped"}
            /\ Current(t).event => ran /\ now \notin {"none", "sent", "pending"}
        BY <1>1 DEF TrueTurn
      <3> QED BY <1>1, <2>1, <2>2, <2>3, <2>4, <3>1, <3>2 DEF ReadInv, native
    <2> QED BY <2>1, <2>5, StillKnown
  <1>3. CASE RecordCancelled(t)
    <2>1. Since(Read(t), now) /\ (Read(t) \in {"running", "stopping"} => view[t].busy)
      BY <1>1, <1>3 DEF RecordCancelled, ReadInv
    <2>2. Read(t) \in {"stopping", "stopped"}
      BY <1>1, <1>3 DEF RecordCancelled, Cancelled, ReadInv, Read
    <2>3. now \in {"stopping", "stopped"}
      BY <2>1, <2>2 DEF Since
    <2>4. Quiet(t) => now = "stopped"
      BY <2>1, <2>2 DEF Quiet, Since
    <2> QED BY <1>3, <2>3, <2>4, AbandonKnown DEF RecordCancelled
  <1>4. CASE RecordConsumed(t)
    <2> DEFINE turn == [Current(t) EXCEPT !.status = "consumed", !.event = TRUE]
    <2>1. /\ Since(Read(t), now) /\ Current(t).status # "completed"
          /\ Read(t) \in {"running", "replied", "failed"} => ran
          /\ Current(t).event => ran /\ Read(t) \notin {"none", "sent", "pending"}
      BY <1>1, <1>4 DEF RecordConsumed, RecordReceipt, ReadInv
    <2>2. Read(t) \notin {"stopping", "stopped"} /\ ~Current(t).cancelled
      BY <1>4 DEF RecordConsumed, RecordReceipt, Cancelled, Read
    <2>3. ran /\ Read(t) \notin {"none", "sent", "pending"}
      BY <1>4, <2>1 DEF RecordConsumed, Read
    <2>4. ~Current(t).failed
      BY <1>1, <2>1 DEF TrueTurn
    <2>5. /\ turn \in Turn /\ turn.status = "consumed" /\ turn.event
          /\ turn.cancelled = Current(t).cancelled /\ turn.failed = Current(t).failed
      BY <1>1 DEF Turn, Statuses
    <2>6. LET kept == [turn EXCEPT !.inactive = FALSE]
          IN  /\ kept.status = "consumed" /\ ~kept.cancelled /\ ~kept.failed /\ ~kept.inactive
      BY <1>1, <2>2, <2>4 DEF Turn
    <2>7. TurnAhead(Current(t), turn)
      <3>1. Current(t).status \in Statuses
        BY <1>1 DEF Turn
      <3>2. Rank[Current(t).status] <= Rank["consumed"]
        BY <3>1, <2>1, RankValues DEF Statuses
      <3> QED BY <2>5, <3>2 DEF TurnAhead
    <2>8. now \notin {"none", "sent"}
      BY <1>1, <2>3
    <2>9. TrueTurn([turn EXCEPT !.inactive = FALSE], now, ran)
      BY <2>3, <2>6, <2>8 DEF TrueTurn
    <2> QED BY <1>4, <2>2, <2>3, <2>5, <2>7, <2>9, ReceiptKnown DEF RecordConsumed
  <1>5. CASE RecordPending(t)
    <2> DEFINE turn == [Current(t) EXCEPT !.status = "accepted"]
    <2>1. /\ Since(Read(t), now) /\ Current(t).status # "completed"
          /\ Read(t) = "pending" /\ ~Current(t).event
      BY <1>1, <1>5 DEF RecordPending, RecordReceipt, ReadInv, Read
    <2>2. ~Current(t).cancelled /\ ~Current(t).failed
      BY <1>1, <1>5, <2>1 DEF RecordPending, RecordReceipt, Cancelled, TrueTurn
    <2>3. Current(t).status \in {"none", "attempted", "accepted"}
      <3>1. Current(t).status \in Statuses
        BY <1>1 DEF Turn
      <3>2. CASE Current(t) = NoTurn
        BY <3>2, Fields
      <3>3. CASE Current(t) # NoTurn
        BY <1>1, <2>1, <3>1, <3>3 DEF ValidTurn, Statuses
      <3> QED BY <3>2, <3>3
    <2>4. /\ turn \in Turn /\ turn.status = "accepted" /\ turn.event = Current(t).event
          /\ turn.cancelled = Current(t).cancelled /\ turn.failed = Current(t).failed
      BY <1>1 DEF Turn, Statuses
    <2>5. LET kept == [turn EXCEPT !.inactive = FALSE]
          IN  /\ kept.status = "accepted" /\ ~kept.event /\ ~kept.cancelled /\ ~kept.failed
              /\ ~kept.inactive
      BY <1>1, <2>1, <2>2 DEF Turn
    <2>6. Rank[Current(t).status] <= Rank["accepted"]
      BY <2>3, RankValues
    <2>7. TurnAhead(Current(t), turn)
      BY <2>4, <2>6 DEF TurnAhead
    <2>8. now \notin {"none", "sent"}
      BY <2>1 DEF Since
    <2>9. TrueTurn([turn EXCEPT !.inactive = FALSE], now, ran)
      BY <2>5, <2>8 DEF TrueTurn
    <2> QED BY <1>5, <2>1, <2>4, <2>7, <2>9, ReceiptKnown DEF RecordPending
  <1>6. CASE Wait(t)
    <2>1. /\ pc[t] = "recorded" /\ pc'[t] = "waited" /\ outcome'[t] = now
          /\ Alone(t) /\ seen'[t] = seen[t] /\ slot'[t] = slot[t] /\ view'[t] = view[t]
          /\ UNCHANGED <<file, native>>
      BY <1>6 DEF Wait, Goto, Alone, TypeOK
    <2>2. Since(outcome'[t], input'[slot'[t]])
      BY <2>1, SinceSelf DEF native
    <2>3. ReadInv(t)'
      BY <1>1, <2>1, <2>2 DEF ReadInv, Read, native
    <2> QED BY <2>1, <2>3, StillKnown
  <1>7. CASE Aborted(t)
    <2>1. /\ Since(Read(t), now) /\ Since(outcome[t], now)
          /\ Read(t) \in {"running", "stopping"} => view[t].busy
          /\ Read(t) \notin {"none", "sent", "stopping", "stopped"}
          /\ outcome[t] \in {"stopping", "stopped"}
      BY <1>1, <1>7 DEF Aborted, ReadInv
    <2>2. now \in {"stopping", "stopped"}
      BY <2>1 DEF Since
    <2>3. ~Quiet(t)
      <3> SUFFICES ASSUME Quiet(t) PROVE FALSE
        OBVIOUS
      <3>1. Read(t) \in {"replied", "failed"}
        BY <1>1, <2>1 DEF Quiet, Read, Inputs
      <3> QED BY <3>1, <2>1, <2>2 DEF Since
    <2> QED BY <1>7, <2>2, <2>3, AbandonKnown DEF Aborted
  <1>8. CASE Failed(t)
    <2> DEFINE turn == [Current(t) EXCEPT !.status = "completed", !.failed = TRUE]
    <2>1. Since(outcome[t], now) /\ outcome[t] = "failed"
      BY <1>1, <1>8 DEF Failed, ReadInv
    <2>2. now = "failed"
      BY <2>1 DEF Since
    <2>3. /\ turn \in Turn /\ turn.status = "completed" /\ turn.failed
          /\ turn.event = Current(t).event /\ turn.cancelled = Current(t).cancelled
          /\ turn.inactive = Current(t).inactive
      BY <1>1 DEF Turn, Statuses
    <2> HIDE DEF turn
    <2>4. TurnAhead(Current(t), turn)
      <3>1. Current(t).status \in Statuses
        BY <1>1 DEF Turn
      <3>2. Rank[Current(t).status] <= Rank["completed"]
        BY <3>1, RankValues DEF Statuses
      <3> QED BY <2>3, <3>2 DEF TurnAhead
    <2>5. TrueTurn(turn, now, ran)
      BY <1>1, <2>2, <2>3 DEF TrueTurn
    <2>6. /\ WithTurn(t, turn) \in Record /\ Ahead(seen[t], WithTurn(t, turn))
          /\ Truth(WithTurn(t, turn))
      BY <2>3, <2>4, <2>5, TurnProposed
    <2> QED BY <1>8, <2>6, FinishKnown DEF Failed, turn
  <1>9. CASE Completed(t)
    <2> DEFINE turn == [Current(t) EXCEPT !.status = "completed"]
    <2>1. /\ Since(outcome[t], now) /\ outcome[t] = "replied" /\ Current(t).status = "consumed"
      BY <1>1, <1>9 DEF Completed, ReadInv
    <2>2. now = "replied"
      BY <2>1 DEF Since
    <2>3. /\ turn \in Turn /\ turn.status = "completed" /\ turn.failed = Current(t).failed
          /\ turn.event = Current(t).event /\ turn.cancelled = Current(t).cancelled
          /\ turn.inactive = Current(t).inactive
      BY <1>1 DEF Turn, Statuses
    <2> HIDE DEF turn
    <2>4. TurnAhead(Current(t), turn)
      BY <2>1, <2>3, RankValues DEF TurnAhead
    <2>5. TrueTurn(turn, now, ran)
      BY <1>1, <2>1, <2>2, <2>3 DEF TrueTurn
    <2>6. /\ WithTurn(t, turn) \in Record /\ Ahead(seen[t], WithTurn(t, turn))
          /\ Truth(WithTurn(t, turn))
      BY <2>3, <2>4, <2>5, TurnProposed
    <2> QED BY <1>9, <2>6, FinishKnown DEF Completed, turn
  <1> QED BY <1>2, <1>3, <1>4, <1>5, <1>6, <1>7, <1>8, <1>9 DEF Reconciling

(* The assessment's own calls are made from its own run.                     *)
LEMMA ReportingKnown ==
    ASSUME TypeOK, TypeOK', KnownInv, NEW t \in Txn, Reporting(t)
    PROVE  Onward
  <1> DEFINE r == seen[t]
  <1>1. r \in Record /\ Truth(r)
    BY DEF TypeOK, KnownInv
  <1>2. CASE SaveContext(t)
    <2> DEFINE turn == [r.assess EXCEPT !.event = TRUE,
                          !.status = IF @ = "completed" THEN @ ELSE "consumed"]
               told == [r EXCEPT !.asked = TRUE, !.assess = turn]
    <2>1. told \in Record /\ turn \in Turn /\ Finish(t, told) /\ UNCHANGED native
      BY <1>1, <1>2, Reported DEF SaveContext
    <2>2. /\ told.first = r.first /\ told.assess = turn
          /\ (\A f \in Flags : r[f] => told[f])
          /\ told.sid = r.sid /\ told.verified = r.verified
      BY <1>1 DEF Record, Flags
    <2>3. "assess" \in log /\ input["assess"] \notin {"none", "sent"}
      BY <1>2 DEF SaveContext, KnownInv, ReadInv, RanInv, Slot
    <2>4. /\ turn.status = IF r.assess.status = "completed" THEN "completed" ELSE "consumed"
          /\ turn.event /\ turn.failed = r.assess.failed
          /\ turn.cancelled = r.assess.cancelled /\ turn.inactive = r.assess.inactive
      BY <1>1 DEF Record, Turn, Statuses
    <2> HIDE DEF told, turn
    <2>5. TrueTurn(r.assess, input["assess"], "assess" \in log)
      BY <1>1 DEF Truth, TrueRecord, Slot
    <2>6. TrueTurn(turn, input["assess"], "assess" \in log)
      BY <2>3, <2>4, <2>5 DEF TrueTurn
    <2>7. TurnAhead(r.assess, turn)
      <3>1. r.assess.status \in Statuses
        BY <1>1 DEF Record, Turn
      <3>2. Rank[r.assess.status] <= Rank[turn.status]
        BY <3>1, <2>4, RankValues DEF Statuses
      <3> QED BY <2>4, <3>2 DEF TurnAhead
    <2>8. TurnAhead(r.first, r.first)
      BY <1>1, SelfAhead DEF Ahead, Slot
    <2>9. Ahead(r, told)
      BY <2>2, <2>7, <2>8 DEF Ahead, Slot
    <2>10. Truth(told)
      BY <1>1, <2>2, <2>6 DEF Truth, TrueRecord, Slot
    <2> QED BY <2>1, <2>9, <2>10, FinishKnown
  <1>3. CASE SaveResult(t)
    <2> DEFINE p == [r EXCEPT !.result = TRUE]
    <2>1. /\ p \in Record /\ (\A s \in Slot : p[s] = r[s]) /\ (\A f \in Flags : r[f] => p[f])
          /\ p.sid = r.sid /\ p.verified = r.verified
      BY <1>1 DEF Record, Slot, Flags
    <2>2. p.sid \/ p.verified => session = "open"
      BY <1>1, <2>1 DEF Truth, TrueRecord
    <2>3. Ahead(r, p) /\ Truth(p)
      BY <2>1, <2>2, OtherProposed
    <2> QED BY <1>3, <2>1, <2>3, FinishKnown DEF SaveResult
  <1> QED BY <1>2, <1>3 DEF Reporting

LEMMA EndKnown ==
    ASSUME TypeOK, TypeOK', KnownInv, NEW t \in Txn, End(t)
    PROVE  Onward
  <1>1. Alone(t) /\ seen'[t] = Routed /\ ReadInv(t)'
    BY RestAlone DEF End
  <1>2. UNCHANGED <<file, native>>
    BY DEF End
  <1> QED BY <1>1, <1>2, FileStill, RoutedKnown, AloneKnown DEF Onward

(* Only the native session moves.                                            *)
LEMMA NativeKnown ==
    ASSUME TypeOK, TypeOK', KnownInv, Forth, RanInv', UNCHANGED <<file, pc, seen, local>>
    PROVE  Onward
  <1>1. file \in Record /\ Valid(file) /\ Truth(file)
    BY DEF TypeOK, KnownInv
  <1>2. TrueRecord(file, session', input', log') /\ Ahead(file, file')
    BY <1>1, TruthForth, SelfAhead
  <1>3. ASSUME NEW u \in Txn
        PROVE  (Valid(seen[u]) /\ Truth(seen[u]) /\ ReadInv(u))'
    <2>1. seen[u] \in Record /\ Valid(seen[u]) /\ Truth(seen[u]) /\ ReadInv(u)
      BY DEF TypeOK, KnownInv
    <2>2. TrueRecord(seen[u], session', input', log')
      BY <2>1, TruthForth
    <2>3. ReadInv(u)'
      BY <2>1, ReadForth DEF local
    <2> QED BY <2>1, <2>2, <2>3 DEF Truth
  <1> QED BY <1>1, <1>2, <1>3 DEF Onward, KnownInv, Truth

LEMMA GatewayKnown ==
    ASSUME TypeOK, TypeOK', KnownInv, NEW s \in Slot, Gateway(s)
    PROVE  Onward
  <1>1. /\ input \in [Slot -> Inputs] /\ RanInv /\ session' = session
        /\ UNCHANGED <<file, pc, seen, local>>
    BY DEF TypeOK, KnownInv, Gateway
  <1>2. \A u \in Slot : u # s => input'[u] = input[u]
    BY <1>1 DEF Gateway, Arrive, Run, Stop, Settle, Become
  <1>3. \/ input[s] = "sent" /\ input'[s] = "pending" /\ log' = log
        \/ input[s] = "pending" /\ input'[s] = "running" /\ log' = log \union {s}
        \/ input[s] = "pending" /\ input'[s] = "stopped" /\ log' = log
        \/ input[s] = "running" /\ input'[s] \in {"stopping", "replied", "failed"} /\ log' = log
        \/ input[s] = "stopping" /\ input'[s] = "stopped" /\ log' = log
    BY <1>1 DEF Gateway, Arrive, Run, Stop, Settle, Become
  <1>4. Forth
    <2>1. Since(input[s], input'[s]) /\ log \subseteq log'
      BY <1>3 DEF Since
    <2> QED BY <1>1, <1>2, <2>1, SinceSelf DEF Forth
  <1>5. RanInv'
    BY <1>1, <1>2, <1>3 DEF RanInv
  <1> QED BY <1>1, <1>4, <1>5, NativeKnown

LEMMA KnownInit == Init => KnownInv
  <1> SUFFICES ASSUME Init PROVE KnownInv
    OBVIOUS
  <1>1. RanInv
    BY DEF Init, RanInv
  <1>2. file = Routed /\ \A t \in Txn : seen[t] = Routed /\ pc[t] = "idle"
    BY DEF Init
  <1>3. \A t \in Txn : ReadInv(t)
    BY <1>2 DEF ReadInv
  <1> QED BY <1>1, <1>2, <1>3, RoutedKnown DEF KnownInv, Truth

LEMMA KnownStep == IInv /\ IInv' /\ KnownInv /\ [Next]_vars => Onward
  <1> SUFFICES ASSUME IInv, IInv', KnownInv, [Next]_vars PROVE Onward
    OBVIOUS
  <1>t. TypeOK /\ TypeOK'
    BY DEF IInv
  <1>1. ASSUME NEW t \in Txn, Step(t) PROVE Onward
    BY <1>t, <1>1, EnteringKnown, CreatingKnown, SendingKnown, ReconcilingKnown,
       ReportingKnown, EndKnown DEF Step
  <1>2. CASE Open
    <2>1. Forth /\ RanInv'
      BY <1>2, SinceSelf DEF Open, Forth, KnownInv, RanInv
    <2> QED BY <1>t, <1>2, <2>1, NativeKnown DEF Open
  <1>3. CASE Visit
    <2>1. Forth
      BY <1>3, SinceSelf DEF Visit, Forth
    <2>2. RanInv'
      <3>1. input' = input /\ \A s \in Slot : s \in log' <=> s \in log
        BY <1>3 DEF Visit, Slot
      <3> QED BY <3>1 DEF KnownInv, RanInv
    <2> QED BY <1>t, <1>3, <2>1, <2>2, NativeKnown DEF Visit
  <1>4. CASE UNCHANGED vars
    <2>1. Forth /\ RanInv'
      BY <1>4, StillForth, RanStill DEF vars, native, KnownInv
    <2> QED BY <1>t, <1>4, <2>1, NativeKnown DEF vars, local
  <1> QED BY <1>t, <1>1, <1>2, <1>3, <1>4, GatewayKnown DEF Next

THEOREM Known == Spec => []KnownInv
  <1>1. IInv /\ IInv' /\ KnownInv /\ [Next]_vars => KnownInv'
    BY KnownStep DEF Onward
  <1> QED BY <1>1, KnownInit, Inductive, PTL DEF Spec

LEMMA Truthful == IInv /\ KnownInv => Custody
  <1> SUFFICES ASSUME IInv, KnownInv PROVE Custody
    OBVIOUS
  <1>1. Truth(file) /\ file \in Record
    BY DEF KnownInv, IInv, TypeOK
  <1>2. \A x \in Statuses :
          Rank[x] >= Rank["accepted"] => x \in {"accepted", "consumed", "completed"}
    BY RankValues DEF Statuses
  <1>3. \A s \in Slot : file[s].status \in Statuses
    BY <1>1 DEF Record, Turn, Slot
  <1>4. file.sid \/ file.verified => session = "open"
    BY <1>1 DEF Truth, TrueRecord
  <1>5. ASSUME NEW s \in Slot
        PROVE  /\ Rank[file[s].status] >= Rank["accepted"] => input[s] \notin {"none", "sent"}
               /\ file[s].event => s \in log
               /\ file[s].status = "completed" =>
                    input[s] = IF file[s].failed THEN "failed" ELSE "replied"
               /\ file[s].inactive => input[s] = "stopped"
    <2>1. TrueTurn(file[s], input[s], s \in log)
      BY <1>1 DEF Truth, TrueRecord
    <2>2. Rank[file[s].status] >= Rank["accepted"] => input[s] \notin {"none", "sent"}
      BY <1>2, <1>3, <2>1 DEF TrueTurn
    <2> QED BY <2>1, <2>2 DEF TrueTurn
  <1> QED BY <1>4, <1>5 DEF Custody

(* Whatever the record says of the session and of its turns is so.           *)
THEOREM CustodyHolds == Spec => []Custody
  BY Truthful, Inductive, Known, PTL

(* An assessment is not submitted beside an investigation that may still run.  *)
THEOREM OneAfterTheOther == Spec => []Turnwise
  <1>1. IInv /\ KnownInv => Turnwise
    <2> SUFFICES ASSUME IInv, KnownInv, sends["first"] > 0, sends["assess"] > 0
                 PROVE  input["first"] \in {"replied", "failed"}
      BY DEF Turnwise
    <2>1. sends["first"] # 0 /\ sends["assess"] # 0
      <3>1. \A n : n = 0 => ~(n > 0)
        OBVIOUS
      <3> QED BY <3>1
    <2>2. file.first # NoTurn /\ file.assess # NoTurn
      BY <2>1, Fields DEF IInv, SendInv, Slot
    <2>3. file.first.status = "completed"
      BY <2>2 DEF KnownInv, Valid
    <2> QED BY <2>3 DEF KnownInv, Truth, TrueRecord, TrueTurn, Slot
  <1> QED BY <1>1, Inductive, Known, PTL

(* Nobody undoes what another recorded of a turn or of the session.          *)
THEOREM ProgressStays == Spec => ProgressKept
  <1>1. IInv /\ IInv' /\ KnownInv /\ [Next]_vars =>
          [/\ \A s \in Slot : /\ Rank[file[s].status] <= Rank[file'[s].status]
                              /\ file[s].event => file'[s].event
                              /\ file[s].cancelled => file'[s].cancelled
           /\ \A f \in Flags : file[f] => file'[f]]_vars
    BY KnownStep DEF Onward, Ahead, TurnAhead
  <1> QED BY <1>1, Inductive, Known, PTL DEF Spec, ProgressKept

-----------------------------------------------------------------------------
(* How the record, the native session and the submissions map to AttemptOnce.  *)
InFile == {e \in Effects : IF e = "session" THEN file.creation = "attempted"
                           ELSE file[e].status # "none"}
Submitted == [e \in Effects |-> IF e = "session" THEN creates ELSE sends[e]]
Effected == {e \in Effects : IF e = "session" THEN session = "open"
                             ELSE input[e] \notin {"none", "sent"}}
Learnt == {e \in Effects : IF e = "session" THEN file.sid
                           ELSE Rank[file[e].status] >= Rank["accepted"]}

LEMMA EffectsAre == Slot \subseteq Effects /\ "session" \in Effects /\ "session" \notin Slot
  BY DEF Effects, Slot

(* The gateway has of a session or an input only what was submitted.          *)
SubmittedInv ==
    /\ session # "none" => creates # 0
    /\ \A s \in Slot : input[s] # "none" => sends[s] # 0

(* What the steps do to the submissions and to their effects.                 *)
Unsubmitted == UNCHANGED history /\ Effected' = Effected
Submits(e) ==
    /\ Submitted[e] = 0 /\ Submitted' = [Submitted EXCEPT ![e] = 1] /\ e \in InFile
    /\ UNCHANGED file /\ Effected' = Effected
Happens(e) ==
    /\ Submitted[e] # 0 /\ UNCHANGED <<file, history>>
    /\ e \notin Effected /\ Effected' = Effected \union {e}

LEMMA CallerSubmits ==
    ASSUME IInv, SubmittedInv, NEW t \in Txn, Step(t)
    PROVE  /\ SubmittedInv'
           /\ Unsubmitted \/ \E e \in Effects : Submits(e)
  <1>1. CASE SubmitCreate(t)
    <2>1. creates = 0 /\ file.creation = "attempted" /\ creates' = 1
      BY <1>1 DEF SubmitCreate, IInv, CreateInv
    <2>2. UNCHANGED <<file, input, sends>> /\ session' = "requested" /\ session = "none"
      BY <1>1, <2>1 DEF SubmitCreate, SubmittedInv
    <2>3. Submits("session")
      BY <2>1, <2>2, EffectsAre DEF Submits, Submitted, InFile, Effected
    <2> QED BY <2>1, <2>2, <2>3, EffectsAre DEF SubmittedInv
  <1>2. CASE Send(t)
    <2> DEFINE s == slot[t]
    <2>1. s \in Slot /\ input \in [Slot -> Inputs] /\ sends \in [Slot -> Nat]
      BY DEF IInv, TypeOK
    <2>2. sends[s] = 0 /\ file[s].status # "none"
      BY <1>2 DEF Send, IInv, SendInv
    <2>3. /\ UNCHANGED <<file, session, creates>>
          /\ sends' = [sends EXCEPT ![s] = 1] /\ input' = [input EXCEPT ![s] = "sent"]
          /\ input[s] = "none"
      <3>1. input[s] = "none" /\ sends[s] + 1 = 1
        BY <2>1, <2>2 DEF SubmittedInv
      <3> QED BY <1>2, <3>1 DEF Send
    <2>4. Submits(s)
      BY <2>1, <2>2, <2>3, EffectsAre DEF Submits, Submitted, InFile, Effected
    <2> QED BY <2>1, <2>3, <2>4, EffectsAre DEF SubmittedInv
  <1>3. CASE ~SubmitCreate(t) /\ ~Send(t)
    <2>1. UNCHANGED <<history, session, input>>
      BY <1>3 DEF Step, Entering, Prepare, Reconcile, Start, Assess, Inherit, Superseded, Context,
         Result, Begin, Creating, Intend, AttemptCreate, Created, Attempts, ReadBack, Verify,
         Disturbed, Note, Sending, Select, Retained, Idle, AttemptTurn, Accepted, Reconciling,
         Observe, RecordCancelled, RecordConsumed, RecordPending, RecordReceipt, Wait, Aborted,
         Failed, Completed, Reporting, SaveContext, SaveResult, End, native, history
    <2> QED BY <2>1 DEF SubmittedInv, Unsubmitted, Effected, history
  <1> QED BY <1>1, <1>2, <1>3

LEMMA NativeHappens ==
    ASSUME IInv, SubmittedInv, Open \/ Visit \/ \E s \in Slot : Gateway(s)
    PROVE  /\ SubmittedInv'
           /\ Unsubmitted \/ \E e \in Effects : Happens(e)
  <1>1. CASE Open
    <2>1. /\ UNCHANGED <<file, input, creates, sends>> /\ session = "requested" /\ session' = "open"
          /\ creates # 0
      BY <1>1 DEF Open, history, SubmittedInv
    <2>2. Happens("session")
      BY <2>1, EffectsAre DEF Happens, Submitted, Effected, history
    <2> QED BY <2>1, <2>2, EffectsAre DEF SubmittedInv
  <1>2. CASE Visit
    BY <1>2 DEF Visit, SubmittedInv, Unsubmitted, Effected, history
  <1>3. ASSUME NEW s \in Slot, Gateway(s)
        PROVE  /\ SubmittedInv'
               /\ Unsubmitted \/ \E e \in Effects : Happens(e)
    <2>1. UNCHANGED <<file, session, history>> /\ input \in [Slot -> Inputs]
      BY <1>3 DEF Gateway, IInv, TypeOK
    <2>2. \E state \in Inputs \ {"none", "sent"} :
            input[s] # "none" /\ input' = [input EXCEPT ![s] = state]
      BY <1>3 DEF Gateway, Arrive, Run, Stop, Settle, Become, Inputs
    <2>3. PICK state \in Inputs \ {"none", "sent"} :
            input[s] # "none" /\ input' = [input EXCEPT ![s] = state]
      BY <2>2
    <2>4. SubmittedInv' /\ sends[s] # 0
      BY <2>1, <2>3 DEF SubmittedInv, history
    <2>5. CASE input[s] = "sent"
      BY <2>1, <2>3, <2>4, <2>5, EffectsAre DEF Happens, Submitted, Effected
    <2>6. CASE input[s] # "sent"
      <3>1. \A e \in Slot : (input'[e] \notin {"none", "sent"}) = (input[e] \notin {"none", "sent"})
        BY <2>1, <2>3, <2>6
      <3>2. \A e \in Effects : e \in Effected' <=> e \in Effected
        BY <2>1, <3>1 DEF Effected, Effects
      <3>3. Effected \subseteq Effects /\ Effected' \subseteq Effects
        BY DEF Effected
      <3> QED BY <2>1, <3>2, <3>3 DEF Unsubmitted
    <2> QED BY <2>4, <2>5, <2>6, EffectsAre
  <1> QED BY <1>1, <1>2, <1>3

LEMMA SubmitsStep ==
    ASSUME IInv, SubmittedInv, [Next]_vars
    PROVE  /\ SubmittedInv'
           /\ Unsubmitted \/ \E e \in Effects : Submits(e) \/ Happens(e)
  <1>1. CASE UNCHANGED vars
    BY <1>1 DEF vars, SubmittedInv, Unsubmitted, Effected, history
  <1> QED BY <1>1, CallerSubmits, NativeHappens DEF Next

LEMMA AttemptsInit == Init => A!Init /\ SubmittedInv
  <1> SUFFICES ASSUME Init PROVE A!Init /\ SubmittedInv
    OBVIOUS
  <1>1. /\ file.creation = "none" /\ ~file.sid /\ session = "none" /\ creates = 0
        /\ \A s \in Slot : file[s] = NoTurn /\ input[s] = "none" /\ sends[s] = 0
    BY DEF Init, Routed, Slot
  <1>2. ~(Rank["none"] >= Rank["accepted"])
    BY RankValues
  <1>3. InFile = {} /\ Effected = {} /\ Learnt = {} /\ Submitted = [e \in Effects |-> 0]
    BY <1>1, <1>2, EffectsAre, Fields DEF InFile, Effected, Learnt, Submitted, Effects
  <1> QED BY <1>1, <1>3 DEF A!Init, InFile, Effected, Learnt, Submitted, SubmittedInv

LEMMA AttemptsStep ==
    ASSUME IInv, IInv', KnownInv, Custody', SubmittedInv, [Next]_vars
    PROVE  [A!Next]_(A!vars)
  <1>1. CASE Unsubmitted
    <2>1. \A e \in Effects : Submitted[e] # 0 => (e \in InFile <=> e \in InFile')
      BY <1>1, EffectsAre DEF IInv, CreateInv, SendInv, Submitted, InFile, Effects, Unsubmitted,
         history
    <2>2. Learnt \subseteq Learnt'
      <3>1. Ahead(file, file')
        BY KnownStep DEF Onward
      <3>2. \A s \in Slot : file[s].status \in Statuses /\ file'[s].status \in Statuses
        BY DEF IInv, TypeOK, Record, Turn, Slot
      <3>3. ASSUME NEW e \in Learnt PROVE e \in Learnt'
        <4>1. CASE e = "session"
          BY <4>1, <3>1 DEF Learnt, Ahead, Flags
        <4>2. CASE e \in Slot
          <5>1. Rank[file[e].status] <= Rank[file'[e].status]
            BY <4>2, <3>1 DEF Ahead, TurnAhead
          <5>2. Rank[file[e].status] >= Rank["accepted"]
            BY <4>2, <3>3, EffectsAre DEF Learnt
          <5>3. Rank[file'[e].status] >= Rank["accepted"]
            <6>1. Rank[file[e].status] \in Nat /\ Rank[file'[e].status] \in Nat
              BY <3>2, <4>2, RankType
            <6> QED BY <5>1, <5>2, <6>1, RankValues
          <5> QED BY <5>3, <4>2, EffectsAre DEF Learnt
        <4> QED BY <4>1, <4>2, <3>3 DEF Effects, Learnt
      <3> QED BY <3>3
    <2>3. Learnt' \subseteq Effected
      <3>1. Learnt' \subseteq Effected'
        <4>1. Custody'
          OBVIOUS
        <4> QED BY <4>1, EffectsAre DEF Custody, Learnt, Effected, Effects
      <3> QED BY <3>1, <1>1 DEF Unsubmitted
    <2>4. InFile' \subseteq Effects /\ UNCHANGED <<Submitted, Effected>>
      BY <1>1 DEF InFile, Unsubmitted, Submitted, history
    <2>5. A!Save
      BY <2>1, <2>2, <2>3, <2>4 DEF A!Save, InFile, Submitted, Effected, Learnt
    <2> QED BY <2>5 DEF A!Next
  <1>2. ASSUME NEW e \in Effects, Submits(e) PROVE A!Submit(e)
    <2>1. UNCHANGED <<InFile, Learnt>>
      BY <1>2 DEF Submits, InFile, Learnt
    <2> QED BY <1>2, <2>1 DEF Submits, A!Submit, InFile, Submitted, Effected, Learnt
  <1>3. ASSUME NEW e \in Effects, Happens(e) PROVE A!Happen(e)
    <2>1. UNCHANGED <<InFile, Learnt, Submitted>>
      BY <1>3 DEF Happens, InFile, Learnt, Submitted, history
    <2> QED BY <1>3, <2>1 DEF Happens, A!Happen, InFile, Submitted, Effected, Learnt
  <1> QED BY <1>1, <1>2, <1>3, SubmitsStep DEF A!Next

(* Creating the session and submitting its turns implements AttemptOnce, for   *)
(* any number of callers: each is attempted in the journal before it is        *)
(* submitted, submitted once, and recorded as done only when it is.            *)
THEOREM AttemptsOnce == Spec => ImplementsAttempts
  <1>1. IInv /\ SubmittedInv /\ [Next]_vars => SubmittedInv'
    BY SubmitsStep
  <1>2. IInv /\ IInv' /\ KnownInv /\ Custody' /\ SubmittedInv /\ [Next]_vars =>
          [A!Next]_(A!vars)
    BY AttemptsStep
  <1> QED
    BY <1>1, <1>2, AttemptsInit, Inductive, Known, CustodyHolds, PTL DEF Spec, ImplementsAttempts, A!Spec
-----------------------------------------------------------------------------
(* Why next can be refused the save that notes a session in use.  A transaction *)
(* finds the session of a superseded intent disturbed when a person wrote in it  *)
(* or a turn was attempted; in the latter case the record was verified since it   *)
(* was read, or before.                                                         *)
Underway == \E s \in Slot : file[s].status # "none"
Stirred == \A t \in Txn : pc[t] = "disturbed" => "person" \in log \/ Underway

LEMMA LogGrows == IInv /\ [Next]_vars => log \subseteq log'
  <1> SUFFICES ASSUME IInv, [Next]_vars PROVE log \subseteq log'
    OBVIOUS
  <1>1. ASSUME NEW t \in Txn, Step(t) PROVE UNCHANGED log
    BY <1>1 DEF Step, Entering, Prepare, Reconcile, Start, Assess, Inherit, Superseded, Context,
       Result, Begin, Creating, Intend, AttemptCreate, SubmitCreate, Created, Attempts, ReadBack,
       Verify, Disturbed, Note, Sending, Select, Retained, Idle, AttemptTurn, Send, Accepted,
       Reconciling, Observe, RecordCancelled, RecordConsumed, RecordPending, RecordReceipt, Wait,
       Aborted, Failed, Completed, Reporting, SaveContext, SaveResult, End, native
  <1>2. ASSUME NEW s \in Slot, Gateway(s) PROVE log \subseteq log'
    BY <1>2 DEF Gateway, Arrive, Run, Stop, Settle
  <1>3. CASE Open \/ Visit \/ UNCHANGED vars
    BY <1>3 DEF Open, Visit, vars
  <1> QED BY <1>1, <1>2, <1>3 DEF Next

LEMMA DisturbedOnly ==
    ASSUME TypeOK, [Next]_vars, NEW u \in Txn, pc'[u] = "disturbed", pc[u] # "disturbed"
    PROVE  Disturbed(u)
  <1>0. pc \in [Txn -> Places]
    BY DEF TypeOK
  <1>1. ASSUME NEW t \in Txn, Entering(t) PROVE FALSE
    BY <1>0, <1>1 DEF Entering, Prepare, Reconcile, Start, Assess, Inherit, Superseded, Context,
       Result, Begin, Goto
  <1>2. ASSUME NEW t \in Txn, Creating(t), ~Disturbed(t) PROVE FALSE
    BY <1>0, <1>2 DEF Creating, Intend, AttemptCreate, SubmitCreate, Created, Attempts, ReadBack,
       Verify, Note, Finish, Goto
  <1>3. ASSUME NEW t \in Txn, Disturbed(t) PROVE u = t
    BY <1>0, <1>3 DEF Disturbed, Goto
  <1>4. ASSUME NEW t \in Txn, Sending(t) PROVE FALSE
    BY <1>0, <1>4 DEF Sending, Select, Retained, Idle, AttemptTurn, Send, Accepted, Finish, Goto
  <1>5. ASSUME NEW t \in Txn, Reconciling(t) PROVE FALSE
    BY <1>0, <1>5 DEF Reconciling, Observe, RecordCancelled, RecordConsumed, RecordPending,
       RecordReceipt, Wait, Aborted, Abandon, Failed, Completed, Finish, Goto
  <1>6. ASSUME NEW t \in Txn, Reporting(t) \/ End(t) PROVE FALSE
    BY <1>0, <1>6 DEF Reporting, SaveContext, SaveResult, End, Finish, Goto
  <1>7. ASSUME Open \/ Visit \/ (\E s \in Slot : Gateway(s)) \/ UNCHANGED vars PROVE FALSE
    BY <1>7 DEF Open, Visit, Gateway, vars
  <1> QED BY <1>1, <1>2, <1>3, <1>4, <1>5, <1>6, <1>7 DEF Next, Step

LEMMA StirredStep ==
    ASSUME IInv, IInv', KnownInv, SubmittedInv, Stirred, [Next]_vars
    PROVE  Stirred'
  <1> SUFFICES ASSUME NEW u \in Txn, pc'[u] = "disturbed"
               PROVE  "person" \in log' \/ Underway'
    BY DEF Stirred
  <1>1. "person" \in log => "person" \in log'
    BY LogGrows
  <1>2. CASE pc[u] = "disturbed" /\ Underway
    <2>1. PICK s \in Slot : file[s].status # "none"
      BY <1>2 DEF Underway
    <2>2. /\ file[s].status \in Statuses /\ file'[s].status \in Statuses
          /\ Rank[file[s].status] <= Rank[file'[s].status]
      BY KnownStep DEF IInv, TypeOK, Record, Turn, Slot, Onward, Ahead, TurnAhead
    <2>3. file'[s].status # "none"
      <3>1. Rank[file[s].status] \in Nat \ {0}
        BY <2>1, <2>2, RankValues DEF Statuses
      <3>2. Rank[file'[s].status] # 0
        BY <2>2, <3>1, RankType
      <3> QED BY <3>2, RankValues
    <2> QED BY <2>3 DEF Underway
  <1>3. CASE pc[u] # "disturbed" /\ "person" \notin log
    <2>1. Disturbed(u)
      BY <1>3, DisturbedOnly DEF IInv
    <2>2. PICK s \in Slot : s \in log \/ input[s] \in {"running", "stopping", "pending"}
      BY <1>3, <2>1 DEF Disturbed, Empty, Busy, Pending, IInv, TypeOK, Author
    <2>3. sends[s] # 0
      BY <2>2 DEF KnownInv, RanInv, SubmittedInv
    <2>4. file[s].status # "none" /\ UNCHANGED file
      BY <2>1, <2>3 DEF IInv, SendInv, Disturbed
    <2> QED BY <2>4 DEF Underway
  <1> QED BY <1>1, <1>2, <1>3 DEF Stirred

(* The finding, bounded: next can be refused that save only when a person wrote  *)
(* in the session.  When it was a turn that it found there, the record either    *)
(* had its settings verified already, so that nothing is to be saved, or was      *)
(* verified meanwhile, which is a conflict.                                     *)
THEOREM OnlyPeopleStrand == Spec => []("person" \notin log => GoesOn)
  <1>1. Init => Stirred
    BY DEF Init, Stirred
  <1>2. IInv /\ KnownInv /\ Stirred => ("person" \notin log => GoesOn)
    <2> SUFFICES ASSUME IInv, KnownInv, Stirred, "person" \notin log,
                        NEW t \in Txn, pc[t] = "disturbed",
                        ~Conflicting(seen[t], Noted(t), file)
                 PROVE  Valid(Merged(t, Noted(t)))
      BY DEF GoesOn
    <2>1. file \in Record /\ seen[t] \in Record /\ Valid(file) /\ Valid(seen[t])
      BY DEF IInv, TypeOK, KnownInv
    <2>2. file.verified /\ file.effective
      <3>1. PICK s \in Slot : file[s].status # "none"
        BY DEF Stirred, Underway
      <3>2. file[s] # NoTurn
        BY <3>1, Fields
      <3> QED BY <2>1, <3>2 DEF Valid
    <2>3. Noted(t).effective /\ Noted(t) \in Record
      BY <2>1 DEF Noted, Record
    <2>4. seen[t].effective
      <3>1. Noted(t) # seen[t] => SameProtected(seen[t], file)
        BY DEF Conflicting
      <3>2. CASE Noted(t) = seen[t]
        BY <2>3, <3>2
      <3>3. CASE Noted(t) # seen[t]
        BY <2>2, <3>1, <3>3 DEF SameProtected
      <3> QED BY <3>2, <3>3
    <2>5. Noted(t) = seen[t]
      BY <2>1, <2>4 DEF Noted, Record
    <2>6. Merged(t, Noted(t)) = file
      BY <2>1, <2>5, Fields DEF Merged, Merge, MergeTurn, MergeFlag, Record, Slot
    <2> QED BY <2>1, <2>6
  <1>3. IInv /\ IInv' /\ KnownInv /\ SubmittedInv /\ Stirred /\ [Next]_vars => Stirred'
    BY StirredStep
  <1>4. Spec => []SubmittedInv
    <2>1. IInv /\ SubmittedInv /\ [Next]_vars => SubmittedInv'
      BY SubmitsStep
    <2> QED BY <2>1, AttemptsInit, Inductive, PTL DEF Spec
  <1> QED BY <1>1, <1>2, <1>3, <1>4, Inductive, Known, PTL DEF Spec
=============================================================================
