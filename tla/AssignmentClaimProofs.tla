----------------------- MODULE AssignmentClaimProofs -----------------------
(* Proofs about AssignmentClaim, for any number of installations, passes    *)
(* and comments.                                                            *)
EXTENDS AssignmentClaim, FiniteSetTheorems, TLAPS

(* Every reachable state is well typed.                                    *)
LEMMA TypeInit == Init => TypeOK
  BY ClaimAssumption DEF Init, TypeOK, Identity, NoCall

LEMMA TypeNext == TypeOK /\ [Next]_vars => TypeOK'
  <1> SUFFICES ASSUME TypeOK, [Next]_vars PROVE TypeOK'
    OBVIOUS
  <1> USE ClaimAssumption
      DEF TypeOK, github, store, own, recovery, told, Goto, Forget, Register
  <1>1. ASSUME NEW i \in Inst, Call(i) PROVE TypeOK'
    <2>1. CASE Look(i) BY <2>1 DEF Look
    <2>2. CASE Defer(i) BY <2>2, SMTT(20) DEF Defer
    <2>3. CASE Claim(i) BY <2>3 DEF Claim
    <2>4. CASE Create(i)
      <3>1. Me(i) \in Identity
        BY DEF Me, Identity
      <3>2. author' \in [1..last' -> Identity]
        BY <2>4, <3>1 DEF Create
      <3>3. last' = last + 1 /\ last \in Nat
        BY <2>4 DEF Create
      <3>4. last' \in Nat /\ last' \in 1..last' /\ 1..last \subseteq 1..last'
        BY <3>3
      <3>5. live' \subseteq 1..last' /\ accepted' \subseteq 1..last'
        BY <2>4, <3>4 DEF Create
      <3>6. comment' \in [Inst -> 0..last'] /\ winner' \in [Inst -> 0..last']
        BY <2>4, <3>3 DEF Create
      <3>7. recent' \in [Inst -> SUBSET (1..last')]
        BY <2>4, <3>4 DEF Create
      <3>8. view' \in [Inst -> SUBSET (1..last')]
        BY <2>4, <3>4 DEF Create
      <3>9. /\ UNCHANGED <<assigned, gen, registered, made, attempted, cleanup, receipt>>
            /\ UNCHANGED <<reserved, successor, first, owner, other, local>>
        BY <2>4 DEF Create
      <3>11. local' \in [Inst -> [at : {"none", "asked", "verified", "told"},
                                  sees : SUBSET (1..last'), claimed : BOOLEAN]]
        BY <3>4, <3>9
      <3>10. pc' \in [Inst -> {"idle", "looked", "creating", "created", "elected",
                               "removing", "removed", "accepting"}]
        BY <2>4 DEF Create
      <3> QED BY <3>2, <3>4, <3>5, <3>6, <3>7, <3>8, <3>9, <3>10, <3>11
    <2>5. CASE Created(i) BY <2>5, SMTT(20) DEF Created
    <2>6. CASE Adopt(i) BY <2>6 DEF Adopt, Earliest
    <2>7. CASE Elect(i) BY <2>7 DEF Elect, Earliest
    <2>8. CASE Concede(i) BY <2>8 DEF Concede
    <2>9. CASE Remove(i)
      <3>1. live' \subseteq 1..last /\ last' = last
        BY <2>9 DEF Remove
      <3>2. pc' \in [Inst -> {"idle", "looked", "creating", "created", "elected",
                              "removing", "removed", "accepting"}]
        BY <2>9 DEF Remove
      <3>3. /\ UNCHANGED <<author, accepted, assigned, gen, registered, made, attempted, comment>>
            /\ UNCHANGED <<winner, cleanup, receipt, reserved, successor, first, recent, view>>
            /\ UNCHANGED <<owner, other, local>>
        BY <2>9 DEF Remove
      <3> QED BY <3>1, <3>2, <3>3
    <2>10. CASE Removed(i) BY <2>10 DEF Removed
    <2>11. CASE Own(i) BY <2>11 DEF Own
    <2>12. CASE Stop(i) BY <2>12 DEF Stop
    <2>13. CASE Announce(i) BY <2>13 DEF Announce, Earliest
    <2>14. ASSUME NEW r \in Receipt, Accept(i, r) PROVE TypeOK'
      BY <2>14 DEF Accept
    <2> QED
      BY <1>1, <2>1, <2>2, <2>3, <2>4, <2>5, <2>6, <2>7, <2>8, <2>9, <2>10, <2>11,
         <2>12, <2>13, <2>14 DEF Call
  <1>2. ASSUME NEW i \in Inst, NewPass(i) PROVE TypeOK'
    BY <1>2 DEF NewPass
  <1>8. ASSUME NEW i \in Inst, LocalCall(i) PROVE TypeOK'
    <2>1. UNCHANGED <<github, store, first, recent, pc, view, owner, other>>
      BY <1>8 DEF LocalCall, AskLocal, VerifyLocal, StartLocal, StopLocal
    <2>2. live \ recent[i] \in SUBSET (1..last) /\ Claimed(i) \in BOOLEAN
      BY DEF Claimed
    <2>3. local' \in [Inst -> [at : {"none", "asked", "verified", "told"},
                               sees : SUBSET (1..last), claimed : BOOLEAN]]
      <3> DEFINE Calls == [at : {"none", "asked", "verified", "told"},
                           sees : SUBSET (1..last), claimed : BOOLEAN]
      <3>1. CASE AskLocal(i)
        <4> DEFINE call == [at |-> "asked", sees |-> live \ recent[i], claimed |-> Claimed(i)]
        <4>1. call \in Calls
          BY <2>2, Zenon
        <4>2. local' = [local EXCEPT ![i] = call]
          BY <3>1, Zenon DEF AskLocal
        <4> HIDE DEF call
        <4> QED BY <4>1, <4>2, Zenon
      <3>2. CASE VerifyLocal(i)
        <4>1. local[i] \in Calls
          BY Zenon
        <4>2. [local[i] EXCEPT !.at = "verified"] \in Calls
          BY <4>1
        <4>3. local' = [local EXCEPT ![i] = [local[i] EXCEPT !.at = "verified"]]
          BY <3>2, Zenon DEF VerifyLocal
        <4> QED BY <4>2, <4>3, Zenon
      <3>3. CASE StartLocal(i)
        <4>1. local[i] \in Calls
          BY Zenon
        <4>2. [local[i] EXCEPT !.at = "told", !.sees = {}] \in Calls
          BY <4>1
        <4>3. local' = [local EXCEPT ![i] = [local[i] EXCEPT !.at = "told", !.sees = {}]]
          BY <3>3, Zenon DEF StartLocal
        <4> QED BY <4>2, <4>3, Zenon
      <3>4. CASE StopLocal(i) BY <3>4 DEF StopLocal, NoCall
      <3> QED BY <1>8, <3>1, <3>2, <3>3, <3>4 DEF LocalCall
    <2> QED BY <2>1, <2>3
  <1>7. ASSUME NEW i \in Inst, Rotate(i) PROVE TypeOK'
    <2>1. gen[i] \in Nat /\ gen[i] + 1 \in 0..MaxRotations
      BY <1>7 DEF Rotate
    <2> QED BY <1>7, <2>1 DEF Rotate
  <1>3. ASSUME NEW i \in Inst, Reserve(i) PROVE TypeOK'
    BY <1>3 DEF Reserve
  <1>4. ASSUME NEW i \in Inst, NEW r \in Receipt, Transfer(i, r) PROVE TypeOK'
    BY <1>4 DEF Transfer
  <1>5. CASE Unassign \/ Tamper
    BY <1>5 DEF Unassign, Tamper
  <1>6. CASE UNCHANGED vars
    BY <1>6 DEF vars
  <1> QED BY <1>1, <1>2, <1>3, <1>4, <1>5, <1>6, <1>7, <1>8 DEF Next

THEOREM TypeCorrect == Spec => []TypeOK
  BY TypeInit, TypeNext, PTL DEF Spec
-----------------------------------------------------------------------------
(* Who has a comment has a record of the attempt, and is no longer creating  *)
(* one; so a comment is posted only by who has none.                         *)
Posted ==
    \A c \in 1..last :
        /\ author[c].inst \in registered
        /\ attempted[author[c].inst]
        /\ pc[author[c].inst] # "creating"
Known ==
    \A i \in Inst :
        comment[i] # 0 => author[comment[i]].inst = i /\ i \in registered /\ attempted[i]
Creating ==
    \A i \in Inst :
        pc[i] \in {"creating", "created"} => i \in registered /\ attempted[i]
CommentInv == Posted /\ Known /\ Creating /\ OneComment

LEMMA CommentInit == Init => CommentInv
  BY DEF Init, CommentInv, Posted, Known, Creating, OneComment

(* Most steps leave comments and records alone and create nothing.          *)
Quiet ==
    /\ UNCHANGED <<last, author, registered, attempted, comment>>
    /\ \A j \in Inst : pc'[j] \in {"creating", "created"} => pc'[j] = pc[j]

LEMMA Typing ==
    TypeOK => /\ \A c \in 1..last : author[c].inst \in Inst
              /\ \A i \in Inst : comment[i] = 0 \/ comment[i] \in 1..last
              /\ \A i \in Inst : attempted[i] \in BOOLEAN
  BY DEF TypeOK, Identity

LEMMA QuietKeeps == CommentInv /\ TypeOK /\ Quiet => CommentInv'
  <1> SUFFICES ASSUME CommentInv, TypeOK, Quiet PROVE CommentInv'
    OBVIOUS
  <1>1. Posted' BY Typing DEF Quiet, CommentInv, Posted
  <1>2. Known' BY DEF Quiet, CommentInv, Known
  <1>3. Creating' BY DEF Quiet, CommentInv, Creating
  <1>4. OneComment' BY DEF Quiet, CommentInv, OneComment
  <1> QED BY <1>1, <1>2, <1>3, <1>4 DEF CommentInv

LEMMA QuietSteps ==
    ASSUME TypeOK, NEW i \in Inst,
           \/ Look(i) \/ Elect(i) \/ Concede(i) \/ Remove(i) \/ Removed(i) \/ Own(i)
           \/ Stop(i) \/ Announce(i) \/ (\E r \in Receipt : Accept(i, r))
           \/ LocalCall(i) \/ NewPass(i) \/ Rotate(i) \/ Reserve(i)
           \/ (\E r \in Receipt : Transfer(i, r))
    PROVE  Quiet
  <1> USE DEF TypeOK, Quiet, Goto, github, store, own, recovery
  <1>1. CASE Look(i) BY <1>1 DEF Look
  <1>2. CASE Elect(i) BY <1>2 DEF Elect
  <1>3. CASE Concede(i) BY <1>3 DEF Concede
  <1>4. CASE Remove(i) BY <1>4 DEF Remove
  <1>5. CASE Removed(i) BY <1>5 DEF Removed
  <1>6. CASE Own(i) BY <1>6 DEF Own
  <1>7. CASE Stop(i) BY <1>7 DEF Stop
  <1>8. CASE Announce(i) BY <1>8 DEF Announce
  <1>9. CASE \E r \in Receipt : Accept(i, r) BY <1>9 DEF Accept
  <1>10. CASE LocalCall(i)
    BY <1>10 DEF LocalCall, AskLocal, VerifyLocal, StartLocal, StopLocal
  <1>11. CASE NewPass(i) BY <1>11 DEF NewPass
  <1>12. CASE Rotate(i) BY <1>12 DEF Rotate
  <1>13. CASE Reserve(i) BY <1>13 DEF Reserve
  <1>14. CASE \E r \in Receipt : Transfer(i, r) BY <1>14 DEF Transfer
  <1> QED
    BY <1>1, <1>2, <1>3, <1>4, <1>5, <1>6, <1>7, <1>8, <1>9, <1>10, <1>11, <1>12,
       <1>13, <1>14

LEMMA CommentNext == TypeOK /\ CommentInv /\ [Next]_vars => CommentInv'
  <1> SUFFICES ASSUME TypeOK, CommentInv, [Next]_vars PROVE CommentInv'
    OBVIOUS
  <1>1. ASSUME NEW i \in Inst, Defer(i) PROVE CommentInv'
    <2>1. UNCHANGED <<last, author, attempted, comment>> /\ registered \subseteq registered'
      BY <1>1 DEF Defer, github, Register
    <2>2. \A j \in Inst : pc'[j] \in {"creating", "created"} => pc'[j] = pc[j]
      BY <1>1 DEF Defer, Goto, TypeOK
    <2> QED BY <2>1, <2>2 DEF CommentInv, Posted, Known, Creating, OneComment, TypeOK, Identity
  <1>2. ASSUME NEW i \in Inst, Claim(i) PROVE CommentInv'
    <2>1. /\ UNCHANGED <<last, author, comment>>
          /\ registered' = registered \union {i}
          /\ i \notin registered
      BY <1>2 DEF Claim, github, Register
    <2>2. attempted'[i] /\ \A j \in Inst : attempted[j] => attempted'[j]
      BY <1>2 DEF Claim, TypeOK
    <2>3. \A j \in Inst : j # i => pc'[j] = pc[j]
      BY <1>2 DEF Claim, Goto, TypeOK
    <2>4. Posted'
      BY <2>1, <2>2, <2>3, Typing DEF CommentInv, Posted
    <2>5. Known'
      BY <2>1, <2>2 DEF CommentInv, Known
    <2>6. Creating'
      BY <2>1, <2>2, <2>3 DEF CommentInv, Creating
    <2>7. OneComment'
      BY <2>1 DEF CommentInv, OneComment
    <2> QED BY <2>4, <2>5, <2>6, <2>7 DEF CommentInv
  <1>3. ASSUME NEW i \in Inst, Create(i) PROVE CommentInv'
    <2>1. \A c \in 1..last : author[c].inst # i
      BY <1>3 DEF Create, CommentInv, Posted
    <2>2. last \in Nat /\ last' = last + 1
      BY <1>3 DEF Create, TypeOK
    <2>3. \A c \in 1..last' : c \in 1..last \/ c = last'
      BY <2>2
    <2>4. author' = [c \in 1..last' |-> IF c = last' THEN Me(i) ELSE author[c]]
      BY <1>3 DEF Create
    <2>5. author'[last'].inst = i
      BY <2>2, <2>4 DEF Me
    <2>6. \A c \in 1..last : c \in 1..last' /\ author'[c] = author[c]
      BY <2>2, <2>4
    <2>7. UNCHANGED <<registered, attempted, comment>>
      BY <1>3 DEF Create, store, own
    <2>8. pc[i] = "creating" /\ pc'[i] # "creating" /\ \A j \in Inst : j # i => pc'[j] = pc[j]
      BY <1>3 DEF Create, Goto, TypeOK
    <2>9. i \in registered /\ attempted[i]
      BY <2>8 DEF CommentInv, Creating
    <2>10. ASSUME NEW c \in 1..last'
           PROVE  /\ author'[c].inst \in registered'
                  /\ attempted'[author'[c].inst]
                  /\ pc'[author'[c].inst] # "creating"
      <3>1. CASE c = last'
        BY <3>1, <2>5, <2>7, <2>8, <2>9
      <3>2. CASE c \in 1..last
        <4>1. author[c].inst \in Inst /\ author[c].inst # i
          BY <2>1, <3>2 DEF TypeOK, Identity
        <4>2. author'[c].inst = author[c].inst
          BY <3>2, <2>6
        <4> QED BY <3>2, <4>1, <4>2, <2>7, <2>8 DEF CommentInv, Posted
      <3> QED BY <2>3, <3>1, <3>2
    <2>11. Creating'
      BY <2>7, <2>8, <2>9 DEF CommentInv, Creating
    <2>12. \A j \in Inst : comment[j] # 0 => comment[j] \in 1..last
      BY <2>2 DEF TypeOK
    <2>13. Known'
      BY <2>6, <2>7, <2>12 DEF CommentInv, Known
    <2>14. ASSUME NEW c \in 1..last', NEW d \in 1..last', author'[c].inst = author'[d].inst
           PROVE  c = d
      <3>1. CASE c \in 1..last /\ d \in 1..last
        BY <3>1, <2>6, <2>14 DEF CommentInv, OneComment
      <3>2. CASE c \in 1..last /\ d = last'
        BY <3>2, <2>1, <2>5, <2>6, <2>14
      <3>3. CASE d \in 1..last /\ c = last'
        BY <3>3, <2>1, <2>5, <2>6, <2>14
      <3> QED BY <2>3, <3>1, <3>2, <3>3
    <2> QED BY <2>10, <2>11, <2>13, <2>14 DEF CommentInv, Posted, OneComment
  <1>4. ASSUME NEW i \in Inst, Created(i) \/ Adopt(i) PROVE CommentInv'
    <2>1. UNCHANGED <<last, author, registered, attempted>>
      BY <1>4 DEF Created, Adopt, github
    <2>2. PICK c \in 1..last : author[c].inst = i /\ comment' = [comment EXCEPT ![i] = c]
      <3>1. CASE Created(i)
        <4>1. PICK c \in 1..last : author[c] = Me(i) /\ comment' = [comment EXCEPT ![i] = c]
          BY <3>1 DEF Created
        <4>2. Me(i).inst = i
          BY DEF Me
        <4> QED BY <4>1, <4>2
      <3>2. CASE Adopt(i)
        <4>1. PICK c \in view[i] : author[c] = Me(i) /\ comment' = [comment EXCEPT ![i] = c]
          BY <3>2, Zenon DEF Adopt, Earliest
        <4>2. c \in 1..last
          BY DEF TypeOK
        <4>3. Me(i).inst = i
          BY DEF Me
        <4> QED BY <4>1, <4>2, <4>3
      <3> QED BY <1>4, <3>1, <3>2
    <2>3. \A j \in Inst : pc'[j] \in {"creating", "created"} => pc'[j] = pc[j]
      BY <1>4 DEF Created, Adopt, Goto, TypeOK
    <2>4. Posted' /\ Creating' /\ OneComment'
      BY <2>1, <2>3 DEF CommentInv, Posted, Creating, OneComment, TypeOK, Identity
    <2>5. Known'
      BY <2>1, <2>2 DEF CommentInv, Posted, Known, TypeOK
    <2> QED BY <2>4, <2>5 DEF CommentInv
  <1>5. CASE Unassign \/ Tamper \/ UNCHANGED vars
    <2>1. Quiet
      BY <1>5 DEF Quiet, Unassign, Tamper, vars, store, own
    <2> QED BY <2>1, QuietKeeps
  <1> QED
    BY <1>1, <1>2, <1>3, <1>4, <1>5, QuietSteps, QuietKeeps DEF Next, Call

(* An installation posts at most one comment for an assignment, whatever      *)
(* answers are lost and wherever it stops.                                    *)
THEOREM NeverClaimsTwice == Spec => []OneComment
  <1>1. CommentInv => OneComment
    BY DEF CommentInv
  <1> QED BY <1>1, CommentInit, CommentNext, TypeCorrect, PTL DEF Spec
-----------------------------------------------------------------------------
(* What an installation that was told an outcome knows: a winner, and, if it *)
(* ever tried to claim, its own comment, which an owner finds winning and a   *)
(* loser does not.                                                            *)
Unregistered ==
    \A i \in Inst : i \notin registered =>
        ~attempted[i] /\ comment[i] = 0 /\ winner[i] = 0 /\ i \notin owner /\ i \notin other
Unanswered ==
    \A i \in Inst : pc[i] \in {"creating", "created"} => i \notin owner /\ i \notin other
Attempting ==
    \A i \in Inst : pc[i] \in {"looked", "elected"} /\ i \in registered => attempted[i]
Electing ==
    \A i \in Inst : pc[i] = "elected" => i \in registered /\ comment[i] # 0 /\ winner[i] # 0
Owners == \A i \in owner : comment[i] # 0 /\ winner[i] = comment[i]
Others ==
    \A i \in other :
        winner[i] # 0 /\ (attempted[i] => comment[i] # 0 /\ winner[i] # comment[i])
ToldInv == Unregistered /\ Unanswered /\ Attempting /\ Electing /\ Owners /\ Others

LEMMA ToldInit == Init => ToldInv
  BY DEF Init, ToldInv, Unregistered, Unanswered, Attempting, Electing, Owners, Others

ToldQuiet ==
    /\ UNCHANGED <<registered, attempted, comment, winner, owner, other>>
    /\ \A j \in Inst :
         /\ pc'[j] \in {"creating", "created"} => pc[j] \in {"creating", "created"}
         /\ pc'[j] \in {"looked", "elected"} => pc'[j] = pc[j]

LEMMA ToldQuietKeeps == ToldInv /\ ToldQuiet => ToldInv'
  <1> SUFFICES ASSUME ToldInv, ToldQuiet PROVE ToldInv'
    OBVIOUS
  <1> USE DEF ToldInv, ToldQuiet
  <1>1. Unregistered' BY DEF Unregistered
  <1>2. Unanswered' BY DEF Unanswered
  <1>3. Attempting' BY DEF Attempting
  <1>4. Electing' BY DEF Electing
  <1>5. Owners' BY DEF Owners
  <1>6. Others' BY DEF Others
  <1> QED BY <1>1, <1>2, <1>3, <1>4, <1>5, <1>6

LEMMA ToldQuietSteps ==
    ASSUME TypeOK, NEW i \in Inst,
           \/ Create(i) \/ Remove(i) \/ Removed(i) \/ Stop(i) \/ Announce(i)
           \/ (\E r \in Receipt : Accept(i, r)) \/ LocalCall(i) \/ NewPass(i)
           \/ Rotate(i) \/ Reserve(i) \/ (\E r \in Receipt : Transfer(i, r))
    PROVE  ToldQuiet
  <1> USE DEF TypeOK, ToldQuiet, Goto, github, store, own, recovery, told
  <1>1. CASE Create(i) BY <1>1 DEF Create
  <1>2. CASE Remove(i) BY <1>2 DEF Remove
  <1>3. CASE Removed(i) BY <1>3 DEF Removed
  <1>4. CASE Stop(i) BY <1>4 DEF Stop
  <1>5. CASE Announce(i) BY <1>5 DEF Announce
  <1>6. CASE \E r \in Receipt : Accept(i, r) BY <1>6 DEF Accept
  <1>7. CASE LocalCall(i)
    BY <1>7 DEF LocalCall, AskLocal, VerifyLocal, StartLocal, StopLocal
  <1>8. CASE NewPass(i) BY <1>8 DEF NewPass
  <1>9. CASE Rotate(i) BY <1>9 DEF Rotate
  <1>10. CASE Reserve(i) BY <1>10 DEF Reserve
  <1>11. CASE \E r \in Receipt : Transfer(i, r) BY <1>11 DEF Transfer
  <1> QED
    BY <1>1, <1>2, <1>3, <1>4, <1>5, <1>6, <1>7, <1>8, <1>9, <1>10, <1>11

LEMMA ToldNext == TypeOK /\ CommentInv /\ ToldInv /\ [Next]_vars => ToldInv'
  <1> SUFFICES ASSUME TypeOK, CommentInv, ToldInv, [Next]_vars PROVE ToldInv'
    OBVIOUS
  <1> USE DEF ToldInv
  <1>1. ASSUME NEW i \in Inst, Look(i) PROVE ToldInv'
    <2>1. UNCHANGED <<registered, attempted, comment, winner, owner, other>>
      BY <1>1 DEF Look, store, own, told
    <2>2. /\ i \in registered => attempted[i]
          /\ pc'[i] = "looked"
          /\ \A j \in Inst : j # i => pc'[j] = pc[j]
      BY <1>1 DEF Look, Goto, TypeOK
    <2>3. Unregistered' /\ Owners' /\ Others'
      BY <2>1 DEF Unregistered, Owners, Others
    <2>4. Unanswered' /\ Attempting' /\ Electing'
      BY <2>1, <2>2 DEF Unanswered, Attempting, Electing
    <2> QED BY <2>3, <2>4
  <1>2. ASSUME NEW i \in Inst, Defer(i) PROVE ToldInv'
    <2>1. PICK w \in view[i] : winner' = [winner EXCEPT ![i] = w]
      BY <1>2 DEF Defer
    <2>2. w # 0
      BY DEF TypeOK
    <2>3. /\ i \notin registered /\ registered' = registered \union {i}
          /\ UNCHANGED <<attempted, comment, owner>>
          /\ other' = other \union {i}
      BY <1>2 DEF Defer, Register
    <2>4. /\ pc'[i] = "idle"
          /\ \A j \in Inst : j # i => pc'[j] = pc[j]
      BY <1>2 DEF Defer, Goto, TypeOK
    <2>5. winner'[i] = w /\ \A j \in Inst : j # i => winner'[j] = winner[j]
      BY <2>1 DEF TypeOK
    <2>6. ~attempted[i] /\ i \notin owner
      BY <2>3 DEF Unregistered
    <2>7. owner \subseteq Inst /\ other \subseteq Inst
      BY DEF TypeOK
    <2>8. Unregistered' /\ Owners' /\ Others'
      BY <2>2, <2>3, <2>5, <2>6, <2>7 DEF Unregistered, Owners, Others
    <2>9. Unanswered' /\ Attempting' /\ Electing'
      BY <2>3, <2>4, <2>5 DEF Unanswered, Attempting, Electing
    <2> QED BY <2>8, <2>9
  <1>3. ASSUME NEW i \in Inst, Claim(i) PROVE ToldInv'
    <2>1. /\ i \notin registered /\ registered' = registered \union {i}
          /\ UNCHANGED <<comment, winner, owner, other>>
      BY <1>3 DEF Claim, Register, told
    <2>2. /\ pc'[i] = "creating"
          /\ \A j \in Inst : j # i => pc'[j] = pc[j]
      BY <1>3 DEF Claim, Goto, TypeOK
    <2>3. \A j \in Inst : j # i => attempted'[j] = attempted[j]
      BY <1>3 DEF Claim, TypeOK
    <2>4. i \notin owner /\ i \notin other
      BY <2>1 DEF Unregistered
    <2>5. owner \subseteq Inst /\ other \subseteq Inst
      BY DEF TypeOK
    <2>6. Unregistered' BY <2>1, <2>3 DEF Unregistered
    <2>7. Unanswered' BY <2>1, <2>2, <2>4 DEF Unanswered
    <2>8. Attempting' BY <2>1, <2>2, <2>3 DEF Attempting
    <2>9. Electing' BY <2>1, <2>2 DEF Electing
    <2>10. Owners' BY <2>1 DEF Owners
    <2>11. Others' BY <2>1, <2>3, <2>4, <2>5 DEF Others
    <2> QED BY <2>6, <2>7, <2>8, <2>9, <2>10, <2>11
  <1>4. ASSUME NEW i \in Inst, Created(i) \/ Adopt(i) PROVE ToldInv'
    <2>1. UNCHANGED <<registered, attempted, winner, owner, other>>
      BY <1>4 DEF Created, Adopt, told
    <2>2. i \in registered
      BY <1>4 DEF Created, Adopt, CommentInv, Creating
    <2>3. PICK c \in 1..last : comment' = [comment EXCEPT ![i] = c]
      <3>1. CASE Created(i) BY <3>1 DEF Created
      <3>2. CASE Adopt(i) BY <3>2 DEF Adopt, TypeOK
      <3> QED BY <1>4, <3>1, <3>2
    <2>4. c # 0 /\ comment'[i] = c /\ \A j \in Inst : j # i => comment'[j] = comment[j]
      BY <2>3 DEF TypeOK
    <2>5. i \notin owner /\ i \notin other
      <3>1. CASE Created(i) BY <3>1 DEF Created, Unanswered
      <3>2. CASE Adopt(i)
        <4>1. comment[i] = 0 /\ attempted[i]
          BY <3>2, <2>2 DEF Adopt, Attempting
        <4> QED BY <4>1 DEF Owners, Others
      <3> QED BY <1>4, <3>1, <3>2
    <2>6. \A j \in Inst :
            /\ pc'[j] \in {"creating", "created"} => pc'[j] = pc[j]
            /\ pc'[j] \in {"looked", "elected"} => pc'[j] = pc[j]
      BY <1>4 DEF Created, Adopt, Goto, TypeOK
    <2>7. owner \subseteq Inst /\ other \subseteq Inst
      BY DEF TypeOK
    <2>8. Unregistered' /\ Owners' /\ Others'
      BY <2>1, <2>2, <2>4, <2>5, <2>7 DEF Unregistered, Owners, Others
    <2>9. Unanswered' /\ Attempting' /\ Electing'
      BY <2>1, <2>4, <2>6 DEF Unanswered, Attempting, Electing
    <2> QED BY <2>8, <2>9
  <1>5. ASSUME NEW i \in Inst, Elect(i) PROVE ToldInv'
    <2>1. PICK w \in view[i] : /\ winner[i] \in {0, w}
                               /\ winner' = [winner EXCEPT ![i] = w]
      BY <1>5 DEF Elect
    <2>2. w # 0 /\ winner'[i] = w /\ \A j \in Inst : j # i => winner'[j] = winner[j]
      BY <2>1 DEF TypeOK
    <2>3. UNCHANGED <<registered, attempted, comment, owner, other>>
      BY <1>5 DEF Elect, told
    <2>4. i \in registered /\ comment[i] # 0 /\ attempted[i]
      BY <1>5 DEF Elect, Attempting
    <2>5. pc'[i] = "elected" /\ \A j \in Inst : j # i => pc'[j] = pc[j]
      BY <1>5 DEF Elect, Goto, TypeOK
    <2>6. owner \subseteq Inst /\ other \subseteq Inst
      BY DEF TypeOK
    <2>7. Unregistered' BY <2>2, <2>3, <2>4 DEF Unregistered
    <2>8. Owners' BY <2>1, <2>2, <2>3, <2>6 DEF Owners
    <2>9. Others' BY <2>1, <2>2, <2>3, <2>6 DEF Others
    <2>10. Unanswered' /\ Attempting' /\ Electing'
      BY <2>2, <2>3, <2>4, <2>5 DEF Unanswered, Attempting, Electing
    <2> QED BY <2>7, <2>8, <2>9, <2>10
  <1>6. ASSUME NEW i \in Inst, Concede(i) PROVE ToldInv'
    <2>1. /\ UNCHANGED <<registered, attempted, comment, winner, owner>>
          /\ other' = other \union {i}
      BY <1>6 DEF Concede
    <2>2. pc[i] = "elected" /\ comment[i] # winner[i]
      BY <1>6 DEF Concede
    <2>3. pc'[i] = "removing" /\ \A j \in Inst : j # i => pc'[j] = pc[j]
      BY <1>6 DEF Concede, Goto, TypeOK
    <2>4. i \in registered /\ comment[i] # 0 /\ winner[i] # 0
      BY <2>2 DEF Electing
    <2>5. owner \subseteq Inst /\ other \subseteq Inst
      BY DEF TypeOK
    <2>6. Unregistered' /\ Owners' /\ Others'
      BY <2>1, <2>2, <2>4, <2>5 DEF Unregistered, Owners, Others
    <2>7. Unanswered' /\ Attempting' /\ Electing'
      BY <2>1, <2>3 DEF Unanswered, Attempting, Electing
    <2> QED BY <2>6, <2>7
  <1>7. ASSUME NEW i \in Inst, Own(i) PROVE ToldInv'
    <2>1. /\ UNCHANGED <<registered, attempted, comment, winner, other>>
          /\ owner' = owner \union {i}
      BY <1>7 DEF Own, store, own
    <2>2. pc[i] = "elected" /\ comment[i] = winner[i]
      BY <1>7 DEF Own
    <2>3. pc'[i] = "idle" /\ \A j \in Inst : j # i => pc'[j] = pc[j]
      BY <1>7 DEF Own, Goto, TypeOK
    <2>4. i \in registered /\ comment[i] # 0
      BY <2>2 DEF Electing
    <2>5. owner \subseteq Inst /\ other \subseteq Inst
      BY DEF TypeOK
    <2>6. Unregistered' /\ Owners' /\ Others'
      BY <2>1, <2>2, <2>4, <2>5 DEF Unregistered, Owners, Others
    <2>7. Unanswered' /\ Attempting' /\ Electing'
      BY <2>1, <2>3 DEF Unanswered, Attempting, Electing
    <2> QED BY <2>6, <2>7
  <1>8. CASE Unassign \/ Tamper \/ UNCHANGED vars
    <2>1. ToldQuiet
      BY <1>8 DEF ToldQuiet, Unassign, Tamper, vars, store, own, told
    <2> QED BY <2>1, ToldQuietKeeps
  <1> QED
    BY <1>1, <1>2, <1>3, <1>4, <1>5, <1>6, <1>7, <1>8, ToldQuietSteps, ToldQuietKeeps
       DEF Next, Call

(* Who was told that another installation has the assignment is never told   *)
(* that it has it itself, whoever deletes comments in between.                *)
THEOREM LoserNeverOwns == Spec => []NoTakeover
  <1>1. TypeOK /\ CommentInv /\ ToldInv => NoTakeover
    <2> SUFFICES ASSUME ToldInv, CommentInv, TypeOK, NEW i \in owner, i \in other PROVE FALSE
      BY DEF NoTakeover
    <2>1. comment[i] # 0 /\ winner[i] = comment[i] /\ i \in Inst
      BY DEF ToldInv, Owners, TypeOK
    <2>2. ~attempted[i]
      BY <2>1 DEF ToldInv, Others
    <2>3. attempted[i]
      BY <2>1 DEF CommentInv, Known
    <2> QED BY <2>2, <2>3
  <1> QED BY <1>1, ToldInit, ToldNext, CommentInit, CommentNext, TypeCorrect, PTL DEF Spec
-----------------------------------------------------------------------------
(* Without tampering.  Comments that a listing may miss are younger than the  *)
(* own one, so the view an owner is elected on holds every older live one;    *)
(* and a comment is only removed by its own installation, when it lost.       *)
CreatingFirst == \A i \in Inst : pc[i] = "creating" => first[i]
RecentYounger ==
    \A i \in Inst : ~first[i] =>
        \A c \in 1..last : author[c].inst = i => \A d \in recent[i] : c < d
ViewComplete ==
    \A i \in Inst : pc[i] \in {"looked", "elected"} /\ i \in registered =>
        /\ ~first[i]
        /\ \A c \in 1..last : author[c].inst = i =>
             /\ c \in view[i] => c \in live
             /\ \A d \in live : d < c => d \in view[i]
WinnerEarliest == \A i \in Inst : pc[i] = "elected" => Earliest(winner[i], view[i])
LoserRemoves ==
    \A i \in Inst : pc[i] = "removing" => comment[i] # 0 /\ winner[i] # comment[i]
OwnerEarliest == \A i \in owner : Earliest(comment[i], live)
ElectInv ==
    /\ CreatingFirst /\ RecentYounger /\ ViewComplete
    /\ WinnerEarliest /\ LoserRemoves /\ OwnerEarliest

LEMMA ElectInit == Init => ElectInv
  BY DEF Init, ElectInv, CreatingFirst, RecentYounger, ViewComplete, WinnerEarliest,
         LoserRemoves, OwnerEarliest

(* A step that touches no comment, no pass, no winner and no owner, and moves  *)
(* nobody into the election.                                                   *)
ElectQuiet ==
    /\ UNCHANGED <<last, author, live, registered, comment, winner, first, recent, owner>>
    /\ \A j \in Inst :
         /\ pc'[j] \in {"creating", "removing"} => pc'[j] = pc[j]
         /\ pc'[j] \in {"looked", "elected"} => pc'[j] = pc[j] /\ view'[j] = view[j]

LEMMA ElectQuietKeeps == ElectInv /\ ElectQuiet => ElectInv'
  <1> SUFFICES ASSUME ElectInv, ElectQuiet PROVE ElectInv'
    OBVIOUS
  <1> USE DEF ElectInv, ElectQuiet
  <1>1. CreatingFirst' BY DEF CreatingFirst
  <1>2. RecentYounger' BY DEF RecentYounger
  <1>3. ViewComplete' BY DEF ViewComplete
  <1>4. WinnerEarliest' BY DEF WinnerEarliest, Earliest
  <1>5. LoserRemoves' BY DEF LoserRemoves
  <1>6. OwnerEarliest' BY DEF OwnerEarliest, Earliest
  <1> QED BY <1>1, <1>2, <1>3, <1>4, <1>5, <1>6

LEMMA ElectQuietSteps ==
    ASSUME TypeOK, NEW i \in Inst,
           \/ Removed(i) \/ Stop(i) \/ Announce(i) \/ (\E r \in Receipt : Accept(i, r))
           \/ LocalCall(i) \/ Rotate(i) \/ Reserve(i)
           \/ (\E r \in Receipt : Transfer(i, r))
    PROVE  ElectQuiet
  <1> USE DEF TypeOK, ElectQuiet, Goto, Forget, github, store, own, recovery, told
  <1>1. CASE Removed(i) BY <1>1 DEF Removed
  <1>2. CASE Stop(i) BY <1>2 DEF Stop
  <1>3. CASE Announce(i) BY <1>3 DEF Announce
  <1>4. CASE \E r \in Receipt : Accept(i, r) BY <1>4 DEF Accept
  <1>5. CASE LocalCall(i)
    BY <1>5 DEF LocalCall, AskLocal, VerifyLocal, StartLocal, StopLocal
  <1>6. CASE Rotate(i) BY <1>6 DEF Rotate
  <1>7. CASE Reserve(i) BY <1>7 DEF Reserve
  <1>8. CASE \E r \in Receipt : Transfer(i, r) BY <1>8 DEF Transfer
  <1> QED BY <1>1, <1>2, <1>3, <1>4, <1>5, <1>6, <1>7, <1>8

(* Why the listing an installation elects on is good enough.                  *)
LEMMA LookKeeps ==
    ASSUME TypeOK, ElectInv, NEW i \in Inst, Look(i)
    PROVE  ElectInv'
  <1>1. UNCHANGED <<last, author, live, registered, comment, winner, first, recent, owner>>
    BY DEF Look, github, store, own, told
  <1>2. PICK S \in SUBSET live : Lists(i, S) /\ view' = [view EXCEPT ![i] = S]
    BY DEF Look
  <1>3. view'[i] = S /\ \A j \in Inst : j # i => view'[j] = view[j]
    BY <1>2 DEF TypeOK
  <1>4. pc'[i] = "looked" /\ \A j \in Inst : j # i => pc'[j] = pc[j]
    BY DEF Look, Goto, TypeOK
  <1>5. i \in registered => ~first[i]
    BY DEF Look
  <1>6. live \subseteq 1..last /\ recent[i] \subseteq 1..last /\ last \in Nat
    BY DEF TypeOK
  <1>7. ASSUME i \in registered, NEW c \in 1..last, author[c].inst = i
        PROVE  /\ c \in S => c \in live
               /\ \A d \in live : d < c => d \in S
    <2>1. \A d \in recent[i] : c < d
      BY <1>5, <1>7 DEF ElectInv, RecentYounger
    <2>2. \A d \in live : d < c => d \notin recent[i]
      BY <1>6, <2>1
    <2> QED BY <1>2, <2>2 DEF Lists
  <1>8. ViewComplete'
    BY <1>1, <1>3, <1>4, <1>5, <1>7 DEF ElectInv, ViewComplete
  <1>9. CreatingFirst' /\ RecentYounger' /\ LoserRemoves'
    BY <1>1, <1>4 DEF ElectInv, CreatingFirst, RecentYounger, LoserRemoves
  <1>10. WinnerEarliest' /\ OwnerEarliest'
    BY <1>1, <1>3, <1>4 DEF ElectInv, WinnerEarliest, OwnerEarliest, Earliest
  <1> QED BY <1>8, <1>9, <1>10 DEF ElectInv

(* A new comment is younger than all there are.                               *)
LEMMA CreateKeeps ==
    ASSUME TypeOK, CommentInv, ElectInv, NEW i \in Inst, Create(i)
    PROVE  ElectInv'
  <1>1. UNCHANGED <<registered, comment, winner, first, view, owner>>
    BY DEF Create, store, own, told
  <1>2. last \in Nat /\ last' = last + 1 /\ live' = live \union {last + 1}
    BY DEF Create, TypeOK
  <1>3. author' = [c \in 1..last' |-> IF c = last' THEN Me(i) ELSE author[c]]
    BY DEF Create
  <1>4. author'[last + 1].inst = i /\ \A c \in 1..last : author'[c] = author[c]
    BY <1>2, <1>3 DEF Me
  <1>5. \A c \in 1..last' : c \in 1..last \/ c = last + 1
    BY <1>2
  <1>6. \A j \in Inst : recent'[j] = recent[j] \union {last + 1}
    BY <1>2 DEF Create
  <1>7. /\ pc[i] = "creating" /\ pc'[i] \in {"created", "idle"}
        /\ \A j \in Inst : j # i => pc'[j] = pc[j]
    BY DEF Create, Goto, TypeOK
  <1>8. first[i]
    BY <1>7 DEF ElectInv, CreatingFirst
  <1>9. \A c \in 1..last : c < last + 1
    BY <1>2
  <1>10. \A j \in Inst : view[j] \subseteq 1..last
    BY DEF TypeOK
  <1>11. CreatingFirst' /\ WinnerEarliest' /\ LoserRemoves'
    BY <1>1, <1>7 DEF ElectInv, CreatingFirst, WinnerEarliest, LoserRemoves, Earliest
  <1>12. RecentYounger'
    <2> SUFFICES ASSUME NEW j \in Inst, ~first'[j], NEW c \in 1..last', author'[c].inst = j,
                        NEW d \in recent'[j]
                 PROVE  c < d
      BY DEF RecentYounger
    <2>1. j # i
      BY <1>1, <1>8
    <2>2. c \in 1..last /\ author[c].inst = j
      BY <1>4, <1>5, <2>1
    <2>3. CASE d \in recent[j]
      BY <1>1, <2>2, <2>3 DEF ElectInv, RecentYounger
    <2>4. CASE d = last + 1
      BY <1>9, <2>2, <2>4
    <2> QED BY <1>6, <2>3, <2>4
  <1>13. ViewComplete'
    <2> SUFFICES ASSUME NEW j \in Inst, pc'[j] \in {"looked", "elected"}, j \in registered'
                 PROVE  /\ ~first'[j]
                        /\ \A c \in 1..last' : author'[c].inst = j =>
                             /\ c \in view'[j] => c \in live'
                             /\ \A d \in live' : d < c => d \in view'[j]
      BY DEF ViewComplete
    <2>1. j # i /\ pc[j] \in {"looked", "elected"} /\ j \in registered
      BY <1>1, <1>7
    <2>2. /\ ~first[j]
          /\ \A c \in 1..last : author[c].inst = j =>
               /\ c \in view[j] => c \in live
               /\ \A d \in live : d < c => d \in view[j]
      BY <2>1 DEF ElectInv, ViewComplete
    <2>3. ASSUME NEW c \in 1..last', author'[c].inst = j
          PROVE  /\ c \in view'[j] => c \in live'
                 /\ \A d \in live' : d < c => d \in view'[j]
      <3>1. c \in 1..last /\ author[c].inst = j
        BY <1>4, <1>5, <2>1, <2>3
      <3>2. ASSUME NEW d \in live', d < c PROVE d \in view'[j]
        <4>1. d # last + 1
          BY <1>2, <3>1, <3>2
        <4> QED BY <1>1, <1>2, <2>2, <3>1, <3>2, <4>1
      <3> QED BY <1>1, <1>2, <2>2, <3>1, <3>2
    <2> QED BY <1>1, <2>2, <2>3
  <1>14. OwnerEarliest'
    <2> SUFFICES ASSUME NEW j \in owner PROVE Earliest(comment[j], live')
      BY <1>1 DEF OwnerEarliest
    <2>1. Earliest(comment[j], live)
      BY DEF ElectInv, OwnerEarliest
    <2>2. comment[j] \in 1..last
      BY <2>1 DEF Earliest, TypeOK
    <2> QED BY <1>2, <2>1, <2>2 DEF Earliest
  <1> QED BY <1>11, <1>12, <1>13, <1>14 DEF ElectInv

(* An installation removes its own comment, and only one that lost.           *)
LEMMA RemoveKeeps ==
    ASSUME TypeOK, CommentInv, ToldInv, ElectInv, NEW i \in Inst, Remove(i)
    PROVE  ElectInv'
  <1>1. UNCHANGED <<last, author, registered, comment, winner, first, recent, view, owner>>
    BY DEF Remove, store, own, told
  <1>2. live' = live \ {comment[i]} /\ pc[i] = "removing"
    BY DEF Remove
  <1>3. pc'[i] \in {"removed", "idle"} /\ \A j \in Inst : j # i => pc'[j] = pc[j]
    BY DEF Remove, Goto, TypeOK
  <1>4. comment[i] # 0 /\ winner[i] # comment[i] /\ author[comment[i]].inst = i
    BY <1>2 DEF ElectInv, LoserRemoves, CommentInv, Known
  <1>5. CreatingFirst' /\ RecentYounger' /\ LoserRemoves' /\ WinnerEarliest'
    BY <1>1, <1>3 DEF ElectInv, CreatingFirst, RecentYounger, LoserRemoves,
                      WinnerEarliest, Earliest
  <1>6. ViewComplete'
    <2> SUFFICES ASSUME NEW j \in Inst, pc'[j] \in {"looked", "elected"}, j \in registered'
                 PROVE  /\ ~first'[j]
                        /\ \A c \in 1..last' : author'[c].inst = j =>
                             /\ c \in view'[j] => c \in live'
                             /\ \A d \in live' : d < c => d \in view'[j]
      BY DEF ViewComplete
    <2>1. j # i /\ pc[j] \in {"looked", "elected"} /\ j \in registered
      BY <1>1, <1>3
    <2>2. /\ ~first[j]
          /\ \A c \in 1..last : author[c].inst = j =>
               /\ c \in view[j] => c \in live
               /\ \A d \in live : d < c => d \in view[j]
      BY <2>1 DEF ElectInv, ViewComplete
    <2>3. \A c \in 1..last : author[c].inst = j => c # comment[i]
      BY <1>4, <2>1
    <2> QED BY <1>1, <1>2, <2>2, <2>3
  <1>7. OwnerEarliest'
    <2> SUFFICES ASSUME NEW j \in owner PROVE Earliest(comment[j], live')
      BY <1>1 DEF OwnerEarliest
    <2>1. Earliest(comment[j], live)
      BY DEF ElectInv, OwnerEarliest
    <2>2. j \in Inst /\ comment[j] # 0 /\ winner[j] = comment[j]
      BY DEF TypeOK, ToldInv, Owners
    <2>3. author[comment[j]].inst = j
      BY <2>2 DEF CommentInv, Known
    <2>4. j # i
      BY <1>4, <2>2
    <2>5. comment[j] # comment[i]
      BY <1>4, <2>3, <2>4
    <2> QED BY <1>2, <2>1, <2>5 DEF Earliest
  <1> QED BY <1>5, <1>6, <1>7 DEF ElectInv

(* The winner of a complete view is the earliest comment of all.              *)
LEMMA OwnKeeps ==
    ASSUME TypeOK, CommentInv, ToldInv, ElectInv, NEW i \in Inst, Own(i)
    PROVE  ElectInv'
  <1>1. /\ UNCHANGED <<last, author, live, registered, comment, winner, first, recent>>
        /\ owner' = owner \union {i}
    BY DEF Own, github, store, own
  <1>2. pc'[i] = "idle" /\ \A j \in Inst : j # i => pc'[j] = pc[j] /\ view'[j] = view[j]
    BY DEF Own, Goto, Forget, TypeOK
  <1>3. pc[i] = "elected" /\ comment[i] \in view[i] /\ comment[i] = winner[i]
    BY DEF Own
  <1>4. i \in registered /\ comment[i] # 0 /\ author[comment[i]].inst = i
    BY <1>3 DEF ToldInv, Electing, CommentInv, Known
  <1>5. comment[i] \in 1..last /\ live \subseteq 1..last /\ last \in Nat
    BY <1>4, Typing DEF TypeOK
  <1>6. comment[i] \in live /\ \A d \in live : d < comment[i] => d \in view[i]
    BY <1>3, <1>4, <1>5 DEF ElectInv, ViewComplete
  <1>7. \A d \in view[i] : comment[i] <= d
    BY <1>3 DEF ElectInv, WinnerEarliest, Earliest
  <1>8. \A d \in live : comment[i] <= d
    BY <1>5, <1>6, <1>7
  <1>9. OwnerEarliest'
    BY <1>1, <1>6, <1>8 DEF ElectInv, OwnerEarliest, Earliest
  <1>10. CreatingFirst' /\ RecentYounger' /\ LoserRemoves'
    BY <1>1, <1>2 DEF ElectInv, CreatingFirst, RecentYounger, LoserRemoves
  <1>11. ViewComplete' /\ WinnerEarliest'
    BY <1>1, <1>2 DEF ElectInv, ViewComplete, WinnerEarliest, Earliest
  <1> QED BY <1>9, <1>10, <1>11 DEF ElectInv

LEMMA ElectNext ==
    ~MayTamper /\ TypeOK /\ CommentInv /\ ToldInv /\ ElectInv /\ [Next]_vars => ElectInv'
  <1> SUFFICES ASSUME ~MayTamper, TypeOK, CommentInv, ToldInv, ElectInv, [Next]_vars
               PROVE  ElectInv'
    OBVIOUS
  <1>1. ASSUME NEW i \in Inst, Defer(i) \/ Claim(i) PROVE ElectInv'
    <2>1. /\ UNCHANGED <<last, author, live, comment, recent, owner>>
          /\ registered' = registered \union {i}
          /\ i \notin registered
      BY <1>1 DEF Defer, Claim, Register, github, told
    <2>2. /\ pc'[i] \in {"idle", "creating"}
          /\ \A j \in Inst : j # i =>
               pc'[j] = pc[j] /\ view'[j] = view[j] /\ winner'[j] = winner[j]
      BY <1>1 DEF Defer, Claim, Goto, Forget, TypeOK
    <2>3. first'[i] /\ \A j \in Inst : j # i => first'[j] = first[j]
      BY <1>1 DEF Defer, Claim, TypeOK
    <2>4. CreatingFirst' /\ RecentYounger'
      BY <2>1, <2>2, <2>3 DEF ElectInv, CreatingFirst, RecentYounger
    <2>5. ViewComplete'
      BY <2>1, <2>2, <2>3 DEF ElectInv, ViewComplete
    <2>6. WinnerEarliest' /\ LoserRemoves' /\ OwnerEarliest'
      BY <2>1, <2>2 DEF ElectInv, WinnerEarliest, LoserRemoves, OwnerEarliest, Earliest
    <2> QED BY <2>4, <2>5, <2>6 DEF ElectInv
  <1>2. ASSUME NEW i \in Inst, Created(i) \/ Adopt(i) PROVE ElectInv'
    <2>1. UNCHANGED <<last, author, live, registered, winner, first, recent, view, owner>>
      BY <1>2 DEF Created, Adopt, github, told
    <2>2. \A j \in Inst : j # i => comment'[j] = comment[j]
      BY <1>2 DEF Created, Adopt, TypeOK
    <2>3. /\ pc'[i] \in {"idle", "looked"} /\ (pc'[i] = "looked" => pc[i] = "looked")
          /\ \A j \in Inst : j # i => pc'[j] = pc[j]
      BY <1>2 DEF Created, Adopt, Goto, TypeOK
    <2>4. i \notin owner
      <3>1. CASE Created(i) BY <3>1 DEF Created, ToldInv, Unanswered
      <3>2. CASE Adopt(i) BY <3>2 DEF Adopt, ToldInv, Owners
      <3> QED BY <1>2, <3>1, <3>2
    <2>5. owner \subseteq Inst
      BY DEF TypeOK
    <2>6. CreatingFirst' /\ RecentYounger' /\ ViewComplete'
      BY <2>1, <2>3 DEF ElectInv, CreatingFirst, RecentYounger, ViewComplete
    <2>7. WinnerEarliest' /\ LoserRemoves' /\ OwnerEarliest'
      BY <2>1, <2>2, <2>3, <2>4, <2>5
         DEF ElectInv, WinnerEarliest, LoserRemoves, OwnerEarliest, Earliest
    <2> QED BY <2>6, <2>7 DEF ElectInv
  <1>3. ASSUME NEW i \in Inst, Elect(i) PROVE ElectInv'
    <2>1. /\ UNCHANGED <<last, author, live, registered, comment, first, recent, owner>>
          /\ UNCHANGED view
      BY <1>3 DEF Elect, github, told
    <2>2. PICK w \in view[i] : Earliest(w, view[i]) /\ winner' = [winner EXCEPT ![i] = w]
      BY <1>3 DEF Elect
    <2>3. winner'[i] = w /\ \A j \in Inst : j # i => winner'[j] = winner[j]
      BY <2>2 DEF TypeOK
    <2>4. /\ pc[i] = "looked" /\ pc'[i] = "elected"
          /\ \A j \in Inst : j # i => pc'[j] = pc[j]
      BY <1>3 DEF Elect, Goto, TypeOK
    <2>5. CreatingFirst' /\ RecentYounger' /\ ViewComplete' /\ OwnerEarliest'
      BY <2>1, <2>4 DEF ElectInv, CreatingFirst, RecentYounger, ViewComplete,
                        OwnerEarliest, Earliest
    <2>6. WinnerEarliest' /\ LoserRemoves'
      BY <2>1, <2>2, <2>3, <2>4 DEF ElectInv, WinnerEarliest, LoserRemoves, Earliest
    <2> QED BY <2>5, <2>6 DEF ElectInv
  <1>4. ASSUME NEW i \in Inst, Concede(i) PROVE ElectInv'
    <2>1. UNCHANGED <<last, author, live, registered, comment, winner, first, recent, owner>>
      BY <1>4 DEF Concede, github
    <2>2. pc[i] = "elected" /\ comment[i] # winner[i]
      BY <1>4 DEF Concede
    <2>3. /\ pc'[i] = "removing"
          /\ \A j \in Inst : j # i => pc'[j] = pc[j] /\ view'[j] = view[j]
      BY <1>4 DEF Concede, Goto, Forget, TypeOK
    <2>4. comment[i] # 0
      BY <2>2 DEF ToldInv, Electing
    <2>5. CreatingFirst' /\ RecentYounger' /\ ViewComplete'
      BY <2>1, <2>3 DEF ElectInv, CreatingFirst, RecentYounger, ViewComplete
    <2>6. WinnerEarliest' /\ LoserRemoves' /\ OwnerEarliest'
      BY <2>1, <2>2, <2>3, <2>4
         DEF ElectInv, WinnerEarliest, LoserRemoves, OwnerEarliest, Earliest
    <2> QED BY <2>5, <2>6 DEF ElectInv
  <1>5. ASSUME NEW i \in Inst, NewPass(i) PROVE ElectInv'
    <2>1. UNCHANGED <<last, author, live, registered, comment, winner, pc, view, owner>>
      BY <1>5 DEF NewPass, github, store, own, told
    <2>2. /\ pc[i] = "idle" /\ recent'[i] = {}
          /\ \A j \in Inst : j # i => recent'[j] = recent[j] /\ first'[j] = first[j]
      BY <1>5 DEF NewPass, TypeOK
    <2>3. CreatingFirst' /\ RecentYounger' /\ ViewComplete'
      BY <2>1, <2>2 DEF ElectInv, CreatingFirst, RecentYounger, ViewComplete
    <2>4. WinnerEarliest' /\ LoserRemoves' /\ OwnerEarliest'
      BY <2>1 DEF ElectInv, WinnerEarliest, LoserRemoves, OwnerEarliest, Earliest
    <2> QED BY <2>3, <2>4 DEF ElectInv
  <1>6. CASE Unassign \/ UNCHANGED vars
    <2>1. ElectQuiet
      BY <1>6 DEF ElectQuiet, Unassign, vars, store, own, told
    <2> QED BY <2>1, ElectQuietKeeps
  <1>7. ~Tamper
    BY DEF Tamper
  <1> QED
    BY <1>1, <1>2, <1>3, <1>4, <1>5, <1>6, <1>7, LookKeeps, CreateKeeps, RemoveKeeps,
       OwnKeeps, ElectQuietSteps, ElectQuietKeeps DEF Next, Call

(* Without tampering, an owner's comment is never removed, and no comment     *)
(* that an owner's listing missed is older.                                   *)
THEOREM OwnersCommentStays == Spec => []OwnerKept
  <1>1. CASE MayTamper
    <2>1. OwnerKept
      BY <1>1 DEF OwnerKept
    <2> QED BY <2>1, PTL
  <1>2. CASE ~MayTamper
    <2>1. ElectInv => OwnerKept
      BY DEF ElectInv, OwnerEarliest, OwnerKept
    <2>2. TypeOK /\ CommentInv /\ ToldInv /\ ElectInv /\ [Next]_vars => ElectInv'
      BY <1>2, ElectNext
    <2> QED
      BY <2>1, <2>2, ElectInit, ToldInit, ToldNext, CommentInit, CommentNext,
         TypeCorrect, PTL DEF Spec
  <1> QED BY <1>1, <1>2

(* So one installation at most is told that it owns the assignment.           *)
THEOREM OneOwner == Spec => []AtMostOneOwner
  <1>1. TypeOK /\ CommentInv /\ ToldInv /\ OwnerKept => AtMostOneOwner
    <2> SUFFICES ASSUME TypeOK, CommentInv, ToldInv, OwnerKept, ~MayTamper,
                        NEW i \in owner, NEW j \in owner
                 PROVE  i = j
      BY DEF AtMostOneOwner
    <2>1. Earliest(comment[i], live) /\ Earliest(comment[j], live)
      BY DEF OwnerKept
    <2>2. comment[i] \in 1..last /\ comment[j] \in 1..last /\ last \in Nat
      BY <2>1 DEF Earliest, TypeOK
    <2>3. comment[i] = comment[j]
      BY <2>1, <2>2 DEF Earliest
    <2>4. /\ i \in Inst /\ comment[i] # 0
          /\ j \in Inst /\ comment[j] # 0
      BY DEF TypeOK, ToldInv, Owners
    <2>5. author[comment[i]].inst = i /\ author[comment[j]].inst = j
      BY <2>4 DEF CommentInv, Known
    <2> QED BY <2>3, <2>5
  <1> QED
    BY <1>1, OwnersCommentStays, ToldInit, ToldNext, CommentInit, CommentNext,
       TypeCorrect, PTL DEF Spec
-----------------------------------------------------------------------------
(* A local call under way was made while its installation had claimed nothing. *)
LocalInv == \A i \in Inst : ~local[i].claimed

LEMMA LocalInit == Init => LocalInv
  BY DEF Init, LocalInv, NoCall

LEMMA LocalNext == TypeOK /\ CommentInv /\ ToldInv /\ LocalInv /\ [Next]_vars => LocalInv'
  <1> SUFFICES ASSUME TypeOK, CommentInv, ToldInv, LocalInv, [Next]_vars PROVE LocalInv'
    OBVIOUS
  <1>1. ASSUME NEW i \in Inst, AskLocal(i) PROVE LocalInv'
    <2>1. ~Claimed(i)
      <3>1. i \notin registered
        BY <1>1 DEF AskLocal
      <3>2. \A c \in 1..last : author[c].inst # i
        BY <3>1 DEF CommentInv, Posted
      <3>3. i \notin owner /\ i \notin other
        BY <3>1 DEF ToldInv, Unregistered
      <3> QED BY <3>2, <3>3 DEF Claimed
    <2>2. /\ local'[i].claimed = Claimed(i)
          /\ \A j \in Inst : j # i => local'[j] = local[j]
      BY <1>1 DEF AskLocal, TypeOK
    <2>3. ~local'[i].claimed
      BY <2>1, <2>2, Zenon
    <2>4. ASSUME NEW j \in Inst PROVE ~local'[j].claimed
      <3>1. CASE j = i BY <3>1, <2>3
      <3>2. CASE j # i
        <4>1. local'[j] = local[j]
          BY <3>2, <2>2
        <4>2. ~local[j].claimed
          BY DEF LocalInv
        <4> QED BY <4>1, <4>2, Zenon
      <3> QED BY <3>1, <3>2
    <2> QED BY <2>4, Zenon DEF LocalInv
  <1>2. ASSUME NEW i \in Inst, VerifyLocal(i) \/ StartLocal(i) PROVE LocalInv'
    <2>1. \A j \in Inst : local'[j].claimed = local[j].claimed
      <3>1. CASE VerifyLocal(i) BY <3>1 DEF VerifyLocal, TypeOK
      <3>2. CASE StartLocal(i) BY <3>2 DEF StartLocal, TypeOK
      <3> QED BY <1>2, <3>1, <3>2
    <2> QED BY <2>1, Zenon DEF LocalInv
  <1>3. ASSUME NEW i \in Inst, StopLocal(i) PROVE LocalInv'
    BY <1>3 DEF StopLocal, LocalInv, NoCall, TypeOK
  <1>4. ASSUME NEW i \in Inst, Call(i) PROVE UNCHANGED local
    BY <1>4 DEF Call, Look, Defer, Claim, Create, Created, Adopt, Elect, Concede, Remove,
                Removed, Own, Stop, Announce, Accept, told
  <1>5. ASSUME NEW i \in Inst,
               NewPass(i) \/ Rotate(i) \/ Reserve(i) \/ (\E r \in Receipt : Transfer(i, r))
        PROVE  UNCHANGED local
    BY <1>5 DEF NewPass, Rotate, Reserve, Transfer, told
  <1>6. ASSUME Unassign \/ Tamper \/ UNCHANGED vars PROVE UNCHANGED local
    BY <1>6 DEF Unassign, Tamper, vars, told
  <1>7. UNCHANGED local => LocalInv'
    BY DEF LocalInv
  <1> QED BY <1>1, <1>2, <1>3, <1>4, <1>5, <1>6, <1>7 DEF Next, LocalCall

(* Whatever was lost, rotated or deleted: once an installation has posted a     *)
(* comment or was told an outcome, its local route finds the record, and no     *)
(* call made from then on starts work.                                         *)
THEOREM LocalStartsUnclaimed == Spec => []LocalUnclaimed
  <1>1. LocalInv => LocalUnclaimed
    BY DEF LocalInv, LocalUnclaimed
  <1> QED
    BY <1>1, LocalInit, LocalNext, ToldInit, ToldNext, CommentInit, CommentNext,
       TypeCorrect, PTL DEF Spec

-----------------------------------------------------------------------------
(* How the store and the comments map to AttemptOnce.                         *)
InStore == {i \in Inst : attempted[i]}
PostedCount == [i \in Inst |-> Cardinality(PostedBy(i))]
HavePosted == {i \in Inst : PostedBy(i) # {}}
HaveComment == {i \in Inst : comment[i] # 0}

LEMMA CommentStays ==
    ASSUME TypeOK, CommentInv, [Next]_vars, NEW j \in Inst, comment[j] # 0
    PROVE  comment'[j] # 0
  <1>1. CASE UNCHANGED comment
    BY <1>1
  <1>2. CASE comment' # comment
    <2>1. PICK i \in Inst : Created(i) \/ Adopt(i)
      <3>1. Quiet => UNCHANGED comment
        BY DEF Quiet
      <3>2. \A i \in Inst : ~Defer(i) /\ ~Claim(i) /\ ~Create(i)
        BY <1>2 DEF Defer, Claim, Create, store, own
      <3>3. ~Unassign /\ ~Tamper /\ ~(UNCHANGED vars)
        BY <1>2 DEF Unassign, Tamper, vars, store, own
      <3> QED BY <1>2, <3>1, <3>2, <3>3, QuietSteps DEF Next, Call
    <2>2. PICK c \in 1..last : comment' = [comment EXCEPT ![i] = c]
      <3>1. view[i] \subseteq 1..last
        BY DEF TypeOK
      <3> QED BY <2>1, <3>1, Zenon DEF Created, Adopt, Earliest
    <2>3. c # 0
      BY DEF TypeOK
    <2> QED BY <2>2, <2>3 DEF TypeOK
  <1> QED BY <1>1, <1>2

LEMMA ClaimAttemptsInit == Init => A!Init
  <1> SUFFICES ASSUME Init PROVE A!Init
    OBVIOUS
  <1>1. \A i \in Inst : PostedBy(i) = {} /\ ~attempted[i] /\ comment[i] = 0
    BY DEF Init, PostedBy
  <1>2. Cardinality({}) = 0
    BY FS_EmptySet
  <1> QED BY <1>1, <1>2 DEF A!Init

(* GitHub takes the one comment an installation attempted.                    *)
LEMMA CreateSubmits ==
    ASSUME TypeOK, CommentInv, NEW i \in Inst, Create(i)
    PROVE  A!Submit(i)
  <1>1. \A c \in 1..last : author[c].inst # i
    BY DEF Create, CommentInv, Posted
  <1>2. last \in Nat /\ last' = last + 1 /\ UNCHANGED <<attempted, comment>> /\ attempted[i]
    BY DEF Create, store, own, TypeOK, CommentInv, Creating
  <1>3. /\ \A c \in 1..last' : c \in 1..last \/ c = last'
        /\ last' \in 1..last' /\ 1..last \subseteq 1..last' /\ last' \notin 1..last
    BY <1>2
  <1>4. author' = [c \in 1..last' |-> IF c = last' THEN Me(i) ELSE author[c]]
    BY DEF Create
  <1>5. author'[last'].inst = i /\ \A c \in 1..last : author'[c] = author[c]
    BY <1>3, <1>4 DEF Me
  <1>6. PostedBy(i) = {} /\ PostedBy(i)' = {last'}
    BY <1>1, <1>3, <1>5 DEF PostedBy
  <1>7. \A j \in Inst : j # i => PostedBy(j)' = PostedBy(j)
    BY <1>3, <1>5 DEF PostedBy
  <1>8. Cardinality({}) = 0 /\ Cardinality({last'}) = 1
    BY FS_EmptySet, FS_Singleton
  <1>9. PostedCount[i] = 0 /\ PostedCount' = [PostedCount EXCEPT ![i] = 1]
    BY <1>6, <1>7, <1>8 DEF PostedCount
  <1>10. HavePosted' = HavePosted \union {i}
    BY <1>6, <1>7 DEF HavePosted
  <1>11. i \in InStore /\ UNCHANGED <<InStore, HaveComment>>
    BY <1>2 DEF InStore, HaveComment
  <1> QED BY <1>9, <1>10, <1>11 DEF A!Submit, PostedCount, HavePosted, InStore, HaveComment

LEMMA ClaimAttemptsStep ==
    ASSUME TypeOK, TypeOK', CommentInv, CommentInv', [Next]_vars
    PROVE  [A!Next]_(A!vars)
  <1>1. CASE \E i \in Inst : Create(i)
    BY <1>1, CreateSubmits DEF A!Next
  <1>2. CASE ~\E i \in Inst : Create(i)
    <2>1. UNCHANGED <<last, author>>
      <3>1. \A i \in Inst : Defer(i) \/ Claim(i) \/ Created(i) \/ Adopt(i) => UNCHANGED <<last, author>>
        BY DEF Defer, Claim, Created, Adopt, github
      <3>2. Unassign \/ Tamper \/ UNCHANGED vars => UNCHANGED <<last, author>>
        BY DEF Unassign, Tamper, vars
      <3> QED BY <1>2, <3>1, <3>2, QuietSteps DEF Next, Call, Quiet
    <2>2. \A i \in Inst : PostedBy(i)' = PostedBy(i)
      BY <2>1 DEF PostedBy
    <2>3. UNCHANGED <<PostedCount, HavePosted>>
      BY <2>2 DEF PostedCount, HavePosted
    <2>4. ASSUME NEW i \in Inst, PostedCount[i] # 0 PROVE i \in InStore /\ i \in InStore'
      <3>1. PostedBy(i) # {}
        <4>1. Cardinality({}) = 0
          BY FS_EmptySet
        <4> QED BY <2>4, <4>1 DEF PostedCount
      <3> QED BY <3>1, <2>1 DEF PostedBy, InStore, CommentInv, Posted
    <2>5. HaveComment \subseteq HaveComment'
      BY CommentStays DEF HaveComment
    <2>6. HaveComment' \subseteq HavePosted
      <3> SUFFICES ASSUME NEW i \in Inst, comment'[i] # 0 PROVE PostedBy(i)' # {}
        BY <2>2 DEF HaveComment, HavePosted
      <3>1. comment'[i] \in 1..last' /\ author'[comment'[i]].inst = i
        BY Typing DEF CommentInv, Known, TypeOK
      <3> QED BY <3>1 DEF PostedBy
    <2>7. InStore' \subseteq Inst
      BY DEF InStore
    <2>8. A!Save
      BY <2>3, <2>4, <2>5, <2>6, <2>7
      DEF A!Save, PostedCount, HavePosted, InStore, HaveComment
    <2> QED BY <2>8 DEF A!Next
  <1> QED BY <1>1, <1>2

(* Claiming an assignment implements AttemptOnce, for any number of            *)
(* installations: each notes its attempt before it comments, comments once,     *)
(* and takes no other comment for its own.                                    *)
THEOREM ClaimsAttemptOnce == Spec => ImplementsAttempts
  <1>1. TypeOK /\ TypeOK' /\ CommentInv /\ CommentInv' /\ [Next]_vars => [A!Next]_(A!vars)
    BY ClaimAttemptsStep
  <1>2. TypeOK /\ CommentInv /\ [Next]_vars => CommentInv'
    BY CommentNext
  <1> QED
    BY <1>1, <1>2, ClaimAttemptsInit, CommentInit, TypeCorrect, PTL
    DEF Spec, ImplementsAttempts, A!Spec
=============================================================================
