------------------------ MODULE DeliveryTruthProofs ------------------------
(* More proofs about Delivery: without feedback events, of pushes and of what  *)
(* the record says of GitHub; with them, of what is still done once only.     *)
EXTENDS DeliveryProofs

(* A running operation's record, as far as any order of steps leaves it true.   *)
Real(d) ==
    /\ d.announcement.receipt => comments # <<>>
    /\ d.pr => prs > 0
    /\ d.pushed <= remote
    /\ d.reconciled => d.pr /\ d.pushed # 0
    /\ d.made => d.head # 0 /\ d.content # 0

Follows(e, d) == (d.pr => e.pr) /\ (d.pushed # 0 => e.pushed # 0)

Checked == {"check", "find", "create", "verify", "patch", "finish"}

RealProc(p) ==
    pc[p] # "idle" =>
        /\ Real(mem[p])
        /\ Follows(mem[p], seen[p]["chat"])
        /\ Follows(file["chat"], seen[p]["chat"])
        /\ pc[p] = "receive" => comments # <<>>
        /\ pc[p] = "verify" => prs > 0
        /\ pc[p] \in Publishing => plan[p].head # 0
        /\ pc[p] \in Checked \ {"check"} => mem[p].pushed # 0
        /\ pc[p] \in {"patch", "finish"} => mem[p].pr

RealInv ==
    /\ file["event"] = NoDelivery
    /\ Real(file["chat"])
    /\ \A p \in Proc : RealProc(p)

(* Pushes that may still change the branch.                                    *)
Beyond == {r \in late : r.kind = "push" /\ r.head > remote}
Shaped == \A r \in late : r.kind = "push" => r = PushOf(r.head)

(* As long as operations do not overlap, one runs on the record as it is, and    *)
(* a push under way, or late, is the pending one.                               *)
Alone == \A p, q \in Proc : pc[p] # "idle" /\ pc[q] # "idle" => p = q

SoloProc(p) ==
    pc[p] # "idle" =>
        /\ seen[p]["chat"] = file["chat"]
        /\ pc[p] # "bind" => mem[p] = file["chat"]
        /\ mem[p].pending = file["chat"].pending
        /\ mem[p].pending <= mem[p].head /\ mem[p].head <= head
        /\ pc[p] \in Publishing => mem[p].head = plan[p].head
        /\ pc[p] = "reserve" => mem[p].pending = 0
        /\ pc[p] = "push" => mem[p].pending = plan[p].head /\ Beyond = {}
        /\ pc[p] \in Checked => mem[p].pending <= remote

SoloRecord ==
    /\ file["chat"].pending <= file["chat"].head
    /\ file["chat"].head <= head
    /\ \A r \in Beyond : r.head = file["chat"].pending

PushInv ==
    /\ Shaped
    /\ ~overlapped => Alone /\ SoloRecord /\ \A p \in Proc : SoloProc(p)

(* The content that the pull request has, or will have if it is created late.    *)
Shows(c) == (prs > 0 => pull.content = c) /\ \A r \in LateCreations : r.content = c
Complete(d) == d.pending = 0 /\ ~d.update /\ d.pushed = d.head

ShownProc(p) ==
    pc[p] # "idle" =>
        /\ ~mem[p].update => Shows(mem[p].content)
        /\ pc[p] \in Publishing => mem[p].content = plan[p].content /\ ~mem[p].reconciled
        /\ pc[p] \in {"reserve", "push"} \union Checked =>
             /\ plan[p].patch \in {0, mem[p].content}
             /\ plan[p].patch = 0 => ~mem[p].update
        /\ pc[p] = "verify" /\ ~plan[p].existing => pull.content = mem[p].content
        /\ pc[p] = "patch" => plan[p].patch = mem[p].content
        /\ pc[p] = "finish" => pull.content = mem[p].content
        /\ pc[p] \in Checked \ {"check"} => mem[p].pushed = mem[p].head

ShownRecord ==
    /\ ~file["chat"].update => Shows(file["chat"].content)
    /\ file["chat"].reconciled => Complete(file["chat"])

ShownInv == ~overlapped => ShownRecord /\ \A p \in Proc : ShownProc(p)

-----------------------------------------------------------------------------
(* What each saving action changes, field by field.                            *)
EditFacts(p, d) ==
    /\ d.made = mem[p].made /\ d.head = mem[p].head /\ d.content = mem[p].content
    /\ d.pending = CASE pc[p] = "reserve" -> plan[p].head
                     [] pc[p] = "finish" -> 0
                     [] OTHER -> mem[p].pending
    /\ d.pushed = IF pc[p] = "check" THEN plan[p].head ELSE mem[p].pushed
    /\ pc[p] = "check" => remote = plan[p].head
    /\ IF pc[p] = "verify" THEN d.pr ELSE d.pr = mem[p].pr
    /\ IF pc[p] = "finish" THEN ~d.update ELSE d.update = mem[p].update
    /\ d.reconciled => mem[p].reconciled \/ pc[p] = "finish"
    /\ d.announcement.receipt =>
         \/ mem[p].announcement.receipt
         \/ comments # <<>>
         \/ pc[p] = "receive"

LEMMA EditChanges ==
    ASSUME TypeOK, NEW p \in Proc, NEW d, NEW place, Edit(p, d, place)
    PROVE  EditFacts(p, d)
  <1>1. /\ mem[p] \in Deliveries /\ plan[p].head \in Heads /\ remote \in Heads
        /\ plan[p].text \in Text \union {NoText} /\ Snapshot \in Snapshots
    BY DEF TypeOK, Plans, Snapshot, Snapshots
  <1>2. ASSUME Publication(p, d, place)
        PROVE  EditFacts(p, d)
    <2>0. d.announcement = mem[p].announcement
      BY <1>2, EditKeeps DEF Edit, SameAnnouncement
    <2>1. CASE pc[p] = "bind" /\ d = mem[p]
      BY <1>1, <2>0, <2>1 DEF EditFacts
    <2>2. CASE pc[p] = "open" /\ d = Reopened(mem[p])
      BY <1>1, <2>0, <2>2, ReopenedFields DEF EditFacts, SameWork, SameMarks, SameResult
    <2>3. CASE pc[p] = "reserve" /\ d = Reserved(mem[p], plan[p].head)
      BY <1>1, <2>0, <2>3, ReservedFields DEF EditFacts, SameWork, SameResult, SameEnd
    <2>4. CASE pc[p] = "check" /\ remote = plan[p].head /\ d = Pushed(mem[p], remote)
      BY <1>1, <2>0, <2>4, PushedFields DEF EditFacts, SameWork, SameMarks, SameEnd
    <2>5. CASE pc[p] = "find" /\ d = Tried(mem[p])
      BY <1>1, <2>0, <2>5, TriedFields DEF EditFacts, SameWork, SameResult, SameEnd
    <2>6. CASE pc[p] = "verify" /\ d = Known(mem[p])
      BY <1>1, <2>0, <2>6, KnownFields DEF EditFacts, SameWork, SameMarks, SameEnd
    <2>7. CASE pc[p] = "finish" /\ d = Done(mem[p])
      BY <1>1, <2>0, <2>7, DoneFields DEF EditFacts, SameWork, SameResult
    <2>8. CASE pc[p] = "create" /\ d = Untried(mem[p])
      BY <1>1, <2>0, <2>8, UntriedFields DEF EditFacts, SameWork, SameResult, SameEnd
    <2> QED BY <1>2, <2>1, <2>2, <2>3, <2>4, <2>5, <2>6, <2>7, <2>8 DEF Publication
  <1>3. ASSUME Announcement(p, d, place)
        PROVE  EditFacts(p, d)
    <2>1. /\ d.made = mem[p].made /\ d.head = mem[p].head /\ d.content = mem[p].content
          /\ d.pending = mem[p].pending /\ d.pushed = mem[p].pushed /\ d.pr = mem[p].pr
          /\ d.update = mem[p].update /\ d.reconciled = mem[p].reconciled
      BY <1>3, EditKeeps
         DEF Edit, SamePublication, SameWork, SameMarks, SameResult, SameEnd
    <2>2. pc[p] \notin {"reserve", "finish", "check", "verify"}
      BY <1>3 DEF Announcement
    <2>3. d.announcement.receipt => \/ mem[p].announcement.receipt
                                    \/ comments # <<>> \/ pc[p] = "receive"
      <3>1. CASE d = Described(mem[p], Snapshot)
        BY <1>1, <3>1, AnnouncementEdits
      <3>2. CASE d = Written(mem[p], plan[p].text)
        <4>1. ASSUME NEW e \in Deliveries, NEW t \in Text \union {NoText}
              PROVE  Written(e, t).announcement.receipt = e.announcement.receipt
          BY <1>1, AnnouncementEdits
        <4> QED BY <1>1, <3>2, <4>1
      <3>3. CASE d = Attempted(mem[p])
        BY <1>1, <3>3, AnnouncementEdits
      <3>4. CASE d = Unattempted(mem[p])
        BY <1>1, <3>4, AnnouncementEdits
      <3>5. CASE pc[p] # "receive" => comments # <<>>
        BY <3>5
      <3> QED BY <1>3, <3>1, <3>2, <3>3, <3>4, <3>5 DEF Announcement
    <2> QED BY <2>1, <2>2, <2>3 DEF EditFacts
  <1> QED BY <1>2, <1>3 DEF Edit

(* Where a save leads, and from where.                                          *)
Leads(from, place) ==
    /\ place \in {"idle", "open", "look", "push", "find", "create", "patch", "finish", "post"}
    /\ place = "open" => from = "bind"
    /\ place = "look" => from = "open"
    /\ place = "push" => from = "reserve"
    /\ place = "find" => from = "check"
    /\ place = "create" => from = "find"
    /\ place \in {"patch", "finish"} => from = "verify"
    /\ from = "finish" => place = "idle"

LEMMA EditLeads ==
    ASSUME NEW p \in Proc, NEW d, NEW place, Edit(p, d, place)
    PROVE  Leads(pc[p], place)
  BY DEF Edit, Publication, Announcement, Leads

-----------------------------------------------------------------------------
(* What GitHub has shown stays so.                                              *)
Grown == /\ remote' >= remote /\ prs' >= prs
         /\ comments # <<>> => comments' # <<>>

LEMMA RealGrown ==
    ASSUME TypeOK, TypeOK', Grown, NEW d \in Deliveries, Real(d)
    PROVE  Real(d)'
  <1>1. remote \in Nat /\ remote' \in Nat /\ prs \in Nat /\ prs' \in Nat /\ d.pushed \in Nat
    BY DeliveryAssumption DEF TypeOK, Deliveries, Heads
  <1> QED BY <1>1 DEF Grown, Real

LEMMA AppendNonEmpty ==
    ASSUME NEW s \in Seq(Text), NEW t \in Text
    PROVE  Append(s, t) # <<>>
  <1>1. Len(Append(s, t)) = Len(s) + 1 /\ Len(s) \in Nat
    OBVIOUS
  <1>2. Len(<<>>) = 0
    OBVIOUS
  <1> QED BY <1>1, <1>2

LEMMA EverythingGrows ==
    ASSUME TypeInv, Next
    PROVE  Grown
  <1>0. TypeOK /\ remote \in Nat /\ prs \in Nat /\ comments \in Seq(Text)
    BY DeliveryAssumption DEF TypeInv, TypeOK, Heads
  <1>a. CASE UNCHANGED <<remote, prs, comments>>
    BY <1>0, <1>a DEF Grown
  <1>1. ASSUME NEW p \in Proc, Saving(p)
        PROVE  Grown
    BY <1>0, <1>1, <1>a, EverySave DEF Aside, github
  <1>2. ASSUME NEW p \in Proc, Stopping(p)
        PROVE  Grown
    BY <1>0, <1>2, <1>a, StopEffect
  <1>3. ASSUME NEW p \in Proc, NEW copy \in Copies, Beginning(p, copy)
        PROVE  Grown
    BY <1>3, <1>a DEF Beginning, StartPublish, StartReconcile, StartAnnounce, Begin, github
  <1>4. ASSUME NEW p \in Proc, Moving(p)
        PROVE  Grown
    <2>1. CASE Look(p) \/ Found(p) \/ Patch(p) \/ Announce(p) \/ Search(p)
      BY <1>a, <2>1 DEF Look, Found, Patch, Announce, Search, github
    <2>2. CASE Push(p)
      <3>1. plan[p].head \in Nat
        BY <1>0, DeliveryAssumption DEF TypeOK, Plans, Heads
      <3> QED BY <1>0, <2>2, <3>1 DEF Push, Grown
    <2>3. CASE Create(p)
      BY <1>0, <2>3 DEF Create, Opened, Grown
    <2>4. CASE Post(p)
      <3>1. mem[p].announcement.text \in Text
        <4>1. mem[p].announcement.text \in Text \union {NoText}
          BY <1>0 DEF TypeOK, Deliveries, Announcements
        <4> QED BY <2>4, <4>1 DEF TypeInv, Begun, Post
      <3> QED BY <1>0, <2>4, <3>1, AppendNonEmpty DEF Post, Grown
    <2> QED BY <1>4, <2>1, <2>2, <2>3, <2>4 DEF Moving
  <1>5. ASSUME World
        PROVE  Grown
    <2>1. CASE Observe \/ Work
      BY <1>a, <2>1 DEF Observe, Work, github
    <2>2. CASE PushByHand
      BY <1>0, <2>2 DEF PushByHand, Grown, TypeOK
    <2>3. ASSUME NEW r \in late, Land(r)
          PROVE  Grown
      <3>1. /\ r.head \in Nat
            /\ r.kind = "post" => r.text \in Text
        BY DeliveryAssumption DEF TypeInv, TypeOK, Requests, Heads, Worded
      <3>2. CASE r.kind = "push"
        BY <1>0, <2>3, <3>1, <3>2 DEF Land, Grown
      <3>3. CASE r.kind = "create"
        BY <1>0, <2>3, <3>3 DEF Land, Opened, Grown
      <3>4. CASE r.kind = "post"
        BY <1>0, <2>3, <3>1, <3>4, AppendNonEmpty DEF Land, Grown
      <3> QED BY <2>3, <3>2, <3>3, <3>4 DEF Land
    <2> QED BY <1>5, <2>1, <2>2, <2>3 DEF World
  <1> QED BY <1>1, <1>2, <1>3, <1>4, <1>5, EveryStep

-----------------------------------------------------------------------------
(* What the record says is so.                                                  *)
LEMMA RealSaving ==
    ASSUME TypeInv, OnceInv, RealInv, NEW p \in Proc, Saving(p)
    PROVE  RealInv'
  <1>0. /\ TypeOK /\ own[p] = "chat"
        /\ file["event"] = NoDelivery /\ Real(file["chat"]) /\ \A q \in Proc : RealProc(q)
    BY DEF TypeInv, OnceInv, Copied, RealInv
  <1>1. PICK d, place :
             /\ Edit(p, d, place) /\ Aside /\ Others(p)
             /\ \/ /\ seen[p]["chat"] = file["chat"]
                   /\ file'["chat"] = d
                   /\ Left(p) \/ Gone(p, place)
                \/ /\ d = seen[p]["chat"]
                   /\ file' = file
                   /\ Left(p) \/ Gone(p, place)
                \/ file' = file /\ Left(p)
             /\ file'["event"] = file["event"]
    BY <1>0, ChatSave
  <1>2. pc[p] # "idle" /\ EditFacts(p, d) /\ Leads(pc[p], place)
    BY <1>0, <1>1, EditType, EditChanges, EditLeads
  <1>3. /\ Real(mem[p]) /\ Follows(mem[p], seen[p]["chat"]) /\ Follows(file["chat"], seen[p]["chat"])
        /\ pc[p] = "receive" => comments # <<>>
        /\ pc[p] = "verify" => prs > 0
        /\ pc[p] \in Publishing => plan[p].head # 0
        /\ pc[p] \in Checked \ {"check"} => mem[p].pushed # 0
        /\ pc[p] \in {"patch", "finish"} => mem[p].pr
    BY <1>0, <1>2 DEF RealProc
  <1>4. UNCHANGED <<remote, prs, comments>> /\ remote \in Nat
    BY <1>0, <1>1, DeliveryAssumption DEF Aside, github, TypeOK, Heads
  <1>5. Real(d)
    <2>1. d.announcement.receipt => comments # <<>>
      BY <1>2, <1>3 DEF EditFacts, Real
    <2>2. d.pr => prs > 0
      BY <1>2, <1>3 DEF EditFacts, Real
    <2>3. d.pushed <= remote
      BY <1>2, <1>3, <1>4 DEF EditFacts, Real
    <2>4. d.reconciled => d.pr /\ d.pushed # 0
      <3>1. mem[p].reconciled \/ pc[p] = "finish" => mem[p].pr /\ mem[p].pushed # 0
        BY <1>3 DEF Real, Checked
      <3>2. mem[p].pr => d.pr
        BY <1>2 DEF EditFacts
      <3>3. mem[p].pushed # 0 => d.pushed # 0
        BY <1>2, <1>3 DEF EditFacts, Publishing
      <3>4. d.reconciled => mem[p].reconciled \/ pc[p] = "finish"
        BY <1>2 DEF EditFacts
      <3> QED BY <3>1, <3>2, <3>3, <3>4
    <2>5. d.made => d.head # 0 /\ d.content # 0
      BY <1>2, <1>3 DEF EditFacts, Real
    <2> QED BY <2>1, <2>2, <2>3, <2>4, <2>5 DEF Real
  <1>6. Follows(d, seen[p]["chat"])
    BY <1>2, <1>3 DEF EditFacts, Follows, Publishing
  <1>7. /\ Follows(file'["chat"], file["chat"])
        /\ Gone(p, place) => Follows(file'["chat"], d)
    <2>1. CASE seen[p]["chat"] = file["chat"] /\ file'["chat"] = d
      BY <1>6, <2>1 DEF Follows
    <2>2. CASE d = seen[p]["chat"] /\ file' = file
      BY <1>3, <2>2 DEF Follows
    <2>3. CASE file' = file /\ Left(p)
      <3>1. ~Gone(p, place)
        BY <2>3 DEF Left, Gone
      <3> QED BY <2>3, <3>1 DEF Follows
    <2> QED BY <1>1, <2>1, <2>2, <2>3
  <1>8. Real(file'["chat"])
    BY <1>0, <1>1, <1>5
  <1>9. file'["event"] = NoDelivery /\ Real(file["chat"])'
    BY <1>0, <1>1, <1>4, <1>8 DEF Real
  <1>10. ASSUME NEW q \in Proc, q # p
         PROVE  RealProc(q)'
    <2>1. /\ pc'[q] = pc[q] /\ mem'[q] = mem[q] /\ seen'[q] = seen[q] /\ plan'[q] = plan[q]
      BY <1>1, <1>10 DEF Others
    <2>2. CASE pc[q] # "idle"
      <3>1. RealProc(q) /\ Follows(file["chat"], seen[q]["chat"])
        BY <1>0, <2>2 DEF RealProc
      <3>2. Follows(file'["chat"], seen[q]["chat"])
        BY <1>7, <3>1 DEF Follows
      <3> QED BY <1>4, <2>1, <3>1, <3>2 DEF RealProc, Real
    <2> QED BY <2>1, <2>2 DEF RealProc
  <1>11. RealProc(p)'
    <2>1. CASE Left(p)
      BY <2>1 DEF Left, RealProc
    <2>2. CASE Gone(p, place)
      <3>1. /\ pc'[p] = place /\ mem'[p] = file'["chat"] /\ seen'[p] = file'
            /\ plan'[p] = plan[p] /\ place # "idle"
        BY <1>0, <2>2 DEF Gone
      <3>2. Real(mem[p])' /\ Follows(mem'[p], seen'[p]["chat"])
            /\ Follows(file'["chat"], seen'[p]["chat"])
        BY <1>9, <3>1 DEF Real, Follows
      <3>3. place \in Publishing => plan[p].head # 0
        BY <1>2, <1>3 DEF Leads, Publishing
      <3>4. place \in Checked \ {"check"} => file'["chat"].pushed # 0
        <4>1. place \in Checked \ {"check"} => d.pushed # 0
          BY <1>2, <1>3 DEF Leads, EditFacts, Checked, Publishing
        <4> QED BY <1>7, <2>2, <4>1 DEF Follows
      <3>5. place \in {"patch", "finish"} => file'["chat"].pr
        <4>1. place \in {"patch", "finish"} => d.pr
          BY <1>2 DEF Leads, EditFacts
        <4> QED BY <1>7, <2>2, <4>1 DEF Follows
      <3>6. place # "receive" /\ place # "verify"
        BY <1>2 DEF Leads
      <3> QED BY <3>1, <3>2, <3>3, <3>4, <3>5, <3>6 DEF RealProc
    <2> QED BY <1>1, <2>1, <2>2
  <1> QED BY <1>9, <1>10, <1>11 DEF RealInv

(* The steps that leave the record alone.                                       *)
LEMMA RealAround ==
    ASSUME TypeInv, TypeInv', RealInv, Grown, file' = file
    PROVE  /\ file'["event"] = NoDelivery /\ Real(file["chat"])'
           /\ \A q \in Proc : pc'[q] = pc[q] /\ mem'[q] = mem[q] /\ seen'[q] = seen[q]
                              /\ plan'[q].head = plan[q].head
                => RealProc(q)'
           /\ \A q \in Proc : pc'[q] = "idle" => RealProc(q)'
  <1>0. /\ TypeOK /\ TypeOK' /\ file["chat"] \in Deliveries
        /\ \A q \in Proc : mem[q] \in Deliveries
        /\ prs \in Nat /\ prs' \in Nat
    BY DEF TypeInv, TypeOK, Records, Copies
  <1>1. file'["event"] = NoDelivery /\ Real(file["chat"])'
    <2>1. Real(file["chat"])
      BY DEF RealInv
    <2>2. \A d \in Deliveries : Real(d) => Real(d)'
      BY <1>0, RealGrown
    <2> QED BY <1>0, <2>1, <2>2 DEF RealInv, Real
  <1>2. ASSUME NEW q \in Proc, pc'[q] = pc[q], mem'[q] = mem[q], seen'[q] = seen[q],
               plan'[q].head = plan[q].head
        PROVE  RealProc(q)'
    <2>1. CASE pc[q] # "idle"
      <3>1. RealProc(q) /\ Real(mem[q])
        BY <2>1 DEF RealInv, RealProc
      <3>2. \A d \in Deliveries : Real(d) => Real(d)'
        BY <1>0, RealGrown
      <3>3. Real(mem[q])'
        BY <1>0, <1>2, <3>1, <3>2 DEF Real
      <3>4. /\ comments # <<>> => comments' # <<>>
            /\ prs > 0 => prs' > 0
        BY <1>0 DEF Grown
      <3> QED BY <1>2, <2>1, <3>1, <3>3, <3>4 DEF RealProc
    <2> QED BY <1>2, <2>1 DEF RealProc
  <1>3. \A q \in Proc : pc'[q] = "idle" => RealProc(q)'
    BY DEF RealProc
  <1> QED BY <1>1, <1>2, <1>3

LEMMA RealMoving ==
    ASSUME TypeInv, TypeInv', RealInv, Grown, NEW p \in Proc, Moving(p)
    PROVE  RealInv'
  <1>0. TypeOK /\ TypeOK' /\ RealProc(p) /\ comments \in Seq(Text)
    BY DEF TypeInv, TypeOK, RealInv
  <1>1. /\ file' = file /\ own' = own /\ mem' = mem /\ seen' = seen
        /\ pc[p] # "idle" /\ Others(p)
    BY <1>0, MoveEffect
  <1>2. file'["event"] = NoDelivery /\ Real(file["chat"])'
    BY <1>1, RealAround
  <1>3. ASSUME NEW q \in Proc, q # p
        PROVE  RealProc(q)'
    BY <1>1, <1>3, RealAround DEF Others
  <1>4. RealProc(p)'
    <2>1. /\ Real(mem[p]) /\ Follows(mem[p], seen[p]["chat"])
          /\ Follows(file["chat"], seen[p]["chat"])
      BY <1>0, <1>1 DEF RealProc
    <2>2. \A d \in Deliveries : Real(d) => Real(d)'
      BY <1>0, RealGrown
    <2>3. mem[p] \in Deliveries
      BY <1>0 DEF TypeOK
    <2>4. Real(mem[p])'
      BY <1>1, <2>1, <2>2, <2>3 DEF Real
    <2>5. /\ Follows(mem[p], seen[p]["chat"])' /\ Follows(file["chat"], seen[p]["chat"])'
      BY <1>1, <2>1 DEF Follows
    <2>6. plan'[p].head = plan[p].head
      BY <1>0 DEF Moving, Look, Push, Found, Create, Patch, Announce, Search, Post, TypeOK, Plans
    <2>7. /\ pc[p] \in Publishing => plan[p].head # 0
          /\ pc[p] \in Checked \ {"check"} => mem[p].pushed # 0
          /\ pc[p] \in {"patch", "finish"} => mem[p].pr
      BY <1>0, <1>1 DEF RealProc
    <2>8. CASE Look(p) \/ Push(p)
      <3>1. pc'[p] \in {"check", "reserve"} /\ pc[p] \in Publishing
        BY <1>0, <2>8 DEF Look, Push, Goto, TypeOK, Publishing
      <3> QED BY <1>1, <2>4, <2>5, <2>6, <2>7, <3>1 DEF RealProc, Checked
    <2>9. CASE Found(p) \/ Create(p)
      <3>1. pc'[p] = "verify" /\ pc[p] \in Checked \ {"check"} /\ pc[p] \in Publishing
        BY <1>0, <2>9 DEF Found, Create, Goto, TypeOK, Checked, Publishing
      <3>2. prs' > 0
        BY <1>0, <2>9 DEF Found, Create, Opened, github, TypeOK
      <3> QED BY <1>1, <2>4, <2>5, <2>6, <2>7, <3>1, <3>2 DEF RealProc
    <2>10. CASE Patch(p)
      <3>1. pc[p] = "patch" /\ pc'[p] = "finish"
        BY <1>0, <2>10 DEF Patch, Goto, TypeOK
      <3> QED BY <1>1, <2>4, <2>5, <2>6, <2>7, <3>1 DEF RealProc, Checked, Publishing
    <2>11. CASE Announce(p) \/ Search(p)
      <3>1. pc'[p] \in {"search", "claim"}
        BY <1>0, <2>11 DEF Announce, Search, Goto, TypeOK
      <3> QED BY <1>1, <2>4, <2>5, <3>1 DEF RealProc, Checked, Publishing
    <2>12. CASE Post(p)
      <3>1. pc[p] = "post" /\ pc'[p] = "receive" /\ comments' = Append(comments, mem[p].announcement.text)
        BY <1>0, <2>12 DEF Post, Goto, TypeOK
      <3>2. mem[p].announcement.text \in Text
        <4>1. mem[p].announcement.text \in Text \union {NoText}
          BY <1>0 DEF TypeOK, Deliveries, Announcements
        <4> QED BY <3>1, <4>1 DEF TypeInv, Begun
      <3>3. comments' # <<>>
        BY <1>0, <3>1, <3>2, AppendNonEmpty
      <3> QED BY <1>1, <2>4, <2>5, <3>1, <3>3 DEF RealProc, Checked, Publishing
    <2> QED BY <2>8, <2>9, <2>10, <2>11, <2>12 DEF Moving
  <1> QED BY <1>2, <1>3, <1>4 DEF RealInv

LEMMA RealBeginning ==
    ASSUME TypeInv, TypeInv', RealInv, Grown, ~Feedback, NEW p \in Proc, NEW copy \in Copies,
           Beginning(p, copy)
    PROVE  RealInv'
  <1>0. TypeOK /\ TypeOK' /\ Real(file["chat"])
    BY DEF TypeInv, RealInv
  <1>1. PICK d, place, fixed :
             /\ Begins(p, "chat", d, place, fixed)
             /\ d \in Deliveries
             /\ Others(p)
             /\ pc'[p] = place /\ mem'[p] = d /\ seen'[p] = file /\ plan'[p] = fixed
             /\ UNCHANGED <<head, file, github, late>>
             /\ place \in {"bind", "open", "confirm", "survey"}
             /\ Start("chat") = file["chat"] /\ file["chat"] \in Deliveries
    BY ChatBegin
  <1>2. file'["event"] = NoDelivery /\ Real(file["chat"])'
    BY <1>1, RealAround
  <1>3. ASSUME NEW q \in Proc, q # p
        PROVE  RealProc(q)'
    BY <1>1, <1>3, RealAround DEF Others
  <1>4. /\ Real(d) /\ Follows(d, file["chat"])
        /\ place \in Publishing => fixed.head # 0
    <2>1. CASE place = "bind"
      <3>1. PICK c \in 1..MaxContent :
              /\ d = Bound(file["chat"], c)
              /\ fixed = [NoPlan EXCEPT !.operation = "publish", !.head = head, !.content = c]
        BY <1>1, <2>1 DEF Begins
      <3>2. fixed.head = head /\ head # 0
        BY <1>0, <3>1, DeliveryAssumption DEF NoPlan, TypeOK
      <3>3. /\ d.head = head /\ d.content = c /\ ~d.reconciled
            /\ d.pushed = file["chat"].pushed /\ d.pr = file["chat"].pr
            /\ d.announcement = file["chat"].announcement
        BY <1>0, <1>1, <3>1, BoundFields DEF SameMarks, SameResult, SameAnnouncement
      <3>4. Real(d)
        BY <1>0, <3>2, <3>3 DEF Real
      <3> QED BY <3>2, <3>3, <3>4 DEF Follows
    <2>2. CASE place = "open"
      <3>1. /\ d = file["chat"] /\ d.made
            /\ fixed = [NoPlan EXCEPT !.operation = "reconcile", !.head = d.head,
                                      !.content = d.content]
        BY <1>1, <2>2 DEF Begins
      <3>2. fixed.head = d.head
        BY <3>1 DEF NoPlan
      <3> QED BY <1>0, <3>1, <3>2 DEF Real, Follows
    <2>3. CASE place \in {"confirm", "survey"}
      <3>1. d = file["chat"]
        BY <1>1, <2>3 DEF Begins
      <3> QED BY <1>0, <2>3, <3>1 DEF Follows, Publishing
    <2> QED BY <1>1, <2>1, <2>2, <2>3
  <1>5. RealProc(p)'
    <2>1. Real(d)'
      BY <1>0, <1>1, <1>4, RealGrown
    <2>2. Real(mem[p])'
      BY <1>1, <2>1 DEF Real
    <2>3. Follows(mem[p], seen[p]["chat"])' /\ Follows(file["chat"], seen[p]["chat"])'
      BY <1>1, <1>4 DEF Follows
    <2> QED BY <1>1, <1>4, <2>2, <2>3 DEF RealProc, Checked
  <1> QED BY <1>2, <1>3, <1>5 DEF RealInv

LEMMA RealStep ==
    ASSUME ~Feedback
    PROVE  TypeInv /\ OnceInv /\ RealInv /\ [Next]_vars => RealInv'
  <1> SUFFICES ASSUME TypeInv, OnceInv, RealInv, [Next]_vars PROVE RealInv'
    OBVIOUS
  <1>1. CASE UNCHANGED vars
    BY <1>1 DEF vars, github, RealInv, RealProc, Real
  <1>2. CASE Next
    <2>0. TypeInv' /\ Grown
      BY <1>2, TypeStep, EverythingGrows
    <2>1. ASSUME NEW p \in Proc, Stopping(p)
          PROVE  RealInv'
      <3>1. file' = file /\ Others(p) /\ Left(p)
        BY <2>1, StopEffect DEF TypeInv
      <3>2. \A q \in Proc : RealProc(q)'
        BY <2>0, <3>1, RealAround DEF Others, Left
      <3> QED BY <2>0, <3>1, <3>2, RealAround DEF RealInv
    <2>2. ASSUME World
          PROVE  RealInv'
      <3>1. file' = file /\ UNCHANGED <<pc, mem, seen, plan>>
        BY <2>2 DEF World, Observe, Work, PushByHand, Land, process
      <3>2. \A q \in Proc : RealProc(q)'
        BY <2>0, <3>1, RealAround
      <3> QED BY <2>0, <3>1, <3>2, RealAround DEF RealInv
    <2> QED BY <1>2, <2>0, <2>1, <2>2, EveryStep, RealSaving, RealMoving, RealBeginning
  <1> QED BY <1>1, <1>2

LEMMA RealInit == Init => RealInv
  <1> SUFFICES ASSUME Init PROVE RealInv
    OBVIOUS
  <1>1. file["event"] = NoDelivery /\ file["chat"] = NoDelivery /\ remote = 0
    BY Empties DEF Init, NoRecord
  <1>2. Real(NoDelivery)
    BY <1>1 DEF Real, NoDelivery, NoAnnouncement
  <1>3. \A p \in Proc : RealProc(p)
    BY DEF Init, RealProc
  <1> QED BY <1>1, <1>2, <1>3 DEF RealInv

-----------------------------------------------------------------------------
(* Pushes.                                                                      *)
LEMMA Numbers ==
    ASSUME TypeOK
    PROVE  /\ head \in Nat /\ remote \in Nat /\ prs \in Nat
           /\ file["chat"] \in Deliveries
           /\ file["chat"].pending \in Nat /\ file["chat"].head \in Nat
           /\ \A p \in Proc : /\ mem[p] \in Deliveries
                              /\ mem[p].pending \in Nat /\ mem[p].head \in Nat
                              /\ plan[p].head \in Nat
           /\ \A r \in late : r.head \in Nat
  <1>1. \A h \in Heads : h \in Nat
    BY DeliveryAssumption DEF Heads
  <1>2. head \in Nat /\ remote \in Nat /\ prs \in Nat
    BY <1>1, DeliveryAssumption DEF TypeOK
  <1>3. file["chat"] \in Deliveries /\ \A p \in Proc : mem[p] \in Deliveries
    BY Empties DEF TypeOK, Records
  <1>4. \A d \in Deliveries : d.pending \in Nat /\ d.head \in Nat
    BY <1>1 DEF Deliveries
  <1>5. (\A p \in Proc : plan[p].head \in Nat) /\ \A r \in late : r.head \in Nat
    BY <1>1 DEF TypeOK, Plans, Requests
  <1> QED BY <1>2, <1>3, <1>4, <1>5

(* A save of the only operation: its delivery becomes the record's, or it ends.  *)
LEMMA SoloSave ==
    ASSUME TypeInv, OnceInv, PushInv, ~overlapped, NEW p \in Proc, Saving(p)
    PROVE  \E d, place :
             /\ Edit(p, d, place) /\ EditFacts(p, d) /\ Leads(pc[p], place)
             /\ Aside /\ Others(p) /\ pc[p] # "idle" /\ d \in Deliveries
             /\ \/ /\ file'["chat"] = d
                   /\ \/ Left(p)
                      \/ /\ Gone(p, place) /\ pc'[p] = place /\ mem'[p] = d
                         /\ seen'[p]["chat"] = d /\ plan'[p] = plan[p]
                \/ file' = file /\ Left(p)
  <1>0. TypeOK /\ own[p] = "chat"
    BY DEF TypeInv, OnceInv, Copied
  <1>1. PICK d, place :
             /\ Edit(p, d, place) /\ Aside /\ Others(p) /\ d \in Deliveries
             /\ \/ /\ seen[p]["chat"] = file["chat"]
                   /\ file'["chat"] = d
                   /\ Left(p) \/ Gone(p, place)
                \/ /\ d = seen[p]["chat"]
                   /\ file' = file
                   /\ Left(p) \/ Gone(p, place)
                \/ file' = file /\ Left(p)
    BY <1>0, ChatSave
  <1>2. pc[p] # "idle" /\ EditFacts(p, d) /\ Leads(pc[p], place)
    BY <1>0, <1>1, EditType, EditChanges, EditLeads
  <1>3. seen[p]["chat"] = file["chat"]
    BY <1>2 DEF PushInv, SoloProc
  <1>4. Gone(p, place) => /\ pc'[p] = place /\ mem'[p] = file'["chat"]
                          /\ seen'[p]["chat"] = file'["chat"] /\ plan'[p] = plan[p]
    BY <1>0 DEF Gone
  <1>5. \/ file'["chat"] = d /\ (Left(p) \/ Gone(p, place))
        \/ file' = file /\ Left(p)
    BY <1>1, <1>3
  <1> QED BY <1>1, <1>2, <1>4, <1>5

LEMMA PushSaving ==
    ASSUME TypeInv, OnceInv, PushInv, NEW p \in Proc, Saving(p)
    PROVE  PushInv'
  <1>0. TypeOK
    BY DEF TypeInv
  <1>1. Aside
    BY <1>0, EverySave
  <1>2. Shaped' /\ Beyond' = Beyond /\ overlapped' = overlapped /\ remote' = remote
        /\ head' = head
    BY <1>1 DEF Aside, github, Shaped, Beyond, PushInv
  <1>3. SUFFICES ASSUME ~overlapped
                 PROVE  Alone' /\ SoloRecord' /\ \A q \in Proc : SoloProc(q)'
    BY <1>2 DEF PushInv
  <1>4. PICK d, place :
             /\ EditFacts(p, d) /\ Leads(pc[p], place)
             /\ Others(p) /\ pc[p] # "idle" /\ d \in Deliveries
             /\ \/ /\ file'["chat"] = d
                   /\ \/ Left(p)
                      \/ /\ Gone(p, place) /\ pc'[p] = place /\ mem'[p] = d
                         /\ seen'[p]["chat"] = d /\ plan'[p] = plan[p]
                \/ file' = file /\ Left(p)
    BY <1>3, SoloSave
  <1>5. /\ Alone /\ SoloRecord /\ SoloProc(p)
        /\ mem[p].pending = file["chat"].pending
        /\ mem[p].pending <= mem[p].head /\ mem[p].head <= head
        /\ pc[p] \in Publishing => mem[p].head = plan[p].head
        /\ pc[p] = "reserve" => mem[p].pending = 0
        /\ pc[p] \in Checked => mem[p].pending <= remote
    BY <1>3, <1>4 DEF PushInv, SoloProc
  <1>6. /\ head \in Nat /\ remote \in Nat
        /\ mem[p].pending \in Nat /\ mem[p].head \in Nat /\ plan[p].head \in Nat
        /\ d.pending \in Nat /\ d.head \in Nat
        /\ \A r \in late : r.head \in Nat
    BY <1>0, <1>4, Numbers, DeliveryAssumption DEF Deliveries, Heads
  <1>7. d.head = mem[p].head /\ d.pending <= d.head /\ d.head <= head
    BY <1>4, <1>5, <1>6 DEF EditFacts, Publishing
  <1>8. \A r \in Beyond : r.head = d.pending
    <2>1. CASE pc[p] \in {"reserve", "finish"}
      <3>1. Beyond = {}
        <4>1. \A r \in Beyond : r.head = mem[p].pending /\ r.head > remote /\ r \in late
          BY <1>5 DEF SoloRecord, Beyond
        <4>2. mem[p].pending <= remote
          BY <1>5, <1>6, <2>1 DEF Checked
        <4> QED BY <1>6, <4>1, <4>2
      <3> QED BY <3>1
    <2>2. CASE pc[p] \notin {"reserve", "finish"}
      BY <1>4, <1>5, <2>2 DEF EditFacts, SoloRecord
    <2> QED BY <2>1, <2>2
  <1>9. SoloRecord'
    <2>1. CASE file'["chat"] = d
      BY <1>2, <1>7, <1>8, <2>1 DEF SoloRecord
    <2>2. CASE file' = file
      BY <1>2, <1>5, <2>2 DEF SoloRecord
    <2> QED BY <1>4, <2>1, <2>2
  <1>10. \A q \in Proc \ {p} : pc[q] = "idle" /\ pc'[q] = "idle"
    BY <1>4, <1>5 DEF Alone, Others
  <1>11. Alone'
    BY <1>10 DEF Alone
  <1>12. SoloProc(p)'
    <2>1. CASE Left(p)
      BY <2>1 DEF Left, SoloProc
    <2>2. CASE /\ file'["chat"] = d /\ pc'[p] = place /\ mem'[p] = d
               /\ seen'[p]["chat"] = d /\ plan'[p] = plan[p] /\ place # "idle"
      <3>1. place \in Publishing => d.head = plan[p].head
        BY <1>4, <1>5, <1>7 DEF Leads, Publishing
      <3>2. place # "reserve"
        BY <1>4 DEF Leads
      <3>3. place = "push" => d.pending = plan[p].head /\ Beyond = {}
        <4>1. SUFFICES ASSUME place = "push" PROVE d.pending = plan[p].head /\ Beyond = {}
          OBVIOUS
        <4>2. pc[p] = "reserve" /\ d.pending = plan[p].head /\ mem[p].pending = 0
          BY <1>4, <1>5, <4>1 DEF Leads, EditFacts
        <4>3. \A r \in Beyond : r.head = 0 /\ r.head > remote
          BY <1>5, <4>2 DEF SoloRecord, Beyond
        <4> QED BY <1>6, <4>2, <4>3
      <3>4. place \in Checked => d.pending <= remote
        <4>1. place \in Checked => pc[p] \in Checked \ {"finish"}
          BY <1>4 DEF Leads, Checked
        <4>2. pc[p] \in Checked \ {"finish"} => d.pending = mem[p].pending
          BY <1>4 DEF EditFacts, Checked
        <4> QED BY <1>5, <4>1, <4>2
      <3> QED BY <1>2, <1>7, <2>2, <3>1, <3>2, <3>3, <3>4 DEF SoloProc
    <2> QED BY <1>4, <2>1, <2>2 DEF Gone
  <1> QED BY <1>9, <1>10, <1>11, <1>12 DEF SoloProc

(* The steps that leave the record alone and send no push.                       *)
LEMMA PushAround ==
    ASSUME TypeOK, TypeOK', PushInv, ~overlapped, Grown, file' = file, head' >= head,
           late' \subseteq late
    PROVE  /\ SoloRecord' /\ Beyond' \subseteq Beyond
           /\ \A q \in Proc : pc'[q] = pc[q] /\ mem'[q] = mem[q] /\ seen'[q] = seen[q]
                              /\ plan'[q].head = plan[q].head
                => SoloProc(q)'
  <1>1. /\ head \in Nat /\ remote \in Nat /\ head' \in Nat /\ remote' \in Nat
        /\ file["chat"].head \in Nat
        /\ \A r \in late : r.head \in Nat
        /\ \A q \in Proc : mem[q].pending \in Nat /\ mem[q].head \in Nat
    BY Numbers, DeliveryAssumption DEF TypeOK, Heads
  <1>2. Beyond' \subseteq Beyond
    BY <1>1 DEF Beyond, Grown
  <1>3. SoloRecord'
    BY <1>1, <1>2 DEF PushInv, SoloRecord
  <1>4. ASSUME NEW q \in Proc, pc'[q] = pc[q], mem'[q] = mem[q], seen'[q] = seen[q],
               plan'[q].head = plan[q].head
        PROVE  SoloProc(q)'
    <2>1. SoloProc(q)
      BY DEF PushInv
    <2>2. pc[q] # "idle" => mem[q].head <= head' /\ (pc[q] \in Checked => mem[q].pending <= remote')
      BY <1>1, <2>1 DEF SoloProc, Grown
    <2> QED BY <1>2, <1>4, <2>1, <2>2 DEF SoloProc
  <1> QED BY <1>2, <1>3, <1>4

LEMMA PushMoving ==
    ASSUME TypeInv, TypeInv', PushInv, Grown, NEW p \in Proc, Moving(p)
    PROVE  PushInv'
  <1>0. TypeOK /\ TypeOK'
    BY DEF TypeInv
  <1>1. /\ head' = head /\ late' = late /\ overlapped' = overlapped /\ file' = file
        /\ own' = own /\ mem' = mem /\ seen' = seen
        /\ pc[p] # "idle" /\ Others(p)
    BY <1>0, MoveEffect
  <1>2. Shaped'
    BY <1>1 DEF PushInv, Shaped
  <1>3. SUFFICES ASSUME ~overlapped
                 PROVE  Alone' /\ SoloRecord' /\ \A q \in Proc : SoloProc(q)'
    BY <1>1, <1>2 DEF PushInv
  <1>4. /\ head \in Nat /\ remote \in Nat /\ remote' \in Nat
        /\ mem[p].pending \in Nat /\ mem[p].head \in Nat /\ plan[p].head \in Nat
    BY <1>0, Numbers, DeliveryAssumption DEF TypeOK, Heads
  <1>5. /\ SoloRecord' /\ Beyond' \subseteq Beyond
        /\ \A q \in Proc \ {p} : SoloProc(q)'
    BY <1>0, <1>1, <1>3, <1>4, PushAround DEF Others
  <1>6. Alone'
    BY <1>1, <1>3 DEF PushInv, Alone, Others
  <1>7. plan'[p].head = plan[p].head
    BY <1>0 DEF Moving, Look, Push, Found, Create, Patch, Announce, Search, Post, TypeOK, Plans
  <1>8. /\ seen[p]["chat"] = file["chat"]
        /\ pc[p] # "bind" => mem[p] = file["chat"]
        /\ mem[p].pending = file["chat"].pending
        /\ mem[p].pending <= mem[p].head /\ mem[p].head <= head
        /\ pc[p] \in Publishing => mem[p].head = plan[p].head
        /\ pc[p] = "push" => mem[p].pending = plan[p].head
        /\ pc[p] \in Checked => mem[p].pending <= remote
    BY <1>1, <1>3 DEF PushInv, SoloProc
  <1>9. SoloProc(p)'
    <2>1. CASE Look(p)
      <3>1. /\ pc[p] = "look" /\ remote' = remote
            /\ pc'[p] = IF remote = plan[p].head THEN "check" ELSE "reserve"
            /\ remote # plan[p].head => mem[p].pending = 0
        BY <1>0, <2>1 DEF Look, Goto, Pushable, github, TypeOK
      <3>2. mem[p].head = plan[p].head
        BY <1>8, <3>1 DEF Publishing
      <3> QED BY <1>1, <1>4, <1>7, <1>8, <3>1, <3>2 DEF SoloProc
    <2>2. CASE Push(p)
      <3>1. pc[p] = "push" /\ pc'[p] = "check" /\ remote' = plan[p].head
        BY <1>0, <2>2 DEF Push, Goto, TypeOK
      <3> QED BY <1>1, <1>4, <1>7, <1>8, <3>1 DEF SoloProc, Publishing
    <2>3. CASE Found(p) \/ Create(p) \/ Patch(p)
      <3>1. /\ pc[p] \in Checked /\ pc[p] \in Publishing \ {"bind"} /\ remote' = remote
            /\ pc'[p] \in {"verify", "finish"}
        BY <1>0, <2>3 DEF Found, Create, Patch, Goto, github, TypeOK, Checked, Publishing
      <3> QED BY <1>1, <1>4, <1>7, <1>8, <3>1 DEF SoloProc
    <2>4. CASE Announce(p) \/ Search(p) \/ Post(p)
      <3>1. /\ pc[p] \notin {"bind"} /\ pc'[p] \in {"search", "claim", "receive"}
        BY <1>0, <2>4 DEF Announce, Search, Post, Goto, TypeOK
      <3> QED BY <1>1, <1>4, <1>7, <1>8, <3>1 DEF SoloProc, Checked, Publishing
    <2> QED BY <2>1, <2>2, <2>3, <2>4 DEF Moving
  <1> QED BY <1>5, <1>6, <1>9

LEMMA PushStopping ==
    ASSUME TypeInv, TypeInv', PushInv, Grown, NEW p \in Proc, Stopping(p)
    PROVE  PushInv'
  <1>0. TypeOK /\ TypeOK'
    BY DEF TypeInv
  <1>1. /\ UNCHANGED <<head, file, remote, overlapped>> /\ Others(p) /\ Left(p)
        /\ pc[p] # "idle" /\ late' \subseteq late \union Pending(p)
    BY <1>0, StopEffect
  <1>2. \A r \in Pending(p) : r.kind = "push" =>
          r = PushOf(r.head) /\ pc[p] = "push" /\ r.head = plan[p].head
    BY DEF Pending, PushOf, CreationOf, PostOf
  <1>3. Shaped'
    BY <1>1, <1>2 DEF PushInv, Shaped
  <1>4. SUFFICES ASSUME ~overlapped
                 PROVE  Alone' /\ SoloRecord' /\ \A q \in Proc : SoloProc(q)'
    BY <1>1, <1>3 DEF PushInv
  <1>5. Alone /\ SoloRecord /\ SoloProc(p)
    BY <1>4 DEF PushInv
  <1>6. \A q \in Proc : pc'[q] = "idle"
    BY <1>1, <1>5 DEF Alone, Others, Left
  <1>7. \A r \in Beyond' : r.head = file["chat"].pending
    <2>1. ASSUME NEW r \in Beyond'
          PROVE  r.head = file["chat"].pending
      <3>1. CASE r \in late
        BY <1>1, <1>5, <2>1, <3>1 DEF Beyond, SoloRecord
      <3>2. CASE r \in Pending(p)
        BY <1>1, <1>2, <1>5, <2>1, <3>2 DEF Beyond, SoloProc
      <3> QED BY <1>1, <2>1, <3>1, <3>2 DEF Beyond
    <2> QED BY <2>1
  <1> QED BY <1>1, <1>5, <1>6, <1>7 DEF Alone, SoloRecord, SoloProc

LEMMA PushBeginning ==
    ASSUME TypeInv, TypeInv', PushInv, Grown, ~Feedback, NEW p \in Proc, NEW copy \in Copies,
           Beginning(p, copy)
    PROVE  PushInv'
  <1>0. TypeOK /\ TypeOK'
    BY DEF TypeInv
  <1>1. PICK d, place, fixed :
             /\ Begins(p, "chat", d, place, fixed)
             /\ Others(p)
             /\ pc'[p] = place /\ mem'[p] = d /\ seen'[p] = file /\ plan'[p] = fixed
             /\ UNCHANGED <<head, file, github, late>>
             /\ ~overlapped' => ~overlapped /\ \A q \in Proc : pc[q] = "idle"
             /\ place \in {"bind", "open", "confirm", "survey"}
             /\ Start("chat") = file["chat"] /\ file["chat"] \in Deliveries
    BY ChatBegin
  <1>2. Shaped' /\ head' = head /\ file' = file /\ late' = late
    BY <1>1 DEF PushInv, Shaped
  <1>3. SUFFICES ASSUME ~overlapped'
                 PROVE  Alone' /\ SoloRecord' /\ \A q \in Proc : SoloProc(q)'
    BY <1>2 DEF PushInv
  <1>4. ~overlapped /\ \A q \in Proc \ {p} : pc'[q] = "idle"
    BY <1>1, <1>3 DEF Others
  <1>5. /\ head \in Nat /\ file["chat"].pending \in Nat /\ file["chat"].head \in Nat
    BY <1>0, Numbers
  <1>6. SoloRecord'
    BY <1>0, <1>2, <1>4, <1>5, PushAround
  <1>7. file["chat"].pending <= file["chat"].head /\ file["chat"].head <= head
    BY <1>4 DEF PushInv, SoloRecord
  <1>8. /\ place # "bind" => d = file["chat"]
        /\ d.pending = file["chat"].pending /\ d.pending <= d.head /\ d.head <= head
        /\ place \in Publishing => d.head = fixed.head
    <2>1. CASE place = "bind"
      <3>1. PICK c \in 1..MaxContent :
              /\ d = Bound(file["chat"], c)
              /\ fixed = [NoPlan EXCEPT !.operation = "publish", !.head = head, !.content = c]
        BY <1>1, <2>1 DEF Begins
      <3>2. fixed.head = head
        BY <3>1 DEF NoPlan
      <3>3. d.head = head /\ d.pending = file["chat"].pending
        BY <1>0, <1>1, <3>1, BoundFields DEF SameMarks
      <3> QED BY <1>5, <1>7, <2>1, <3>2, <3>3
    <2>2. CASE place = "open"
      <3>1. /\ d = file["chat"]
            /\ fixed = [NoPlan EXCEPT !.operation = "reconcile", !.head = d.head,
                                      !.content = d.content]
        BY <1>1, <2>2 DEF Begins
      <3>2. fixed.head = d.head
        BY <3>1 DEF NoPlan
      <3> QED BY <1>7, <3>1, <3>2
    <2>3. CASE place \in {"confirm", "survey"}
      <3>1. d = file["chat"]
        BY <1>1, <2>3 DEF Begins
      <3> QED BY <1>7, <2>3, <3>1 DEF Publishing
    <2> QED BY <1>1, <2>1, <2>2, <2>3
  <1>9. SoloProc(p)'
    BY <1>1, <1>2, <1>8 DEF SoloProc, Checked
  <1> QED BY <1>4, <1>6, <1>9 DEF Alone, SoloProc

LEMMA PushWorld ==
    ASSUME TypeInv, TypeInv', PushInv, Grown, World
    PROVE  PushInv'
  <1>0. TypeOK /\ TypeOK' /\ head \in Nat
    BY Numbers DEF TypeInv
  <1>1. /\ file' = file /\ overlapped' = overlapped /\ UNCHANGED <<pc, mem, seen, plan>>
        /\ late' \subseteq late
    BY DEF World, Observe, Work, PushByHand, Land, process, environment
  <1>2. head' >= head
    BY <1>0 DEF World, Observe, Work, PushByHand, Land, environment
  <1>3. Shaped'
    BY <1>1 DEF PushInv, Shaped
  <1>4. SUFFICES ASSUME ~overlapped
                 PROVE  Alone' /\ SoloRecord' /\ \A q \in Proc : SoloProc(q)'
    BY <1>1, <1>3 DEF PushInv
  <1> QED BY <1>0, <1>1, <1>2, <1>4, PushAround DEF PushInv, Alone

LEMMA PushStep ==
    ASSUME ~Feedback
    PROVE  TypeInv /\ OnceInv /\ PushInv /\ [Next]_vars => PushInv'
  <1> SUFFICES ASSUME TypeInv, OnceInv, PushInv, [Next]_vars PROVE PushInv'
    OBVIOUS
  <1>1. CASE UNCHANGED vars
    BY <1>1 DEF vars, github, PushInv, Shaped, Beyond, Alone, SoloRecord, SoloProc
  <1>2. CASE Next
    <2>1. TypeInv' /\ Grown
      BY <1>2, TypeStep, EverythingGrows
    <2> QED BY <1>2, <2>1, EveryStep, PushSaving, PushMoving, PushStopping, PushBeginning,
              PushWorld
  <1> QED BY <1>1, <1>2

LEMMA PushInit == Init => PushInv
  <1> SUFFICES ASSUME Init PROVE PushInv
    OBVIOUS
  <1>1. file["chat"].pending = 0 /\ file["chat"].head = 0 /\ head = 1 /\ late = {}
    BY Empties DEF Init, NoRecord, NoDelivery
  <1>2. SoloRecord
    BY <1>1 DEF SoloRecord, Beyond
  <1> QED BY <1>1, <1>2 DEF Init, PushInv, Shaped, Alone, SoloProc

(* One pull request at most is ever created, and as long as operations do not     *)
(* overlap no push is started while another may still change the branch, again   *)
(* if no feedback event delivers.                                               *)
THEOREM OnePullRequest ==
    ASSUME ~Feedback
    PROVE  Spec => []PublishedOnce
  <1>1. ASSUME TypeOK, OnceInv, PushInv
        PROVE  PublishedOnce
    <2>1. ASSUME ~overlapped
          PROVE  Cardinality({r \in late : r.kind = "push" /\ r.head > remote})
                   + At("push") <= 1
      <3> DEFINE P == {p \in Proc : pc[p] = "push"}
      <3>1. Single(P)
        BY <1>1, <2>1 DEF PushInv, Alone, Single
      <3>2. Single(Beyond)
        BY <1>1, <2>1 DEF PushInv, SoloRecord, Shaped, Beyond, Single
      <3>3. P # {} => Beyond = {}
        BY <1>1, <2>1 DEF PushInv, SoloProc
      <3>4. Once(P, Beyond, 0)
        BY <3>1, <3>2, <3>3 DEF Once
      <3>5. 0 + Cardinality(Beyond) + Cardinality(P) <= 1
        BY <3>4, OnceIsOne
      <3>6. Beyond = {} \/ \E r : Beyond = {r}
        BY <3>2 DEF Single
      <3>7. P = {} \/ \E p : P = {p}
        BY <3>1 DEF Single
      <3>8. Cardinality(Beyond) \in Nat /\ Cardinality(P) \in Nat
        <4>1. ASSUME NEW S, S = {} \/ \E x : S = {x}
              PROVE  Cardinality(S) \in Nat
          <5>1. CASE S = {}
            BY <5>1, FS_EmptySet
          <5>2. ASSUME NEW x, S = {x}
                PROVE  Cardinality(S) \in Nat
            <6>1. Cardinality(S) = 1
              BY <5>2, FS_Singleton
            <6> QED BY <6>1
          <5> QED BY <4>1, <5>1, <5>2
        <4> HIDE DEF P
        <4> QED BY <3>6, <3>7, <4>1
      <3>9. Cardinality(Beyond) + Cardinality(P) <= 1
        BY <3>5, <3>8
      <3> QED BY <3>9 DEF Beyond, At
    <2>2. prs + Unanswered("create") + At("create") <= 1
      BY <1>1, OnceCounts
    <2> QED BY <2>1, <2>2 DEF PublishedOnce
  <1> DEFINE Inv == TypeInv /\ OnceInv /\ PushInv
  <1>2. Init => Inv
    BY TypeInit, OnceInit, PushInit
  <1>3. Inv /\ [Next]_vars => Inv'
    BY TypeStep, OnceStep, PushStep
  <1>4. Inv => PublishedOnce
    BY <1>1 DEF TypeInv
  <1> QED BY <1>2, <1>3, <1>4, PTL DEF Spec

-----------------------------------------------------------------------------
(* What the pull request shows.                                                 *)
LEMMA ShowsKept ==
    ASSUME NEW c, Shows(c), prs' = prs, prs > 0 => pull'.content = pull.content,
           LateCreations' \subseteq LateCreations
    PROVE  Shows(c)'
  BY DEF Shows

LEMMA ShownSaving ==
    ASSUME TypeInv, OnceInv, RealInv, PushInv, ShownInv, NEW p \in Proc, Saving(p)
    PROVE  ShownInv'
  <1>0. TypeOK
    BY DEF TypeInv
  <1>1. Aside
    BY <1>0, EverySave
  <1>2. /\ overlapped' = overlapped /\ LateCreations' = LateCreations
        /\ prs' = prs /\ pull' = pull /\ prs \in Nat
        /\ \A c : Shows(c)' <=> Shows(c)
    BY <1>0, <1>1 DEF Aside, github, LateCreations, Shows, TypeOK
  <1>3. SUFFICES ASSUME ~overlapped
                 PROVE  ShownRecord' /\ \A q \in Proc : ShownProc(q)'
    BY <1>2 DEF ShownInv
  <1>4. PICK d, place :
             /\ Edit(p, d, place) /\ EditFacts(p, d) /\ Leads(pc[p], place)
             /\ Others(p) /\ pc[p] # "idle" /\ d \in Deliveries
             /\ \/ /\ file'["chat"] = d
                   /\ \/ Left(p)
                      \/ /\ Gone(p, place) /\ pc'[p] = place /\ mem'[p] = d
                         /\ seen'[p]["chat"] = d /\ plan'[p] = plan[p]
                \/ file' = file /\ Left(p)
    BY <1>3, SoloSave
  <1>5. ShownRecord /\ ShownProc(p) /\ RealProc(p) /\ SoloProc(p) /\ Alone
    BY <1>3 DEF ShownInv, RealInv, PushInv
  <1>6. pc[p] = "finish" => prs > 0 /\ LateCreations = {}
    <2>1. pc[p] = "finish" => prs > 0
      BY <1>5 DEF RealProc, Real
    <2>2. prs > 0 => LateCreations = {}
      BY <1>2 DEF OnceInv, CreationInv, Once
    <2> QED BY <2>1, <2>2
  <1>7. ~d.update => Shows(d.content)
    <2>1. CASE pc[p] = "finish"
      <3>1. pull.content = mem[p].content /\ d.content = mem[p].content
        BY <1>4, <1>5, <2>1 DEF ShownProc, EditFacts
      <3> QED BY <1>6, <2>1, <3>1 DEF Shows
    <2>2. CASE pc[p] # "finish"
      BY <1>4, <1>5, <2>2 DEF ShownProc, EditFacts
    <2> QED BY <2>1, <2>2
  <1>8. d.reconciled => Complete(d)
    <2>1. CASE pc[p] = "finish"
      <3>1. d.pending = 0 /\ ~d.update
        BY <1>4, <2>1 DEF EditFacts
      <3>2. d.pushed = d.head
        BY <1>4, <1>5, <2>1 DEF EditFacts, ShownProc, Checked
      <3> QED BY <3>1, <3>2 DEF Complete
    <2>2. CASE pc[p] \in Publishing \ {"finish"}
      <3>1. ~mem[p].reconciled
        BY <1>5, <2>2 DEF ShownProc, Publishing
      <3> QED BY <1>4, <2>2, <3>1 DEF EditFacts
    <2>3. CASE pc[p] \notin Publishing
      <3>1. Announcement(p, d, place)
        BY <1>4, <2>3 DEF Edit, Publication, Publishing
      <3>2. mem[p] = file["chat"]
        BY <1>4, <1>5, <2>3 DEF SoloProc, Publishing
      <3>3. /\ d.pending = mem[p].pending /\ d.update = mem[p].update
            /\ d.pushed = mem[p].pushed /\ d.head = mem[p].head
            /\ d.reconciled = mem[p].reconciled
        BY <1>0, <1>4, <3>1, EditKeeps
           DEF SamePublication, SameWork, SameMarks, SameResult, SameEnd
      <3> QED BY <1>5, <3>2, <3>3 DEF ShownRecord, Complete
    <2> QED BY <2>1, <2>2, <2>3
  <1>9. ShownRecord'
    <2>1. CASE file'["chat"] = d
      BY <1>2, <1>7, <1>8, <2>1 DEF ShownRecord, Complete
    <2>2. CASE file' = file
      BY <1>2, <1>5, <2>2 DEF ShownRecord, Complete
    <2> QED BY <1>4, <2>1, <2>2
  <1>10. \A q \in Proc \ {p} : pc'[q] = "idle"
    BY <1>4, <1>5 DEF Alone, Others
  <1>11. ShownProc(p)'
    <2>1. CASE Left(p)
      BY <2>1 DEF Left, ShownProc
    <2>2. CASE pc'[p] = place /\ mem'[p] = d /\ plan'[p] = plan[p] /\ place # "idle"
      <3>1. place \in Publishing => pc[p] \in Publishing \ {"finish"}
        BY <1>4 DEF Leads, Publishing
      <3>2. place \in Publishing => d.content = plan[p].content /\ ~d.reconciled
        BY <1>4, <1>5, <3>1 DEF ShownProc, EditFacts
      <3>3. place \in {"reserve", "push"} \union Checked =>
              /\ plan[p].patch \in {0, d.content}
              /\ plan[p].patch = 0 => ~d.update
        <4>1. place \in {"reserve", "push"} \union Checked =>
                pc[p] \in ({"reserve", "push"} \union Checked) \ {"finish"}
          BY <1>4 DEF Leads, Checked
        <4> QED BY <1>4, <1>5, <4>1 DEF ShownProc, EditFacts
      <3>4. /\ place # "verify"
            /\ place = "patch" => plan[p].patch = d.content
            /\ place = "finish" => pull.content = d.content
        <4>1. CASE pc[p] = "verify"
          <5>1. /\ place = IF plan[p].existing /\ plan[p].patch # 0 THEN "patch" ELSE "finish"
                /\ d.content = mem[p].content
            BY <1>4, <4>1 DEF Edit, Publication, Announcement, EditFacts
          <5>2. /\ plan[p].patch \in {0, mem[p].content}
                /\ plan[p].patch = 0 => ~mem[p].update
                /\ ~plan[p].existing => pull.content = mem[p].content
                /\ ~mem[p].update => Shows(mem[p].content)
            BY <1>5, <4>1 DEF ShownProc, Checked
          <5>3. prs > 0
            BY <1>5, <4>1 DEF RealProc
          <5>4. plan[p].patch = 0 => pull.content = mem[p].content
            BY <5>2, <5>3 DEF Shows
          <5> QED BY <5>1, <5>2, <5>4
        <4>2. CASE pc[p] # "verify"
          BY <1>4, <4>2 DEF Leads
        <4> QED BY <4>1, <4>2
      <3>5. place \in Checked \ {"check"} => d.pushed = d.head
        <4>1. CASE place = "find"
          BY <1>4, <1>5, <4>1 DEF Leads, EditFacts, SoloProc, Publishing
        <4>2. CASE place \in Checked \ {"check", "find"}
          <5>1. pc[p] \in Checked \ {"check"}
            BY <1>4, <4>2 DEF Leads, Checked
          <5> QED BY <1>4, <1>5, <5>1 DEF ShownProc, EditFacts, Checked
        <4> QED BY <4>1, <4>2
      <3> QED BY <1>2, <1>7, <2>2, <3>2, <3>3, <3>4, <3>5 DEF ShownProc
    <2> QED BY <1>4, <2>1, <2>2 DEF Gone
  <1> QED BY <1>9, <1>10, <1>11 DEF ShownProc

LEMMA ShownMoving ==
    ASSUME TypeInv, OnceInv, RealInv, PushInv, ShownInv, NEW p \in Proc, Moving(p)
    PROVE  ShownInv'
  <1>0. TypeOK /\ prs \in Nat
    BY DEF TypeInv, TypeOK
  <1>1. /\ late' = late /\ overlapped' = overlapped /\ file' = file /\ mem' = mem
        /\ pc[p] # "idle" /\ Others(p)
    BY <1>0, MoveEffect
  <1>2. LateCreations' = LateCreations
    BY <1>1 DEF LateCreations
  <1>3. SUFFICES ASSUME ~overlapped
                 PROVE  ShownRecord' /\ \A q \in Proc : ShownProc(q)'
    BY <1>1 DEF ShownInv
  <1>4. ShownRecord /\ ShownProc(p) /\ RealProc(p) /\ SoloProc(p) /\ Alone
    BY <1>3 DEF ShownInv, RealInv, PushInv
  <1>5. \A q \in Proc \ {p} : pc'[q] = "idle"
    BY <1>1, <1>4 DEF Alone, Others
  <1>6. mem[p] = file["chat"]
    <2>1. pc[p] # "bind"
      BY DEF Moving, Look, Push, Found, Create, Patch, Announce, Search, Post
    <2> QED BY <1>1, <1>4, <2>1 DEF SoloProc
  <1>7. mem[p].content # 0 /\ (file["chat"].reconciled => Complete(file["chat"]))
    BY <1>1, <1>4 DEF TypeInv, Begun, RealProc, Real, ShownRecord
  <1>8. SUFFICES (~mem[p].update => Shows(mem[p].content)') /\ ShownProc(p)'
    BY <1>1, <1>5, <1>6, <1>7 DEF ShownRecord, ShownProc, Complete
  <1>9. /\ ~mem[p].update => Shows(mem[p].content)
        /\ pc[p] \in Publishing => mem[p].content = plan[p].content /\ ~mem[p].reconciled
    BY <1>1, <1>4 DEF ShownProc
  <1>10. ASSUME prs' = prs, pull' = pull
         PROVE  ~mem[p].update => Shows(mem[p].content)'
    BY <1>1, <1>2, <1>9, <1>10 DEF Shows
  <1>11. CASE Look(p)
    <2>1. /\ pc[p] = "look" /\ pc'[p] \in {"check", "reserve"} /\ prs' = prs /\ pull' = pull
          /\ plan'[p].patch = IF mem[p].update THEN mem[p].content ELSE 0
          /\ plan'[p].content = plan[p].content
      BY <1>0, <1>11 DEF Look, Goto, github, TypeOK, Plans
    <2> QED BY <1>1, <1>7, <1>9, <1>10, <2>1 DEF ShownProc, Publishing, Checked
  <1>12. CASE Push(p)
    <2>1. /\ pc[p] = "push" /\ pc'[p] = "check" /\ prs' = prs /\ pull' = pull
          /\ plan' = plan
      BY <1>0, <1>12 DEF Push, Goto, TypeOK
    <2> QED BY <1>1, <1>4, <1>9, <1>10, <2>1 DEF ShownProc, Publishing, Checked
  <1>13. CASE Found(p)
    <2>1. /\ pc[p] = "find" /\ pc'[p] = "verify" /\ prs' = prs /\ pull' = pull
          /\ plan'[p].patch = plan[p].patch /\ plan'[p].existing
          /\ plan'[p].content = plan[p].content
      BY <1>0, <1>13 DEF Found, Goto, github, TypeOK, Plans
    <2> QED BY <1>1, <1>4, <1>9, <1>10, <2>1 DEF ShownProc, Publishing, Checked
  <1>14. CASE Create(p)
    <2>1. /\ pc[p] = "create" /\ pc'[p] = "verify" /\ plan' = plan /\ Opened(plan[p].content)
      BY <1>0, <1>14 DEF Create, Goto, TypeOK
    <2>2. prs = 0 /\ LateCreations = {}
      <3>1. p \in Creating /\ Once(Creating, LateCreations, prs)
        BY <2>1 DEF Creating, OnceInv, CreationInv
      <3> QED BY <3>1 DEF Once
    <2>3. pull'.content = mem[p].content
      BY <1>9, <2>1, <2>2 DEF Opened, Publishing
    <2>4. Shows(mem[p].content)'
      BY <1>1, <1>2, <2>2, <2>3 DEF Shows
    <2> QED BY <1>1, <1>4, <1>9, <2>1, <2>3, <2>4 DEF ShownProc, Publishing, Checked
  <1>15. CASE Patch(p)
    <2>1. /\ pc[p] = "patch" /\ pc'[p] = "finish" /\ plan' = plan /\ prs' = prs
          /\ pull'.content = plan[p].patch
      BY <1>0, <1>15 DEF Patch, Goto, TypeOK
    <2>2. prs > 0
      BY <1>1, <1>4, <2>1 DEF RealProc, Real
    <2>3. LateCreations = {}
      BY <1>0, <2>2 DEF OnceInv, CreationInv, Once
    <2>4. pull'.content = mem[p].content
      BY <1>4, <2>1 DEF ShownProc
    <2>5. Shows(mem[p].content)'
      BY <1>1, <1>2, <2>3, <2>4 DEF Shows
    <2> QED BY <1>1, <1>4, <1>9, <2>1, <2>4, <2>5 DEF ShownProc, Publishing, Checked
  <1>16. CASE Announce(p) \/ Search(p) \/ Post(p)
    <2>1. pc'[p] \in {"search", "claim", "receive"} /\ prs' = prs /\ pull' = pull
      BY <1>0, <1>16 DEF Announce, Search, Post, Goto, github, TypeOK
    <2> QED BY <1>1, <1>10, <2>1 DEF ShownProc, Publishing, Checked
  <1> QED BY <1>11, <1>12, <1>13, <1>14, <1>15, <1>16 DEF Moving

LEMMA ShownStopping ==
    ASSUME TypeInv, OnceInv, RealInv, PushInv, ShownInv, NEW p \in Proc, Stopping(p)
    PROVE  ShownInv'
  <1>0. TypeOK /\ prs \in Nat
    BY DEF TypeInv, TypeOK
  <1>1. /\ file' = file /\ prs' = prs /\ overlapped' = overlapped /\ Others(p) /\ Left(p)
        /\ pc[p] # "idle" /\ late' \subseteq late \union Pending(p)
    BY <1>0, StopEffect
  <1>2. SUFFICES ASSUME ~overlapped
                 PROVE  ShownRecord' /\ \A q \in Proc : ShownProc(q)'
    BY <1>1 DEF ShownInv
  <1>3. ShownRecord /\ ShownProc(p) /\ RealProc(p) /\ SoloProc(p) /\ Alone
    BY <1>2 DEF ShownInv, RealInv, PushInv
  <1>4. \A q \in Proc : pc'[q] = "idle"
    BY <1>1, <1>3 DEF Alone, Others, Left
  <1>5. SUFFICES ~file["chat"].update => Shows(file["chat"].content)'
    BY <1>1, <1>3, <1>4 DEF ShownRecord, ShownProc, Complete
  <1>6. CASE pc[p] = "create"
    <2>1. /\ plan[p].content = file["chat"].content
          /\ Pending(p) = {CreationOf(plan[p].content)}
      BY <1>3, <1>6 DEF SoloProc, ShownProc, Publishing, Pending
    <2>2. pull' = pull
      BY <1>6 DEF Stopping, Refuse, Fail, github
    <2>3. \A r \in LateCreations' : r \in LateCreations \/ r.content = file["chat"].content
      BY <1>1, <2>1 DEF LateCreations, CreationOf
    <2> QED BY <1>1, <1>3, <2>2, <2>3 DEF ShownRecord, Shows
  <1>7. CASE pc[p] = "patch"
    <2>1. plan[p].patch = file["chat"].content
      BY <1>3, <1>7 DEF SoloProc, ShownProc
    <2>2. pull'.content \in {pull.content, plan[p].patch}
      BY <1>0, <1>7 DEF Stopping, Refuse, Fail, github, TypeOK
    <2>3. LateCreations' \subseteq LateCreations
      BY <1>1, <1>7 DEF Pending, LateCreations
    <2> QED BY <1>1, <1>3, <2>1, <2>2, <2>3 DEF ShownRecord, Shows
  <1>8. CASE pc[p] \notin {"create", "patch"}
    <2>1. pull' = pull
      BY <1>8 DEF Stopping, Refuse, Fail, github
    <2>2. \A r \in Pending(p) : r.kind # "create"
      BY <1>8 DEF Pending, PushOf, PostOf
    <2>3. LateCreations' \subseteq LateCreations
      BY <1>1, <2>2 DEF LateCreations
    <2> QED BY <1>1, <1>3, <2>1, <2>3 DEF ShownRecord, Shows
  <1> QED BY <1>6, <1>7, <1>8

LEMMA ShownBeginning ==
    ASSUME TypeInv, OnceInv, PushInv, ShownInv, ~Feedback, NEW p \in Proc, NEW copy \in Copies,
           Beginning(p, copy)
    PROVE  ShownInv'
  <1>0. TypeOK /\ prs \in Nat
    BY DEF TypeInv, TypeOK
  <1>1. PICK d, place, fixed :
             /\ Begins(p, "chat", d, place, fixed)
             /\ Others(p)
             /\ pc'[p] = place /\ mem'[p] = d /\ plan'[p] = fixed
             /\ UNCHANGED <<head, file, github, late>>
             /\ ~overlapped' => ~overlapped /\ \A q \in Proc : pc[q] = "idle"
             /\ place \in {"bind", "open", "confirm", "survey"}
             /\ Start("chat") = file["chat"] /\ file["chat"] \in Deliveries
    BY ChatBegin
  <1>2. SUFFICES ASSUME ~overlapped'
                 PROVE  ShownRecord' /\ \A q \in Proc : ShownProc(q)'
    BY DEF ShownInv
  <1>3. ShownRecord /\ \A q \in Proc \ {p} : pc'[q] = "idle"
    BY <1>1, <1>2 DEF ShownInv, Others
  <1>4. \A c : Shows(c)' <=> Shows(c)
    BY <1>1 DEF Shows, LateCreations, github
  <1>5. ShownRecord'
    BY <1>1, <1>3, <1>4 DEF ShownRecord, Complete
  <1>6. /\ ~d.update => Shows(d.content)
        /\ place \in Publishing => d.content = fixed.content /\ ~d.reconciled
    <2>1. CASE place = "bind"
      <3>1. PICK c \in 1..MaxContent :
              /\ Frozen(file["chat"]) => c = file["chat"].content
              /\ d = Bound(file["chat"], c)
              /\ fixed = [NoPlan EXCEPT !.operation = "publish", !.head = head, !.content = c]
        BY <1>1, <2>1 DEF Begins
      <3>2. fixed.content = c
        BY <3>1 DEF NoPlan
      <3>3. d.content = c /\ ~d.reconciled /\ d.update = Updates(file["chat"], c)
        BY <1>0, <1>1, <3>1, BoundFields
      <3>4. ~d.update => Shows(c)
        <4>1. CASE c = file["chat"].content
          BY <1>3, <3>3, <4>1 DEF Updates, ShownRecord
        <4>2. CASE c # file["chat"].content /\ ~file["chat"].pr
          <5>1. ~file["chat"].creating
            BY <3>1, <4>2 DEF Frozen
          <5>2. prs = 0 /\ LateCreations = {}
            BY <5>1 DEF OnceInv, CreationInv, None
          <5> QED BY <5>2 DEF Shows
        <4>3. CASE c # file["chat"].content /\ file["chat"].pr
          BY <3>3, <4>3 DEF Updates
        <4> QED BY <4>1, <4>2, <4>3
      <3> QED BY <3>2, <3>3, <3>4
    <2>2. CASE place = "open"
      <3>1. /\ d = file["chat"] /\ ~d.reconciled
            /\ fixed = [NoPlan EXCEPT !.operation = "reconcile", !.head = d.head,
                                      !.content = d.content]
        BY <1>1, <2>2 DEF Begins
      <3>2. fixed.content = d.content
        BY <3>1 DEF NoPlan
      <3> QED BY <1>3, <3>1, <3>2 DEF ShownRecord
    <2>3. CASE place \in {"confirm", "survey"}
      <3>1. d = file["chat"]
        BY <1>1, <2>3 DEF Begins
      <3> QED BY <1>3, <2>3, <3>1 DEF ShownRecord, Publishing
    <2> QED BY <1>1, <2>1, <2>2, <2>3
  <1>7. ShownProc(p)'
    BY <1>1, <1>4, <1>6 DEF ShownProc, Checked
  <1> QED BY <1>3, <1>5, <1>7 DEF ShownProc

LEMMA ShownWorld ==
    ASSUME TypeInv, OnceInv, RealInv, ShownInv, World
    PROVE  ShownInv'
  <1>0. TypeOK /\ prs \in Nat
    BY DEF TypeInv, TypeOK
  <1>1. /\ file' = file /\ overlapped' = overlapped /\ UNCHANGED <<pc, mem, plan>>
        /\ late' \subseteq late
    BY DEF World, Observe, Work, PushByHand, Land, process, environment
  <1>2. SUFFICES ASSUME ~overlapped
                 PROVE  ShownRecord' /\ \A q \in Proc : ShownProc(q)'
    BY <1>1 DEF ShownInv
  <1>3. ShownRecord /\ \A q \in Proc : ShownProc(q) /\ RealProc(q)
    BY <1>2 DEF ShownInv, RealInv
  <1>4. CASE prs' = prs /\ pull'.content = pull.content
    <2>1. \A c : Shows(c) => Shows(c)'
      BY <1>1, <1>4 DEF Shows, LateCreations
    <2> QED BY <1>1, <1>3, <1>4, <2>1 DEF ShownRecord, ShownProc, Complete
  <1>5. CASE ~(prs' = prs /\ pull'.content = pull.content)
    <2>1. PICK r \in late : Land(r) /\ r.kind = "create"
      BY <1>0, <1>5 DEF World, Observe, Work, PushByHand, Land, github, TypeOK
    <2>2. r \in LateCreations /\ Opened(r.content)
      BY <2>1 DEF LateCreations, Land
    <2>3. prs = 0
      BY <2>2 DEF OnceInv, CreationInv, Once
    <2>4. pull'.content = r.content
      BY <2>2, <2>3 DEF Opened
    <2>5. \A c : Shows(c) => Shows(c)'
      BY <1>1, <2>2, <2>4 DEF Shows, LateCreations
    <2>6. \A q \in Proc : pc[q] \notin {"verify", "patch", "finish"}
      BY <1>3, <2>3 DEF RealProc, Real
    <2> QED BY <1>1, <1>3, <2>5, <2>6 DEF ShownRecord, ShownProc, Complete
  <1> QED BY <1>4, <1>5

LEMMA ShownStep ==
    ASSUME ~Feedback
    PROVE  TypeInv /\ OnceInv /\ RealInv /\ PushInv /\ ShownInv /\ [Next]_vars => ShownInv'
  <1> SUFFICES ASSUME TypeInv, OnceInv, RealInv, PushInv, ShownInv, [Next]_vars
               PROVE  ShownInv'
    OBVIOUS
  <1>1. CASE UNCHANGED vars
    BY <1>1 DEF vars, github, ShownInv, ShownRecord, ShownProc, Shows, LateCreations
  <1>2. CASE Next
    BY <1>2, EveryStep, ShownSaving, ShownMoving, ShownStopping, ShownBeginning, ShownWorld
  <1> QED BY <1>1, <1>2

LEMMA ShownInit == Init => ShownInv
  <1> SUFFICES ASSUME Init PROVE ShownInv
    OBVIOUS
  <1>1. file["chat"] = NoDelivery /\ prs = 0 /\ late = {}
    BY Empties DEF Init, NoRecord
  <1>2. Shows(0)
    BY <1>1 DEF Shows, LateCreations
  <1> QED BY <1>1, <1>2 DEF Init, ShownInv, ShownRecord, ShownProc, NoDelivery

(* What the record says of the branch, the pull request and the comment is so,   *)
(* and if operations never overlapped a reconciled delivery is complete, again   *)
(* if no feedback event delivers.                                               *)
THEOREM RecordIsTrue ==
    ASSUME ~Feedback
    PROVE  Spec => []Truthful
  <1> DEFINE Inv == TypeInv /\ OnceInv /\ RealInv /\ PushInv /\ ShownInv
  <1>1. ASSUME Inv
        PROVE  Truthful
    <2>1. TypeOK
      BY <1>1 DEF TypeInv
    <2>2. Real(file["chat"]) /\ Real(file["event"])
      <3>1. remote \in Nat
        BY <2>1, Numbers
      <3> QED BY <1>1, <3>1 DEF RealInv, Real, NoDelivery, NoAnnouncement
    <2>3. file["chat"].reconciled /\ ~overlapped =>
            /\ Complete(file["chat"])
            /\ pull.content = file["chat"].content
      BY <1>1, <2>2 DEF ShownInv, ShownRecord, Complete, Shows, Real
    <2> QED BY <2>2, <2>3 DEF Truthful, Copies, Real, Complete
  <1>2. Init => Inv
    BY TypeInit, OnceInit, RealInit, PushInit, ShownInit
  <1>3. Inv /\ [Next]_vars => Inv'
    BY TypeStep, OnceStep, RealStep, PushStep, ShownStep
  <1> QED BY <1>1, <1>2, <1>3, PTL DEF Spec

-----------------------------------------------------------------------------
(* How the record and GitHub map to AttemptOnce.                                *)
InRecord == {e \in Effects : IF e = "comment" THEN Settled(file["chat"].announcement)
                             ELSE file["chat"].creating}
Submitted == [e \in Effects |-> IF e = "comment" THEN Len(comments) + Unanswered("post")
                                ELSE prs + Unanswered("create")]
Effected == {e \in Effects : IF e = "comment" THEN comments # <<>> ELSE prs # 0}
Learnt == {e \in Effects : IF e = "comment" THEN file["chat"].announcement.receipt
                           ELSE file["chat"].pr}

LEMMA EffectsAre == Effects = {"comment", "pull"} /\ "comment" # "pull"
  BY DEF Effects

LEMMA Sums ==
    ASSUME NEW L, NEW n \in Nat, Single(L)
    PROVE  /\ Cardinality(L) \in Nat
           /\ L = {} => n + Cardinality(L) = n
           /\ \A x : L = {x} => n + Cardinality(L) = n + 1
           /\ n + Cardinality(L) = 0 => n = 0 /\ L = {}
  <1>1. CASE L = {}
    BY <1>1, FS_EmptySet
  <1>2. CASE L # {}
    <2>1. PICK x \in L : L = {x}
      BY <1>2 DEF Single
    <2>2. Cardinality(L) = 1
      BY <2>1, FS_Singleton
    <2> QED BY <2>1, <2>2
  <1> QED BY <1>1, <1>2

LEMMA NoComments == TypeOK => (comments = <<>> <=> Len(comments) = 0)
  BY DEF TypeOK

(* What the steps do to the requests and to their effects.                      *)
SameComments == UNCHANGED <<comments, LatePosts>>
SamePulls == UNCHANGED <<prs, LateCreations>>
Submits(e) ==
    /\ Submitted[e] = 0 /\ Submitted' = [Submitted EXCEPT ![e] = 1] /\ e \in InRecord
    /\ UNCHANGED file /\ (Effected' = Effected \/ Effected' = Effected \union {e})
Happens(e) ==
    /\ Submitted[e] # 0 /\ UNCHANGED <<file, Submitted>>
    /\ e \notin Effected /\ Effected' = Effected \union {e}
Outside(e) == Submits(e) \/ Happens(e)

LEMMA Counted ==
    /\ Unanswered("post") = Cardinality(LatePosts)
    /\ Unanswered("create") = Cardinality(LateCreations)
    /\ Unanswered("post")' = Cardinality(LatePosts')
    /\ Unanswered("create")' = Cardinality(LateCreations')
  BY DEF Unanswered, LatePosts, LateCreations

LEMMA CommentOutside ==
    ASSUME TypeInv, TypeOK', OnceInv, UNCHANGED file, SamePulls, NEW r,
           \/ /\ Posting # {}
              /\ \/ Len(comments') = Len(comments) + 1 /\ LatePosts' = {}
                 \/ comments' = comments /\ LatePosts' = {r}
           \/ r \in LatePosts /\ Len(comments') = Len(comments) + 1 /\ LatePosts' = LatePosts \ {r}
    PROVE  Outside("comment")
  <1>1. TypeOK /\ PostInv /\ Len(comments) \in Nat /\ prs \in Nat
    BY DEF TypeInv, TypeOK, OnceInv
  <1>0. Posting # {} \/ LatePosts # {}
    OBVIOUS
  <1>2. Len(comments) = 0 /\ Settled(file["chat"].announcement) /\ Single(LatePosts)
    BY <1>0, <1>1 DEF PostInv, None, Once
  <1>3. /\ Submitted["comment"] = Len(comments) + Cardinality(LatePosts)
        /\ Submitted' = [Submitted EXCEPT !["comment"] = Len(comments') + Cardinality(LatePosts')]
    BY EffectsAre, Counted DEF Submitted, SamePulls
  <1>9. comments = <<>>
    BY <1>1, <1>2, NoComments
  <1>4. "comment" \notin Effected /\ "comment" \in InRecord
    BY <1>2, <1>9, EffectsAre DEF Effected, InRecord
  <1>5. IF comments' = <<>> THEN Effected' = Effected ELSE Effected' = Effected \union {"comment"}
    BY <1>9, EffectsAre DEF Effected, SamePulls
  <1>6. comments' = <<>> <=> Len(comments') = 0
    BY DEF TypeOK
  <1>7. CASE Posting # {}
    <2>1. LatePosts = {}
      BY <1>1, <1>7 DEF PostInv, Once
    <2>2. Submitted["comment"] = 0
      BY <1>2, <1>3, <2>1, Sums
    <2>3. ASSUME Len(comments') = 1, LatePosts' = {}
          PROVE  Len(comments') + Cardinality(LatePosts') = 1
      BY <2>3, FS_EmptySet
    <2>4. ASSUME Len(comments') = 0, LatePosts' = {r}
          PROVE  Len(comments') + Cardinality(LatePosts') = 1
      <3>1. Cardinality({r}) = 1
        BY FS_Singleton
      <3> QED BY <2>4, <3>1
    <2>5. Len(comments') + Cardinality(LatePosts') = 1
      BY <1>2, <1>7, <2>1, <2>3, <2>4
    <2> QED BY <1>3, <1>4, <1>5, <2>2, <2>5 DEF Outside, Submits
  <1>8. CASE Posting = {}
    <2>0. /\ r \in LatePosts /\ LatePosts' = LatePosts \ {r}
          /\ Len(comments') = Len(comments) + 1
      BY <1>8
    <2>1. Len(comments') = 1 /\ LatePosts' = {} /\ LatePosts = {r}
      BY <1>2, <2>0 DEF Single
    <2>2. Cardinality({r}) = 1 /\ Cardinality({}) = 0
      BY FS_Singleton, FS_EmptySet
    <2>3. Submitted["comment"] = 1 /\ Len(comments') + Cardinality(LatePosts') = 1
      BY <1>2, <1>3, <2>1, <2>2
    <2>4. Submitted' = Submitted
      BY <1>3, <2>3, EffectsAre DEF Submitted
    <2> QED BY <1>4, <1>5, <1>6, <2>1, <2>3, <2>4 DEF Outside, Happens
  <1> QED BY <1>7, <1>8

LEMMA PullOutside ==
    ASSUME TypeInv, TypeOK', OnceInv, UNCHANGED file, SameComments, NEW r,
           \/ /\ Creating # {}
              /\ \/ prs' = prs + 1 /\ LateCreations' = {}
                 \/ prs' = prs /\ LateCreations' = {r}
           \/ r \in LateCreations /\ prs' = prs + 1 /\ LateCreations' = LateCreations \ {r}
    PROVE  Outside("pull")
  <1>1. TypeOK /\ CreationInv /\ Len(comments) \in Nat /\ prs \in Nat
    BY DEF TypeInv, TypeOK, OnceInv
  <1>0. Creating # {} \/ LateCreations # {}
    OBVIOUS
  <1>2. prs = 0 /\ file["chat"].creating /\ Single(LateCreations)
    BY <1>0, <1>1 DEF CreationInv, None, Once
  <1>3. /\ Submitted["pull"] = prs + Cardinality(LateCreations)
        /\ Submitted' = [Submitted EXCEPT !["pull"] = prs' + Cardinality(LateCreations')]
    BY EffectsAre, Counted DEF Submitted, SameComments
  <1>4. "pull" \notin Effected /\ "pull" \in InRecord
    BY <1>2, EffectsAre DEF Effected, InRecord
  <1>5. IF prs' = 0 THEN Effected' = Effected ELSE Effected' = Effected \union {"pull"}
    BY <1>2, EffectsAre DEF Effected, SameComments
  <1>7. CASE Creating # {}
    <2>1. LateCreations = {}
      BY <1>1, <1>7 DEF CreationInv, Once
    <2>2. Submitted["pull"] = 0
      BY <1>2, <1>3, <2>1, Sums
    <2>3. ASSUME prs' = 1, LateCreations' = {}
          PROVE  prs' + Cardinality(LateCreations') = 1
      BY <2>3, FS_EmptySet
    <2>4. ASSUME prs' = 0, LateCreations' = {r}
          PROVE  prs' + Cardinality(LateCreations') = 1
      <3>1. Cardinality({r}) = 1
        BY FS_Singleton
      <3> QED BY <2>4, <3>1
    <2>5. prs' + Cardinality(LateCreations') = 1
      BY <1>2, <1>7, <2>1, <2>3, <2>4
    <2> QED BY <1>3, <1>4, <1>5, <2>2, <2>5 DEF Outside, Submits
  <1>8. CASE Creating = {}
    <2>0. r \in LateCreations /\ LateCreations' = LateCreations \ {r} /\ prs' = prs + 1
      BY <1>8
    <2>1. prs' = 1 /\ LateCreations' = {} /\ LateCreations = {r}
      BY <1>2, <2>0 DEF Single
    <2>2. Cardinality(LateCreations) = 1 /\ Cardinality(LateCreations') = 0
      BY <2>1, FS_Singleton, FS_EmptySet
    <2>3. Submitted["pull"] = 1
      <3>1. Submitted["pull"] = prs + Cardinality(LateCreations)
        BY <1>3
      <3> QED BY <1>2, <2>2, <3>1
    <2>4. prs' + Cardinality(LateCreations') = 1
      BY <2>1, <2>2
    <2>5. Submitted' = Submitted
      <3>1. Submitted' = [Submitted EXCEPT !["pull"] = Submitted["pull"]]
        BY <1>3, <2>3, <2>4
      <3> QED BY <3>1 DEF Submitted
    <2>6. Submitted["pull"] # 0 /\ prs' # 0
      BY <2>1, <2>3
    <2> QED BY <1>4, <1>5, <2>5, <2>6 DEF Outside, Happens
  <1> QED BY <1>7, <1>8

(* Saving, beginning and moving on submit nothing.                              *)
Nothing == SameComments /\ SamePulls

LEMMA NothingOutside == Nothing => UNCHANGED <<Submitted, Effected>>
  <1> SUFFICES ASSUME Nothing PROVE UNCHANGED <<Submitted, Effected>>
    OBVIOUS
  <1>1. UNCHANGED <<Unanswered("post"), Unanswered("create")>>
    BY Counted DEF Nothing, SameComments, SamePulls
  <1> QED BY <1>1 DEF Nothing, SameComments, SamePulls, Submitted, Effected

LEMMA MovingOutside ==
    ASSUME TypeInv, TypeOK', OnceInv, NEW p \in Proc, Moving(p)
    PROVE  Nothing \/ \E e \in Effects : Outside(e)
  <1>1. UNCHANGED <<file, LatePosts, LateCreations>> /\ TypeOK
    BY MoveEffect DEF TypeInv, LatePosts, LateCreations
  <1>2. CASE Post(p)
    <2>1. Posting # {} /\ UNCHANGED prs /\ comments' = Append(comments, mem[p].announcement.text)
      BY <1>2 DEF Post, Posting
    <2>2. Len(comments') = Len(comments) + 1
      BY <1>1, <2>1 DEF TypeOK
    <2>3. LatePosts' = {}
      BY <1>1, <2>1 DEF OnceInv, PostInv, Once
    <2> QED BY <1>1, <2>1, <2>2, <2>3, CommentOutside, EffectsAre DEF SamePulls
  <1>3. CASE Create(p)
    <2>1. Creating # {} /\ UNCHANGED comments /\ prs' = prs + 1
      BY <1>3 DEF Create, Opened, Creating
    <2>2. LateCreations' = {}
      BY <1>1, <2>1 DEF OnceInv, CreationInv, Once
    <2> QED BY <1>1, <2>1, <2>2, PullOutside, EffectsAre DEF SameComments
  <1>4. CASE ~Post(p) /\ ~Create(p)
    <2>1. UNCHANGED <<comments, prs>>
      BY <1>4 DEF Moving, Look, Push, Found, Patch, Announce, Search, github
    <2> QED BY <1>1, <2>1 DEF Nothing, SameComments, SamePulls
  <1> QED BY <1>2, <1>3, <1>4

(* A request that was left behind may still be carried out.                     *)
LEMMA StoppingOutside ==
    ASSUME TypeInv, TypeOK', OnceInv, NEW p \in Proc, Stopping(p)
    PROVE  Nothing \/ \E e \in Effects : Outside(e)
  <1>1. /\ UNCHANGED <<file, prs, comments>>
        /\ late \subseteq late' /\ late' \subseteq late \union Pending(p)
    BY StopEffect DEF TypeInv
  <1>2. CASE pc[p] = "post"
    <2> DEFINE r == PostOf(mem[p].announcement.text)
    <2>1. Pending(p) = {r} /\ r.kind = "post" /\ Posting # {}
      BY <1>2 DEF Pending, PostOf, Posting
    <2>2. LatePosts = {}
      BY <2>1 DEF OnceInv, PostInv, Once
    <2>3. (LatePosts' = {} \/ LatePosts' = {r}) /\ LateCreations' = LateCreations
      BY <1>1, <2>1, <2>2 DEF LatePosts, LateCreations
    <2>4. CASE LatePosts' = {}
      BY <1>1, <2>2, <2>3, <2>4 DEF Nothing, SameComments, SamePulls
    <2>5. CASE LatePosts' = {r}
      BY <1>1, <2>1, <2>3, <2>5, CommentOutside, EffectsAre DEF SamePulls
    <2> QED BY <2>3, <2>4, <2>5
  <1>3. CASE pc[p] = "create"
    <2> DEFINE r == CreationOf(plan[p].content)
    <2>1. Pending(p) = {r} /\ r.kind = "create" /\ Creating # {}
      BY <1>3 DEF Pending, CreationOf, Creating
    <2>2. LateCreations = {}
      BY <2>1 DEF OnceInv, CreationInv, Once
    <2>3. (LateCreations' = {} \/ LateCreations' = {r}) /\ LatePosts' = LatePosts
      BY <1>1, <2>1, <2>2 DEF LatePosts, LateCreations
    <2>4. CASE LateCreations' = {}
      BY <1>1, <2>2, <2>3, <2>4 DEF Nothing, SameComments, SamePulls
    <2>5. CASE LateCreations' = {r}
      BY <1>1, <2>1, <2>3, <2>5, PullOutside, EffectsAre DEF SameComments
    <2> QED BY <2>3, <2>4, <2>5
  <1>4. CASE pc[p] \notin {"post", "create"}
    <2>1. \A r \in Pending(p) : r.kind = "push"
      BY <1>4 DEF Pending, PushOf
    <2>2. LatePosts' = LatePosts /\ LateCreations' = LateCreations
      BY <1>1, <2>1 DEF LatePosts, LateCreations
    <2> QED BY <1>1, <2>2 DEF Nothing, SameComments, SamePulls
  <1> QED BY <1>2, <1>3, <1>4

LEMMA WorldOutside ==
    ASSUME TypeInv, TypeOK', OnceInv, World
    PROVE  Nothing \/ \E e \in Effects : Outside(e)
  <1>1. CASE Observe \/ Work \/ PushByHand
    <2>1. UNCHANGED <<late, comments, prs>>
      BY <1>1 DEF Observe, Work, PushByHand, github, environment
    <2> QED BY <2>1 DEF Nothing, SameComments, SamePulls, LatePosts, LateCreations
  <1>2. ASSUME NEW r \in late, Land(r)
        PROVE  Nothing \/ \E e \in Effects : Outside(e)
    <2>0. late' = late \ {r} /\ UNCHANGED file
      BY <1>2 DEF Land
    <2>1. CASE r.kind = "push"
      <3>1. UNCHANGED <<comments, prs>>
        BY <1>2, <2>1 DEF Land
      <3>2. LatePosts' = LatePosts /\ LateCreations' = LateCreations
        BY <2>0, <2>1 DEF LatePosts, LateCreations
      <3> QED BY <3>1, <3>2 DEF Nothing, SameComments, SamePulls
    <2>2. CASE r.kind = "create"
      <3>1. UNCHANGED comments /\ prs' = prs + 1
        BY <1>2, <2>2 DEF Land, Opened
      <3>2. /\ LatePosts' = LatePosts
            /\ r \in LateCreations /\ LateCreations' = LateCreations \ {r}
        BY <2>0, <2>2 DEF LatePosts, LateCreations
      <3> QED BY <2>0, <3>1, <3>2, PullOutside, EffectsAre DEF SameComments
    <2>3. CASE r.kind = "post"
      <3>1. UNCHANGED prs /\ comments' = Append(comments, r.text)
        BY <1>2, <2>3 DEF Land
      <3>2. Len(comments') = Len(comments) + 1
        BY <3>1 DEF TypeInv, TypeOK
      <3>3. /\ LateCreations' = LateCreations
            /\ r \in LatePosts /\ LatePosts' = LatePosts \ {r}
        BY <2>0, <2>3 DEF LatePosts, LateCreations
      <3> QED BY <2>0, <3>1, <3>2, <3>3, CommentOutside, EffectsAre DEF SamePulls
    <2> QED BY <1>2, <2>1, <2>2, <2>3 DEF Land
  <1> QED BY <1>1, <1>2 DEF World

LEMMA StepOutside ==
    ASSUME TypeInv, TypeOK', OnceInv, [Next]_vars
    PROVE  Nothing \/ \E e \in Effects : Outside(e)
  <1>1. CASE UNCHANGED vars
    BY <1>1 DEF vars, github, Nothing, SameComments, SamePulls, LatePosts, LateCreations
  <1>2. ASSUME NEW p \in Proc, Saving(p)
        PROVE  Nothing
    BY <1>2, EverySave DEF TypeInv, Aside, github, Nothing, SameComments, SamePulls, LatePosts,
       LateCreations
  <1>3. ASSUME NEW p \in Proc, NEW copy \in Copies, Beginning(p, copy)
        PROVE  Nothing
    BY <1>3 DEF Beginning, StartPublish, StartReconcile, StartAnnounce, Begin, github, Nothing,
       SameComments, SamePulls, LatePosts, LateCreations
  <1> QED BY <1>1, <1>2, <1>3, EveryStep, MovingOutside, StoppingOutside, WorldOutside

(* No save forgets what was received or found: a copy that is saved was taken     *)
(* of the record as it is, and it is described anew only before any attempt.    *)
LEMMA LearntStays ==
    ASSUME TypeInv, OnceInv, RealInv, ~Feedback, [Next]_vars
    PROVE  Learnt \subseteq Learnt'
  <1>1. CASE UNCHANGED file
    BY <1>1 DEF Learnt
  <1>2. CASE file' # file
    <2>1. PICK p \in Proc : Saving(p)
      <3>1. \A p \in Proc : ~Moving(p) /\ ~Stopping(p)
        BY <1>2, MoveEffect, StopEffect DEF TypeInv
      <3>2. \A p \in Proc, copy \in Copies : ~Beginning(p, copy)
        <4> SUFFICES ASSUME NEW p \in Proc, NEW copy \in Copies, Beginning(p, copy) PROVE FALSE
          OBVIOUS
        <4>1. UNCHANGED file
          BY DEF Beginning, StartPublish, StartReconcile, StartAnnounce, Begin
        <4> QED BY <1>2, <4>1
      <3>3. ~World /\ Next
        BY <1>2 DEF World, Observe, Work, PushByHand, Land, vars
      <3> QED BY <3>1, <3>2, <3>3, EveryStep
    <2>2. PICK d, place :
             Edit(p, d, place) /\ seen[p]["chat"] = file["chat"] /\ file'["chat"] = d
      BY <1>2, <2>1, ChatSave DEF OnceInv, Copied
    <2>3. /\ TypeOK /\ mem[p] \in Deliveries /\ pc[p] # "idle" /\ Begun(p) /\ Real(file["chat"])
          /\ mem[p].announcement = file["chat"].announcement
          /\ file["chat"].pr => mem[p].pr
          /\ plan[p].text \in Text \union {NoText} /\ Snapshot \in Snapshots
      BY <2>2, EditType DEF TypeInv, TypeOK, OnceInv, Copied, RealInv, RealProc, Follows, Plans,
         Snapshot, Snapshots
    <2>4. d.pr \/ d.pr = mem[p].pr
      BY <2>2, <2>3, EditChanges DEF EditFacts
    <2>5. mem[p].announcement.receipt => d.announcement.receipt
      <3>1. CASE Publication(p, d, place)
        BY <2>2, <2>3, <3>1, EditKeeps DEF SameAnnouncement
      <3>2. CASE pc[p] = "survey"
        BY <2>3, <3>2 DEF Begun, Settled
      <3>3. CASE pc[p] # "survey" /\ Announcement(p, d, place)
        BY <2>3, <3>3, AnnouncementEdits DEF Announcement
      <3> QED BY <2>2, <3>1, <3>2, <3>3 DEF Edit, Announcement
    <2> QED BY <2>2, <2>3, <2>4, <2>5, EffectsAre DEF Learnt
  <1> QED BY <1>1, <1>2

LEMMA DeliveryAttemptsInit == Init => A!Init
  <1> SUFFICES ASSUME Init PROVE A!Init
    OBVIOUS
  <1>1. file["chat"] = NoDelivery /\ comments = <<>> /\ prs = 0 /\ late = {}
    BY Empties DEF Init, NoRecord
  <1>2. /\ ~Settled(NoDelivery.announcement) /\ ~NoDelivery.creating
        /\ ~NoDelivery.announcement.receipt /\ ~NoDelivery.pr
    BY DEF NoDelivery, NoAnnouncement, Settled
  <1>3. Len(comments) + Unanswered("post") = 0 /\ prs + Unanswered("create") = 0
    <2>1. LatePosts = {} /\ LateCreations = {} /\ Len(comments) = 0
      BY <1>1 DEF LatePosts, LateCreations
    <2> QED BY <1>1, <2>1, FS_EmptySet, Counted
  <1>4. InRecord = {}
    BY <1>1, <1>2 DEF InRecord
  <1>5. Effected = {}
    BY <1>1 DEF Effected
  <1>6. Learnt = {}
    BY <1>1, <1>2 DEF Learnt
  <1>7. Submitted = [e \in Effects |-> 0]
    BY <1>3 DEF Submitted
  <1> QED BY <1>4, <1>5, <1>6, <1>7 DEF A!Init, InRecord, Effected, Learnt, Submitted

LEMMA DeliveryAttemptsStep ==
    ASSUME TypeInv, TypeInv', OnceInv, OnceInv', RealInv, RealInv', ~Feedback, [Next]_vars
    PROVE  [A!Next]_(A!vars)
  <1>0. TypeOK /\ TypeOK'
    BY DEF TypeInv
  <1>1. CASE Nothing
    <2>1. UNCHANGED <<Submitted, Effected>>
      BY <1>1, NothingOutside
    <2>2. ASSUME NEW e \in Effects, Submitted[e] # 0
          PROVE  e \in InRecord /\ e \in InRecord'
      <3>1. CASE e = "comment"
        <4>1. Len(comments) # 0 \/ LatePosts # {}
          <5>1. CASE LatePosts = {}
            BY <2>2, <3>1, <5>1, Counted, FS_EmptySet DEF Submitted
          <5> QED BY <5>1
        <4>2. Settled(file["chat"].announcement) /\ Settled(file'["chat"].announcement)
          BY <1>1, <4>1 DEF OnceInv, PostInv, None, Nothing, SameComments
        <4> QED BY <3>1, <4>2, EffectsAre DEF InRecord
      <3>2. CASE e = "pull"
        <4>1. prs # 0 \/ LateCreations # {}
          <5>1. CASE LateCreations = {}
            <6>1. Submitted["pull"] = prs + Cardinality(LateCreations)
              BY EffectsAre, Counted DEF Submitted
            <6>2. Cardinality(LateCreations) = 0 /\ prs \in Nat
              BY <1>0, <5>1, FS_EmptySet DEF TypeOK
            <6> QED BY <2>2, <3>2, <6>1, <6>2
          <5> QED BY <5>1
        <4>2. file["chat"].creating /\ file'["chat"].creating
          BY <1>1, <4>1 DEF OnceInv, CreationInv, None, Nothing, SamePulls
        <4> QED BY <3>2, <4>2, EffectsAre DEF InRecord
      <3> QED BY <3>1, <3>2, EffectsAre
    <2>3. Learnt \subseteq Learnt'
      BY LearntStays
    <2>4. Learnt' \subseteq Effected
      <3>1. Learnt' \subseteq Effected'
        <4>1. Real(file["chat"])' /\ prs' \in Nat
          BY <1>0 DEF RealInv, TypeOK
        <4> QED BY <4>1 DEF Real, Learnt, Effected
      <3> QED BY <2>1, <3>1
    <2>5. InRecord' \subseteq Effects
      BY DEF InRecord
    <2>6. A!Save
      BY <2>1, <2>2, <2>3, <2>4, <2>5 DEF A!Save, InRecord, Submitted, Effected, Learnt
    <2> QED BY <2>6 DEF A!Next
  <1>2. ASSUME NEW e \in Effects, Submits(e) PROVE A!Submit(e)
    <2>1. UNCHANGED <<InRecord, Learnt>>
      BY <1>2 DEF Submits, InRecord, Learnt
    <2> QED BY <1>2, <2>1 DEF Submits, A!Submit, InRecord, Submitted, Effected, Learnt
  <1>3. ASSUME NEW e \in Effects, Happens(e) PROVE A!Happen(e)
    <2>1. UNCHANGED <<InRecord, Learnt>>
      BY <1>3 DEF Happens, InRecord, Learnt
    <2> QED BY <1>3, <2>1 DEF Happens, A!Happen, InRecord, Submitted, Effected, Learnt
  <1> QED BY <1>0, <1>1, <1>2, <1>3, StepOutside DEF Outside, A!Next

(* Announcing a delivery and creating its pull request implement AttemptOnce,     *)
(* for any number of processes, requests left behind and definite rejections:    *)
(* each is submitted only when its attempt is in the record, once, and known     *)
(* only when it is there.                                                       *)
THEOREM DeliveryAttemptsOnce ==
    ASSUME ~Feedback
    PROVE  Spec => ImplementsAttempts
  <1> DEFINE Inv == TypeInv /\ OnceInv /\ RealInv
  <1>1. Init => Inv /\ A!Init
    BY TypeInit, OnceInit, RealInit, DeliveryAttemptsInit
  <1>2. Inv /\ [Next]_vars => Inv'
    BY TypeStep, OnceStep, RealStep
  <1>3. Inv /\ Inv' /\ [Next]_vars => [A!Next]_(A!vars)
    BY DeliveryAttemptsStep
  <1> QED BY <1>1, <1>2, <1>3, PTL DEF Spec, ImplementsAttempts, A!Spec

-----------------------------------------------------------------------------
(* With feedback events.  An event only delivers to a pull request that is       *)
(* recorded, so before there is one, every operation is the issue chat's, and    *)
(* afterwards no request to create one is left or made.                        *)
First(p) ==
    /\ own[p] = "chat"
    /\ pc[p] \notin {"verify", "patch", "finish"}
    /\ pc[p] # "idle" => ~mem[p].pr /\ mem[p].creating = seen[p]["chat"].creating

Before == CreationInv /\ ~file["chat"].pr /\ \A p \in Proc : First(p)
After == prs = 1 /\ Creating = {} /\ LateCreations = {}
PullInv == (prs = 0 /\ Before) \/ After

LEMMA BeforeSaving ==
    ASSUME TypeInv, prs = 0, Before, NEW p \in Proc, Saving(p)
    PROVE  PullInv'
  <1>0. TypeOK /\ CreationInv /\ ~file["chat"].pr /\ \A q \in Proc : First(q)
    BY DEF TypeInv, Before
  <1>1. PICK d, place :
             /\ Edit(p, d, place) /\ Aside /\ Others(p)
             /\ \/ /\ file'["chat"] = d
                   /\ Left(p) \/ Gone(p, place)
                \/ /\ d = seen[p]["chat"]
                   /\ file' = file
                   /\ Left(p) \/ Gone(p, place)
                \/ file' = file /\ Left(p)
    BY <1>0, ChatSave DEF First
  <1>2. pc[p] \notin {"idle", "verify", "patch", "finish"} /\ ~mem[p].pr
    BY <1>0, <1>1 DEF First, Edit, Publication, Announcement
  <1>3. Leads(pc[p], place) /\ ~d.pr
    BY <1>0, <1>1, <1>2, EditLeads, EditChanges DEF EditFacts
  <1>4. CreationInv'
    BY <1>0, <1>2, CreationSaving DEF First
  <1>5. ~file'["chat"].pr
    BY <1>0, <1>1, <1>3
  <1>6. First(p)'
    BY <1>0, <1>1, <1>2, <1>3, <1>5 DEF First, Left, Gone, Leads
  <1>7. \A q \in Proc \ {p} : First(q)'
    BY <1>0, <1>1 DEF First, Others
  <1>8. prs' = 0
    BY <1>1 DEF Aside, github
  <1> QED BY <1>4, <1>5, <1>6, <1>7, <1>8 DEF PullInv, Before

(* The first pull request is created: no other can be.                          *)
LEMMA PullOpened ==
    ASSUME TypeOK, TypeOK', CreationInv', prs' > 0
    PROVE  After'
  BY DEF TypeOK, CreationInv, Once, None, After

LEMMA BeforeMoving ==
    ASSUME TypeInv, TypeInv', prs = 0, Before, NEW p \in Proc, Moving(p)
    PROVE  PullInv'
  <1>0. /\ TypeOK /\ CreationInv /\ ~file["chat"].pr /\ \A q \in Proc : First(q)
        /\ TypeOK' /\ CreationInv'
    BY CreationMoving DEF TypeInv, Before
  <1>1. UNCHANGED <<file, own, mem, seen>> /\ Others(p) /\ pc[p] # "idle"
    BY <1>0, MoveEffect
  <1>2. CASE Create(p)
    <2>1. prs' > 0
      BY <1>2 DEF Create, Opened
    <2> QED BY <1>0, <2>1, PullOpened DEF PullInv
  <1>3. CASE ~Create(p)
    <2>1. prs' = 0 /\ pc'[p] \notin {"verify", "patch", "finish"}
      BY <1>0, <1>3 DEF Moving, Look, Push, Found, Patch, Announce, Search, Post, Goto, github,
         TypeOK, First
    <2>2. \A q \in Proc : First(q)'
      BY <1>0, <1>1, <2>1 DEF First, Others
    <2> QED BY <1>0, <1>1, <2>1, <2>2 DEF PullInv, Before
  <1> QED BY <1>2, <1>3

LEMMA BeforeStopping ==
    ASSUME TypeInv, prs = 0, Before, NEW p \in Proc, Stopping(p)
    PROVE  PullInv'
  <1>0. /\ TypeOK /\ ~file["chat"].pr /\ \A q \in Proc : First(q)
        /\ CreationInv'
    BY CreationStopping DEF TypeInv, Before
  <1>1. UNCHANGED <<file, prs>> /\ Others(p) /\ Left(p)
    BY <1>0, StopEffect
  <1>2. \A q \in Proc : First(q)'
    BY <1>0, <1>1 DEF First, Others, Left
  <1> QED BY <1>0, <1>1, <1>2 DEF PullInv, Before

LEMMA BeforeBeginning ==
    ASSUME TypeInv, prs = 0, Before, NEW p \in Proc, NEW copy \in Copies, Beginning(p, copy)
    PROVE  PullInv'
  <1>0. TypeOK /\ Made /\ CreationInv /\ ~file["chat"].pr /\ \A q \in Proc : First(q)
    BY DEF TypeInv, Before
  <1>1. PICK d, place, fixed : Begins(p, copy, d, place, fixed)
    BY EveryBegin
  <1>2. /\ d \in Deliveries /\ place \in Places /\ fixed \in Plans
        /\ place \in {"bind", "open", "confirm", "survey"}
    BY <1>0, <1>1, BeginType
  <1>3. /\ Others(p)
        /\ pc'[p] = place /\ own'[p] = copy /\ mem'[p] = d /\ seen'[p] = file
        /\ UNCHANGED <<file, github, late>>
        /\ Entitled(copy)
    BY <1>0, <1>1, <1>2, BeginEffect DEF Begins
  <1>4. copy = "chat"
    BY <1>0, <1>3 DEF Entitled, Copies
  <1>5. Start(copy) = file["chat"] /\ file["chat"] \in Deliveries
    BY <1>0, <1>4, StartType
  <1>6. d.pr = file["chat"].pr /\ d.creating = file["chat"].creating
    <2>1. CASE d = file["chat"]
      BY <2>1
    <2>2. CASE \E c \in 1..MaxContent : d = Bound(file["chat"], c)
      BY <1>0, <1>5, <2>2, BoundFields DEF SameMarks, SameResult
    <2> QED BY <1>1, <1>5, <2>1, <2>2 DEF Begins
  <1>7. \A q \in Proc : First(q)'
    BY <1>0, <1>2, <1>3, <1>4, <1>6 DEF First, Others
  <1>8. Creating' \subseteq Creating /\ LateCreations' = LateCreations /\ prs' = prs
    BY <1>2, <1>3 DEF Creating, Others, LateCreations, github
  <1>9. CreationInv'
    BY <1>0, <1>3, <1>8, CreationKept
  <1> QED BY <1>0, <1>3, <1>7, <1>8, <1>9 DEF PullInv, Before

LEMMA BeforeWorld ==
    ASSUME TypeInv, TypeInv', prs = 0, Before, World
    PROVE  PullInv'
  <1>0. /\ TypeOK /\ ~file["chat"].pr /\ \A q \in Proc : First(q)
        /\ TypeOK' /\ CreationInv'
    BY CreationWorld DEF TypeInv, Before
  <1>1. UNCHANGED <<file, pc, own, mem, seen>>
    BY DEF World, Observe, Work, PushByHand, Land, environment, process
  <1>2. Before'
    BY <1>0, <1>1 DEF Before, First
  <1>3. prs' > 0 => After'
    BY <1>0, PullOpened
  <1> QED BY <1>0, <1>2, <1>3 DEF PullInv, TypeOK

(* Once there is a pull request, nobody comes to create another.                *)
LEMMA AfterStep ==
    ASSUME TypeInv, After, Next
    PROVE  After'
  <1>0. TypeOK
    BY DEF TypeInv
  <1>1. ASSUME Creating' \subseteq Creating, LateCreations' \subseteq LateCreations, prs' = prs
        PROVE  After'
    BY <1>1 DEF After
  <1>2. ASSUME NEW p \in Proc, Saving(p)
        PROVE  After'
    <2>1. PICK d, place : Save(p, d, place) /\ Edit(p, d, place) /\ Aside
      BY <1>0, <1>2, EverySave
    <2>2. place # "create" /\ d \in Deliveries /\ place \in Places
      BY <1>0, <2>1, EditType DEF After, Edit, Publication, Announcement, Places, Announcing
    <2>3. Others(p) /\ pc'[p] \in {"idle", place}
      BY <1>0, <2>1, <2>2, SaveEffect DEF Left, Gone
    <2> QED BY <1>1, <2>1, <2>2, <2>3 DEF Aside, github, Creating, LateCreations, Others
  <1>3. ASSUME NEW p \in Proc, Moving(p)
        PROVE  After'
    <2>1. Others(p) /\ late' = late
      BY <1>0, <1>3, MoveEffect
    <2>2. ~Create(p)
      BY DEF After, Create, Creating
    <2>3. pc'[p] # "create" /\ prs' = prs
      BY <1>0, <1>3, <2>2 DEF Moving, Look, Push, Found, Patch, Announce, Search, Post, Goto,
         github, TypeOK
    <2> QED BY <1>1, <2>1, <2>3 DEF Creating, LateCreations, Others
  <1>4. ASSUME NEW p \in Proc, Stopping(p)
        PROVE  After'
    <2>1. Others(p) /\ Left(p) /\ prs' = prs /\ late' \subseteq late \union Pending(p)
      BY <1>0, <1>4, StopEffect
    <2>2. \A r \in Pending(p) : r.kind # "create"
      BY DEF After, Creating, Pending, PushOf, PostOf
    <2> QED BY <1>1, <2>1, <2>2 DEF Creating, LateCreations, Others, Left
  <1>5. ASSUME NEW p \in Proc, NEW copy \in Copies, Beginning(p, copy)
        PROVE  After'
    <2>1. PICK d, place, fixed : Begins(p, copy, d, place, fixed)
      BY <1>5, EveryBegin
    <2>2. /\ d \in Deliveries /\ place \in Places /\ fixed \in Plans
          /\ place \in {"bind", "open", "confirm", "survey"}
      BY <1>0, <2>1, BeginType DEF TypeInv
    <2>3. Others(p) /\ pc'[p] = place /\ UNCHANGED <<github, late>>
      BY <1>0, <2>1, <2>2, BeginEffect DEF Begins
    <2> QED BY <1>1, <2>2, <2>3 DEF Creating, LateCreations, Others, github
  <1>6. ASSUME World
        PROVE  After'
    <2>1. pc' = pc /\ late' \subseteq late
      BY <1>6 DEF World, Observe, Work, PushByHand, Land, environment, process
    <2>2. prs' = prs
      BY <1>6 DEF After, World, Observe, Work, PushByHand, Land, LateCreations, github
    <2> QED BY <1>1, <2>1, <2>2 DEF Creating, LateCreations
  <1> QED BY <1>2, <1>3, <1>4, <1>5, <1>6, EveryStep

LEMMA PullInit == Init => PullInv
  <1> SUFFICES ASSUME Init PROVE PullInv
    OBVIOUS
  <1>1. CreationInv
    BY OnceInit DEF OnceInv
  <1>2. ~file["chat"].pr /\ prs = 0
    BY Empties DEF Init, NoRecord, NoDelivery
  <1>3. \A p \in Proc : First(p)
    BY DEF Init, First
  <1> QED BY <1>1, <1>2, <1>3 DEF PullInv, Before

LEMMA PullStep == TypeInv /\ TypeInv' /\ PullInv /\ [Next]_vars => PullInv'
  <1> SUFFICES ASSUME TypeInv, TypeInv', PullInv, [Next]_vars PROVE PullInv'
    OBVIOUS
  <1>1. CASE UNCHANGED vars
    BY <1>1 DEF vars, github, PullInv, Before, After, CreationInv, First, Creating, LateCreations
  <1>2. CASE Next /\ After
    BY <1>2, AfterStep DEF PullInv
  <1>3. CASE Next /\ prs = 0 /\ Before
    BY <1>3, EveryStep, BeforeSaving, BeforeMoving, BeforeStopping, BeforeBeginning,
       BeforeWorld
  <1> QED BY <1>1, <1>2, <1>3 DEF PullInv

(* Whatever is left behind, rejected or runs at once, and with feedback events    *)
(* too: of all pull requests that were created, may still be created or are      *)
(* being created there is at most one.  So what the run delivery_feedback shows   *)
(* of announcements cannot happen to pull requests.                             *)
THEOREM NoSecondPullRequest ==
    Spec => [](prs + Unanswered("create") + At("create") <= 1)
  <1> DEFINE Few == prs + Unanswered("create") + At("create") <= 1
  <1>1. ASSUME TypeInv, PullInv
        PROVE  Few
    <2>1. Once(Creating, LateCreations, prs) /\ prs \in Nat
      BY <1>1 DEF PullInv, Before, After, CreationInv, Once, Single, TypeInv, TypeOK
    <2>2. prs + Cardinality(LateCreations) + Cardinality(Creating) <= 1
      BY <2>1, OnceIsOne
    <2> QED BY <2>2 DEF Unanswered, At, LateCreations, Creating
  <1>2. Init => TypeInv /\ PullInv
    BY TypeInit, PullInit
  <1>3. TypeInv /\ PullInv /\ [Next]_vars => (TypeInv /\ PullInv)'
    BY TypeStep, PullStep
  <1>4. TypeInv /\ PullInv => Few
    BY <1>1
  <1> HIDE DEF Few
  <1> QED BY <1>2, <1>3, <1>4, PTL DEF Spec, Few

-----------------------------------------------------------------------------
(* As long as no event has saved a copy of its own, whoever posts has written     *)
(* the attempt into the issue's delivery: an event that comes to write its        *)
(* first attempt saves its copy with it.                                        *)
Uncopied(p) ==
    /\ own[p] = "event" => pc[p] # "post"
    /\ own[p] = "chat" /\ pc[p] # "idle" =>
         mem[p].announcement = seen[p]["chat"].announcement

UncopiedInv == ~file["event"].made => PostInv /\ \A p \in Proc : Uncopied(p)

LEMMA UncopiedSaving ==
    ASSUME TypeInv, PostInv, \A q \in Proc : Uncopied(q), ~file["event"].made,
           NEW p \in Proc, Saving(p)
    PROVE  UncopiedInv'
  <1>0. TypeOK /\ Begun(p) /\ file \in Records /\ own[p] \in Copies
    BY DEF TypeInv, TypeOK
  <1>1. CASE own[p] = "chat"
    <2>1. PICK d, place :
               /\ Edit(p, d, place) /\ Others(p)
               /\ \/ file'["chat"] = d /\ (Left(p) \/ Gone(p, place))
                  \/ d = seen[p]["chat"] /\ file' = file /\ (Left(p) \/ Gone(p, place))
                  \/ Left(p)
      BY <1>1, ChatSave
    <2>2. pc[p] # "idle" /\ mem[p].announcement = seen[p]["chat"].announcement
      BY <1>1, <2>1 DEF Uncopied, Edit, Publication, Announcement
    <2>3. PostInv'
      BY <1>1, <2>2, PostSaving
    <2>4. \A q \in Proc : Uncopied(q)'
      BY <1>1, <2>1 DEF Uncopied, Others, Left, Gone
    <2> QED BY <2>3, <2>4 DEF UncopiedInv
  <1>2. CASE own[p] = "event"
    <2>1. PICK d, place : Save(p, d, place) /\ Edit(p, d, place) /\ Aside
      BY <1>0, EverySave
    <2>2. d \in Deliveries /\ place \in Places
      BY <1>0, <2>1, EditType DEF Places, Publishing, Announcing
    <2>3. d.made
      <3>1. pc[p] # "idle" /\ d.made = mem[p].made
        BY <1>0, <2>1, EditType
      <3> QED BY <1>0, <3>1 DEF Begun
    <2>4. /\ Others(p)
          /\ \/ file' = With(file, "event", d)
             \/ d = seen[p]["event"]
             \/ file' = file /\ Left(p)
      BY <1>0, <1>2, <2>1, <2>2, SaveEffect
    <2>5. CASE file' = With(file, "event", d)
      <3>1. file'["event"] = d
        BY <1>0, <1>2, <2>2, <2>5, WithType
      <3> QED BY <2>3, <3>1 DEF UncopiedInv
    <2>6. d # seen[p]["event"]
      <3>1. pc[p] # "idle"
        BY <1>0, <2>1, EditType
      <3> QED BY <1>0, <1>2, <2>3, <3>1 DEF Begun
    <2>7. CASE file' = file /\ Left(p)
      <3>1. Posting' \subseteq Posting /\ LatePosts' = LatePosts /\ comments' = comments
        BY <2>1, <2>4, <2>7 DEF Posting, Others, Left, LatePosts, Aside, github
      <3>2. PostInv'
        BY <1>0, <2>7, <3>1, PostKept
      <3>3. \A q \in Proc : Uncopied(q)'
        BY <2>4, <2>7 DEF Uncopied, Others, Left
      <3> QED BY <3>2, <3>3 DEF UncopiedInv
    <2> QED BY <2>4, <2>5, <2>6, <2>7
  <1> QED BY <1>0, <1>1, <1>2 DEF Copies

LEMMA UncopiedBeginning ==
    ASSUME TypeInv, PostInv, \A q \in Proc : Uncopied(q), NEW p \in Proc,
           NEW copy \in Copies, Beginning(p, copy)
    PROVE  UncopiedInv'
  <1>0. TypeOK /\ Made
    BY DEF TypeInv
  <1>1. PICK d, place, fixed : Begins(p, copy, d, place, fixed)
    BY EveryBegin
  <1>2. /\ d \in Deliveries /\ place \in Places /\ fixed \in Plans
        /\ place \in {"bind", "open", "confirm", "survey"}
    BY <1>0, <1>1, BeginType
  <1>3. /\ Others(p)
        /\ pc'[p] = place /\ own'[p] = copy /\ mem'[p] = d /\ seen'[p] = file
        /\ UNCHANGED <<file, github, late>>
    BY <1>0, <1>1, <1>2, BeginEffect DEF Begins
  <1>4. copy = "chat" => d.announcement = file["chat"].announcement
    <2> SUFFICES ASSUME copy = "chat" PROVE d.announcement = file["chat"].announcement
      OBVIOUS
    <2>1. Start(copy) = file["chat"] /\ file["chat"] \in Deliveries
      BY <1>0, StartType
    <2>2. CASE \E c \in 1..MaxContent : d = Bound(file["chat"], c)
      BY <1>0, <2>1, <2>2, BoundFields DEF SameAnnouncement
    <2> QED BY <1>1, <2>1, <2>2 DEF Begins
  <1>5. \A q \in Proc : Uncopied(q)'
    BY <1>2, <1>3, <1>4 DEF Uncopied, Others
  <1>6. Posting' \subseteq Posting /\ LatePosts' = LatePosts /\ comments' = comments
    BY <1>2, <1>3 DEF Posting, Others, LatePosts, github
  <1>7. PostInv'
    BY <1>0, <1>3, <1>6, PostKept
  <1> QED BY <1>5, <1>7 DEF UncopiedInv

(* The other steps leave the file alone.                                        *)
LEMMA UncopiedElse ==
    ASSUME TypeInv, PostInv, \A q \in Proc : Uncopied(q),
           \/ \E p \in Proc : Moving(p) \/ Stopping(p)
           \/ World
    PROVE  UncopiedInv'
  <1>1. ASSUME NEW p \in Proc, Moving(p)
        PROVE  UncopiedInv'
    <2>1. UNCHANGED <<own, mem, seen>> /\ pc[p] # "idle" /\ Others(p) /\ TypeOK
      BY <1>1, MoveEffect DEF TypeInv
    <2>2. pc'[p] # "post"
      BY <1>1, <2>1 DEF Moving, Look, Push, Found, Create, Patch, Announce, Search, Post, Goto,
         TypeOK
    <2>3. \A q \in Proc : Uncopied(q)'
      BY <2>1, <2>2 DEF Uncopied, Others
    <2> QED BY <1>1, <2>3, PostMoving DEF UncopiedInv
  <1>2. ASSUME NEW p \in Proc, Stopping(p)
        PROVE  UncopiedInv'
    <2>1. Others(p) /\ Left(p)
      BY <1>2, StopEffect DEF TypeInv
    <2>2. \A q \in Proc : Uncopied(q)'
      BY <2>1 DEF Uncopied, Others, Left
    <2> QED BY <1>2, <2>2, PostStopping DEF UncopiedInv
  <1>3. ASSUME World
        PROVE  UncopiedInv'
    <2>1. UNCHANGED <<pc, own, mem, seen>>
      BY <1>3 DEF World, Observe, Work, PushByHand, Land, environment, process
    <2>2. \A q \in Proc : Uncopied(q)'
      BY <2>1 DEF Uncopied
    <2> QED BY <1>3, <2>2, PostWorld DEF UncopiedInv
  <1> QED BY <1>1, <1>2, <1>3

(* A copy that was saved stays.                                                 *)
LEMMA CopyStays ==
    ASSUME TypeInv, file["event"].made, Next
    PROVE  file'["event"].made
  <1>0. TypeOK /\ file \in Records
    BY DEF TypeInv, TypeOK
  <1>1. ASSUME NEW p \in Proc, Saving(p)
        PROVE  file'["event"].made
    <2>1. PICK d, place : Save(p, d, place) /\ Edit(p, d, place) /\ Aside
      BY <1>0, <1>1, EverySave
    <2>2. d \in Deliveries /\ place \in Places
      BY <1>0, <2>1, EditType DEF Places, Publishing, Announcing
    <2>3. d.made
      <3>1. pc[p] # "idle" /\ d.made = mem[p].made
        BY <1>0, <2>1, EditType
      <3> QED BY <3>1 DEF TypeInv, Begun
    <2>4. file' = file \/ file' = With(file, own[p], d)
      BY <1>0, <2>1, <2>2, SaveEffect
    <2>5. own[p] \in Copies /\ "event" \in Copies
      BY <1>0 DEF TypeOK, Copies
    <2> QED BY <1>0, <2>2, <2>3, <2>4, <2>5, WithType
  <1>2. ASSUME UNCHANGED file
        PROVE  file'["event"].made
    BY <1>2
  <1>3. ASSUME NEW p \in Proc, Moving(p) \/ Stopping(p)
        PROVE  UNCHANGED file
    BY <1>0, <1>3, MoveEffect, StopEffect
  <1>4. ASSUME NEW p \in Proc, NEW copy \in Copies, Beginning(p, copy)
        PROVE  UNCHANGED file
    BY <1>4 DEF Beginning, StartPublish, StartReconcile, StartAnnounce, Begin
  <1>5. ASSUME World
        PROVE  UNCHANGED file
    BY <1>5 DEF World, Observe, Work, PushByHand, Land, environment
  <1> QED BY <1>1, <1>2, <1>3, <1>4, <1>5, EveryStep

LEMMA UncopiedStep == TypeInv /\ UncopiedInv /\ [Next]_vars => UncopiedInv'
  <1> SUFFICES ASSUME TypeInv, UncopiedInv, [Next]_vars PROVE UncopiedInv'
    OBVIOUS
  <1>1. CASE UNCHANGED vars
    BY <1>1 DEF vars, github, UncopiedInv, PostInv, Uncopied, Posting, LatePosts
  <1>2. CASE Next /\ file["event"].made
    BY <1>2, CopyStays DEF UncopiedInv
  <1>3. CASE Next /\ ~file["event"].made
    BY <1>3, EveryStep, UncopiedSaving, UncopiedBeginning, UncopiedElse DEF UncopiedInv
  <1> QED BY <1>1, <1>2, <1>3

(* The run delivery_feedback shows a second announcement.  It takes a copy of     *)
(* the delivery that a feedback event saved: without one, however the event's    *)
(* operations and the issue chat's overlap, die or are rejected, at most one      *)
(* announcement was posted, may still be posted or is being posted.             *)
THEOREM OnlyCopiesRepeat == Spec => [](~file["event"].made => AnnouncedOnce)
  <1> DEFINE Kept == ~file["event"].made => AnnouncedOnce
  <1>1. ASSUME TypeInv, UncopiedInv
        PROVE  Kept
    <2> SUFFICES ASSUME ~file["event"].made PROVE AnnouncedOnce
      OBVIOUS
    <2>1. Once(Posting, LatePosts, Len(comments)) /\ Len(comments) \in Nat
      BY <1>1 DEF UncopiedInv, PostInv, TypeInv, TypeOK
    <2>2. Len(comments) + Cardinality(LatePosts) + Cardinality(Posting) <= 1
      BY <2>1, OnceIsOne
    <2> QED BY <2>2 DEF AnnouncedOnce, Unanswered, At, LatePosts, Posting
  <1>2. Init => TypeInv /\ UncopiedInv
    <2>1. Init => PostInv
      BY OnceInit DEF OnceInv
    <2>2. Init => \A p \in Proc : Uncopied(p)
      BY DEF Init, Uncopied
    <2> QED BY <2>1, <2>2, TypeInit DEF UncopiedInv
  <1>3. TypeInv /\ UncopiedInv /\ [Next]_vars => (TypeInv /\ UncopiedInv)'
    BY TypeStep, UncopiedStep
  <1>4. TypeInv /\ UncopiedInv => Kept
    BY <1>1
  <1> HIDE DEF Kept
  <1> QED BY <1>2, <1>3, <1>4, PTL DEF Spec, Kept
=============================================================================
