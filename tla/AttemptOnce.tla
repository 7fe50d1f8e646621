---------------------------- MODULE AttemptOnce ----------------------------
(***************************************************************************)
(* The discipline the agent follows for every call it could not take back   *)
(* and whose answer may be lost (a session, a turn, a comment, a pull       *)
(* request): the attempt is saved before the call is made, an attempt that   *)
(* is on record is never made again, only an outcome that has been seen is   *)
(* recorded, and only what was definitely not done is withdrawn.            *)
(*                                                                         *)
(* IssueSession, AssignmentClaim and Delivery implement it, each with        *)
(* records, merges, leases and crashes of its own.                          *)
(***************************************************************************)
EXTENDS Naturals

CONSTANT Effect     \* what is to be brought about outside

VARIABLES
    noted,          \* the effects whose attempt is on record
    sent,           \* how often each was submitted and not refused
    done,           \* the effects that took place
    known           \* the effects that are recorded to have taken place

vars == <<noted, sent, done, known>>

Init ==
    /\ noted = {}
    /\ sent = [e \in Effect |-> 0]
    /\ done = {}
    /\ known = {}

(* A save notes attempts that have not been made, withdraws some that were    *)
(* refused, and records outcomes.  It forgets none.                          *)
Save ==
    /\ noted' \subseteq Effect
    /\ \A e \in Effect : sent[e] # 0 => (e \in noted <=> e \in noted')
    /\ known \subseteq known' /\ known' \subseteq done
    /\ UNCHANGED <<sent, done>>

(* The call may take effect at once, later (Happen) or never.                *)
Submit(e) ==
    /\ e \in noted
    /\ sent[e] = 0
    /\ sent' = [sent EXCEPT ![e] = 1]
    /\ done' = done \/ done' = done \union {e}
    /\ UNCHANGED <<noted, known>>

Happen(e) ==
    /\ sent[e] # 0
    /\ e \notin done
    /\ done' = done \union {e}
    /\ UNCHANGED <<noted, sent, known>>

Next == Save \/ \E e \in Effect : Submit(e) \/ Happen(e)

Spec == Init /\ [][Next]_vars
=============================================================================
