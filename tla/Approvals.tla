------------------------------ MODULE Approvals ------------------------------
(***************************************************************************)
(* The approval requests governance-service keeps: POST /approvals,        *)
(* /approvals/{id}/decide, /approvals/{id}/expire and /reset-approvals     *)
(* (services/governance/app.py) over the approval store                    *)
(* (services/governance/adapters/approval_store.py).                       *)
(*                                                                         *)
(* The handlers are synchronous functions in the server's thread pool, so  *)
(* they run concurrently, and none of them holds a lock or a transaction   *)
(* across its reads and its write: a handler reads the row, checks it, has *)
(* the store read it a second time and then writes the whole row back.     *)
(***************************************************************************)
EXTENDS Naturals, FiniteSets

CONSTANTS
  Ids,          \* approval ids: "appr-" and the situation's id
  Occurrences,  \* the occurrences of situations approval is asked for
  IdOf,         \* [Occurrences -> Ids]: a recurring situation reuses its id
  Threads       \* the requests governance can serve at the same time

ASSUME ApprovalsAssumption == IdOf \in [Occurrences -> Ids]

VARIABLES
  approval,   \* the store: [Ids -> row]
  handler     \* [Threads -> what the thread is in the middle of]

Statuses == {"pending", "approved", "rejected", "expired"}
Absent == [status |-> "absent"]
Rows == [occ : Occurrences, status : Statuses]

(* A handler that has passed its checks ("checked") or has also read the   *)
(* copy it will write back ("copied").  seen is the occurrence the checked *)
(* row asked for: the one the human answers.                               *)
Wants == {"approved", "rejected", "expired"}
Idle == [at |-> "idle"]
Checked == [at : {"checked"}, id : Ids, want : Wants, seen : Occurrences]
Copied == [at : {"copied"}, id : Ids, want : Wants, seen : Occurrences,
           copy : Rows]

ApprovalsTypeOK ==
  /\ approval \in [Ids -> Rows \cup {Absent}]
  /\ handler \in [Threads -> {Idle} \cup Checked \cup Copied]

ApprovalsInit ==
  /\ approval = [i \in Ids |-> Absent]
  /\ handler = [t \in Threads |-> Idle]

(* create: an upsert.  A row that is already there is replaced, whatever   *)
(* was decided about it.                                                   *)
CreateIfAbsent(o) ==
  /\ approval' = IF approval[IdOf[o]] = Absent
                 THEN [approval EXCEPT ![IdOf[o]] = [occ |-> o, status |-> "pending"]]
                 ELSE approval
  /\ UNCHANGED handler

Create(o) ==
  /\ approval' = [approval EXCEPT ![IdOf[o]] = [occ |-> o, status |-> "pending"]]
  /\ UNCHANGED handler

(* A handler reads the row and finds it pending.                           *)
Check(t, i, want) ==
  /\ handler[t] = Idle
  /\ approval[i].status = "pending"
  /\ handler' = [handler EXCEPT ![t] = [at |-> "checked", id |-> i, want |-> want,
                                       seen |-> approval[i].occ]]
  /\ UNCHANGED approval

(* decide_approval: a human with the permission wants the request approved *)
(* or rejected.  The checks all look at one read of the row; 404, 403 and  *)
(* 409 change nothing.                                                     *)
BeginDecide(t, i, want) ==
  /\ want \in {"approved", "rejected"}
  /\ Check(t, i, want)

(* expire_approval, called by the requester: a request that is no longer   *)
(* pending is returned as it is.                                           *)
BeginExpire(t, i) == Check(t, i, "expired")

(* store.decide: a second read of the row; a row that has gone meanwhile   *)
(* ends the handler without a write.                                       *)
CopyRow(t) ==
  /\ handler[t].at = "checked"
  /\ LET i == handler[t].id IN
       handler' = [handler EXCEPT ![t] =
         IF approval[i] = Absent THEN Idle
         ELSE [at |-> "copied", id |-> i, want |-> handler[t].want,
               seen |-> handler[t].seen, copy |-> approval[i]]]
  /\ UNCHANGED approval

(* ... and the upsert of the copy with the new status.                     *)
WriteRow(t) ==
  /\ handler[t].at = "copied"
  /\ approval' = [approval EXCEPT ![handler[t].id] =
                    [handler[t].copy EXCEPT !.status = handler[t].want]]
  /\ handler' = [handler EXCEPT ![t] = Idle]

(* reset_approvals empties the store.                                      *)
ResetApprovals ==
  /\ approval' = [i \in Ids |-> Absent]
  /\ UNCHANGED handler

ApprovalsVars == <<approval, handler>>

------------------------------------------------------------------------------
(* "Deciding twice would rewrite history (approved -> rejected after the   *)
(* fix already ran)" (services/governance/app.py:310): while a request     *)
(* stays in the store, what a human decided about it stays decided.  Two   *)
(* handlers do not keep it (README, section 6).                            *)
DecidedIsFinal ==
  [][\A i \in Ids :
       ( /\ approval[i].status \in {"approved", "rejected"}
         /\ approval'[i].status \notin {"absent", "pending"}
         /\ approval'[i].occ = approval[i].occ )
       => approval'[i] = approval[i]]_ApprovalsVars
=============================================================================
