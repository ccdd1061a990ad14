------------------------------- MODULE Registry -------------------------------
(***************************************************************************)
(* The playbook registry governance-service keeps and the AI-drafted       *)
(* proposals waiting to enter it: POST /playbooks, graduate, demote,       *)
(* proposed, approve, reject and reset (services/governance/app.py) over   *)
(* the Postgres stores (playbook_store.py, proposed_store.py), behind the  *)
(* role check of rbac.py.                                                  *)
(*                                                                         *)
(* The handlers run concurrently in the server's thread pool.  Each reads  *)
(* its row, checks it and writes in a transaction of its own, with nothing *)
(* held in between.                                                        *)
(***************************************************************************)
EXTENDS Naturals, FiniteSets

CONSTANTS
  Seeds,        \* playbooks the image ships with
  Drafts,       \* playbooks the author may draft, each under a fresh id
  Actors,       \* who may call: humans and services
  Permissions,  \* [Actors -> the actions its roles allow]
  Threads       \* the requests governance can serve at the same time

Permits == {"register", "graduate", "approve", "reject"}

ASSUME RegistryAssumption ==
  /\ Seeds \cap Drafts = {}
  /\ Permissions \in [Actors -> SUBSET Permits]

Books == Seeds \cup Drafts
Modes == {"hitl", "auto", "disabled"}

(* A row of the registry, with the actor its last write was audited under. *)
Seeder == "seed"
Rows == [mode : Modes, by : Actors \cup {Seeder}]
Absent == [mode |-> "absent"]

VARIABLES
  registry,   \* [Books -> row]
  proposal,   \* [Drafts -> its status and the mode it was stored with]
  serving     \* [Threads -> the request whose checks it has passed]

registryVars == <<registry, proposal, serving>>

Statuses == {"none", "proposed", "approved", "rejected", "cleared"}
Idle == [op |-> "idle"]
Requests ==
  [op : {"graduate", "demote", "approve", "reject", "enter"},
   book : Books, actor : Actors]

RegistryTypeOK ==
  /\ registry \in [Books -> Rows \cup {Absent}]
  /\ proposal \in [Drafts -> [status : Statuses, mode : Modes]]
  /\ serving \in [Threads -> Requests \cup {Idle}]
  /\ \A t \in Threads :
       serving[t].op \in {"approve", "reject", "enter"} => serving[t].book \in Drafts

RegistryInit ==
  /\ registry = [b \in Books |-> IF b \in Seeds THEN [mode |-> "hitl", by |-> Seeder]
                                                ELSE Absent]
  /\ proposal = [d \in Drafts |-> [status |-> "none", mode |-> "hitl"]]
  /\ serving = [t \in Threads |-> Idle]

------------------------------------------------------------------------------
May(actor, action) == action \in Permissions[actor]

(* POST /playbooks: an upsert.  Automatic only from an actor who could     *)
(* have graduated the playbook.                                            *)
Register(actor, b, mode) ==
  /\ May(actor, "register")
  /\ mode = "auto" => May(actor, "graduate")
  /\ registry' = [registry EXCEPT ![b] = [mode |-> mode, by |-> actor]]
  /\ UNCHANGED <<proposal, serving>>

(* _finalize_proposal: whatever mode the author drafted, a proposal is     *)
(* stored behind a human.                                                  *)
Propose(actor, d, drafted) ==
  /\ May(actor, "approve")
  /\ proposal[d].status = "none"
  /\ proposal' = [proposal EXCEPT ![d] = [status |-> "proposed", mode |-> "hitl"]]
  /\ UNCHANGED <<registry, serving>>

(* A handler has passed its checks and will write.                         *)
Begin(t, op, b, actor) ==
  /\ serving[t] = Idle
  /\ serving' = [serving EXCEPT ![t] = [op |-> op, book |-> b, actor |-> actor]]
  /\ UNCHANGED <<registry, proposal>>

BeginGraduate(t, actor, b) ==
  /\ registry[b] # Absent
  /\ May(actor, "graduate")
  /\ Begin(t, "graduate", b, actor)

(* demote: a playbook that is not automatic is returned as it is.          *)
BeginDemote(t, actor, b) ==
  /\ registry[b].mode = "auto"
  /\ May(actor, "graduate")
  /\ Begin(t, "demote", b, actor)

BeginApprove(t, actor, d) ==
  /\ proposal[d].status = "proposed"
  /\ May(actor, "approve")
  /\ Begin(t, "approve", d, actor)

BeginReject(t, actor, d) ==
  /\ proposal[d].status = "proposed"
  /\ May(actor, "reject")
  /\ Begin(t, "reject", d, actor)

(* graduate and demote write back the copy they read, its mode replaced.   *)
WriteMode(t) ==
  /\ serving[t].op \in {"graduate", "demote"}
  /\ registry' = [registry EXCEPT ![serving[t].book] =
                    [mode |-> IF serving[t].op = "graduate" THEN "auto" ELSE "hitl",
                     by |-> serving[t].actor]]
  /\ serving' = [serving EXCEPT ![t] = Idle]
  /\ UNCHANGED proposal

(* set_status: one transaction.  An approval goes on to register the       *)
(* playbook; a proposal that has been cleared away meanwhile is None, and  *)
(* approving it raises.                                                    *)
SetStatus(t) ==
  /\ serving[t].op \in {"approve", "reject"}
  /\ LET d == serving[t].book
         found == proposal[d].status # "cleared"
         status == IF serving[t].op = "approve" THEN "approved" ELSE "rejected"
     IN /\ proposal' = IF found THEN [proposal EXCEPT ![d].status = status] ELSE proposal
        /\ serving' = [serving EXCEPT ![t] =
             IF found /\ status = "approved" THEN [@ EXCEPT !.op = "enter"] ELSE Idle]
  /\ UNCHANGED registry

EnterRegistry(t) ==
  /\ serving[t].op = "enter"
  /\ LET d == serving[t].book IN
       registry' = [registry EXCEPT ![d] = [mode |-> proposal[d].mode,
                                            by |-> serving[t].actor]]
  /\ serving' = [serving EXCEPT ![t] = Idle]
  /\ UNCHANGED proposal

(* The demo's reset clears the proposals, the live registry stays.         *)
ResetProposals ==
  /\ proposal' = [d \in Drafts |->
       IF proposal[d].status = "none" THEN proposal[d]
                                      ELSE [proposal[d] EXCEPT !.status = "cleared"]]
  /\ UNCHANGED <<registry, serving>>

(* Governance restarts: what it was serving is lost, and seeding inserts   *)
(* only what is absent, so a graduated row survives.                       *)
Reseed ==
  /\ serving' = [t \in Threads |-> Idle]
  /\ registry' = [b \in Books |->
       IF b \in Seeds /\ registry[b] = Absent
       THEN [mode |-> "hitl", by |-> Seeder] ELSE registry[b]]
  /\ UNCHANGED proposal

(* The rest of a handler: nothing in it waits for anybody.                 *)
Handle(t) == WriteMode(t) \/ SetStatus(t) \/ EnterRegistry(t)
=============================================================================
