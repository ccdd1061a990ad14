--------------------------- MODULE DeliveryPromise ---------------------------
(***************************************************************************)
(* What one topic promises its consumer, whatever the transport does to    *)
(* keep the promise.  Every published entry meets exactly one fate, in the *)
(* order of the stream: its handler completed, it was parked on the dead   *)
(* letter queue or, only where the delivery mode is at most once, it was   *)
(* lost.  EventBus.tla is the code that keeps this promise; Remediation    *)
(* is written against it.                                                  *)
(***************************************************************************)
EXTENDS Naturals

CONSTANTS Delivery,   \* "at_most_once" or "at_least_once"
          Entries     \* the entries the stream can ever hold, numbered from 1

VARIABLE fate         \* fate[e]: what became of entry e

Fates == {"unsent", "waiting", "handled", "parked", "lost"}
Settled == {"handled", "parked", "lost"}

Init == fate = [e \in Entries |-> "unsent"]

(* Entries are appended one after the other.                               *)
Send(e) ==
  /\ fate[e] = "unsent"
  /\ \A d \in Entries : d < e => fate[d] # "unsent"
  /\ fate' = [fate EXCEPT ![e] = "waiting"]

(* An entry is settled only after every entry before it.                   *)
Settle(e) ==
  /\ fate[e] = "waiting"
  /\ \A d \in Entries : d < e => fate[d] \in Settled
  /\ \E f \in Settled :
       /\ f = "lost" => Delivery = "at_most_once"
       /\ fate' = [fate EXCEPT ![e] = f]

Next == \E e \in Entries : Send(e) \/ Settle(e)

(* Whatever was sent is settled in the end; nobody promises to send.       *)
Spec == Init /\ [][Next]_fate /\ \A e \in Entries : WF_fate(Settle(e))
=============================================================================
