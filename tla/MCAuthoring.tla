------------------------------- MODULE MCAuthoring -------------------------------
(* Small values for Authoring: what a model's message may be, and the runs. *)
EXTENDS Authoring

(* The streams and the memory share no state: a run is looked at from one  *)
(* side at a time.                                                         *)
Setting(author, traced, v, o) ==
  [author |-> author, traced |-> traced, views |-> v, outcomes |-> o]
MCSettings == {Setting(a, TRUE, 2, 0) : a \in {"null", "single", "agent"}}
                \cup {Setting("agent", TRUE, 0, 2), Setting("single", FALSE, 0, 2)}
Message(content, calls) == [content |-> content, calls |-> calls]

(* Reasoning alone, reasoning with a tool call, and a turn in which a      *)
(* rejected submission precedes a valid one.                               *)
MCMessages == {Message(TRUE, <<>>), Message(TRUE, <<"read">>),
               Message(FALSE, <<"rejected", "submitted">>)}
==================================================================================
