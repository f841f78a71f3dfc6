---------------------------- MODULE MessageLedger ----------------------------
(***************************************************************************)
(* What a consumer with explicit acknowledgements promises whoever         *)
(* publishes to its queue, and nothing of how it keeps the promise: a      *)
(* message is done only with an effect, only the consumer that has it can  *)
(* discard it, every other loss of a consumer gives it back to the queue,  *)
(* and once it is done or discarded it has no further effect.              *)
(***************************************************************************)
CONSTANTS Messages, Effects

VARIABLES
  place,   \* message -> where it is
  effect   \* message -> what handling it has brought about so far

vars == <<place, effect>>

Init ==
  /\ place = [n \in Messages |-> "unsent"]
  /\ effect = [n \in Messages |-> {}]

Move(n, from, to) ==
  /\ place[n] = from
  /\ place' = [place EXCEPT ![n] = to]
  /\ UNCHANGED effect

Send(n) == Move(n, "unsent", "waiting")
Take(n) == Move(n, "waiting", "taken")
Ack(n)  == effect[n] # {} /\ Move(n, "taken", "done")
Drop(n) == Move(n, "taken", "discarded")

\* A consumer that has lost its connection still handles what it had, while
\* the message waits for the next one.
Do(n) ==
  /\ place[n] \in {"waiting", "taken"}
  /\ \E e \in Effects : effect' = [effect EXCEPT ![n] = @ \cup {e}]
  /\ UNCHANGED place

\* The consumer or its connection is gone: every message it had waits again.
Return ==
  /\ place' = [n \in Messages |-> IF place[n] = "taken" THEN "waiting" ELSE place[n]]
  /\ UNCHANGED effect

Next ==
  \/ \E n \in Messages : Send(n) \/ Take(n) \/ Ack(n) \/ Drop(n) \/ Do(n)
  \/ Return

Spec == Init /\ [][Next]_vars

=============================================================================
