---------------------------- MODULE FencedBroker ----------------------------
(***************************************************************************)
(* What the leadership fence promises to the broker, and nothing of how:   *)
(* real order and close requests are made one at a time, each under the    *)
(* generation of one leadership term, and once a term has been used no     *)
(* older term is used again.                                               *)
(*   docs/spec/02-system-architecture.md ARCH-015,                         *)
(*   docs/spec/03-broker-contract.md BROKER-017.                           *)
(***************************************************************************)
EXTENDS Integers

CONSTANTS Workers,       \* process incarnations
          NoWorker       \* "nobody"

VARIABLES mutator,       \* the worker whose broker request is in flight
          lastTerm       \* the newest term any request was made under

vars == <<mutator, lastTerm>>

NoTerm == [owner |-> NoWorker, generation |-> 0]

Init == mutator = NoWorker /\ lastTerm = NoTerm

\* A request begins under a term at least as new as every term used before;
\* the same generation is only ever used by the same worker.
Begin(w) ==
  /\ mutator = NoWorker
  /\ mutator' = w
  /\ lastTerm' = [owner |-> w, generation |-> lastTerm'.generation]
  /\ \/ lastTerm'.generation > lastTerm.generation
     \/ lastTerm' = lastTerm

End(w) ==
  /\ mutator = w
  /\ mutator' = NoWorker
  /\ UNCHANGED lastTerm

Next == \E w \in Workers : Begin(w) \/ End(w)

Spec == Init /\ [][Next]_vars
=============================================================================
