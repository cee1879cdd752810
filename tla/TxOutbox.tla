------------------------------ MODULE TxOutbox ------------------------------
(***************************************************************************)
(* What the SDK promises about transactions, whatever the network and the  *)
(* application's handler do: at most Capacity of them are pending, they    *)
(* are executed in the order in which they were submitted, and a buffer is *)
(* given back only for a transaction that was executed, in that order too. *)
(***************************************************************************)
EXTENDS Naturals, FiniteSets

CONSTANT Capacity

VARIABLES
  last,      \* number of the last transaction submitted
  waiting,   \* submitted, not known to be executed
  executed   \* executed, still in a buffer

outboxVars == <<last, waiting, executed>>

Init == last = 0 /\ waiting = {} /\ executed = {}

Oldest(t, S) == t \in S /\ \A u \in S : t <= u

Accept ==
  /\ Cardinality(waiting \cup executed) < Capacity
  /\ last' = last + 1
  /\ waiting' = waiting \cup {last + 1}
  /\ UNCHANGED executed

Execute(t) ==
  /\ Oldest(t, waiting)
  /\ waiting' = waiting \ {t}
  /\ executed' = executed \cup {t}
  /\ UNCHANGED last

Release(t) ==
  /\ Oldest(t, executed)
  /\ executed' = executed \ {t}
  /\ UNCHANGED <<last, waiting>>

Next == Accept \/ \E t \in waiting \cup executed : Execute(t) \/ Release(t)

Spec == Init /\ [][Next]_outboxVars

=============================================================================
