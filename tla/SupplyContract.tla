--------------------------- MODULE SupplyContract ---------------------------
(***************************************************************************)
(* What the pipelines of a round promise to it: a trial starts only when   *)
(* nothing old is left under the keys its workers poll and every job of    *)
(* the round is there once, but for those that a BRPOP of a dead worker    *)
(* has taken already; and no such BRPOP takes more than one.               *)
(***************************************************************************)
EXTENDS Naturals

CONSTANTS
  Amounts,    \* how many jobs a round may have
  MaxOrphans  \* bound: BRPOPs of dead workers that wait at the broker

VARIABLES
  step,    \* clear, enqueue, trial, or exited: main() has given up
  keys,    \* messages in the polled keys: of this round, and older ones
  orphans  \* BRPOPs of dead workers that wait at the broker

supplyVars == <<step, keys, orphans>>

Ages == {"own", "old"}
NoMessages == [age \in Ages |-> 0]

SupplyInit ==
  /\ step = "clear"
  /\ keys \in [Ages -> Nat] /\ keys["own"] = 0
  /\ orphans \in 0 .. MaxOrphans

-----------------------------------------------------------------------------

\* The broker deletes one old message or several.
Drop ==
  /\ \E n \in 0 .. keys["old"] - 1 : keys' = [keys EXCEPT !["old"] = n]
  /\ UNCHANGED <<step, orphans>>

Discard == step = "clear" /\ Drop

\* Commands may be executed after main() has given up on their pipeline.
LateDiscard == step = "exited" /\ Drop

Cleared ==
  /\ step = "clear"
  /\ keys = NoMessages
  /\ step' = "enqueue"
  /\ UNCHANGED <<keys, orphans>>

(* All n jobs have been pushed when the trial starts, and some of them may be
   gone: an orphan is served as soon as there is a job. *)
Enqueue(n) ==
  /\ step = "enqueue"
  /\ step' = "trial"
  /\ \E stolen \in 0 .. n :
       /\ stolen <= orphans
       /\ orphans' = orphans - stolen
       /\ keys' = [keys EXCEPT !["own"] = n - stolen]

\* A pipeline fails.
Fail ==
  /\ step \in {"clear", "enqueue"}
  /\ step' = "exited"
  /\ UNCHANGED <<keys, orphans>>

\* A worker gets a message.
Take(age) ==
  /\ step = "trial"
  /\ keys[age] > 0
  /\ keys' = [keys EXCEPT ![age] = @ - 1]
  /\ UNCHANGED <<step, orphans>>

(* The broker serves a dead worker before it sees that its connection is
   closed: the message is lost. *)
Steal ==
  /\ orphans > 0
  /\ orphans' = orphans - 1
  /\ \E age \in Ages : keys[age] > 0 /\ keys' = [keys EXCEPT ![age] = @ - 1]
  /\ UNCHANGED step

OrphanCloses ==
  /\ orphans > 0
  /\ orphans' = orphans - 1
  /\ UNCHANGED <<step, keys>>

SupplyNext ==
  \/ Discard
  \/ LateDiscard
  \/ Cleared
  \/ \E n \in Amounts : Enqueue(n)
  \/ Fail
  \/ \E age \in Ages : Take(age)
  \/ Steal
  \/ OrphanCloses

SupplySpec == SupplyInit /\ [][SupplyNext]_supplyVars
=============================================================================
