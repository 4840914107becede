---------------------------- MODULE ClickLedger ----------------------------
(***************************************************************************)
(* What the analytics pipeline promises for each message, without broker,  *)
(* connections, workers or retries:                                        *)
(*                                                                         *)
(*   unmade -> scheduled -> pending -> done                                *)
(*                      \-> lost   \-> dead                                *)
(*                                                                         *)
(* A click may be lost only before the broker has accepted it.  After that *)
(* it is counted once, at any moment until it is done, or even after it    *)
(* was dead-lettered (another worker was still writing it); it is done     *)
(* only if it is counted, and what is done or dead stays so.               *)
(* ClickPipeline implements this.                                          *)
(***************************************************************************)
EXTENDS Integers

CONSTANTS Clicks, Foreign

Messages == Clicks \cup Foreign

VARIABLES
  stage,  \* stage[m]: where message m is in its life
  count   \* count[m]: how often it was counted

ledger == <<stage, count>>

Init ==
  /\ stage = [m \in Messages |-> "unmade"]
  /\ count = [m \in Messages |-> 0]

Move(m, from, to) ==
  /\ stage[m] = from
  /\ stage' = [stage EXCEPT ![m] = to]
  /\ UNCHANGED count

\* A redirect is answered and owes a click; other producers publish at once.
Schedule(m) == m \in Clicks /\ Move(m, "unmade", "scheduled")
Submit(m) == m \in Foreign /\ Move(m, "unmade", "pending")

Accept(m) == Move(m, "scheduled", "pending")

\* Clicks disappear with the process that owed them, or by a failed publish.
Lose(S) ==
  /\ \A m \in S : stage[m] = "scheduled"
  /\ stage' = [m \in Messages |-> IF m \in S THEN "lost" ELSE stage[m]]
  /\ UNCHANGED count

Count(m) ==
  /\ m \in Clicks
  /\ stage[m] \in {"pending", "dead"}
  /\ count[m] = 0 /\ count' = [count EXCEPT ![m] = 1]
  /\ UNCHANGED stage

Settle(m) == count[m] = 1 /\ Move(m, "pending", "done")

Bury(m) == Move(m, "pending", "dead")

Next ==
  \/ \E m \in Messages :
       \/ Schedule(m) \/ Submit(m) \/ Accept(m)
       \/ Count(m) \/ Settle(m) \/ Bury(m)
  \/ \E S \in SUBSET Clicks : Lose(S)

Spec == Init /\ [][Next]_ledger

=============================================================================
