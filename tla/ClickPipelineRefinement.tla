----------------------- MODULE ClickPipelineRefinement -----------------------
(***************************************************************************)
(* ClickPipeline implements ClickLedger: every step of the backend, of the *)
(* broker, of a worker or of a failure is one step in the life of a        *)
(* message, the loss of clicks not yet published, or invisible.            *)
(***************************************************************************)
EXTENDS ClickPipelineProofs

\* Every message is a click or comes from another producer.
LEMMA LedgerMessages == Ledger!Messages = Messages
BY DEF Ledger!Messages, Messages

\* Nothing is made yet, nothing is counted.
LEMMA InitRefines == Init => Ledger!Init
BY LedgerMessages DEF Init, Ledger!Init, Stages, Stage

\* A message is out for delivery if some worker holds it.
LEMMA DeliveredIff ==
  ASSUME NEW x
  PROVE  /\ x \in Delivered <=> \E w \in Workers : x \in unacked[w]
         /\ x \in Delivered' <=> \E w \in Workers : x \in unacked'[w]
BY DEF Delivered

\* A step that moves x neither in the backend nor in the broker leaves its stage.
LEMMA SameStage ==
  ASSUME NEW x,
         x \in unsent' <=> x \in unsent,
         x \in tasks' <=> x \in tasks,
         x \in accepted' <=> x \in accepted,
         x \in dlq' <=> x \in dlq,
         x \in queue' \cup Delivered' <=> x \in queue \cup Delivered
  PROVE  Stage(x)' = Stage(x)
BY DEF Stage

\* A step that moves one message changes one stage.
LEMMA OneMove ==
  ASSUME NEW m \in Messages, NEW from, NEW to,
         \A x \in Messages \ {m} : Stage(x)' = Stage(x),
         Stage(m) = from, Stage(m)' = to, UNCHANGED clicks
  PROVE  Ledger!Move(m, from, to)
BY DEF Ledger!Move, Stages

\* A step that moves no message and counts none is invisible.
LEMMA Invisible ==
  ASSUME \A x \in Messages : Stage(x)' = Stage(x), UNCHANGED clicks
  PROVE  UNCHANGED Ledger!ledger
BY DEF Ledger!ledger, Stages

-----------------------------------------------------------------------------
(* The backend and the other producers.                                    *)

\* A redirect schedules its click.
LEMMA RedirectRefines ==
  ASSUME IndInv, NEW m \in Messages, Redirect(m)
  PROVE  Ledger!Schedule(m)
<1>1. \A x \in Messages \ {m} : Stage(x)' = Stage(x)
  BY DEF Redirect, broker, Stage, Delivered
<1>2. Stage(m) = "unmade" /\ Stage(m)' = "scheduled"
  BY DEF Redirect, Stage
<1> QED
  BY <1>1, <1>2, OneMove DEF Redirect, Ledger!Schedule

\* A published click is accepted: it waits in the queue.
LEMMA PublishRefines ==
  ASSUME IndInv, NEW m \in Messages, Publish(m)
  PROVE  Ledger!Accept(m)
<1> USE DEF Publish, Enqueue
<1>1. ASSUME NEW x \in Messages \ {m} PROVE Stage(x)' = Stage(x)
  <2>1. Delivered' = Delivered
    BY DEF Delivered
  <2> QED
    BY <2>1, SameStage
<1>2. Stage(m) = "scheduled" /\ Stage(m)' = "pending"
  BY DEF Stage, IndInv, LifeInOrder
<1> QED
  BY <1>1, <1>2, OneMove DEF Ledger!Accept

\* A failed publish loses its click.
LEMMA PublishFailsRefines ==
  ASSUME IndInv, NEW m \in Messages, PublishFails(m)
  PROVE  Ledger!Lose({m})
<1>1. \A x \in Messages \ {m} : Stage(x)' = Stage(x)
  BY DEF PublishFails, broker, Stage, Delivered
<1>2. Stage(m) = "scheduled" /\ Stage(m)' = "lost"
  BY DEF PublishFails, broker, Stage, IndInv, LifeInOrder
<1>3. UNCHANGED clicks
  BY DEF PublishFails
<1> QED
  BY <1>1, <1>2, <1>3, LedgerMessages DEF Ledger!Lose, Stages

\* The clicks a killed backend still owed are lost together.
LEMMA BackendCrashRefines ==
  ASSUME IndInv, BackendCrash
  PROVE  Ledger!Lose(tasks)
<1>1. \A x \in Messages \ tasks : Stage(x)' = Stage(x)
  BY DEF BackendCrash, broker, Stage, Delivered
<1>2. \A x \in tasks : Stage(x) = "scheduled" /\ Stage(x)' = "lost"
  BY DEF BackendCrash, broker, Stage, IndInv, LifeInOrder
<1>3. tasks \subseteq Messages /\ UNCHANGED clicks
  BY DEF BackendCrash, IndInv, TypeOK
<1> QED
  BY <1>1, <1>2, <1>3, LedgerMessages DEF Ledger!Lose, Stages

\* What another producer publishes is accepted at once.
LEMMA ForeignPublishRefines ==
  ASSUME IndInv, NEW m \in Messages, ForeignPublish(m)
  PROVE  Ledger!Submit(m)
<1> USE DEF ForeignPublish, Enqueue
<1>1. ASSUME NEW x \in Messages \ {m} PROVE Stage(x)' = Stage(x)
  <2>1. Delivered' = Delivered
    BY DEF Delivered
  <2> QED
    BY <2>1, SameStage
<1>2. Stage(m) = "unmade" /\ Stage(m)' = "pending"
  BY DEF Stage, IndInv, LifeInOrder
<1>3. m \in Unstorable \cup Malformed \cup Scalars
  BY DEF Messages
<1> QED
  BY <1>1, <1>2, <1>3, OneMove DEF Ledger!Submit

-----------------------------------------------------------------------------
(* The broker.                                                             *)

\* A delivery takes a message from the queue into the hands of a worker.
LEMMA DeliverInvisible ==
  ASSUME IndInv, NEW w \in Workers, Deliver(w)
  PROVE  UNCHANGED Ledger!ledger
<1>1. ASSUME NEW x PROVE x \in queue' \cup Delivered' <=> x \in queue \cup Delivered
  BY DeliveredIff DEF Deliver, IndInv, TypeOK
<1>2. \A x \in Messages : Stage(x)' = Stage(x)
  BY <1>1, SameStage DEF Deliver
<1> QED
  BY <1>2, Invisible DEF Deliver

\* A lost connection puts them back.
LEMMA DropInvisible ==
  ASSUME IndInv, NEW w \in Workers, BrokerDropsLink(w),
         UNCHANGED <<unsent, tasks, clicks>>
  PROVE  UNCHANGED Ledger!ledger
<1>1. ASSUME NEW x PROVE x \in queue' \cup Delivered' <=> x \in queue \cup Delivered
  BY DeliveredIff DEF BrokerDropsLink, IndInv, TypeOK
<1>2. \A x \in Messages : Stage(x)' = Stage(x)
  BY <1>1, SameStage DEF BrokerDropsLink
<1> QED
  BY <1>2, Invisible

\* What a worker does in its own memory is invisible.
LEMMA ThreadInvisible ==
  ASSUME UNCHANGED <<unsent, tasks, accepted, queue, unacked, dlq, clicks>>
  PROVE  UNCHANGED Ledger!ledger
<1>1. Delivered' = Delivered
  BY DEF Delivered
<1>2. \A x \in Messages : Stage(x)' = Stage(x)
  BY <1>1, SameStage
<1> QED
  BY <1>2, Invisible

-----------------------------------------------------------------------------
(* The worker's callback.                                                  *)

\* A message that is not counted yet is not done: the insert counts it in time.
LEMMA InsertRefines ==
  ASSUME IndInv, NEW w \in Workers, holding[w] \in Clicks,
         InsertIdempotent(holding[w]),
         UNCHANGED <<unsent, tasks, accepted, queue, unacked, dlq>>
  PROVE  Ledger!Count(holding[w]) \/ UNCHANGED Ledger!ledger
<1> DEFINE m == holding[w]
<1>1. m \in Messages /\ m \in accepted /\ clicks \in [Messages -> Nat]
  BY DEF IndInv, DeliveriesMatch, Messages, TypeOK
<1>2. \A x \in Messages : Stage(x)' = Stage(x)
  <2>1. Delivered' = Delivered
    BY DEF Delivered
  <2> QED
    BY <2>1, SameStage
<1>3. UNCHANGED Stages
  BY <1>2 DEF Stages
<1>4. CASE clicks[m] = 0
  <2>1. m \in queue \cup dlq \cup Delivered
    BY <1>1, <1>4, DeliveredIff DEF IndInv, NothingLost
  <2>2. Stages[m] \in {"pending", "dead"}
    BY <1>1, <2>1 DEF Stages, Stage, IndInv, LifeInOrder
  <2>3. clicks' = [clicks EXCEPT ![m] = 1]
    BY <1>4 DEF InsertIdempotent
  <2> QED
    BY <1>3, <1>4, <2>2, <2>3 DEF Ledger!Count
<1>5. CASE clicks[m] # 0
  <2>1. clicks' = clicks
    BY <1>1, <1>5 DEF InsertIdempotent
  <2> QED
    BY <1>2, <2>1, Invisible
<1> QED
  BY <1>4, <1>5

\* A processing attempt counts its click, or fails and leaves no trace.
LEMMA ProcessRefines ==
  ASSUME IndInv, NEW w \in Workers,
         ProcessClick(w) \/ ProcessUnstorable(w) \/ ProcessMalformed(w)
  PROVE  (\E m \in Messages : Ledger!Count(m)) \/ UNCHANGED Ledger!ledger
<1>1. UNCHANGED <<unsent, tasks, accepted, queue, unacked, dlq>>
  BY DEF ProcessClick, ProcessUnstorable, ProcessMalformed, broker
<1>2. CASE UNCHANGED clicks
  BY <1>1, <1>2, ThreadInvisible
<1>3. CASE holding[w] \in Clicks /\ InsertIdempotent(holding[w])
  BY <1>1, <1>3, InsertRefines DEF Messages
<1> QED
  BY <1>2, <1>3 DEF ProcessClick, ProcessUnstorable, ProcessMalformed

\* A settled delivery leaves the worker that had it and nobody else.
LEMMA SettledStep ==
  ASSUME IndInv, NEW w \in Workers, Settled(w), step[w] \in {"acking", "nacking"}
  PROVE  /\ holding[w] \in Messages \cap accepted
         /\ Stage(holding[w]) = "pending"
         /\ holding[w] \notin queue \cup dlq \cup Delivered'
         /\ \A x \in Messages \ {holding[w]} : x \in Delivered' <=> x \in Delivered
<1> DEFINE m == holding[w]
<1>1. /\ m \in unacked[w] /\ m \notin queue \cup dlq
      /\ \A v \in Workers \ {w} : m \notin unacked[v]
      /\ m \in Messages /\ m \in accepted
  BY DEF IndInv, OneCopy, Settled, LifeInOrder, TypeOK
<1>2. /\ unacked' = [unacked EXCEPT ![w] = @ \ {m}]
      /\ unacked \in [Workers -> SUBSET Messages]
  BY DEF Settled, IndInv, TypeOK
<1>3. m \in Delivered /\ m \notin Delivered'
  BY <1>1, <1>2, DeliveredIff
<1>4. ASSUME NEW x \in Messages \ {m} PROVE x \in Delivered' <=> x \in Delivered
  BY <1>2, DeliveredIff
<1>5. Stage(m) = "pending"
  BY <1>1, <1>3 DEF Stage, IndInv, LifeInOrder
<1> QED
  BY <1>1, <1>3, <1>4, <1>5

\* An acknowledged click is counted, and done.
LEMMA AckRefines ==
  ASSUME IndInv, NEW w \in Workers, Ack(w)
  PROVE  Ledger!Settle(holding[w])
<1>0. PICK m : m = holding[w]
  OBVIOUS
<1>1. /\ m \in Messages \cap accepted
      /\ Stage(m) = "pending"
      /\ m \notin queue \cup dlq \cup Delivered'
      /\ \A x \in Messages \ {m} : x \in Delivered' <=> x \in Delivered
  BY <1>0, SettledStep DEF Ack
<1>2. UNCHANGED <<unsent, tasks, accepted, queue, dlq, clicks>>
  BY DEF Ack, Settled
<1>3. \A x \in Messages \ {m} : Stage(x)' = Stage(x)
  BY <1>1, <1>2, SameStage
<1>4. Stage(m)' = "done"
  BY <1>1, <1>2 DEF Stage, IndInv, LifeInOrder
<1>5. clicks[m] = 1
  BY <1>0, <1>1 DEF Ack, IndInv, TypeOK, AckAfterCommit, CountedOnce
<1> QED
  BY <1>0, <1>1, <1>2, <1>3, <1>4, <1>5, OneMove DEF Ledger!Settle

\* A rejected message is dead-lettered: the queue for it exists.
LEMMA NackRefines ==
  ASSUME IndInv, NEW w \in Workers, Nack(w)
  PROVE  Ledger!Bury(holding[w])
<1>0. PICK m : m = holding[w]
  OBVIOUS
<1>1. /\ m \in Messages \cap accepted
      /\ Stage(m) = "pending"
      /\ m \notin queue \cup dlq \cup Delivered'
      /\ \A x \in Messages \ {m} : x \in Delivered' <=> x \in Delivered
  BY <1>0, SettledStep DEF Nack
<1>2. UNCHANGED <<unsent, tasks, accepted, queue, clicks>>
  BY DEF Nack, Settled, DeadLettered
<1>3. dlq' = dlq \cup {m}
  BY <1>0 DEF Nack, DeadLettered, IndInv, DlqBeforeConsuming, Subscribed
<1>4. \A x \in Messages \ {m} : Stage(x)' = Stage(x)
  BY <1>1, <1>2, <1>3, SameStage
<1>5. Stage(m)' = "dead"
  BY <1>1, <1>2, <1>3 DEF Stage, IndInv, LifeInOrder
<1> QED
  BY <1>0, <1>1, <1>2, <1>4, <1>5, OneMove DEF Ledger!Bury

-----------------------------------------------------------------------------
\* Every step of the pipeline is a step of the ledger or leaves it unchanged.
LEMMA NextRefines ==
  ASSUME IndInv, [Next]_vars
  PROVE  [Ledger!Next]_(Ledger!ledger)
<1> USE LedgerMessages
<1>1. ASSUME NEW m \in Messages, Redirect(m) PROVE Ledger!Next
  BY <1>1, RedirectRefines DEF Ledger!Next
<1>2. ASSUME NEW m \in Messages, Publish(m) PROVE Ledger!Next
  BY <1>2, PublishRefines DEF Ledger!Next
<1>3. ASSUME NEW m \in Messages, PublishFails(m) PROVE Ledger!Next
  <2>1. {m} \in SUBSET Clicks
    BY <1>3 DEF PublishFails, IndInv, LifeInOrder
  <2> QED
    BY <1>3, <2>1, PublishFailsRefines DEF Ledger!Next
<1>4. ASSUME NEW m \in Messages, ForeignPublish(m) PROVE Ledger!Next
  BY <1>4, ForeignPublishRefines DEF Ledger!Next
<1>5. CASE BackendCrash
  <2>1. tasks \in SUBSET Clicks
    BY DEF IndInv, LifeInOrder
  <2> QED
    BY <1>5, <2>1, BackendCrashRefines DEF Ledger!Next
<1>6. ASSUME NEW w \in Workers, Deliver(w) PROVE UNCHANGED Ledger!ledger
  BY <1>6, DeliverInvisible
<1>7. ASSUME NEW w \in Workers, ConnectionLost(w) \/ WorkerCrash(w)
      PROVE  UNCHANGED Ledger!ledger
  BY <1>7, DropInvisible DEF ConnectionLost, WorkerCrash
<1>8. ASSUME NEW w \in Workers, Unwind(w) PROVE UNCHANGED Ledger!ledger
  <2>1. CASE BrokerDropsLink(w)
    BY <1>8, <2>1, DropInvisible DEF Unwind
  <2>2. CASE UNCHANGED broker
    BY <1>8, <2>2, ThreadInvisible DEF Unwind, broker
  <2> QED
    BY <1>8, <2>1, <2>2 DEF Unwind
<1>9. ASSUME NEW w \in Workers,
             \/ ConnectFails(w) \/ Connect(w) \/ StartConsuming(w) \/ NoticeLoss(w)
             \/ HandleDelivery(w) \/ SettleOnLostLink(w) \/ WorkerStart(w)
      PROVE  UNCHANGED Ledger!ledger
  <2>1. UNCHANGED <<unsent, tasks, accepted, queue, unacked, dlq, clicks>>
    BY <1>9 DEF ConnectFails, Connect, StartConsuming, NoticeLoss, HandleDelivery,
                SettleOnLostLink, WorkerStart, broker
  <2> QED
    BY <2>1, ThreadInvisible
<1>10. ASSUME NEW w \in Workers,
              ProcessClick(w) \/ ProcessUnstorable(w) \/ ProcessMalformed(w)
       PROVE  Ledger!Next \/ UNCHANGED Ledger!ledger
  BY <1>10, ProcessRefines DEF Ledger!Next
<1>11. ASSUME NEW w \in Workers, Ack(w) \/ Nack(w) PROVE Ledger!Next
  <2>1. holding[w] \in Messages
    BY <1>11, SettledStep DEF Ack, Nack
  <2> QED
    BY <1>11, <2>1, AckRefines, NackRefines DEF Ledger!Next
<1>12. CASE UNCHANGED vars
  BY <1>12, ThreadInvisible DEF vars, broker
<1> QED
  BY <1>1, <1>2, <1>3, <1>4, <1>5, <1>6, <1>7, <1>8, <1>9, <1>10, <1>11, <1>12
  DEF Next, Consume

\* The pipeline with its broker, its workers and all their failures implements
\* the ledger that has none of them.
THEOREM LedgerRefinement == Spec => ImplementsLedger
<1>1. IndInv /\ [Next]_vars => [Ledger!Next]_(Ledger!ledger)
  BY NextRefines
<1> QED
  BY <1>1, InitRefines, Invariance, PTL DEF Spec, ImplementsLedger, Ledger!Spec

=============================================================================
