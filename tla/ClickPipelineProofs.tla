------------------------ MODULE ClickPipelineProofs ------------------------
(***************************************************************************)
(* Proofs about ClickPipeline: the safety properties, for any number of    *)
(* messages, workers, retries, faults and crashes.                         *)
(***************************************************************************)
EXTENDS ClickPipeline, TLAPS

\* The inductive invariant holds initially.
LEMMA InitIndInv == Init => IndInv
<1> SUFFICES ASSUME Init PROVE IndInv
  OBVIOUS
<1> USE MessagesAssumption, BoundsAssumption DEF Init
<1>1. TypeOK
  <2>1. 0 \in 0..MaxRetries /\ 0 \in 0..(MaxConnectAttempts - 1)
    OBVIOUS
  <2>2. /\ attempt \in [Workers -> 0..MaxRetries]
        /\ tries \in [Workers -> 0..(MaxConnectAttempts - 1)]
        /\ faults \in 0..MaxFaults /\ crashes \in 0..MaxCrashes
    BY <2>1
  <2> QED
    BY <2>2 DEF TypeOK, ThreadSteps
<1>2. HoldsInCallback
  BY DEF HoldsInCallback
<1>3. AckAfterCommit /\ NackAfterRetries /\ DlqBeforeConsuming
  BY DEF AckAfterCommit, NackAfterRetries, DlqBeforeConsuming, Subscribed
<1>4. CountedOnce /\ NothingLost
  BY DEF CountedOnce, NothingLost
<1>5. LifeInOrder /\ DeliveriesMatch /\ OneCopy
  BY DEF LifeInOrder, DeliveriesMatch, OneCopy, Subscribed
<1> QED
  BY <1>1, <1>2, <1>3, <1>4, <1>5 DEF IndInv

-----------------------------------------------------------------------------
(* Each conjunct is preserved: one step per action, or per group of        *)
(* actions that treat it alike.                                            *)

\* Leaving _consume_once resets the thread's variables.
LEMMA LeaveType ==
  ASSUME TypeOK, NEW w \in Workers, NEW s \in ThreadSteps, Leave(w, s)
  PROVE  /\ step' \in [Workers -> ThreadSteps]
         /\ received' \in [Workers -> SUBSET Messages]
         /\ holding' \in [Workers -> Messages \cup {NoMessage}]
         /\ attempt' \in [Workers -> 0..MaxRetries]
         /\ tries' \in [Workers -> 0..(MaxConnectAttempts - 1)]
         /\ consumer_connected' \in [Workers -> BOOLEAN]
  BY BoundsAssumption DEF TypeOK, Leave, Goto

\* Every variable keeps its type; attempts and tries stay within their bounds.
LEMMA TypeStep ==
  ASSUME IndInv, [Next]_vars
  PROVE  TypeOK'
<1> USE MessagesAssumption, BoundsAssumption
        DEF IndInv, TypeOK, HoldsInCallback, ThreadSteps, broker, thread,
            bounds
<1>1. ASSUME NEW m \in Messages, Redirect(m) PROVE TypeOK'
  BY <1>1 DEF Redirect
<1>2. ASSUME NEW m \in Messages, Publish(m) PROVE TypeOK'
  BY <1>2 DEF Publish, Enqueue
<1>3. ASSUME NEW m \in Messages, PublishFails(m) PROVE TypeOK'
  BY <1>3 DEF PublishFails
<1>4. ASSUME NEW m \in Messages, ForeignPublish(m) PROVE TypeOK'
  BY <1>4 DEF ForeignPublish, Enqueue
<1>5. ASSUME NEW w \in Workers, Deliver(w) PROVE TypeOK'
  BY <1>5 DEF Deliver
<1>6. ASSUME NEW w \in Workers, ConnectionLost(w) PROVE TypeOK'
  BY <1>6 DEF ConnectionLost, BrokerDropsLink
<1>7. ASSUME NEW w \in Workers, ConnectFails(w) PROVE TypeOK'
  BY <1>7, LeaveType DEF ConnectFails
<1>8. ASSUME NEW w \in Workers, Connect(w) PROVE TypeOK'
  BY <1>8 DEF Connect, Goto
<1>9. ASSUME NEW w \in Workers, StartConsuming(w) PROVE TypeOK'
  BY <1>9 DEF StartConsuming, DeclaredQueues, Goto
<1>10. ASSUME NEW w \in Workers, NoticeLoss(w) PROVE TypeOK'
  BY <1>10 DEF NoticeLoss, Reconnect, Leave, Goto
<1>11. ASSUME NEW w \in Workers, HandleDelivery(w) PROVE TypeOK'
  BY <1>11 DEF HandleDelivery, Goto
<1>12. ASSUME NEW w \in Workers, ProcessClick(w) PROVE TypeOK'
  BY <1>12 DEF ProcessClick, InsertIdempotent, ProcessingFails,
         RetriesExhausted, Goto
<1>13. ASSUME NEW w \in Workers, ProcessUnstorable(w) PROVE TypeOK'
  BY <1>13 DEF ProcessUnstorable, ProcessingFails, RetriesExhausted, Goto
<1>14. ASSUME NEW w \in Workers, ProcessMalformed(w) PROVE TypeOK'
  BY <1>14 DEF ProcessMalformed, Goto
<1>15. ASSUME NEW w \in Workers, Ack(w) PROVE TypeOK'
  BY <1>15 DEF Ack, Settled, Goto
<1>16. ASSUME NEW w \in Workers, Nack(w) PROVE TypeOK'
  BY <1>16 DEF Nack, Settled, DeadLettered, Goto
<1>17. ASSUME NEW w \in Workers, SettleOnLostLink(w) PROVE TypeOK'
  <2>1. CASE Reconnect(w)
    BY <1>17, <2>1, LeaveType DEF SettleOnLostLink, Reconnect
  <2>2. CASE ~Reconnect(w)
    BY <1>17, <2>2 DEF SettleOnLostLink, Goto
  <2> QED
    BY <2>1, <2>2
<1>18. ASSUME NEW w \in Workers, Unwind(w) PROVE TypeOK'
  <2>1. CASE link[w]
    BY <1>18, <2>1, LeaveType DEF Unwind, BrokerDropsLink
  <2>2. CASE ~link[w]
    BY <1>18, <2>2, LeaveType DEF Unwind, Reconnect
  <2> QED
    BY <2>1, <2>2
<1>19. ASSUME NEW w \in Workers, WorkerCrash(w) PROVE TypeOK'
  BY <1>19 DEF WorkerCrash, BrokerDropsLink, Leave, Goto
<1>20. ASSUME NEW w \in Workers, WorkerStart(w) PROVE TypeOK'
  BY <1>20 DEF WorkerStart, Goto
<1>21. CASE BackendCrash \/ UNCHANGED vars
  BY <1>21 DEF BackendCrash, vars
<1> QED
  BY <1>1, <1>2, <1>3, <1>4, <1>5, <1>6, <1>7, <1>8, <1>9, <1>10, <1>11,
     <1>12, <1>13, <1>14, <1>15, <1>16, <1>17, <1>18, <1>19, <1>20, <1>21 DEF
     Next, Consume

\* holding is set by HandleDelivery and reset when the callback ends.
LEMMA CallbackStep ==
  ASSUME IndInv, [Next]_vars
  PROVE  HoldsInCallback'
<1> USE MessagesAssumption, BoundsAssumption
        DEF IndInv, TypeOK, HoldsInCallback, broker, thread, bounds
<1>1. ASSUME NEW m \in Messages,
             Redirect(m) \/ Publish(m) \/ PublishFails(m) \/ ForeignPublish(m)
      PROVE  HoldsInCallback'
  BY <1>1 DEF Redirect, Publish, Enqueue, PublishFails, ForeignPublish
<1>2. ASSUME NEW w \in Workers,
             Deliver(w) \/ ConnectionLost(w) \/ ConnectFails(w) \/ Connect(w)
      PROVE  HoldsInCallback'
  BY <1>2 DEF Deliver, ConnectionLost, BrokerDropsLink, ConnectFails, Connect,
         Leave, Goto
<1>3. ASSUME NEW w \in Workers,
             StartConsuming(w) \/ NoticeLoss(w) \/ WorkerCrash(w) \/
             WorkerStart(w)
      PROVE  HoldsInCallback'
  BY <1>3 DEF StartConsuming, DeclaredQueues, Goto, NoticeLoss, Reconnect,
         Leave, WorkerCrash, BrokerDropsLink, WorkerStart
<1>4. ASSUME NEW w \in Workers, HandleDelivery(w) PROVE HoldsInCallback'
  BY <1>4 DEF HandleDelivery, Goto
<1>5. ASSUME NEW w \in Workers, ProcessClick(w) PROVE HoldsInCallback'
  BY <1>5 DEF ProcessClick, InsertIdempotent, ProcessingFails,
         RetriesExhausted, Goto
<1>6. ASSUME NEW w \in Workers,
             ProcessUnstorable(w) \/ ProcessMalformed(w)
      PROVE  HoldsInCallback'
  BY <1>6 DEF ProcessUnstorable, ProcessingFails, RetriesExhausted, Goto,
         ProcessMalformed
<1>7. ASSUME NEW w \in Workers,
             Ack(w) \/ Nack(w)
      PROVE  HoldsInCallback'
  BY <1>7 DEF Ack, Settled, Goto, Nack, DeadLettered
<1>8. ASSUME NEW w \in Workers,
             SettleOnLostLink(w) \/ Unwind(w)
      PROVE  HoldsInCallback'
  BY <1>8 DEF SettleOnLostLink, Reconnect, Leave, Goto, Unwind,
         BrokerDropsLink
<1>9. CASE BackendCrash \/ UNCHANGED vars
  BY <1>9 DEF BackendCrash, vars
<1> QED
  BY <1>1, <1>2, <1>3, <1>4, <1>5, <1>6, <1>7, <1>8, <1>9 DEF Next, Consume

\* The row is committed before basic_ack, and rows are never removed.
LEMMA AckStep ==
  ASSUME IndInv, [Next]_vars
  PROVE  AckAfterCommit'
<1> USE MessagesAssumption, BoundsAssumption
        DEF IndInv, TypeOK, HoldsInCallback, AckAfterCommit, broker, thread,
            bounds
<1>1. ASSUME NEW m \in Messages,
             Redirect(m) \/ Publish(m) \/ PublishFails(m) \/ ForeignPublish(m)
      PROVE  AckAfterCommit'
  BY <1>1 DEF Redirect, Publish, Enqueue, PublishFails, ForeignPublish
<1>2. ASSUME NEW w \in Workers,
             Deliver(w) \/ ConnectionLost(w) \/ ConnectFails(w) \/ Connect(w)
      PROVE  AckAfterCommit'
  BY <1>2 DEF Deliver, ConnectionLost, BrokerDropsLink, ConnectFails, Connect,
         Leave, Goto
<1>3. ASSUME NEW w \in Workers,
             StartConsuming(w) \/ NoticeLoss(w) \/ WorkerCrash(w) \/
             WorkerStart(w)
      PROVE  AckAfterCommit'
  BY <1>3 DEF StartConsuming, DeclaredQueues, Goto, NoticeLoss, Reconnect,
         Leave, WorkerCrash, BrokerDropsLink, WorkerStart
<1>4. ASSUME NEW w \in Workers, HandleDelivery(w) PROVE AckAfterCommit'
  BY <1>4 DEF HandleDelivery, Goto
<1>5. ASSUME NEW w \in Workers, ProcessClick(w) PROVE AckAfterCommit'
  BY <1>5 DEF ProcessClick, InsertIdempotent, ProcessingFails,
         RetriesExhausted, Goto
<1>6. ASSUME NEW w \in Workers,
             ProcessUnstorable(w) \/ ProcessMalformed(w)
      PROVE  AckAfterCommit'
  BY <1>6 DEF ProcessUnstorable, ProcessingFails, RetriesExhausted, Goto,
         ProcessMalformed
<1>7. ASSUME NEW w \in Workers,
             Ack(w) \/ Nack(w)
      PROVE  AckAfterCommit'
  BY <1>7 DEF Ack, Settled, Goto, Nack, DeadLettered
<1>8. ASSUME NEW w \in Workers,
             SettleOnLostLink(w) \/ Unwind(w)
      PROVE  AckAfterCommit'
  BY <1>8 DEF SettleOnLostLink, Reconnect, Leave, Goto, Unwind,
         BrokerDropsLink
<1>9. CASE BackendCrash \/ UNCHANGED vars
  BY <1>9 DEF BackendCrash, vars
<1> QED
  BY <1>1, <1>2, <1>3, <1>4, <1>5, <1>6, <1>7, <1>8, <1>9 DEF Next, Consume

\* For a click, only ProcessingFails at the last attempt leads to basic_nack.
LEMMA NackStep ==
  ASSUME IndInv, [Next]_vars
  PROVE  NackAfterRetries'
<1> USE MessagesAssumption, BoundsAssumption
        DEF IndInv, TypeOK, HoldsInCallback, NackAfterRetries, broker, thread,
            bounds
<1>1. ASSUME NEW m \in Messages,
             Redirect(m) \/ Publish(m) \/ PublishFails(m) \/ ForeignPublish(m)
      PROVE  NackAfterRetries'
  BY <1>1 DEF Redirect, Publish, Enqueue, PublishFails, ForeignPublish
<1>2. ASSUME NEW w \in Workers,
             Deliver(w) \/ ConnectionLost(w) \/ ConnectFails(w) \/ Connect(w)
      PROVE  NackAfterRetries'
  BY <1>2 DEF Deliver, ConnectionLost, BrokerDropsLink, ConnectFails, Connect,
         Leave, Goto
<1>3. ASSUME NEW w \in Workers,
             StartConsuming(w) \/ NoticeLoss(w) \/ WorkerCrash(w) \/
             WorkerStart(w)
      PROVE  NackAfterRetries'
  BY <1>3 DEF StartConsuming, DeclaredQueues, Goto, NoticeLoss, Reconnect,
         Leave, WorkerCrash, BrokerDropsLink, WorkerStart
<1>4. ASSUME NEW w \in Workers, HandleDelivery(w) PROVE NackAfterRetries'
  BY <1>4 DEF HandleDelivery, Goto
<1>5. ASSUME NEW w \in Workers, ProcessClick(w) PROVE NackAfterRetries'
  BY <1>5 DEF ProcessClick, InsertIdempotent, ProcessingFails,
         RetriesExhausted, Goto
<1>6. ASSUME NEW w \in Workers,
             ProcessUnstorable(w) \/ ProcessMalformed(w)
      PROVE  NackAfterRetries'
  BY <1>6 DEF ProcessUnstorable, ProcessingFails, RetriesExhausted, Goto,
         ProcessMalformed
<1>7. ASSUME NEW w \in Workers,
             Ack(w) \/ Nack(w)
      PROVE  NackAfterRetries'
  BY <1>7 DEF Ack, Settled, Goto, Nack, DeadLettered
<1>8. ASSUME NEW w \in Workers,
             SettleOnLostLink(w) \/ Unwind(w)
      PROVE  NackAfterRetries'
  BY <1>8 DEF SettleOnLostLink, Reconnect, Leave, Goto, Unwind,
         BrokerDropsLink
<1>9. CASE BackendCrash \/ UNCHANGED vars
  BY <1>9 DEF BackendCrash, vars
<1> QED
  BY <1>1, <1>2, <1>3, <1>4, <1>5, <1>6, <1>7, <1>8, <1>9 DEF Next, Consume

\* declare_queues precedes basic_consume, and queues are durable.
LEMMA DlqStep ==
  ASSUME IndInv, [Next]_vars
  PROVE  DlqBeforeConsuming'
<1> USE MessagesAssumption, BoundsAssumption
        DEF IndInv, TypeOK, DlqBeforeConsuming, Subscribed, broker, thread,
            bounds
<1>1. ASSUME NEW m \in Messages,
             Redirect(m) \/ Publish(m) \/ PublishFails(m) \/ ForeignPublish(m)
      PROVE  DlqBeforeConsuming'
  BY <1>1 DEF Redirect, Publish, Enqueue, PublishFails, ForeignPublish
<1>2. ASSUME NEW w \in Workers,
             Deliver(w) \/ ConnectionLost(w) \/ ConnectFails(w) \/ Connect(w)
      PROVE  DlqBeforeConsuming'
  BY <1>2 DEF Deliver, ConnectionLost, BrokerDropsLink, ConnectFails, Connect,
         Leave, Goto
<1>3. ASSUME NEW w \in Workers,
             StartConsuming(w) \/ NoticeLoss(w) \/ WorkerCrash(w) \/
             WorkerStart(w)
      PROVE  DlqBeforeConsuming'
  BY <1>3 DEF StartConsuming, DeclaredQueues, Goto, NoticeLoss, Reconnect,
         Leave, WorkerCrash, BrokerDropsLink, WorkerStart
<1>4. ASSUME NEW w \in Workers, HandleDelivery(w) PROVE DlqBeforeConsuming'
  BY <1>4 DEF HandleDelivery, Goto
<1>5. ASSUME NEW w \in Workers, ProcessClick(w) PROVE DlqBeforeConsuming'
  BY <1>5 DEF ProcessClick, InsertIdempotent, ProcessingFails,
         RetriesExhausted, Goto
<1>6. ASSUME NEW w \in Workers,
             ProcessUnstorable(w) \/ ProcessMalformed(w)
      PROVE  DlqBeforeConsuming'
  BY <1>6 DEF ProcessUnstorable, ProcessingFails, RetriesExhausted, Goto,
         ProcessMalformed
<1>7. ASSUME NEW w \in Workers,
             Ack(w) \/ Nack(w)
      PROVE  DlqBeforeConsuming'
  BY <1>7 DEF Ack, Settled, Goto, Nack, DeadLettered
<1>8. ASSUME NEW w \in Workers,
             SettleOnLostLink(w) \/ Unwind(w)
      PROVE  DlqBeforeConsuming'
  BY <1>8 DEF SettleOnLostLink, Reconnect, Leave, Goto, Unwind,
         BrokerDropsLink
<1>9. CASE BackendCrash \/ UNCHANGED vars
  BY <1>9 DEF BackendCrash, vars
<1> QED
  BY <1>1, <1>2, <1>3, <1>4, <1>5, <1>6, <1>7, <1>8, <1>9 DEF Next, Consume

\* ON CONFLICT DO NOTHING: no event gets a second row.
LEMMA CountedStep ==
  ASSUME IndInv, [Next]_vars
  PROVE  CountedOnce'
<1> USE MessagesAssumption, BoundsAssumption
        DEF IndInv, TypeOK, HoldsInCallback, CountedOnce, broker, thread,
            bounds
<1>1. ASSUME NEW m \in Messages,
             Redirect(m) \/ Publish(m) \/ PublishFails(m) \/ ForeignPublish(m)
      PROVE  CountedOnce'
  BY <1>1 DEF Redirect, Publish, Enqueue, PublishFails, ForeignPublish
<1>2. ASSUME NEW w \in Workers,
             Deliver(w) \/ ConnectionLost(w) \/ ConnectFails(w) \/ Connect(w)
      PROVE  CountedOnce'
  BY <1>2 DEF Deliver, ConnectionLost, BrokerDropsLink, ConnectFails, Connect,
         Goto
<1>3. ASSUME NEW w \in Workers,
             StartConsuming(w) \/ NoticeLoss(w) \/ WorkerCrash(w) \/
             WorkerStart(w)
      PROVE  CountedOnce'
  BY <1>3 DEF StartConsuming, DeclaredQueues, Goto, NoticeLoss, Reconnect,
         Leave, WorkerCrash, BrokerDropsLink, WorkerStart
<1>4. ASSUME NEW w \in Workers, HandleDelivery(w) PROVE CountedOnce'
  BY <1>4 DEF HandleDelivery, Goto
<1>5. ASSUME NEW w \in Workers, ProcessClick(w) PROVE CountedOnce'
  BY <1>5 DEF ProcessClick, InsertIdempotent, ProcessingFails,
         RetriesExhausted, Goto
<1>6. ASSUME NEW w \in Workers,
             ProcessUnstorable(w) \/ ProcessMalformed(w)
      PROVE  CountedOnce'
  BY <1>6 DEF ProcessUnstorable, ProcessingFails, RetriesExhausted, Goto,
         ProcessMalformed
<1>7. ASSUME NEW w \in Workers,
             Ack(w) \/ Nack(w)
      PROVE  CountedOnce'
  BY <1>7 DEF Ack, Settled, Goto, Nack, DeadLettered
<1>8. ASSUME NEW w \in Workers,
             SettleOnLostLink(w) \/ Unwind(w)
      PROVE  CountedOnce'
  BY <1>8 DEF SettleOnLostLink, Reconnect, Leave, Goto, Unwind,
         BrokerDropsLink
<1>9. CASE BackendCrash \/ UNCHANGED vars
  BY <1>9 DEF BackendCrash, vars
<1> QED
  BY <1>1, <1>2, <1>3, <1>4, <1>5, <1>6, <1>7, <1>8, <1>9 DEF Next, Consume

\* A message leaves the broker only by an ack after its commit or by a nack.
LEMMA LostStep ==
  ASSUME IndInv, [Next]_vars
  PROVE  NothingLost'
<1> USE MessagesAssumption, BoundsAssumption
        DEF IndInv, TypeOK, HoldsInCallback, AckAfterCommit,
            DlqBeforeConsuming, Subscribed, NothingLost, broker, thread,
            bounds
<1>1. ASSUME NEW m \in Messages,
             Redirect(m) \/ Publish(m) \/ PublishFails(m) \/ ForeignPublish(m)
      PROVE  NothingLost'
  BY <1>1 DEF Redirect, Publish, Enqueue, PublishFails, ForeignPublish
<1>2. ASSUME NEW w \in Workers,
             Deliver(w) \/ ConnectionLost(w) \/ ConnectFails(w) \/ Connect(w)
      PROVE  NothingLost'
  BY <1>2 DEF Deliver, ConnectionLost, BrokerDropsLink, ConnectFails, Connect,
         Goto
<1>3. ASSUME NEW w \in Workers,
             StartConsuming(w) \/ NoticeLoss(w) \/ WorkerCrash(w) \/
             WorkerStart(w)
      PROVE  NothingLost'
  BY <1>3 DEF StartConsuming, DeclaredQueues, Goto, NoticeLoss, Reconnect,
         Leave, WorkerCrash, BrokerDropsLink, WorkerStart
<1>4. ASSUME NEW w \in Workers, HandleDelivery(w) PROVE NothingLost'
  BY <1>4 DEF HandleDelivery, Goto
<1>5. ASSUME NEW w \in Workers, ProcessClick(w) PROVE NothingLost'
  BY <1>5 DEF ProcessClick, InsertIdempotent, ProcessingFails,
         RetriesExhausted, Goto
<1>6. ASSUME NEW w \in Workers,
             ProcessUnstorable(w) \/ ProcessMalformed(w)
      PROVE  NothingLost'
  BY <1>6 DEF ProcessUnstorable, ProcessingFails, RetriesExhausted, Goto,
         ProcessMalformed
<1>7. ASSUME NEW w \in Workers,
             Ack(w) \/ Nack(w)
      PROVE  NothingLost'
  BY <1>7 DEF Ack, Settled, Goto, Nack, DeadLettered
<1>8. ASSUME NEW w \in Workers,
             SettleOnLostLink(w) \/ Unwind(w)
      PROVE  NothingLost'
  BY <1>8 DEF SettleOnLostLink, Reconnect, Leave, Goto, Unwind,
         BrokerDropsLink
<1>9. CASE BackendCrash \/ UNCHANGED vars
  BY <1>9 DEF BackendCrash, vars
<1> QED
  BY <1>1, <1>2, <1>3, <1>4, <1>5, <1>6, <1>7, <1>8, <1>9 DEF Next, Consume

\* A message moves on from where it is, and is made once.
LEMMA LifeStep ==
  ASSUME IndInv, [Next]_vars
  PROVE  LifeInOrder'
<1> USE MessagesAssumption, BoundsAssumption
        DEF IndInv, TypeOK, HoldsInCallback, LifeInOrder, DeliveriesMatch, broker, thread, bounds
<1>1. ASSUME NEW m \in Messages,
             Redirect(m) \/ Publish(m) \/ PublishFails(m) \/ ForeignPublish(m)
      PROVE  LifeInOrder'
  BY <1>1 DEF Redirect, Publish, Enqueue, PublishFails, ForeignPublish
<1>2. ASSUME NEW w \in Workers, Deliver(w) PROVE LifeInOrder'
  BY <1>2 DEF Deliver
<1>3. ASSUME NEW w \in Workers, ConnectionLost(w) \/ WorkerCrash(w)
      PROVE  LifeInOrder'
  BY <1>3 DEF ConnectionLost, WorkerCrash, BrokerDropsLink, Leave, Goto
<1>4. ASSUME NEW w \in Workers, ConnectFails(w) \/ Connect(w) \/ WorkerStart(w)
      PROVE  LifeInOrder'
  BY <1>4 DEF ConnectFails, Connect, WorkerStart, Leave, Goto
<1>5. ASSUME NEW w \in Workers, StartConsuming(w) \/ NoticeLoss(w)
      PROVE  LifeInOrder'
  BY <1>5 DEF StartConsuming, DeclaredQueues, NoticeLoss, Reconnect, Leave, Goto
<1>6. ASSUME NEW w \in Workers, HandleDelivery(w) PROVE LifeInOrder'
  BY <1>6 DEF HandleDelivery, Goto
<1>7. ASSUME NEW w \in Workers,
             ProcessClick(w) \/ ProcessUnstorable(w) \/ ProcessMalformed(w)
      PROVE  LifeInOrder'
  BY <1>7 DEF ProcessClick, InsertIdempotent, ProcessUnstorable, ProcessMalformed,
              ProcessingFails, RetriesExhausted, Goto
<1>8. ASSUME NEW w \in Workers, Ack(w) PROVE LifeInOrder'
  BY <1>8 DEF Ack, Settled, Goto
<1>9. ASSUME NEW w \in Workers, Nack(w) PROVE LifeInOrder'
  BY <1>9 DEF Nack, Settled, DeadLettered, Goto
<1>10. ASSUME NEW w \in Workers, SettleOnLostLink(w) PROVE LifeInOrder'
  BY <1>10 DEF SettleOnLostLink, Reconnect, Leave, Goto
<1>11. ASSUME NEW w \in Workers, Unwind(w) PROVE LifeInOrder'
  BY <1>11 DEF Unwind, BrokerDropsLink, Reconnect, Leave, Goto
<1>12. CASE BackendCrash \/ UNCHANGED vars
  BY <1>12 DEF BackendCrash, vars
<1> QED
  BY <1>1, <1>2, <1>3, <1>4, <1>5, <1>6, <1>7, <1>8, <1>9, <1>10, <1>11, <1>12
     DEF Next, Consume

\* A connection and the memory of its worker begin and end together.
LEMMA DeliveriesStep ==
  ASSUME IndInv, [Next]_vars
  PROVE  DeliveriesMatch'
<1> USE MessagesAssumption, BoundsAssumption
        DEF IndInv, TypeOK, HoldsInCallback, LifeInOrder, DeliveriesMatch, Subscribed, OneCopy, broker, thread, bounds
<1>1. ASSUME NEW m \in Messages,
             Redirect(m) \/ Publish(m) \/ PublishFails(m) \/ ForeignPublish(m)
      PROVE  DeliveriesMatch'
  BY <1>1 DEF Redirect, Publish, Enqueue, PublishFails, ForeignPublish
<1>2. ASSUME NEW w \in Workers, Deliver(w) PROVE DeliveriesMatch'
  BY <1>2 DEF Deliver
<1>3. ASSUME NEW w \in Workers, ConnectionLost(w) \/ WorkerCrash(w)
      PROVE  DeliveriesMatch'
  BY <1>3 DEF ConnectionLost, WorkerCrash, BrokerDropsLink, Leave, Goto
<1>4. ASSUME NEW w \in Workers, ConnectFails(w) \/ Connect(w) \/ WorkerStart(w)
      PROVE  DeliveriesMatch'
  BY <1>4 DEF ConnectFails, Connect, WorkerStart, Leave, Goto
<1>5. ASSUME NEW w \in Workers, StartConsuming(w) \/ NoticeLoss(w)
      PROVE  DeliveriesMatch'
  BY <1>5 DEF StartConsuming, DeclaredQueues, NoticeLoss, Reconnect, Leave, Goto
<1>6. ASSUME NEW w \in Workers, HandleDelivery(w) PROVE DeliveriesMatch'
  BY <1>6 DEF HandleDelivery, Goto
<1>7. ASSUME NEW w \in Workers,
             ProcessClick(w) \/ ProcessUnstorable(w) \/ ProcessMalformed(w)
      PROVE  DeliveriesMatch'
  BY <1>7 DEF ProcessClick, InsertIdempotent, ProcessUnstorable, ProcessMalformed,
              ProcessingFails, RetriesExhausted, Goto
<1>8. ASSUME NEW w \in Workers, Ack(w) PROVE DeliveriesMatch'
  BY <1>8 DEF Ack, Settled, Goto
<1>9. ASSUME NEW w \in Workers, Nack(w) PROVE DeliveriesMatch'
  BY <1>9 DEF Nack, Settled, DeadLettered, Goto
<1>10. ASSUME NEW w \in Workers, SettleOnLostLink(w) PROVE DeliveriesMatch'
  BY <1>10 DEF SettleOnLostLink, Reconnect, Leave, Goto
<1>11. ASSUME NEW w \in Workers, Unwind(w) PROVE DeliveriesMatch'
  BY <1>11 DEF Unwind, BrokerDropsLink, Reconnect, Leave, Goto
<1>12. CASE BackendCrash \/ UNCHANGED vars
  BY <1>12 DEF BackendCrash, vars
<1> QED
  BY <1>1, <1>2, <1>3, <1>4, <1>5, <1>6, <1>7, <1>8, <1>9, <1>10, <1>11, <1>12
     DEF Next, Consume

\* What the broker takes back from a lost connection was nobody else's.
LEMMA DropStep ==
  ASSUME IndInv, NEW w \in Workers, BrokerDropsLink(w),
         \A v \in Workers \ {w} : step'[v] = step[v] /\ holding'[v] = holding[v]
  PROVE  OneCopy'
<1>1. /\ unacked' = [unacked EXCEPT ![w] = {}] /\ queue' = queue \cup unacked[w]
      /\ ~link'[w] /\ \A v \in Workers \ {w} : link'[v] = link[v]
      /\ dlq' = dlq /\ unacked \in [Workers -> SUBSET Messages]
  BY DEF BrokerDropsLink, IndInv, TypeOK
<1>2. /\ queue' \cap dlq' = {}
      /\ \A v \in Workers : unacked'[v] \cap (queue' \cup dlq') = {}
  BY <1>1 DEF IndInv, OneCopy
<1>3. \A u, v \in Workers : u # v => unacked'[u] \cap unacked'[v] = {}
  BY <1>1 DEF IndInv, OneCopy
<1>4. \A v \in Workers :
        link'[v] /\ step'[v] \in {"acking", "nacking"} => holding'[v] \in unacked'[v]
  BY <1>1 DEF IndInv, OneCopy
<1> QED
  BY <1>2, <1>3, <1>4 DEF OneCopy

\* What is handed out leaves the queue, and what is taken back was nobody else's.
LEMMA OneCopyStep ==
  ASSUME IndInv, [Next]_vars
  PROVE  OneCopy'
<1> USE MessagesAssumption, BoundsAssumption
        DEF IndInv, TypeOK, HoldsInCallback, LifeInOrder, DeliveriesMatch, OneCopy, broker, thread, bounds
<1>1. ASSUME NEW m \in Messages,
             Redirect(m) \/ Publish(m) \/ PublishFails(m) \/ ForeignPublish(m)
      PROVE  OneCopy'
  BY <1>1 DEF Redirect, Publish, Enqueue, PublishFails, ForeignPublish
<1>2. ASSUME NEW w \in Workers, Deliver(w) PROVE OneCopy'
  BY <1>2 DEF Deliver
<1>3. ASSUME NEW w \in Workers, ConnectionLost(w) \/ WorkerCrash(w)
      PROVE  OneCopy'
  BY <1>3, DropStep DEF ConnectionLost, WorkerCrash, Leave, Goto
<1>4. ASSUME NEW w \in Workers, ConnectFails(w) \/ Connect(w) \/ WorkerStart(w)
      PROVE  OneCopy'
  BY <1>4 DEF ConnectFails, Connect, WorkerStart, Leave, Goto
<1>5. ASSUME NEW w \in Workers, StartConsuming(w) \/ NoticeLoss(w)
      PROVE  OneCopy'
  BY <1>5 DEF StartConsuming, DeclaredQueues, NoticeLoss, Reconnect, Leave, Goto
<1>6. ASSUME NEW w \in Workers, HandleDelivery(w) PROVE OneCopy'
  BY <1>6 DEF HandleDelivery, Goto
<1>7. ASSUME NEW w \in Workers,
             ProcessClick(w) \/ ProcessUnstorable(w) \/ ProcessMalformed(w)
      PROVE  OneCopy'
  BY <1>7 DEF ProcessClick, InsertIdempotent, ProcessUnstorable, ProcessMalformed,
              ProcessingFails, RetriesExhausted, Goto
<1>8. ASSUME NEW w \in Workers, Ack(w) PROVE OneCopy'
  BY <1>8 DEF Ack, Settled, Goto
<1>9. ASSUME NEW w \in Workers, Nack(w) PROVE OneCopy'
  BY <1>9 DEF Nack, Settled, DeadLettered, Goto
<1>10. ASSUME NEW w \in Workers, SettleOnLostLink(w) PROVE OneCopy'
  BY <1>10 DEF SettleOnLostLink, Reconnect, Leave, Goto
<1>11. ASSUME NEW w \in Workers, Unwind(w) PROVE OneCopy'
  <2>1. \A v \in Workers \ {w} : step'[v] = step[v] /\ holding'[v] = holding[v]
    BY <1>11 DEF Unwind, Reconnect, Leave, Goto
  <2>2. CASE BrokerDropsLink(w)
    BY <2>1, <2>2, DropStep
  <2>3. CASE Reconnect(w) /\ ~link[w] /\ UNCHANGED broker
    BY <2>3 DEF Reconnect, Leave, Goto
  <2> QED
    BY <1>11, <2>2, <2>3 DEF Unwind
<1>12. CASE BackendCrash \/ UNCHANGED vars
  BY <1>12 DEF BackendCrash, vars
<1> QED
  BY <1>1, <1>2, <1>3, <1>4, <1>5, <1>6, <1>7, <1>8, <1>9, <1>10, <1>11, <1>12
     DEF Next, Consume

-----------------------------------------------------------------------------
(* The theorems.                                                           *)

\* The custody of every accepted message, at every interleaving of workers,
\* broker and failures.
THEOREM Invariance == Spec => []IndInv
<1>1. IndInv /\ [Next]_vars => IndInv'
  BY TypeStep, CallbackStep, AckStep, NackStep, DlqStep, CountedStep, LostStep,
     LifeStep, DeliveriesStep, OneCopyStep
     DEF IndInv
<1> QED
  BY <1>1, InitIndInv, PTL DEF Spec

\* Every variable keeps its type.
THEOREM TypeCorrect == Spec => []TypeOK
<1>1. IndInv => TypeOK
  BY DEF IndInv
<1> QED
  BY <1>1, Invariance, PTL

\* Redelivery never counts a click twice.
THEOREM CountedOnceHolds == Spec => []CountedOnce
<1>1. IndInv => CountedOnce
  BY DEF IndInv
<1> QED
  BY <1>1, Invariance, PTL

\* Nothing the broker accepted is ever lost.
THEOREM NothingLostHolds == Spec => []NothingLost
<1>1. IndInv => NothingLost
  BY DEF IndInv
<1> QED
  BY <1>1, Invariance, PTL

\* No acknowledgement reaches a delivery that is no longer its worker's.
THEOREM OneCopyHolds == Spec => []OneCopy
<1>1. IndInv => OneCopy
  BY DEF IndInv
<1> QED
  BY <1>1, Invariance, PTL

\* A click is dead-lettered only after MAX_RETRIES attempts in one delivery.
THEOREM DeadLetterJustifiedHolds == Spec => DeadLetterJustified
<1> DEFINE Justified ==
      \A m \in Clicks \cap (dlq' \ dlq) :
        \E w \in Workers : holding[w] = m /\ attempt[w] = MaxRetries
<1>1. ASSUME IndInv, [Next]_vars PROVE Justified
  <2>1. ASSUME NEW w \in Workers, Nack(w) PROVE Justified
    BY <1>1, <2>1 DEF Nack, DeadLettered, IndInv, NackAfterRetries
  <2>2. ASSUME NEW w \in Workers,
               \/ Consume(w) /\ ~Nack(w)
               \/ Deliver(w) \/ ConnectionLost(w) \/ ConnectFails(w)
               \/ WorkerCrash(w) \/ WorkerStart(w)
        PROVE  UNCHANGED dlq
    BY <2>2
       DEF Consume, Deliver, ConnectionLost, ConnectFails, WorkerCrash,
           WorkerStart, Connect, StartConsuming, NoticeLoss, HandleDelivery,
           ProcessClick, ProcessUnstorable, ProcessMalformed, Ack,
           SettleOnLostLink, Unwind, BrokerDropsLink, broker
  <2>3. ASSUME NEW m \in Messages,
               \/ Redirect(m) \/ Publish(m) \/ PublishFails(m)
               \/ ForeignPublish(m)
        PROVE  UNCHANGED dlq
    BY <2>3 DEF Redirect, Publish, PublishFails, ForeignPublish, broker
  <2>4. CASE BackendCrash \/ UNCHANGED vars
    BY <2>4 DEF BackendCrash, vars, broker
  <2> QED
    BY <1>1, <2>1, <2>2, <2>3, <2>4 DEF Next
<1>2. IndInv /\ [Next]_vars => [Justified]_vars
  BY <1>1
<1> QED
  BY <1>2, Invariance, PTL DEF Spec, DeadLetterJustified

=============================================================================
