------------------------- MODULE OutboxPublisherProofs -------------------------
(* That no event is lost or sent again after its commit, for any number of   *)
(* events and workers, any batch size and any pattern of faults.             *)
EXTENDS OutboxPublisher, TLAPS

\* The steps that change the rows and messages of an event.
LEMMA NextCases ==
    ASSUME [Next]_vars
    PROVE  \/ \E e \in Events : AddEvent(e) \/ Cancel(e) \/ WindowPasses(e)
           \/ Activate \/ Release \/ NatsChange
           \/ \E w \in Workers : Fetch(w) \/ Commit(w) \/ Restart(w)
           \/ \E w \in Workers, e \in Events : Publish(w, e) \/ Block(w, e)
           \/ \E w \in Workers : Ends(w) /\ crashes' \in {crashes, crashes + 1}
           \/ UNCHANGED vars
  <1>1. ASSUME NEW w \in Workers, Crash(w) \/ \E e \in Events : Fail(w, e)
        PROVE  Ends(w) /\ crashes' \in {crashes, crashes + 1}
    BY <1>1, Zenon DEF Crash, Fail
  <1> QED BY <1>1, Zenon DEF Next, Turn

\* The first state is well typed.
LEMMA InitTypeOK == Init => TypeOK
  <1> SUFFICES ASSUME Init PROVE TypeOK
    OBVIOUS
  <1>1. stop \in BOOLEAN /\ nats \in BOOLEAN
    BY Zenon DEF Init
  <1>2. /\ status \in [Events -> {"none", "pending", "published", "failed"}]
        /\ kind \in [Events -> {"command", "other"}]
        /\ command \in [Events -> Row]
        /\ stored \in [Events -> Nat]
        /\ crashes \in Nat
        /\ window \in SUBSET Events /\ up \in SUBSET Workers
    BY DEF Init, Row
  <1>3. Nothing \in [Workers -> SUBSET Events]
    BY DEF Nothing
  <1> QED BY <1>1, <1>2, <1>3, Zenon DEF TypeOK, Init

\* Every step keeps the types.
LEMMA NextTypeOK == TypeOK /\ [Next]_vars => TypeOK'
  <1> SUFFICES ASSUME TypeOK, [Next]_vars PROVE TypeOK'
    OBVIOUS
  <1> USE DEF rows, stream, transaction
  <1>1. ASSUME NEW e \in Events, AddEvent(e) PROVE TypeOK'
    <2>1. PICK k \in {"command", "other"} :
            /\ kind' = [kind EXCEPT ![e] = k]
            /\ command' = [command EXCEPT ![e] =
                             IF k = "command" THEN "queued" ELSE "none"]
      BY <1>1 DEF AddEvent
    <2>2. /\ status' = [status EXCEPT ![e] = "pending"]
          /\ UNCHANGED <<stop, stream, up, transaction, crashes>>
      BY <1>1 DEF AddEvent
    <2> QED BY <2>1, <2>2 DEF TypeOK, Row
  <1>2. ASSUME NEW e \in Events, Cancel(e) \/ WindowPasses(e) PROVE TypeOK'
    <2>1. CASE Cancel(e) BY <2>1 DEF TypeOK, Cancel, Row
    <2>2. CASE WindowPasses(e) BY <2>2 DEF TypeOK, WindowPasses
    <2> QED BY <1>2, <2>1, <2>2
  <1>3. CASE Activate
    <2>1. /\ stop' = TRUE
          /\ UNCHANGED <<status, kind, stream, up, transaction, crashes>>
      BY <1>3, Zenon DEF Activate
    <2>2. command' \in [Events -> Row]
      BY <1>3 DEF TypeOK, Activate, Row
    <2> QED BY <2>1, <2>2, Zenon DEF TypeOK
  <1>4. CASE Release
    BY <1>4, Zenon DEF TypeOK, Release
  <1>5. CASE NatsChange
    BY <1>5, Zenon DEF TypeOK, NatsChange
  <1>6. ASSUME NEW w \in Workers, Fetch(w) PROVE TypeOK'
    <2>1. Unpublished \in SUBSET Events
      BY DEF Unpublished, Oldest
    <2> QED BY <1>6, <2>1 DEF TypeOK, Fetch
  <1>7. ASSUME NEW w \in Workers, Commit(w) PROVE TypeOK'
    <2>1. status' \in [Events -> {"none", "pending", "published", "failed"}]
      BY <1>7 DEF TypeOK, Commit
    <2>2. command' \in [Events -> Row]
      BY <1>7 DEF TypeOK, Commit, Row
    <2> QED BY <1>7, <2>1, <2>2 DEF TypeOK, Commit
  <1>8. ASSUME NEW w \in Workers, Restart(w) PROVE TypeOK'
    BY <1>8 DEF TypeOK, Restart
  <1>9. ASSUME NEW w \in Workers, NEW e \in Events, Publish(w, e) PROVE TypeOK'
    <2>1. stored' \in [Events -> Nat]
      BY <1>9 DEF TypeOK, Publish
    <2> QED BY <1>9, <2>1 DEF TypeOK, Publish
  <1>10. ASSUME NEW w \in Workers, NEW e \in Events, Block(w, e) PROVE TypeOK'
    BY <1>10 DEF TypeOK, Block
  <1>11. ASSUME NEW w \in Workers, Ends(w), crashes' \in {crashes, crashes + 1}
         PROVE  TypeOK'
    BY <1>11 DEF TypeOK, Ends
  <1>12. CASE UNCHANGED vars
    BY <1>12 DEF TypeOK, vars
  <1> QED
    BY NextCases, <1>1, <1>2, <1>3, <1>4, <1>5, <1>6, <1>7, <1>8, <1>9, <1>10,
       <1>11, <1>12, Zenon

\* Type correctness of the outbox model.
THEOREM TypeCorrect == Spec => []TypeOK
  BY InitTypeOK, NextTypeOK, PTL DEF Spec
-----------------------------------------------------------------------------

\* What a worker holds is part of its batch; the rows of a batch are pending
\* and nobody else's; what it marked published is in the stream.
Held(w) ==
    /\ todo[w] \subseteq batch[w]
    /\ done[w] \subseteq batch[w]
    /\ blocked[w] \subseteq batch[w]
    /\ \A e \in batch[w] : status[e] = "pending"
    /\ \A e \in done[w] : stored[e] > 0

Apart == \A w, v \in Workers : w # v => batch[w] \cap batch[v] = {}

\* The stream drops an id only if it has stored the message.
WindowStored == \A e \in window : stored[e] > 0

OutboxInv ==
    /\ \A w \in Workers : Held(w)
    /\ Apart
    /\ WindowStored
    /\ NothingLost

\* A step that leaves transactions, statuses and messages alone.
LEMMA QuietStep ==
    ASSUME TypeOK, OutboxInv, UNCHANGED <<status, stored, transaction>>,
           window' \subseteq window,
           \A e \in Events : \/ command'[e] = command[e]
                             \/ command'[e] = "cancelled"
                             \/ command[e] \in {"none", "queued"}
                                /\ status[e] # "failed"
    PROVE  OutboxInv'
  <1>1. \A w \in Workers : Held(w)'
    BY DEF TypeOK, OutboxInv, Held, transaction
  <1>2. Apart' /\ WindowStored'
    BY DEF OutboxInv, Apart, WindowStored, transaction
  <1>3. NothingLost'
    BY DEF TypeOK, OutboxInv, NothingLost
  <1> QED BY <1>1, <1>2, <1>3 DEF OutboxInv

\* Every step keeps the invariant.
LEMMA NextOutboxInv == TypeOK /\ OutboxInv /\ [Next]_vars => OutboxInv'
  <1> SUFFICES ASSUME TypeOK, OutboxInv, [Next]_vars PROVE OutboxInv'
    OBVIOUS
  <1> USE DEF rows, stream, transaction
  <1>1. ASSUME NEW e \in Events, AddEvent(e) PROVE OutboxInv'
    <2>1. /\ status[e] = "none"
          /\ status' = [status EXCEPT ![e] = "pending"]
          /\ UNCHANGED <<stored, window, batch, todo, done, blocked>>
          /\ \A f \in Events : f # e => command'[f] = command[f]
      BY <1>1 DEF AddEvent, TypeOK
    <2>2. \A w \in Workers : Held(w)'
      BY <2>1 DEF TypeOK, OutboxInv, Held
    <2>3. NothingLost'
      BY <2>1 DEF TypeOK, OutboxInv, NothingLost
    <2> QED BY <2>1, <2>2, <2>3 DEF OutboxInv, Apart, WindowStored
  <1>2. ASSUME NEW e \in Events, Cancel(e) \/ WindowPasses(e) PROVE OutboxInv'
    <2>1. UNCHANGED <<status, stored, transaction>>
      BY <1>2, Zenon DEF Cancel, WindowPasses
    <2>3. window' \subseteq window
      BY <1>2 DEF Cancel, WindowPasses
    <2>2. \A f \in Events : command'[f] = command[f] \/ command'[f] = "cancelled"
      BY <1>2 DEF TypeOK, Cancel, WindowPasses
    <2> QED BY <2>1, <2>2, <2>3, QuietStep
  <1>3. CASE Activate
    <2>1. UNCHANGED <<status, stored, window, transaction>>
      BY <1>3, Zenon DEF Activate
    <2>2. \A f \in Events : \/ command'[f] = command[f]
                            \/ command[f] = "queued"
      BY <1>3 DEF Activate
    <2>3. \A f \in Events : command[f] = "queued" => status[f] # "failed"
      BY DEF OutboxInv, NothingLost
    <2> QED BY <2>1, <2>2, <2>3, QuietStep
  <1>4. CASE Release \/ NatsChange \/ UNCHANGED vars
    <2>1. UNCHANGED <<status, command, stored, window, transaction>>
      BY <1>4, Zenon DEF Release, NatsChange, vars
    <2> QED BY <2>1, QuietStep
  <1>5. ASSUME NEW w \in Workers, Restart(w) PROVE OutboxInv'
    <2>1. UNCHANGED <<status, command, stored, window, transaction>>
      BY <1>5, Zenon DEF Restart
    <2> QED BY <2>1, QuietStep
  <1>6. ASSUME NEW w \in Workers, Fetch(w) PROVE OutboxInv'
    <2>1. /\ batch[w] = {}
          /\ batch' = [batch EXCEPT ![w] = Unpublished]
          /\ todo' = [todo EXCEPT ![w] = Unpublished]
          /\ UNCHANGED <<status, command, stored, window, done, blocked>>
      BY <1>6 DEF Fetch
    <2>2. Unpublished \subseteq {e \in Events : status[e] = "pending"}
          /\ \A v \in Workers : Unpublished \cap batch[v] = {}
      BY DEF Unpublished, Oldest, Locked
    <2>3. ASSUME NEW v \in Workers PROVE Held(v)'
      <3>1. CASE v = w
        BY <2>1, <2>2, <3>1 DEF TypeOK, OutboxInv, Held
      <3>2. CASE v # w
        BY <2>1, <3>2 DEF TypeOK, OutboxInv, Held
      <3> QED BY <3>1, <3>2
    <2>4. Apart'
      BY <2>1, <2>2 DEF TypeOK, OutboxInv, Apart
    <2>5. NothingLost' /\ WindowStored'
      BY <2>1 DEF OutboxInv, NothingLost, WindowStored
    <2> QED BY <2>3, <2>4, <2>5 DEF OutboxInv
  <1>7. ASSUME NEW w \in Workers, Commit(w) PROVE OutboxInv'
    <2>1. /\ batch' = [batch EXCEPT ![w] = {}]
          /\ done' = [done EXCEPT ![w] = {}]
          /\ blocked' = [blocked EXCEPT ![w] = {}]
          /\ todo[w] = {}
          /\ UNCHANGED <<stored, window, todo>>
          /\ \A e \in Events :
               /\ status'[e] = IF e \in done[w] THEN "published"
                               ELSE IF e \in blocked[w] THEN "failed"
                               ELSE status[e]
               /\ command'[e] = IF e \in blocked[w]
                                THEN "blocked_by_emergency_stop" ELSE command[e]
      BY <1>7 DEF Commit
    <2>2. ASSUME NEW v \in Workers PROVE Held(v)'
      <3>1. CASE v = w
        BY <2>1, <3>1 DEF TypeOK, Held
      <3>2. CASE v # w
        <4>1. batch[v] \cap (done[w] \cup blocked[w]) = {}
          BY <3>2 DEF OutboxInv, Apart, Held
        <4>2. \A e \in batch[v] : status'[e] = "pending"
          BY <2>1, <4>1 DEF TypeOK, OutboxInv, Held
        <4> QED BY <2>1, <3>2, <4>2 DEF TypeOK, OutboxInv, Held
      <3> QED BY <3>1, <3>2
    <2>3. Apart' /\ WindowStored'
      BY <2>1 DEF TypeOK, OutboxInv, Apart, WindowStored
    <2>4. NothingLost'
      BY <2>1 DEF OutboxInv, Held, NothingLost
    <2> QED BY <2>2, <2>3, <2>4 DEF OutboxInv
  <1>8. ASSUME NEW w \in Workers, NEW e \in Events, Publish(w, e)
        PROVE  OutboxInv'
    <2>1. /\ e \in todo[w]
          /\ done' = [done EXCEPT ![w] = @ \cup {e}]
          /\ todo' = [todo EXCEPT ![w] = @ \ {e}]
          /\ UNCHANGED <<status, command, batch, blocked>>
      BY <1>8 DEF Publish, IsNext
    <2>2. /\ stored' = [stored EXCEPT ![e] = IF e \in window THEN @ ELSE @ + 1]
          /\ window' = window \cup {e}
      BY <1>8 DEF Publish
    <2>3. \A f \in Events : stored[f] > 0 => stored'[f] > 0
      BY <2>2 DEF TypeOK
    <2>4. stored'[e] > 0
      BY <2>2 DEF TypeOK, OutboxInv, WindowStored
    <2>5. \A v \in Workers : Held(v)'
      BY <2>1, <2>3, <2>4 DEF TypeOK, OutboxInv, Held
    <2>6. WindowStored'
      BY <2>2, <2>3, <2>4 DEF TypeOK, OutboxInv, WindowStored
    <2>7. NothingLost' /\ Apart'
      BY <2>1, <2>3 DEF OutboxInv, NothingLost, Apart
    <2> QED BY <2>5, <2>6, <2>7 DEF OutboxInv
  <1>9. ASSUME NEW w \in Workers, NEW e \in Events, Block(w, e)
        PROVE  OutboxInv'
    <2>1. /\ e \in todo[w]
          /\ blocked' = [blocked EXCEPT ![w] = @ \cup {e}]
          /\ todo' = [todo EXCEPT ![w] = @ \ {e}]
          /\ UNCHANGED <<status, command, stored, window, batch, done>>
      BY <1>9 DEF Block, IsNext
    <2>2. \A v \in Workers : Held(v)'
      BY <2>1 DEF TypeOK, OutboxInv, Held
    <2> QED BY <2>1, <2>2 DEF OutboxInv, NothingLost, Apart, WindowStored
  <1>10. ASSUME NEW w \in Workers, Ends(w) PROVE OutboxInv'
    <2>1. /\ batch' = [batch EXCEPT ![w] = {}]
          /\ todo' = [todo EXCEPT ![w] = {}]
          /\ done' = [done EXCEPT ![w] = {}]
          /\ blocked' = [blocked EXCEPT ![w] = {}]
          /\ UNCHANGED <<status, command, stored, window>>
      BY <1>10 DEF Ends
    <2>2. \A v \in Workers : Held(v)'
      BY <2>1 DEF TypeOK, OutboxInv, Held
    <2>3. Apart'
      BY <2>1 DEF TypeOK, OutboxInv, Apart
    <2> QED BY <2>1, <2>2, <2>3 DEF OutboxInv, NothingLost, WindowStored
  <1> QED
    BY NextCases, <1>1, <1>2, <1>3, <1>4, <1>5, <1>6, <1>7, <1>8, <1>9, <1>10,
       Zenon

\* The inductive invariant behind the two theorems on delivery.
LEMMA OutboxAlways == Spec => []OutboxInv
  <1>1. Init => OutboxInv
    BY DEF Init, Nothing, OutboxInv, Held, Apart, WindowStored, NothingLost
  <1> QED BY <1>1, NextOutboxInv, TypeCorrect, PTL DEF Spec

\* What is marked published is in the stream, and only events of blocked
\* commands are given up, whatever fails (process_batch).
THEOREM NothingIsLost == Spec => []NothingLost
  <1>1. OutboxInv => NothingLost
    BY DEF OutboxInv
  <1> QED BY <1>1, OutboxAlways, PTL

\* An event whose transaction has committed is not sent again (get_unpublished).
THEOREM CommittedNotResent == Spec => NoRepublish
  <1> DEFINE Kept(e) ==
        status[e] \in {"published", "failed"} => stored'[e] = stored[e]
  <1>1. TypeOK /\ OutboxInv /\ [Next]_vars => [\A e \in Events : Kept(e)]_vars
    <2> SUFFICES ASSUME TypeOK, OutboxInv, [Next]_vars, NEW e \in Events
                 PROVE  Kept(e)
      OBVIOUS
    <2> USE DEF rows, stream, transaction
    <2>1. ASSUME NEW w \in Workers, NEW f \in Events, Publish(w, f)
          PROVE  Kept(e)
      <3>1. f \in todo[w] /\ \A g \in Events : g # f => stored'[g] = stored[g]
        BY <2>1 DEF Publish, IsNext, TypeOK
      <3>2. status[f] = "pending"
        BY <3>1 DEF OutboxInv, Held
      <3> QED BY <3>1, <3>2
    <2>2. CASE UNCHANGED stored
      BY <2>2
    <2>3. ASSUME NEW w \in Workers, NEW f \in Events, Block(w, f)
          PROVE  UNCHANGED stored
      BY <2>3, Zenon DEF Block
    <2> QED
      BY NextCases, <2>1, <2>2, <2>3, Zenon
      DEF AddEvent, Cancel, WindowPasses, Activate, Release, NatsChange, Fetch,
          Commit, Restart, Ends, vars
  <1> QED BY <1>1, OutboxAlways, TypeCorrect, PTL DEF Spec, NoRepublish
-----------------------------------------------------------------------------

\* An event that was not written has no command yet.
Unwritten == \A e \in Events : status[e] = "none" => command[e] = "none"

LEMMA UnwrittenAlways == Spec => []Unwritten
  <1>1. Init => Unwritten
    BY DEF Init, Unwritten
  <1>2. TypeOK /\ OutboxInv /\ Unwritten /\ [Next]_vars => Unwritten'
    <2> SUFFICES ASSUME TypeOK, OutboxInv, Unwritten, [Next]_vars
                 PROVE  Unwritten'
      OBVIOUS
    <2> USE DEF rows, stream, transaction
    <2>1. CASE UNCHANGED <<status, command>>
      BY <2>1 DEF Unwritten
    <2>2. ASSUME NEW e \in Events, AddEvent(e) PROVE Unwritten'
      BY <2>2 DEF AddEvent, TypeOK, Unwritten
    <2>3. ASSUME NEW e \in Events, Cancel(e) PROVE Unwritten'
      BY <2>3 DEF Cancel, TypeOK, Unwritten
    <2>4. CASE Activate
      BY <2>4 DEF Activate, Unwritten
    <2>5. ASSUME NEW w \in Workers, Commit(w) PROVE Unwritten'
      <3>1. \A e \in blocked[w] \cup done[w] : status[e] = "pending"
        BY DEF OutboxInv, Held
      <3> QED BY <2>5, <3>1 DEF Commit, Unwritten
    <2> QED
      BY NextCases, <2>1, <2>2, <2>3, <2>4, <2>5, Zenon
      DEF WindowPasses, Release, NatsChange, Fetch, Publish, Block, Restart,
          Ends, vars
  <1> QED BY <1>1, <1>2, OutboxAlways, TypeCorrect, PTL DEF Spec

\* A stopped command stays stopped: Halted only grows.
LEMMA HaltedGrows ==
    ASSUME TypeOK, Unwritten, [Next]_vars
    PROVE  Halted \subseteq Halted'
  <1> USE DEF rows, stream, transaction
  <1>1. CASE UNCHANGED command
    BY <1>1 DEF Halted
  <1>2. ASSUME NEW e \in Events, AddEvent(e) PROVE Halted \subseteq Halted'
    <2>1. status[e] = "none" /\ \A f \in Events : f # e => command'[f] = command[f]
      BY <1>2 DEF AddEvent, TypeOK
    <2> QED BY <2>1 DEF Unwritten, Halted
  <1>3. ASSUME NEW e \in Events, Cancel(e) PROVE Halted \subseteq Halted'
    BY <1>3 DEF Cancel, Halted, TypeOK
  <1>4. CASE Activate
    BY <1>4 DEF Activate, Halted
  <1>5. ASSUME NEW w \in Workers, Commit(w) PROVE Halted \subseteq Halted'
    BY <1>5 DEF Commit, Halted
  <1> QED
    BY NextCases, <1>1, <1>2, <1>3, <1>4, <1>5, Zenon
    DEF WindowPasses, Release, NatsChange, Fetch, Publish, Block, Restart, Ends,
        vars

\* Every step of the workers is a step of the promise, or none.
LEMMA StepKeepsDelivery ==
    ASSUME TypeOK, OutboxInv, Unwritten, [Next]_vars
    PROVE  [Delivery!Next]_(Delivery!vars)
  <1> USE DEF rows, stream, transaction
  <1>1. Halted \subseteq Halted'
    BY HaltedGrows
  <1>2. CASE UNCHANGED <<status, stored>>
    BY <1>1, <1>2 DEF Delivery!Next, Delivery!Halt
  <1>3. ASSUME NEW e \in Events, AddEvent(e) PROVE Delivery!Next
    <2>1. /\ status[e] = "none"
          /\ status' = [status EXCEPT ![e] = "pending"]
          /\ stored' = stored
      BY <1>3 DEF AddEvent
    <2>2. command[e] = "none"
      BY <2>1 DEF Unwritten
    <2>3. /\ \A f \in Events : f # e => command'[f] = command[f]
          /\ command'[e] \in {"none", "queued"}
      BY <1>3 DEF AddEvent, TypeOK
    <2>4. Halted' = Halted
      BY <2>2, <2>3 DEF Halted
    <2>5. Delivery!Write(e)
      BY <2>1, <2>4 DEF Delivery!Write
    <2> QED BY <2>5 DEF Delivery!Next
  <1>4. ASSUME NEW w \in Workers, NEW e \in Events, Publish(w, e)
        PROVE  [Delivery!Next]_(Delivery!vars)
    <2>1. /\ e \in todo[w]
          /\ UNCHANGED <<status, command>>
          /\ stored' = [stored EXCEPT ![e] = IF e \in window THEN @ ELSE @ + 1]
      BY <1>4 DEF Publish, IsNext
    <2>2. status[e] = "pending"
      BY <2>1 DEF OutboxInv, Held
    <2>3. Halted' = Halted
      BY <2>1 DEF Halted
    <2>4. CASE e \in window
      <3>1. stored' = stored
        BY <2>1, <2>4 DEF TypeOK
      <3> QED BY <1>2, <2>1, <3>1
    <2>5. CASE e \notin window
      <3>1. stored' = [stored EXCEPT ![e] = @ + 1]
        BY <2>1, <2>5
      <3>2. Delivery!Send(e)
        BY <2>1, <2>2, <2>3, <3>1 DEF Delivery!Send
      <3> QED BY <3>2 DEF Delivery!Next
    <2> QED BY <2>4, <2>5
  <1>5. ASSUME NEW w \in Workers, Commit(w) PROVE Delivery!Next
    <2>1. /\ stored' = stored
          /\ \A e \in Events :
               /\ status'[e] = IF e \in done[w] THEN "published"
                               ELSE IF e \in blocked[w] THEN "failed"
                               ELSE status[e]
               /\ command'[e] = IF e \in blocked[w]
                                THEN "blocked_by_emergency_stop" ELSE command[e]
      BY <1>5 DEF Commit
    <2>2. /\ \A e \in done[w] : status[e] = "pending" /\ stored[e] > 0
          /\ \A e \in blocked[w] : status[e] = "pending"
      BY DEF OutboxInv, Held
    <2>3. \A e \in Events : e \in blocked[w] => e \in Halted'
      BY <2>1 DEF Halted
    <2>4. Delivery!Settle
      BY <1>1, <2>1, <2>2, <2>3 DEF Delivery!Settle
    <2> QED BY <2>4 DEF Delivery!Next
  <1> QED
    BY NextCases, <1>2, <1>3, <1>4, <1>5, Zenon
    DEF Cancel, WindowPasses, Activate, Release, NatsChange, Fetch, Block,
        Restart, Ends, vars

\* The publisher, with any number of workers, any batch size, crashes, outages
\* and the duplicate window, implements the promise of OutboxDelivery
\* (outbox_events, process_batch).
THEOREM DeliveryRefined == Spec => DeliveryKept
  <1>1. Init => Delivery!Init
    BY DEF Init, Delivery!Init, Halted
  <1> QED
    BY <1>1, StepKeepsDelivery, OutboxAlways, UnwrittenAlways, TypeCorrect, PTL
    DEF Spec, DeliveryKept, Delivery!Spec
=============================================================================
