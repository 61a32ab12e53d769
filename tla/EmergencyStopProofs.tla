-------------------------- MODULE EmergencyStopProofs --------------------------
(* That a stop in force is never overlooked, for any set of commands and any *)
(* number of activations, with caches, commits and callers interleaved.      *)
EXTENDS EmergencyStop, TLAPS

USE ActivationsAssumption

\* The first state is well typed.
LEMMA InitTypeOK == Init => TypeOK
  <1> SUFFICES ASSUME Init PROVE TypeOK
    OBVIOUS
  <1>1. active \in BOOLEAN /\ cache \in BOOLEAN /\ open \in BOOLEAN
    BY Zenon DEF Init
  <1>2. covered \in [Commands -> BOOLEAN]
    BY DEF Init
  <1>3. /\ found \in SUBSET Commands /\ begun \in SUBSET Commands
        /\ sends \in [Commands -> Nat]
        /\ activations \in Nat /\ sets \in Nat /\ deletes \in Nat
    BY DEF Init
  <1>4. /\ call \in [Commands -> {"idle", "miss", "fill", "yes", "no"}]
        /\ row \in [Commands -> Row]
        /\ pipe \in [Commands -> {"api", "outbox", "nats", "checked", "gone"}]
    BY DEF Init, Row
  <1> QED BY <1>1, <1>2, <1>3, <1>4, Zenon DEF TypeOK

\* Blocking commands keeps every row a row.
LEMMA BlockedType ==
    ASSUME TypeOK, NEW ids PROVE Blocked(ids) \in [Commands -> Row]
  BY DEF TypeOK, Blocked, Row

\* Every step keeps the types.
LEMMA NextTypeOK == TypeOK /\ [Next]_vars => TypeOK'
  <1> SUFFICES ASSUME TypeOK, [Next]_vars PROVE TypeOK'
    OBVIOUS
  <1> USE DEF stop, checks, pipeline
  <1>1. CASE ActivateBegin
    BY <1>1 DEF TypeOK, ActivateBegin
  <1>2. CASE ActivateCommit
    <2>1. /\ active' = TRUE /\ open' = FALSE /\ found' = {}
          /\ row' = Blocked(found)
          /\ activations' = activations + 1 /\ sets' = sets + 1
          /\ begun' = {c \in Commands : Underway(c, Blocked(found)[c])}
          /\ sends' = [c \in Commands |-> 0]
          /\ UNCHANGED <<cache, deletes, call, covered, pipe>>
      BY <1>2, Zenon DEF ActivateCommit
    <2>2. activations' \in Nat /\ sets' \in Nat
      BY <2>1 DEF TypeOK
    <2>3. row' \in [Commands -> Row]
      BY <2>1, BlockedType
    <2>4. begun' \in SUBSET Commands /\ sends' \in [Commands -> Nat]
      BY <2>1
    <2> QED BY <2>1, <2>2, <2>3, <2>4, Zenon DEF TypeOK
  <1>3. CASE ActivateCacheSet
    BY <1>3 DEF TypeOK, ActivateCacheSet
  <1>4. CASE ReleaseCommit
    <2>1. /\ active' = FALSE
          /\ deletes' = deletes + 1
          /\ covered' = [c \in Commands |-> FALSE]
          /\ begun' = {} /\ sends' = [c \in Commands |-> 0]
          /\ UNCHANGED <<cache, open, found, activations, sets, call, row, pipe>>
      BY <1>4, Zenon DEF ReleaseCommit
    <2>2. deletes' \in Nat
      BY <2>1 DEF TypeOK
    <2>3. covered' \in [Commands -> BOOLEAN]
      BY <2>1
    <2>4. begun' \in SUBSET Commands /\ sends' \in [Commands -> Nat]
      BY <2>1
    <2> QED BY <2>1, <2>2, <2>3, <2>4, Zenon DEF TypeOK
  <1>5. CASE ReleaseCacheDelete
    <2>1. /\ deletes > 0 /\ deletes' = deletes - 1
          /\ cache' = FALSE
          /\ UNCHANGED <<active, open, found, begun, activations, sets, call,
                         covered, row, pipe, sends>>
      BY <1>5, Zenon DEF ReleaseCacheDelete
    <2>2. deletes' \in Nat
      BY <2>1 DEF TypeOK
    <2> QED BY <2>1, <2>2, Zenon DEF TypeOK
  <1>6. CASE CacheStepLost
    BY <1>6 DEF TypeOK, CacheStepLost
  <1>7. CASE CacheExpire
    BY <1>7 DEF TypeOK, CacheExpire
  <1>8. ASSUME NEW c \in Commands, CheckCache(c) PROVE TypeOK'
    <2>1. /\ covered' = [covered EXCEPT ![c] = active]
          /\ UNCHANGED <<stop, pipeline>>
      BY <1>8, Zenon DEF CheckCache
    <2>2. covered' \in [Commands -> BOOLEAN]
      BY <2>1 DEF TypeOK
    <2>3. call' \in [Commands -> {"idle", "miss", "fill", "yes", "no"}]
      BY <1>8 DEF TypeOK, CheckCache
    <2> QED BY <2>1, <2>2, <2>3 DEF TypeOK
  <1>9. ASSUME NEW c \in Commands, CheckDatabase(c) PROVE TypeOK'
    <2>1. call' \in [Commands -> {"idle", "miss", "fill", "yes", "no"}]
      BY <1>9 DEF TypeOK, CheckDatabase
    <2> QED BY <1>9, <2>1 DEF TypeOK, CheckDatabase
  <1>10. ASSUME NEW c \in Commands, CheckFill(c) \/ CheckDropped(c)
         PROVE  TypeOK'
    <2>1. CASE CheckFill(c)
      BY <2>1 DEF TypeOK, CheckFill
    <2>2. CASE CheckDropped(c)
      BY <2>2 DEF TypeOK, CheckDropped
    <2> QED BY <1>10, <2>1, <2>2
  <1>11. ASSUME NEW c \in Commands, CreateCommit(c) PROVE TypeOK'
    BY <1>11 DEF TypeOK, CreateCommit, Answered, Row
  <1>12. ASSUME NEW c \in Commands, PublisherBlock(c) PROVE TypeOK'
    BY <1>12, BlockedType DEF TypeOK, PublisherBlock, Answered
  <1>13. ASSUME NEW c \in Commands,
                PublisherPublish(c) \/ GatewayDiscard(c) \/ GatewayNak(c)
         PROVE  TypeOK'
    <2>1. CASE PublisherPublish(c)
      BY <2>1 DEF TypeOK, PublisherPublish, Answered
    <2>2. CASE GatewayDiscard(c)
      BY <2>2 DEF TypeOK, GatewayDiscard, Answered
    <2>3. CASE GatewayNak(c)
      BY <2>3 DEF TypeOK, GatewayNak, Answered
    <2> QED BY <1>13, <2>1, <2>2, <2>3
  <1>14. ASSUME NEW c \in Commands, GatewayCheck(c) PROVE TypeOK'
    BY <1>14 DEF TypeOK, GatewayCheck
  <1>15. ASSUME NEW c \in Commands, NEW acked \in BOOLEAN, GatewaySend(c, acked)
         PROVE  TypeOK'
    <2>0. sends' \in [Commands -> Nat]
      BY <1>15 DEF TypeOK, GatewaySend, Counted
    <2>1. CASE acked
      BY <1>15, <2>0, <2>1 DEF TypeOK, GatewaySend, Answered
    <2>2. CASE ~acked
      BY <1>15, <2>0, <2>2 DEF TypeOK, GatewaySend, Answered
    <2> QED BY <2>1, <2>2
  <1>16. CASE UNCHANGED vars
    BY <1>16 DEF TypeOK, vars
  <1> QED
    BY <1>1, <1>2, <1>3, <1>4, <1>5, <1>6, <1>7, <1>8, <1>9, <1>10, <1>11,
       <1>12, <1>13, <1>14, <1>15, <1>16, Zenon
    DEF Next, Owner, Service

\* Type correctness of the emergency-stop model.
THEOREM TypeCorrect == Spec => []TypeOK
  BY InitTypeOK, NextTypeOK, PTL DEF Spec

\* The inductive form of NoStopOverlooked for one command: a command past the
\* gateway's check still holds the "no" it was let through with.
Sound(c) ==
    /\ covered[c] = TRUE => active = TRUE /\ call[c] # "no"
    /\ pipe[c] = "checked" => call[c] = "no"

\* Every step keeps every command sound.
LEMMA NextSound ==
    TypeOK /\ (\A c \in Commands : Sound(c)) /\ [Next]_vars
        => (\A c \in Commands : Sound(c))'
  <1> SUFFICES ASSUME TypeOK, \A d \in Commands : Sound(d), [Next]_vars,
                      NEW c \in Commands
               PROVE  Sound(c)'
    OBVIOUS
  <1> USE DEF stop, checks, pipeline
  <1>0. Sound(c)
    OBVIOUS
  <1>1. ASSUME UNCHANGED <<call, covered, pipe>>,
               active' = active \/ active' = TRUE
        PROVE  Sound(c)'
    BY <1>0, <1>1 DEF Sound
  <1>2. CASE \/ ActivateBegin \/ ActivateCommit \/ ActivateCacheSet
             \/ ReleaseCacheDelete \/ CacheStepLost \/ CacheExpire
             \/ UNCHANGED vars
    BY <1>1, <1>2, Zenon
    DEF ActivateBegin, ActivateCommit, ActivateCacheSet, ReleaseCacheDelete,
        CacheStepLost, CacheExpire, vars
  <1>3. CASE ReleaseCommit
    <2>1. covered'[c] = FALSE /\ UNCHANGED <<call, pipe>>
      BY <1>3 DEF ReleaseCommit
    <2> QED BY <1>0, <2>1 DEF Sound
  <1>4. ASSUME NEW d \in Commands, CheckCache(d) PROVE Sound(c)'
    <2>1. /\ covered' = [covered EXCEPT ![d] = active]
          /\ pipe[d] # "checked"
          /\ UNCHANGED <<active, pipe>>
      BY <1>4 DEF CheckCache
    <2>2. call' = [call EXCEPT ![d] = IF cache THEN "yes" ELSE "miss"]
      BY <1>4, Zenon DEF CheckCache
    <2>3. CASE c = d
      <3>1. call'[c] # "no" /\ covered'[c] = active
        BY <2>1, <2>2, <2>3 DEF TypeOK
      <3> QED BY <2>1, <2>3, <3>1 DEF Sound, TypeOK
    <2>4. CASE c # d
      BY <1>0, <2>1, <2>2, <2>4 DEF Sound, TypeOK
    <2> QED BY <2>3, <2>4
  <1>5. ASSUME NEW d \in Commands, CheckDatabase(d) PROVE Sound(c)'
    <2>1. /\ call[d] = "miss"
          /\ call' = [call EXCEPT ![d] = IF active THEN "fill" ELSE "no"]
          /\ UNCHANGED <<active, covered, pipe>>
      BY <1>5 DEF CheckDatabase
    <2>2. CASE c = d
      BY <1>0, <2>1, <2>2 DEF Sound, TypeOK
    <2>3. CASE c # d
      BY <1>0, <2>1, <2>3 DEF Sound, TypeOK
    <2> QED BY <2>2, <2>3
  <1>6. ASSUME NEW d \in Commands, CheckFill(d) PROVE Sound(c)'
    <2>1. /\ call[d] = "fill"
          /\ call' = [call EXCEPT ![d] = "yes"]
          /\ UNCHANGED <<active, covered, pipe>>
      BY <1>6 DEF CheckFill
    <2> QED BY <1>0, <2>1 DEF Sound, TypeOK
  <1>7. ASSUME NEW d \in Commands, CheckDropped(d) PROVE Sound(c)'
    <2>1. /\ pipe[d] # "checked"
          /\ call' = [call EXCEPT ![d] = "idle"]
          /\ covered' = [covered EXCEPT ![d] = FALSE]
          /\ UNCHANGED <<active, pipe>>
      BY <1>7 DEF CheckDropped
    <2> QED BY <1>0, <2>1 DEF Sound, TypeOK
  <1>8. ASSUME NEW d \in Commands, NEW answer, NEW at, NEW to,
               Answered(d, answer, at), to # "checked",
               pipe' = [pipe EXCEPT ![d] = to], UNCHANGED active
        PROVE  Sound(c)'
    BY <1>0, <1>8 DEF Answered, Sound, TypeOK
  <1>9. ASSUME NEW d \in Commands,
               \/ CreateCommit(d) \/ PublisherBlock(d) \/ PublisherPublish(d)
               \/ GatewayDiscard(d) \/ GatewayNak(d)
               \/ GatewaySend(d, TRUE) \/ GatewaySend(d, FALSE)
        PROVE  Sound(c)'
    <2>1. CASE CreateCommit(d)
      BY <1>8, <2>1 DEF CreateCommit
    <2>2. CASE PublisherBlock(d)
      BY <1>8, <2>2 DEF PublisherBlock
    <2>3. CASE PublisherPublish(d)
      BY <1>8, <2>3 DEF PublisherPublish
    <2>4. CASE GatewayDiscard(d)
      BY <1>8, <2>4 DEF GatewayDiscard
    <2>5. CASE GatewaySend(d, TRUE) \/ GatewaySend(d, FALSE)
      <3>1. PICK to \in {"gone", "nats"} :
              /\ Answered(d, "no", "checked")
              /\ pipe' = [pipe EXCEPT ![d] = to]
              /\ UNCHANGED active
        BY <2>5 DEF GatewaySend
      <3> QED BY <1>8, <3>1
    <2>6. CASE GatewayNak(d)
      BY <1>8, <2>6 DEF GatewayNak
    <2> QED BY <1>9, <2>1, <2>2, <2>3, <2>4, <2>5, <2>6
  <1>10. ASSUME NEW d \in Commands, GatewayCheck(d) PROVE Sound(c)'
    <2>1. /\ call[d] = "no"
          /\ pipe' = [pipe EXCEPT ![d] = "checked"]
          /\ UNCHANGED <<active, call, covered>>
      BY <1>10 DEF GatewayCheck
    <2> QED BY <1>0, <2>1 DEF Sound, TypeOK
  <1> QED
    BY <1>2, <1>3, <1>4, <1>5, <1>6, <1>7, <1>9, <1>10, Zenon
    DEF Next, Owner, Service

\* A stop that is in force for a whole is_active call is never overlooked, and
\* no command is past the gateway's check under it.
THEOREM StopNeverOverlooked == Spec => []NoStopOverlooked
  <1>1. Init => \A c \in Commands : Sound(c)
    BY DEF Init, Sound
  <1>2. TypeOK /\ (\A c \in Commands : Sound(c)) => NoStopOverlooked
    BY DEF Sound, NoStopOverlooked, TypeOK
  <1> QED BY <1>1, <1>2, NextSound, TypeCorrect, PTL DEF Spec

\* The inductive form of OneStaleSend for one command: under a stop, the gateway
\* can still send c only on an answer that was under way at the commit and
\* has not been used since.
Able(c) ==
    \/ pipe[c] = "checked"
    \/ /\ pipe[c] = "nats" /\ row[c] = "queued"
       /\ call[c] \in {"miss", "no"} /\ covered[c] = FALSE

Graced(c) ==
    /\ active = TRUE /\ Able(c) => c \in begun /\ sends[c] = 0
    /\ sends[c] <= (IF c \in begun THEN 1 ELSE 0)

\* Every step keeps every command's share.
LEMMA NextGraced ==
    TypeOK /\ (\A c \in Commands : Sound(c) /\ Graced(c)) /\ [Next]_vars
        => (\A c \in Commands : Graced(c))'
  <1> SUFFICES ASSUME TypeOK, \A d \in Commands : Sound(d) /\ Graced(d),
                      [Next]_vars, NEW c \in Commands
               PROVE  Graced(c)'
    OBVIOUS
  <1> USE DEF stop, checks, pipeline
  <1>0. Graced(c) /\ Sound(c)
    OBVIOUS
  <1>1. ASSUME UNCHANGED <<active, begun, sends>>, Able(c)' => Able(c)
        PROVE  Graced(c)'
    BY <1>0, <1>1 DEF Graced
  <1>2. CASE \/ ActivateBegin \/ ActivateCacheSet \/ ReleaseCacheDelete
             \/ CacheStepLost \/ CacheExpire \/ UNCHANGED vars
    <2>1. UNCHANGED <<active, begun, sends, pipe, row, call, covered>>
      BY <1>2, Zenon
      DEF ActivateBegin, ActivateCacheSet, ReleaseCacheDelete, CacheStepLost,
          CacheExpire, vars
    <2> QED BY <1>1, <2>1 DEF Able
  <1>3. CASE ActivateCommit
    <2>1. /\ row' = Blocked(found)
          /\ begun' = {d \in Commands : Underway(d, Blocked(found)[d])}
          /\ sends' = [d \in Commands |-> 0]
          /\ UNCHANGED <<call, pipe>>
      BY <1>3, Zenon DEF ActivateCommit
    <2>2. Able(c)' => Underway(c, Blocked(found)[c])
      BY <2>1 DEF Able, Underway
    <2> QED BY <2>1, <2>2 DEF Graced
  <1>4. CASE ReleaseCommit
    <2>1. active' = FALSE /\ begun' = {} /\ sends' = [d \in Commands |-> 0]
      BY <1>4, Zenon DEF ReleaseCommit
    <2> QED BY <2>1 DEF Graced
  <1>5. ASSUME NEW d \in Commands, CheckCache(d) PROVE Graced(c)'
    <2>1. /\ covered' = [covered EXCEPT ![d] = active]
          /\ pipe[d] # "checked"
          /\ UNCHANGED <<active, begun, sends, pipe, row>>
          /\ call' = [call EXCEPT ![d] = IF cache THEN "yes" ELSE "miss"]
      BY <1>5 DEF CheckCache
    <2>2. CASE c # d
      <3>1. Able(c)' => Able(c)
        BY <2>1, <2>2 DEF Able, TypeOK
      <3> QED BY <1>1, <2>1, <3>1
    <2>3. CASE c = d
      <3>1. covered'[c] = active
        BY <2>1, <2>3 DEF TypeOK
      <3>2. active = TRUE => ~Able(c)'
        BY <2>1, <2>3, <3>1 DEF Able
      <3> QED BY <1>0, <2>1, <3>2 DEF Graced
    <2> QED BY <2>2, <2>3
  <1>6. ASSUME NEW d \in Commands,
               CheckDatabase(d) \/ CheckFill(d) \/ CheckDropped(d)
        PROVE  Graced(c)'
    <2>1. UNCHANGED <<active, begun, sends, pipe, row>>
      BY <1>6, Zenon DEF CheckDatabase, CheckFill, CheckDropped
    <2>2. CASE CheckDatabase(d)
      <3>1. Able(c)' => Able(c)
        BY <2>1, <2>2 DEF CheckDatabase, Able, TypeOK
      <3> QED BY <1>1, <2>1, <3>1
    <2>3. CASE CheckFill(d)
      <3>1. Able(c)' => Able(c)
        BY <2>1, <2>3 DEF CheckFill, Able, TypeOK
      <3> QED BY <1>1, <2>1, <3>1
    <2>4. CASE CheckDropped(d)
      <3>1. Able(c)' => Able(c)
        BY <2>1, <2>4 DEF CheckDropped, Able, TypeOK
      <3> QED BY <1>1, <2>1, <3>1
    <2> QED BY <1>6, <2>2, <2>3, <2>4
  <1>7. ASSUME NEW d \in Commands, NEW answer, NEW at, NEW to,
               Answered(d, answer, at), to # "checked",
               pipe' = [pipe EXCEPT ![d] = to],
               c # d => row'[c] = row[c]
        PROVE  Able(c)' => Able(c) /\ c # d
    BY <1>7 DEF Answered, Able, TypeOK
  <1>8. ASSUME NEW d \in Commands,
               \/ CreateCommit(d) \/ PublisherBlock(d) \/ PublisherPublish(d)
               \/ GatewayDiscard(d) \/ GatewayNak(d)
        PROVE  Graced(c)'
    <2>1. UNCHANGED <<active, begun, sends>>
      BY <1>8, Zenon
      DEF CreateCommit, PublisherBlock, PublisherPublish, GatewayDiscard,
          GatewayNak
    <2>2. CASE CreateCommit(d)
      <3>1. c # d => row'[c] = row[c]
        BY <2>2 DEF CreateCommit, TypeOK
      <3> QED BY <1>1, <1>7, <2>1, <2>2, <3>1 DEF CreateCommit
    <2>3. CASE PublisherBlock(d)
      <3>1. c # d => row'[c] = row[c]
        BY <2>3 DEF PublisherBlock, Blocked
      <3> QED BY <1>1, <1>7, <2>1, <2>3, <3>1 DEF PublisherBlock
    <2>4. CASE PublisherPublish(d)
      BY <1>1, <1>7, <2>1, <2>4 DEF PublisherPublish
    <2>5. CASE GatewayDiscard(d)
      BY <1>1, <1>7, <2>1, <2>5 DEF GatewayDiscard
    <2>6. CASE GatewayNak(d)
      BY <1>1, <1>7, <2>1, <2>6 DEF GatewayNak
    <2> QED BY <1>8, <2>2, <2>3, <2>4, <2>5, <2>6
  <1>9. ASSUME NEW d \in Commands, GatewayCheck(d) PROVE Graced(c)'
    <2>1. /\ row[d] = "queued" /\ call[d] = "no" /\ pipe[d] = "nats"
          /\ pipe' = [pipe EXCEPT ![d] = "checked"]
          /\ UNCHANGED <<active, begun, sends, row, call, covered>>
      BY <1>9 DEF GatewayCheck
    <2>2. covered[d] = FALSE
      BY <2>1 DEF Sound, TypeOK
    <2>3. Able(c)' => Able(c)
      BY <2>1, <2>2 DEF Able, TypeOK
    <2> QED BY <1>1, <2>1, <2>3
  <1>10. ASSUME NEW d \in Commands,
                GatewaySend(d, TRUE) \/ GatewaySend(d, FALSE)
         PROVE  Graced(c)'
    <2>1. PICK to \in {"gone", "nats"} :
            /\ Answered(d, "no", "checked")
            /\ pipe' = [pipe EXCEPT ![d] = to]
            /\ UNCHANGED <<active, begun, row>>
            /\ sends' = IF active THEN [sends EXCEPT ![d] = @ + 1] ELSE sends
      BY <1>10 DEF GatewaySend, Counted
    <2>2. Able(c)' => Able(c) /\ c # d
      BY <1>7, <2>1
    <2>3. CASE c # d
      <3>1. sends'[c] = sends[c]
        BY <2>1, <2>3 DEF TypeOK
      <3> QED BY <1>0, <2>1, <2>2, <3>1 DEF Graced
    <2>4. CASE c = d /\ active = TRUE
      <3>1. c \in begun /\ sends[c] = 0
        BY <1>0, <2>1, <2>4 DEF Graced, Able, Answered
      <3>2. sends'[c] = 1
        BY <2>1, <2>4, <3>1 DEF TypeOK
      <3> QED BY <2>1, <2>2, <2>4, <3>1, <3>2 DEF Graced
    <2>5. CASE c = d /\ active = FALSE
      <3>1. sends' = sends
        BY <2>1, <2>5
      <3> QED BY <1>0, <2>1, <2>5, <3>1 DEF Graced
    <2> QED BY <2>3, <2>4, <2>5 DEF TypeOK
  <1> QED
    BY <1>2, <1>3, <1>4, <1>5, <1>6, <1>8, <1>9, <1>10, Zenon
    DEF Next, Owner, Service

\* Whatever the commits, the cache, the callers and redelivery do, one stop lets
\* at most one send of a command through, and only of a command the gateway was
\* asking for at the commit (nats_listener).
THEOREM StaleSendIsOne == Spec => []OneStaleSend
  <1>1. Init => \A c \in Commands : Sound(c) /\ Graced(c)
    BY DEF Init, Sound, Graced, Able
  <1>2. (\A c \in Commands : Graced(c)) => OneStaleSend
    BY DEF Graced, OneStaleSend
  <1>3. TypeOK /\ (\A c \in Commands : Sound(c) /\ Graced(c)) /\ [Next]_vars
          => (\A c \in Commands : Sound(c) /\ Graced(c))'
    BY NextSound, NextGraced
  <1>4. (\A c \in Commands : Sound(c) /\ Graced(c))
          => \A c \in Commands : Graced(c)
    OBVIOUS
  <1> QED BY <1>1, <1>2, <1>3, <1>4, TypeCorrect, PTL DEF Spec
=============================================================================
