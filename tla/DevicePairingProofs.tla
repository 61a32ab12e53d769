-------------------------- MODULE DevicePairingProofs --------------------------
(***************************************************************************)
(* Proofs about DevicePairing, for any requests, calls and MaxAttempts.    *)
(*                                                                         *)
(* The inductive invariant says what the row lock of confirm_pairing is    *)
(* for: until its transaction ends, a call has seen the row as it is.      *)
(***************************************************************************)
EXTENDS DevicePairing, FiniteSetTheorems, TLAPS

USE AttemptsAssumption, InfoAssumption, OwnersAssumption

\* A call in progress has a request that exists.
HasTarget ==
    \A c \in Calls :
        reply[c] # "idle" => target[c] \in Pairings /\ status[target[c]] # "none"

\* A call that runs holds the row and has seen its contents.
SeesRow ==
    \A c \in Calls :
        reply[c] = "run" =>
            /\ lock[target[c]] = c
            /\ seen[c].status = status[target[c]]
            /\ seen[c].attempts = attempts[target[c]]

\* The counter of a request that can still be confirmed is in its range.
InRange ==
    \A p \in Pairings :
        status[p] \in {"none", "pending"} => attempts[p] <= MaxAttempts

\* The sweep holds pending rows only.
SweptPending ==
    \A p \in Pairings : lock[p] = Scheduler => status[p] = "pending"

\* A call that made a device has ended.
Made == \A c \in devices : reply[c] = "paired"

IInv ==
    TypeOK /\ HasTarget /\ SeesRow /\ InRange /\ SweptPending /\ Made
        /\ PairedOnce

LEMMA InitIInv == Init => IInv
BY DEF Init, IInv, TypeOK, HasTarget, SeesRow, InRange, SweptPending, Made,
       PairedOnce, PairingStatus, View, NoView, Answer

\* What the end of a call leaves to be shown: the row is the one it saw, and
\* no other call holds it.
LEMMA EndsKeeps ==
  ASSUME IInv, NEW c \in Calls, NEW p \in Pairings, NEW a \in Answer,
         Ends(c, p, a)
  PROVE  /\ lock[p] = c /\ lock' = [lock EXCEPT ![p] = Nobody]
         /\ seen[c].status = status[p] /\ seen[c].attempts = attempts[p]
         /\ \A d \in Calls : d # c /\ reply[d] = "run" => target[d] # p
         /\ target' = target /\ seen' = seen /\ right' = right
         /\ overdue' = overdue
         /\ reply' = [reply EXCEPT ![c] = a]
         /\ c \notin devices
<1> USE DEF IInv, TypeOK
<1>1. reply[c] = "run" /\ target[c] = p
  BY DEF Ends
<1>2. /\ lock[p] = c
      /\ seen[c].status = status[p] /\ seen[c].attempts = attempts[p]
  BY <1>1 DEF SeesRow
<1>3. lock' = [lock EXCEPT ![p] = Nobody]
  BY <1>2 DEF Ends
<1>4. \A d \in Calls : d # c /\ reply[d] = "run" => target[d] # p
  BY <1>2 DEF SeesRow
<1>5. c \notin devices
  BY <1>1 DEF Made
<1> QED
  BY <1>2, <1>3, <1>4, <1>5 DEF Ends
-----------------------------------------------------------------------------
\* The answers of confirm_pairing differ in what they write to the row.
LEMMA RowWritten ==
  ASSUME IInv, NEW c \in Calls, NEW p \in Pairings, NEW a \in Answer,
         Ends(c, p, a),
         NEW v \in PairingStatus, status' = [status EXCEPT ![p] = v],
         NEW n \in 0..(MaxAttempts + 1),
         attempts' = [attempts EXCEPT ![p] = n],
         v = "pending" => n <= MaxAttempts,
         \/ /\ devices' = devices
            /\ v = "confirmed" <=> status[p] = "confirmed"
         \/ /\ devices' = devices \cup {c} /\ a = "paired"
            /\ v = "confirmed" /\ status[p] = "pending"
  PROVE  IInv'
<1> USE DEF IInv
<1>1. /\ lock[p] = c /\ lock' = [lock EXCEPT ![p] = Nobody]
      /\ \A d \in Calls : d # c /\ reply[d] = "run" => target[d] # p
      /\ target' = target /\ seen' = seen /\ right' = right
      /\ overdue' = overdue
      /\ reply' = [reply EXCEPT ![c] = a]
      /\ c \notin devices
  BY EndsKeeps
<1>2. reply[c] = "run" /\ target[c] = p
  BY DEF Ends
<1>3. TypeOK'
  BY <1>1 DEF TypeOK, PairingStatus
<1>4. HasTarget'
  BY <1>1, <1>2 DEF HasTarget, TypeOK, PairingStatus
<1>5. SeesRow'
  <2> SUFFICES ASSUME NEW d \in Calls, reply'[d] = "run"
               PROVE  /\ lock'[target[d]] = d
                      /\ seen[d].status = status'[target[d]]
                      /\ seen[d].attempts = attempts'[target[d]]
    BY <1>1 DEF SeesRow
  <2>1. d # c /\ reply[d] = "run"
    BY <1>1 DEF TypeOK, Answer
  <2>2. target[d] \in Pairings /\ target[d] # p
    BY <1>1, <2>1 DEF HasTarget
  <2> QED
    BY <1>1, <2>1, <2>2 DEF SeesRow, TypeOK
<1>6. InRange'
  <2>1. attempts'[p] = n /\ status'[p] = v /\ v # "none"
    BY DEF TypeOK, PairingStatus
  <2>2. \A q \in Pairings : q # p =>
            attempts'[q] = attempts[q] /\ status'[q] = status[q]
    BY DEF TypeOK
  <2> QED
    BY <2>1, <2>2 DEF InRange
<1>7. SweptPending'
  BY <1>1 DEF SweptPending, TypeOK
<1>8. Made'
  BY <1>1 DEF Made, TypeOK
<1>9. PairedOnce'
  <2>1. CASE devices' = devices
    BY <1>1, <2>1 DEF PairedOnce, TypeOK
  <2>2. CASE devices' = devices \cup {c}
    <3>1. \A d \in devices : target[d] # p
      BY <1>1, <2>2 DEF PairedOnce
    <3>2. v = "confirmed"
      BY <1>1, <2>2
    <3> QED
      BY <1>1, <1>2, <2>2, <3>1, <3>2 DEF PairedOnce, TypeOK
  <2> QED
    BY <2>1, <2>2
<1> QED
  BY <1>3, <1>4, <1>5, <1>6, <1>7, <1>8, <1>9

LEMMA NextIInv == IInv /\ [Next]_vars => IInv'
<1> SUFFICES ASSUME IInv, [Next]_vars PROVE IInv'
  OBVIOUS
<1>1. ASSUME NEW p \in Pairings, StartPairing(p) PROVE IInv'
  BY <1>1 DEF StartPairing, IInv, TypeOK, HasTarget, SeesRow, InRange,
              SweptPending, Made, PairedOnce, PairingStatus
<1>2. ASSUME NEW p \in Pairings, Pass(p) PROVE IInv'
  BY <1>2 DEF Pass, rows, IInv, TypeOK, HasTarget, SeesRow, InRange,
              SweptPending, Made, PairedOnce
<1>3. ASSUME NEW p \in Pairings, Sweep(p) PROVE IInv'
  BY <1>3 DEF Sweep, rows, IInv, TypeOK, HasTarget, SeesRow, InRange,
              SweptPending, Made, PairedOnce
<1>4. CASE SweepEnd
  BY <1>4 DEF SweepEnd, Swept, IInv, TypeOK, HasTarget, SeesRow, InRange,
              SweptPending, Made, PairedOnce, PairingStatus
<1>5. ASSUME NEW c \in Calls, NEW p \in Pairings, NEW r \in BOOLEAN,
             Call(c, p, r)
      PROVE  IInv'
  BY <1>5 DEF Call, rows, IInv, TypeOK, HasTarget, SeesRow, InRange,
              SweptPending, Made, PairedOnce
<1>6. ASSUME NEW c \in Calls, NEW p \in Pairings, Lock(c, p) PROVE IInv'
  BY <1>6 DEF Lock, ViewOf, View, rows, IInv, TypeOK, HasTarget, SeesRow,
              InRange, SweptPending, Made, PairedOnce, PairingStatus
<1>7. ASSUME NEW c \in Calls, NEW p \in Pairings, NEW a \in Answer,
             Ends(c, p, a)
      PROVE  /\ seen[c].status = status[p] /\ seen[c].attempts = attempts[p]
             /\ status[p] \in PairingStatus
             /\ attempts[p] \in 0..(MaxAttempts + 1)
             /\ status[p] = "pending" => attempts[p] <= MaxAttempts
             /\ status = [status EXCEPT ![p] = status[p]]
             /\ attempts = [attempts EXCEPT ![p] = attempts[p]]
  <2>1. seen[c].status = status[p] /\ seen[c].attempts = attempts[p]
    BY <1>7, EndsKeeps
  <2>2. status[p] # "none"
    BY <1>7 DEF Ends, IInv, HasTarget
  <2> QED
    BY <2>1, <2>2 DEF IInv, TypeOK, InRange
<1>8. ASSUME NEW c \in Calls, NEW p \in Pairings,
             NotPending(c, p) \/ Fail(c, p)
      PROVE  IInv'
  <2>1. PICK a \in Answer : Ends(c, p, a)
    BY <1>8 DEF NotPending, Fail, Answer
  <2>2. status' = status /\ attempts' = attempts /\ devices' = devices
    BY <1>8 DEF NotPending, Fail, rows
  <2> QED
    BY <1>7, <2>1, <2>2, RowWritten
<1>9. ASSUME NEW c \in Calls, NEW p \in Pairings, Expired(c, p) PROVE IInv'
  <2>1. Ends(c, p, "expired") /\ "expired" \in Answer /\ "expired" \in PairingStatus
    BY <1>9 DEF Expired, Answer, PairingStatus
  <2>2. /\ status' = [status EXCEPT ![p] = "expired"]
        /\ attempts' = attempts /\ devices' = devices
        /\ seen[c].status = "pending"
    BY <1>9 DEF Expired
  <2>3. /\ attempts' = [attempts EXCEPT ![p] = attempts[p]]
        /\ attempts[p] \in 0..(MaxAttempts + 1)
        /\ status[p] = "pending"
    BY <1>7, <2>1, <2>2
  <2>4. "expired" # "pending" /\ status[p] # "confirmed" /\ "expired" # "confirmed"
    BY <2>3
  <2> QED
    BY <2>1, <2>2, <2>3, <2>4, RowWritten, Zenon
<1>10. ASSUME NEW c \in Calls, NEW p \in Pairings, TooMany(c, p) PROVE IInv'
  <2>1. /\ Ends(c, p, "too_many")
        /\ "too_many" \in Answer /\ "rejected" \in PairingStatus
    BY <1>10 DEF TooMany, Answer, PairingStatus
  <2>2. /\ status' = [status EXCEPT ![p] = "rejected"]
        /\ attempts' = [attempts EXCEPT ![p] = seen[c].attempts + 1]
        /\ devices' = devices
        /\ seen[c].status = "pending"
    BY <1>10 DEF TooMany, Open
  <2>3. seen[c].attempts + 1 \in 0..(MaxAttempts + 1)
    BY <1>7, <2>1, <2>2
  <2>4. "rejected" # "pending" /\ status[p] # "confirmed" /\ "rejected" # "confirmed"
    BY <1>7, <2>1, <2>2
  <2> QED
    BY <2>1, <2>2, <2>3, <2>4, RowWritten, Zenon
<1>11. ASSUME NEW c \in Calls, NEW p \in Pairings, Wrong(c, p) PROVE IInv'
  <2>1. Ends(c, p, "wrong") /\ "wrong" \in Answer
    BY <1>11 DEF Wrong, Answer
  <2>2. /\ status' = status /\ devices' = devices
        /\ attempts' = [attempts EXCEPT ![p] = seen[c].attempts + 1]
        /\ seen[c].attempts + 1 <= MaxAttempts
        /\ seen[c].status = "pending"
    BY <1>11 DEF Wrong, Open
  <2>3. seen[c].attempts + 1 \in 0..(MaxAttempts + 1)
    BY <1>7, <2>1, <2>2
  <2>4. /\ status[p] = "pending" /\ "pending" \in PairingStatus
        /\ status' = [status EXCEPT ![p] = "pending"]
    BY <1>7, <2>1, <2>2 DEF PairingStatus
  <2> QED
    BY <2>1, <2>2, <2>3, <2>4, RowWritten
<1>12. ASSUME NEW c \in Calls, NEW p \in Pairings, Pair(c, p) PROVE IInv'
  <2>1. /\ Ends(c, p, "paired")
        /\ "paired" \in Answer /\ "confirmed" \in PairingStatus
    BY <1>12 DEF Pair, Answer, PairingStatus
  <2>2. /\ status' = [status EXCEPT ![p] = "confirmed"]
        /\ attempts' = [attempts EXCEPT ![p] = seen[c].attempts + 1]
        /\ seen[c].attempts + 1 <= MaxAttempts
        /\ devices' = devices \cup {c}
        /\ seen[c].status = "pending"
    BY <1>12 DEF Pair, Open
  <2>3. seen[c].attempts + 1 \in 0..(MaxAttempts + 1)
    BY <1>7, <2>1, <2>2
  <2>4. status[p] = "pending"
    BY <1>7, <2>1, <2>2
  <2> QED
    BY <2>1, <2>2, <2>3, <2>4, RowWritten
<1>13. CASE UNCHANGED vars
  BY <1>13 DEF vars, rows, IInv, TypeOK, HasTarget, SeesRow, InRange,
               SweptPending, Made, PairedOnce
<1> QED
  BY <1>1, <1>2, <1>3, <1>4, <1>5, <1>6, <1>8, <1>9, <1>10, <1>11,
     <1>12, <1>13, Zenon DEF Next, Confirm

\* The fields of every row and call keep their types; in particular no request
\* counts past MaxAttempts + 1. (confirm_pairing rejects at the limit)
THEOREM TypeCorrect == Spec => []TypeOK
<1>1. IInv => TypeOK
  BY DEF IInv
<1> QED
  BY <1>1, InitIInv, NextIInv, PTL DEF Spec

\* A request is confirmed exactly when one call has created a device for it,
\* for any number of concurrent calls. (the FOR UPDATE of confirm_pairing)
THEOREM PairedOnceHolds == Spec => []PairedOnce
<1>1. IInv => PairedOnce
  BY DEF IInv
<1> QED
  BY <1>1, InitIInv, NextIInv, PTL DEF Spec

\* A decided request stays decided: neither a call that waited for the row nor
\* the sweep of the scheduler overwrites it.
THEOREM DecidedStaysHolds == Spec => DecidedStays
<1> DEFINE Stays == \A p \in Pairings :
                      status[p] \in {"confirmed", "expired", "rejected"}
                          => status'[p] = status[p]
<1>1. IInv /\ [Next]_vars => [Stays]_vars
  <2> SUFFICES ASSUME IInv, [Next]_vars PROVE Stays
    OBVIOUS
  <2> USE DEF IInv, TypeOK, rows, Answer
  <2>1. ASSUME NEW p \in Pairings, StartPairing(p) PROVE Stays
    BY <2>1 DEF StartPairing
  <2>2. CASE SweepEnd
    BY <2>2 DEF SweepEnd, Swept, SweptPending
  <2>3. ASSUME NEW c \in Calls, NEW p \in Pairings,
               Expired(c, p) \/ TooMany(c, p) \/ Pair(c, p)
        PROVE  Stays
    <3>1. seen[c].status = "pending" /\ \E a \in Answer : Ends(c, p, a)
      BY <2>3 DEF Expired, TooMany, Pair, Open
    <3>2. status[p] = "pending"
      BY <3>1, EndsKeeps
    <3>3. \E v \in PairingStatus : status' = [status EXCEPT ![p] = v]
      BY <2>3 DEF Expired, TooMany, Pair, PairingStatus
    <3> QED
      BY <3>2, <3>3
  <2>4. CASE UNCHANGED status
    BY <2>4
  <2> QED
    BY <2>1, <2>2, <2>3, <2>4
    DEF Next, Confirm, Pass, Sweep, Call, Lock, NotPending, Wrong, Fail, vars
<1>2. DecidedStays <=> [][Stays]_vars
  BY DEF DecidedStays
<1> QED
  BY <1>1, <1>2, InitIInv, NextIInv, PTL DEF Spec

-----------------------------------------------------------------------------
(* The counter *)

\* The calls that tried a code on p are finitely many, and counted. Until the
\* request is rejected the counter itself stays within the limit.
CountedOf(p) ==
    /\ IsFiniteSet(Tried(p))
    /\ Cardinality(Tried(p)) <= attempts[p]
    /\ Cardinality(Tried(p)) <= MaxAttempts

Counted == \A p \in Pairings : CountedOf(p)

\* An answer that does not judge the code leaves the calls that tried one.
LEMMA TriedKept ==
  ASSUME IInv, NEW p \in Pairings, target' = target,
         \A c \in Calls : reply'[c] \in {"wrong", "paired"}
                             <=> reply[c] \in {"wrong", "paired"}
  PROVE  Tried(p)' = Tried(p)
BY DEF Tried

\* A step that leaves them and lowers no counter keeps the count.
LEMMA CountKept ==
  ASSUME Counted, NEW p \in Pairings, Tried(p)' = Tried(p),
         attempts[p] \in Nat, attempts'[p] \in Nat, attempts[p] <= attempts'[p]
  PROVE  CountedOf(p)'
<1>1. /\ IsFiniteSet(Tried(p)) /\ Cardinality(Tried(p)) <= attempts[p]
      /\ Cardinality(Tried(p)) <= MaxAttempts
  BY DEF Counted, CountedOf
<1>2. Cardinality(Tried(p)) \in Nat
  BY <1>1, FS_CardinalityType
<1>3. Cardinality(Tried(p)) <= attempts'[p]
  BY <1>1, <1>2
<1> QED
  BY <1>1, <1>3 DEF CountedOf

\* A code that is judged is one more, and the counter goes up with it.
LEMMA CountRaised ==
  ASSUME IInv, Counted, NEW c \in Calls, NEW p \in Pairings,
         NEW a \in {"wrong", "paired"}, Ends(c, p, a),
         seen[c].attempts + 1 <= MaxAttempts,
         attempts' = [attempts EXCEPT ![p] = seen[c].attempts + 1]
  PROVE  Counted'
<1>1. /\ target' = target /\ reply' = [reply EXCEPT ![c] = a]
      /\ seen[c].attempts = attempts[p]
  BY EndsKeeps DEF Answer
<1>2. reply[c] = "run" /\ target[c] = p
  BY DEF Ends
<1>3. attempts[p] \in Nat /\ MaxAttempts \in Nat
  BY DEF IInv, TypeOK
<1>4. attempts'[p] = attempts[p] + 1 /\ attempts[p] + 1 <= MaxAttempts
  BY <1>1 DEF IInv, TypeOK
<1>5. Tried(p)' = Tried(p) \cup {c} /\ c \notin Tried(p)
  BY <1>1, <1>2 DEF Tried, IInv, TypeOK
<1>6. /\ IsFiniteSet(Tried(p)) /\ Cardinality(Tried(p)) <= attempts[p]
      /\ Cardinality(Tried(p)) \in Nat
  BY FS_CardinalityType DEF Counted, CountedOf
<1>7. /\ IsFiniteSet(Tried(p)')
      /\ Cardinality(Tried(p)') = Cardinality(Tried(p)) + 1
  BY <1>5, <1>6, FS_AddElement
<1>8. CountedOf(p)'
  <2>1. /\ Cardinality(Tried(p)') <= attempts'[p]
        /\ Cardinality(Tried(p)') <= MaxAttempts
    BY <1>3, <1>4, <1>6, <1>7
  <2> QED
    BY <1>7, <2>1 DEF CountedOf
<1>9. ASSUME NEW q \in Pairings, q # p PROVE CountedOf(q)'
  <2>1. Tried(q)' = Tried(q)
    BY <1>1, <1>2, <1>9 DEF Tried, IInv, TypeOK
  <2>2. attempts'[q] = attempts[q] /\ attempts[q] \in Nat
    BY <1>9 DEF IInv, TypeOK
  <2> QED
    BY <2>1, <2>2, CountKept
<1> QED
  BY <1>8, <1>9 DEF Counted

LEMMA NextCounted == IInv /\ Counted /\ [Next]_vars => Counted'
<1> SUFFICES ASSUME IInv, Counted, [Next]_vars PROVE Counted'
  OBVIOUS
<1> USE DEF rows
<1>1. ASSUME target' = target, NEW c \in Calls,
             NEW b \in {"wait", "run", "not_pending", "expired", "too_many", "failed"},
             reply[c] \in {"idle", "wait", "run"},
             reply' = [reply EXCEPT ![c] = b],
             \A p \in Pairings : attempts'[p] \in Nat /\ attempts[p] <= attempts'[p]
      PROVE  Counted'
  <2> SUFFICES ASSUME NEW p \in Pairings PROVE CountedOf(p)'
    BY DEF Counted
  <2>1. Tried(p)' = Tried(p)
    <3>1. \A d \in Calls : reply'[d] \in {"wrong", "paired"}
                               <=> reply[d] \in {"wrong", "paired"}
      BY <1>1 DEF IInv, TypeOK
    <3> QED BY <1>1, <3>1, TriedKept
  <2>2. attempts[p] \in Nat
    BY DEF IInv, TypeOK
  <2> QED BY <1>1, <2>1, <2>2, CountKept
<1>2. ASSUME target' = target, reply' = reply, attempts' = attempts
      PROVE  Counted'
  <2> SUFFICES ASSUME NEW p \in Pairings PROVE CountedOf(p)'
    BY DEF Counted
  <2>1. Tried(p)' = Tried(p)
    BY <1>2, TriedKept
  <2>2. attempts[p] \in Nat
    BY DEF IInv, TypeOK
  <2> QED BY <1>2, <2>1, <2>2, CountKept
<1>3. \A p \in Pairings : attempts[p] \in Nat
  BY DEF IInv, TypeOK
<1>4. ASSUME NEW c \in Calls, NEW p \in Pairings, NEW r \in BOOLEAN,
             Call(c, p, r)
      PROVE  Counted'
  <2> SUFFICES ASSUME NEW q \in Pairings PROVE CountedOf(q)'
    BY DEF Counted
  <2>1. Tried(q)' = Tried(q)
    BY <1>4 DEF Call, Tried, IInv, TypeOK
  <2>2. attempts'[q] = attempts[q]
    BY <1>4 DEF Call
  <2> QED BY <1>3, <2>1, <2>2, CountKept
<1>5. ASSUME NEW c \in Calls, NEW p \in Pairings, Lock(c, p) PROVE Counted'
  <2>1. /\ reply[c] = "wait" /\ reply' = [reply EXCEPT ![c] = "run"]
        /\ target' = target /\ attempts' = attempts
    BY <1>5 DEF Lock
  <2>2. \A q \in Pairings : attempts'[q] \in Nat /\ attempts[q] <= attempts'[q]
    BY <1>3, <2>1
  <2> QED BY <1>1, <2>1, <2>2
<1>6. ASSUME NEW c \in Calls, NEW p \in Pairings,
             NotPending(c, p) \/ Expired(c, p) \/ Fail(c, p)
      PROVE  Counted'
  <2>1. PICK b \in {"not_pending", "expired", "failed"} : Ends(c, p, b)
    BY <1>6 DEF NotPending, Expired, Fail
  <2>2. attempts' = attempts
    BY <1>6 DEF NotPending, Expired, Fail
  <2>3. \A q \in Pairings : attempts'[q] \in Nat /\ attempts[q] <= attempts'[q]
    BY <1>3, <2>2
  <2>4. /\ reply[c] = "run" /\ reply' = [reply EXCEPT ![c] = b]
        /\ target' = target
    BY <2>1 DEF Ends
  <2> QED BY <1>1, <2>3, <2>4
<1>7. ASSUME NEW c \in Calls, NEW p \in Pairings, TooMany(c, p) PROVE Counted'
  <2>1. Ends(c, p, "too_many")
        /\ attempts' = [attempts EXCEPT ![p] = seen[c].attempts + 1]
    BY <1>7 DEF TooMany
  <2>2. seen[c].attempts = attempts[p]
    BY <2>1, EndsKeeps DEF Answer
  <2>3. \A q \in Pairings : attempts'[q] \in Nat /\ attempts[q] <= attempts'[q]
    BY <1>3, <2>1, <2>2 DEF IInv, TypeOK
  <2>4. /\ reply[c] = "run" /\ reply' = [reply EXCEPT ![c] = "too_many"]
        /\ target' = target
    BY <2>1 DEF Ends
  <2> QED BY <1>1, <2>3, <2>4
<1>8. ASSUME NEW c \in Calls, NEW p \in Pairings, Wrong(c, p) \/ Pair(c, p)
      PROVE  Counted'
  <2>1. PICK a \in {"wrong", "paired"} : Ends(c, p, a)
    BY <1>8 DEF Wrong, Pair
  <2>2. /\ seen[c].attempts + 1 <= MaxAttempts
        /\ attempts' = [attempts EXCEPT ![p] = seen[c].attempts + 1]
    BY <1>8 DEF Wrong, Pair
  <2> QED BY <2>1, <2>2, CountRaised
<1>9. ASSUME NEW p \in Pairings, StartPairing(p) \/ Pass(p) \/ Sweep(p)
      PROVE  Counted'
  BY <1>2, <1>9 DEF StartPairing, Pass, Sweep
<1>10. CASE SweepEnd \/ UNCHANGED vars
  BY <1>2, <1>10 DEF SweepEnd, vars
<1> QED
  BY <1>4, <1>5, <1>6, <1>7, <1>8, <1>9, <1>10 DEF Next, Confirm

\* Every judged code is counted, and at most MaxAttempts codes of a request are
\* judged, for any number of concurrent and killed calls of confirm_pairing.
THEOREM AttemptsCountedHolds == Spec => []AttemptsCounted
<1>1. Init => Counted
  <2> SUFFICES ASSUME Init, NEW p \in Pairings PROVE CountedOf(p)
    BY DEF Counted
  <2>1. Tried(p) = {}
    BY DEF Init, Tried
  <2>2. attempts[p] = 0
    BY DEF Init
  <2> QED BY <2>1, <2>2, FS_EmptySet DEF CountedOf
<1>2. Counted => AttemptsCounted
  BY DEF Counted, CountedOf, AttemptsCounted
<1> QED
  BY <1>1, <1>2, InitIInv, NextIInv, NextCounted, PTL DEF Spec
=============================================================================
