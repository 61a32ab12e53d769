------------------------- MODULE CommandRequestsProofs -------------------------
(***************************************************************************)
(* Proofs about CommandRequests, for any requests, keys and types.         *)
(***************************************************************************)
EXTENDS CommandRequests, TLAPS

\* Every variable keeps its type, and an open insert belongs to a handler that
\* is about to commit: create_command's transaction ends with its call.
THEOREM TypeCorrect == Spec => []TypeOK
<1>1. Init => TypeOK
  BY DEF Init, TypeOK, Reply
<1>2. TypeOK /\ [Next]_vars => TypeOK'
  <2> SUFFICES ASSUME TypeOK, [Next]_vars PROVE TypeOK'
    OBVIOUS
  <2> USE DEF TypeOK, Reply, Replies, Goes, inputs
  <2>1. ASSUME NEW r \in Requests, CheckDevice(r) PROVE TypeOK'
    BY <2>1 DEF CheckDevice
  <2>2. ASSUME NEW r \in Requests, CheckStop(r) PROVE TypeOK'
    BY <2>2 DEF CheckStop
  <2>3. ASSUME NEW r \in Requests, Lookup(r) PROVE TypeOK'
    BY <2>3 DEF Lookup
  <2>4. ASSUME NEW r \in Requests, Invalid(r) PROVE TypeOK'
    BY <2>4 DEF Invalid
  <2>5. ASSUME NEW r \in Requests, Insert(r) PROVE TypeOK'
    BY <2>5 DEF Insert
  <2>6. ASSUME NEW r \in Requests, Commit(r) PROVE TypeOK'
    BY <2>6 DEF Commit
  <2>7. ASSUME NEW r \in Requests, Fail(r) PROVE TypeOK'
    BY <2>7 DEF Fail
  <2>8. CASE Revoke \/ ToggleStop \/ UNCHANGED vars
    BY <2>8 DEF Revoke, ToggleStop, vars
  <2> QED
    BY <2>1, <2>2, <2>3, <2>4, <2>5, <2>6, <2>7, <2>8 DEF Next, Handle
<1> QED
  BY <1>1, <1>2, PTL DEF Spec

-----------------------------------------------------------------------------
\* The commands that are committed or inserted have different keys: what the
\* index of uq_device_idempotency maintains.
Distinct ==
    \A q, r \in commands \cup inserted : key[q] = key[r] => q = r

LEMMA DistinctInvariant == Spec => []Distinct
<1>1. Init => Distinct
  BY DEF Init, Distinct
<1>2. TypeOK /\ Distinct /\ [Next]_vars => Distinct'
  <2> SUFFICES ASSUME TypeOK, Distinct, [Next]_vars PROVE Distinct'
    OBVIOUS
  <2> USE DEF TypeOK, Distinct, inputs
  <2>1. ASSUME NEW r \in Requests, Insert(r) PROVE Distinct'
    <3>1. key' = key /\ commands' = commands
      BY <2>1 DEF Insert
    <3>2. CASE inserted' = inserted
      BY <3>1, <3>2
    <3>3. CASE /\ \A q \in inserted : key[q] # key[r]
               /\ \A q \in commands : key[q] # key[r]
               /\ inserted' = inserted \cup {r}
      BY <3>1, <3>3
    <3> QED
      BY <2>1, <3>2, <3>3 DEF Insert
  <2>2. ASSUME NEW r \in Requests, Commit(r) PROVE Distinct'
    BY <2>2 DEF Commit
  <2>3. ASSUME NEW r \in Requests, CheckDevice(r) \/ CheckStop(r) \/ Lookup(r)
                                   \/ Invalid(r) \/ Fail(r)
        PROVE  Distinct'
    BY <2>3 DEF CheckDevice, CheckStop, Lookup, Invalid, Fail
  <2>4. CASE Revoke \/ ToggleStop \/ UNCHANGED vars
    BY <2>4 DEF Revoke, ToggleStop, vars
  <2> QED
    BY <2>1, <2>2, <2>3, <2>4 DEF Next, Handle
<1> QED
  BY <1>1, <1>2, TypeCorrect, PTL DEF Spec

\* One idempotency key makes at most one command, for any number of requests
\* at once and any that fail: the lookup of create_command alone would not do.
THEOREM OneCommandPerKeyHolds == Spec => []OneCommandPerKey
<1>1. Distinct => OneCommandPerKey
  BY DEF Distinct, OneCommandPerKey
<1> QED
  BY <1>1, DistinctInvariant, PTL

-----------------------------------------------------------------------------
\* A handler that has not ended has no command yet, and its answer is pending.
Unanswered ==
    \A r \in Requests :
        at[r] # "done" => r \notin commands /\ reply[r] = "none"

\* The two are inductive together.
LEMMA AnswerInvariant == Spec => [](Unanswered /\ AnswerIsTrue)
<1>1. Init => Unanswered /\ AnswerIsTrue
  BY DEF Init, Unanswered, AnswerIsTrue
<1>2. TypeOK /\ Unanswered /\ AnswerIsTrue /\ [Next]_vars
          => Unanswered' /\ AnswerIsTrue'
  <2> SUFFICES ASSUME TypeOK, Unanswered, AnswerIsTrue, [Next]_vars
               PROVE  Unanswered' /\ AnswerIsTrue'
    OBVIOUS
  <2> USE DEF TypeOK, Unanswered, AnswerIsTrue, Replies, Goes, inputs
  <2>1. ASSUME NEW r \in Requests, CheckDevice(r)
        PROVE  Unanswered' /\ AnswerIsTrue'
    BY <2>1 DEF CheckDevice
  <2>2. ASSUME NEW r \in Requests, CheckStop(r)
        PROVE  Unanswered' /\ AnswerIsTrue'
    BY <2>2 DEF CheckStop
  <2>3. ASSUME NEW r \in Requests, Lookup(r)
        PROVE  Unanswered' /\ AnswerIsTrue'
    BY <2>3 DEF Lookup
  <2>4. ASSUME NEW r \in Requests, Invalid(r)
        PROVE  Unanswered' /\ AnswerIsTrue'
    BY <2>4 DEF Invalid
  <2>5. ASSUME NEW r \in Requests, Insert(r)
        PROVE  Unanswered' /\ AnswerIsTrue'
    BY <2>5 DEF Insert
  <2>6. ASSUME NEW r \in Requests, Commit(r)
        PROVE  Unanswered' /\ AnswerIsTrue'
    BY <2>6 DEF Commit
  <2>7. ASSUME NEW r \in Requests, Fail(r)
        PROVE  Unanswered' /\ AnswerIsTrue'
    BY <2>7 DEF Fail
  <2>8. CASE Revoke \/ ToggleStop \/ UNCHANGED vars
    BY <2>8 DEF Revoke, ToggleStop, vars
  <2> QED
    BY <2>1, <2>2, <2>3, <2>4, <2>5, <2>6, <2>7, <2>8 DEF Next, Handle
<1> QED
  BY <1>1, <1>2, TypeCorrect, PTL DEF Spec

\* "created" is answered only for a command that is there, and refusals,
\* conflicts and errors leave none: create_command has one commit, at its end.
THEOREM AnswerIsTrueHolds == Spec => []AnswerIsTrue
BY AnswerInvariant, PTL

-----------------------------------------------------------------------------
(* The column as it is: trust_status loads as a string. *)

\* A request that has passed the check of the device exists only where
\* trust_status has a value, and what is committed has passed it.
PassedCheck ==
    ~StatusIsEnum =>
        commands = {} /\ \A r \in Requests : at[r] \in {"start", "done"}

LEMMA PassedCheckInvariant == Spec => []PassedCheck
<1>1. Init => PassedCheck
  BY DEF Init, PassedCheck
<1>2. TypeOK /\ PassedCheck /\ [Next]_vars => PassedCheck'
  <2> SUFFICES ASSUME TypeOK, PassedCheck, [Next]_vars, ~StatusIsEnum
               PROVE  commands' = {}
                      /\ \A r \in Requests : at'[r] \in {"start", "done"}
    BY DEF PassedCheck
  <2>0. commands = {} /\ \A r \in Requests : at[r] \in {"start", "done"}
    BY DEF PassedCheck
  <2> USE <2>0 DEF TypeOK, Replies, Goes, inputs
  <2>1. ASSUME NEW r \in Requests, CheckDevice(r) \/ Fail(r)
        PROVE  commands' = {}
               /\ \A q \in Requests : at'[q] \in {"start", "done"}
    BY <2>1 DEF CheckDevice, Fail
  <2>2. ASSUME NEW r \in Requests,
               CheckStop(r) \/ Lookup(r) \/ Invalid(r) \/ Insert(r) \/ Commit(r)
        PROVE  FALSE
    BY <2>2 DEF CheckStop, Lookup, Invalid, Insert, Commit
  <2>3. CASE Revoke \/ ToggleStop \/ UNCHANGED vars
    BY <2>3 DEF Revoke, ToggleStop, vars
  <2> QED
    BY <2>1, <2>2, <2>3 DEF Next, Handle
<1> QED
  BY <1>1, <1>2, TypeCorrect, PTL DEF Spec

\* With the column as the migrations make it, a String, create_command creates
\* no command at all, whatever requests come.
THEOREM StringColumnCreatesNothing ==
    Spec => [](~StatusIsEnum => commands = {})
<1>1. PassedCheck => (~StatusIsEnum => commands = {})
  BY DEF PassedCheck
<1> QED
  BY <1>1, PassedCheckInvariant, PTL

-----------------------------------------------------------------------------
\* Whoever is turned away for a key loses to a command that is there, for any
\* number of requests, keys and types, and with the column as it is or as an
\* Enum.
THEOREM LosersLoseToACommand == Spec => []LosesToACommand
<1>1. Init => LosesToACommand
  BY DEF Init, LosesToACommand
<1>2. TypeOK /\ Unanswered /\ LosesToACommand /\ [Next]_vars
          => LosesToACommand'
  <2> SUFFICES ASSUME TypeOK, Unanswered, LosesToACommand, [Next]_vars
               PROVE  LosesToACommand'
    OBVIOUS
  <2> USE DEF TypeOK, LosesToACommand, Replies, Goes, inputs
  <2>1. ASSUME NEW r \in Requests,
               CheckDevice(r) \/ CheckStop(r) \/ Invalid(r) \/ Fail(r)
        PROVE  LosesToACommand'
    BY <2>1 DEF CheckDevice, CheckStop, Invalid, Fail
  <2>2. ASSUME NEW r \in Requests, Lookup(r) PROVE LosesToACommand'
    BY <2>2 DEF Lookup, Unanswered
  <2>3. ASSUME NEW r \in Requests, Insert(r) PROVE LosesToACommand'
    BY <2>3 DEF Insert, Unanswered
  <2>4. ASSUME NEW r \in Requests, Commit(r) PROVE LosesToACommand'
    BY <2>4 DEF Commit
  <2>5. CASE Revoke \/ ToggleStop \/ UNCHANGED vars
    BY <2>5 DEF Revoke, ToggleStop, vars
  <2> QED
    BY <2>1, <2>2, <2>3, <2>4, <2>5 DEF Next, Handle
<1>3. Spec => []Unanswered
  BY AnswerInvariant, PTL
<1> QED
  BY <1>1, <1>2, <1>3, TypeCorrect, PTL DEF Spec
=============================================================================
