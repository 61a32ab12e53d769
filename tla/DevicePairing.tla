----------------------------- MODULE DevicePairing -----------------------------
(***************************************************************************)
(* Pairing requests of one device identity: start_pairing, concurrent      *)
(* calls of confirm_pairing and the scheduler's sweep of stale requests.   *)
(*                                                                         *)
(* A call locks the row of its request (SELECT ... FOR UPDATE), decides on *)
(* what it read and commits once; the lock goes with its transaction. The  *)
(* sweep is an UPDATE that waits for locked rows and keeps the rows it     *)
(* changed locked until the scheduler's transaction ends.                  *)
(***************************************************************************)
EXTENDS Naturals, FiniteSets

CONSTANTS
    Pairings,     \* pairing requests, all of one device_public_identity
    Calls,        \* calls of confirm_pairing
    MaxAttempts,  \* settings.MAX_PAIRING_ATTEMPTS
    InfoEnabled,  \* the scheduler's logger is enabled for INFO
    Scheduler,    \* owner of the locks of the sweep
    Nobody        \* no lock, no request

ASSUME AttemptsAssumption == MaxAttempts \in Nat
ASSUME InfoAssumption == InfoEnabled \in BOOLEAN
ASSUME OwnersAssumption ==
    Scheduler \notin Calls /\ Nobody \notin Calls \cup Pairings
        /\ Scheduler # Nobody

VARIABLES
    status,    \* pairing_requests.status, "none" before the row exists
    attempts,  \* pairing_requests.attempt_count
    overdue,   \* requests whose expires_at has passed
    lock,      \* transaction that holds the row
    target,    \* the request a call confirms
    right,     \* the code it was given matches the hash
    seen,      \* what it read under the lock
    reply,     \* "idle", "wait" and "run", then its answer
    devices    \* calls that created a device and its credential

rows == <<status, attempts>>
vars == <<rows, overdue, lock, target, right, seen, reply, devices>>

PairingStatus == {"pending", "confirmed", "expired", "rejected"}

Answer ==
    {"not_pending", "expired", "too_many", "wrong", "paired", "failed"}

View ==
    [status : PairingStatus, attempts : 0..(MaxAttempts + 1), late : BOOLEAN]

NoView == [status |-> "pending", attempts |-> 0, late |-> FALSE]

TypeOK ==
    /\ status \in [Pairings -> PairingStatus \cup {"none"}]
    /\ attempts \in [Pairings -> 0..(MaxAttempts + 1)]
    /\ overdue \in SUBSET Pairings
    /\ lock \in [Pairings -> Calls \cup {Scheduler, Nobody}]
    /\ target \in [Calls -> Pairings \cup {Nobody}]
    /\ right \in [Calls -> BOOLEAN]
    /\ seen \in [Calls -> View]
    /\ reply \in [Calls -> Answer \cup {"idle", "wait", "run"}]
    /\ devices \in SUBSET Calls

Init ==
    /\ status = [p \in Pairings |-> "none"]
    /\ attempts = [p \in Pairings |-> 0]
    /\ overdue = {}
    /\ lock = [p \in Pairings |-> Nobody]
    /\ target = [c \in Calls |-> Nobody]
    /\ right = [c \in Calls |-> FALSE]
    /\ seen = [c \in Calls |-> NoView]
    /\ reply = [c \in Calls |-> "idle"]
    /\ devices = {}

-----------------------------------------------------------------------------
(* DeviceService.start_pairing *)

\* Mutant of StartPairing: an expired request of the identity is used again.
StartAgain(p) ==
    /\ status[p] \in {"none", "expired"}
    /\ status' = [status EXCEPT ![p] = "pending"]
    /\ UNCHANGED <<attempts, overdue, lock, target, right, seen, reply, devices>>

StartPairing(p) ==
    /\ status[p] = "none"
    /\ status' = [status EXCEPT ![p] = "pending"]
    /\ UNCHANGED <<attempts, overdue, lock, target, right, seen, reply, devices>>

\* expires_at passes.
Pass(p) ==
    /\ status[p] # "none" /\ p \notin overdue
    /\ overdue' = overdue \cup {p}
    /\ UNCHANGED <<rows, lock, target, right, seen, reply, devices>>

-----------------------------------------------------------------------------
(* DeviceService.confirm_pairing *)

Call(c, p, r) ==
    /\ reply[c] = "idle" /\ status[p] # "none"
    /\ target' = [target EXCEPT ![c] = p]
    /\ right' = [right EXCEPT ![c] = r]
    /\ reply' = [reply EXCEPT ![c] = "wait"]
    /\ UNCHANGED <<rows, overdue, lock, seen, devices>>

ViewOf(p) ==
    [status |-> status[p], attempts |-> attempts[p], late |-> p \in overdue]

\* Mutant of Lock: the row is read without FOR UPDATE.
ReadUnlocked(c, p) ==
    /\ reply[c] = "wait" /\ target[c] = p
    /\ seen' = [seen EXCEPT ![c] = ViewOf(p)]
    /\ reply' = [reply EXCEPT ![c] = "run"]
    /\ UNCHANGED <<rows, overdue, lock, target, right, devices>>

\* The row as it is once the lock is granted; the clock is read right after.
Lock(c, p) ==
    /\ reply[c] = "wait" /\ target[c] = p
    /\ lock[p] = Nobody
    /\ lock' = [lock EXCEPT ![p] = c]
    /\ seen' = [seen EXCEPT ![c] = ViewOf(p)]
    /\ reply' = [reply EXCEPT ![c] = "run"]
    /\ UNCHANGED <<rows, overdue, target, right, devices>>

\* The transaction of a call ends and the call is answered.
Ends(c, p, answer) ==
    /\ reply[c] = "run" /\ target[c] = p
    /\ reply' = [reply EXCEPT ![c] = answer]
    /\ lock' = [lock EXCEPT ![p] = IF @ = c THEN Nobody ELSE @]
    /\ UNCHANGED <<overdue, target, right, seen>>

NotPending(c, p) ==
    /\ seen[c].status # "pending"
    /\ Ends(c, p, "not_pending")
    /\ UNCHANGED <<rows, devices>>

Expired(c, p) ==
    /\ seen[c].status = "pending" /\ seen[c].late
    /\ status' = [status EXCEPT ![p] = "expired"]
    /\ Ends(c, p, "expired")
    /\ UNCHANGED <<attempts, devices>>

Open(c) == seen[c].status = "pending" /\ ~seen[c].late

TooMany(c, p) ==
    /\ Open(c) /\ seen[c].attempts + 1 > MaxAttempts
    /\ attempts' = [attempts EXCEPT ![p] = seen[c].attempts + 1]
    /\ status' = [status EXCEPT ![p] = "rejected"]
    /\ Ends(c, p, "too_many")
    /\ UNCHANGED devices

\* The counter is committed before the error is raised.
Wrong(c, p) ==
    /\ Open(c) /\ seen[c].attempts + 1 <= MaxAttempts /\ ~right[c]
    /\ attempts' = [attempts EXCEPT ![p] = seen[c].attempts + 1]
    /\ Ends(c, p, "wrong")
    /\ UNCHANGED <<status, devices>>

\* Mutant of Pair: the device is created, the request is left as it is.
PairDeviceOnly(c, p) ==
    /\ Open(c) /\ seen[c].attempts + 1 <= MaxAttempts /\ right[c]
    /\ attempts' = [attempts EXCEPT ![p] = seen[c].attempts + 1]
    /\ devices' = devices \cup {c}
    /\ Ends(c, p, "paired")
    /\ UNCHANGED status

\* Device, credential, request and audit row in one commit.
Pair(c, p) ==
    /\ Open(c) /\ seen[c].attempts + 1 <= MaxAttempts /\ right[c]
    /\ attempts' = [attempts EXCEPT ![p] = seen[c].attempts + 1]
    /\ status' = [status EXCEPT ![p] = "confirmed"]
    /\ devices' = devices \cup {c}
    /\ Ends(c, p, "paired")

\* The database refuses or the process dies: nothing is committed.
Fail(c, p) ==
    /\ Ends(c, p, "failed")
    /\ UNCHANGED <<rows, devices>>

Confirm(c, p) ==
    \/ NotPending(c, p) \/ Expired(c, p) \/ TooMany(c, p) \/ Wrong(c, p)
    \/ Pair(c, p)

-----------------------------------------------------------------------------
(* SchedulerWorker._expire_stale_pairings *)

Swept == {p \in Pairings : lock[p] = Scheduler}

\* The UPDATE comes to a row, having waited for its lock.
Sweep(p) ==
    /\ status[p] = "pending" /\ p \in overdue /\ lock[p] = Nobody
    /\ lock' = [lock EXCEPT ![p] = Scheduler]
    /\ UNCHANGED <<rows, overdue, target, right, seen, reply, devices>>

\* Mutant of SweepEnd: the session is not closed.
SweepHangs ==
    /\ Swept # {}
    /\ UNCHANGED vars

\* The report of the sweep raises when INFO is enabled, and anything later in
\* run_tasks may: then the transaction is rolled back.
SweepEnd ==
    /\ Swept # {}
    /\ \/ /\ ~InfoEnabled
          /\ status' = [p \in Pairings |->
                          IF p \in Swept THEN "expired" ELSE status[p]]
       \/ UNCHANGED status
    /\ lock' = [p \in Pairings |-> IF p \in Swept THEN Nobody ELSE lock[p]]
    /\ UNCHANGED <<attempts, overdue, target, right, seen, reply, devices>>

-----------------------------------------------------------------------------
Next ==
    \/ \E p \in Pairings : StartPairing(p) \/ Pass(p) \/ Sweep(p)
    \/ SweepEnd
    \/ \E c \in Calls, p \in Pairings :
        \/ \E r \in BOOLEAN : Call(c, p, r)
        \/ Lock(c, p) \/ Confirm(c, p) \/ Fail(c, p)

Spec == Init /\ [][Next]_vars

\* Transactions end, and PostgreSQL grants a row lock to its waiters in the
\* order they came: a waiter is not passed over for ever.
FairSpec ==
    /\ Spec
    /\ WF_vars(SweepEnd)
    /\ \A c \in Calls, p \in Pairings :
        SF_vars(Lock(c, p)) /\ WF_vars(Confirm(c, p))

-----------------------------------------------------------------------------
(* Properties *)

\* Calls that were told whether their code is the right one.
Tried(p) == {c \in Calls : target[c] = p /\ reply[c] \in {"wrong", "paired"}}

\* Every answer that tells whether a code is right has been counted, whatever
\* calls run at the same time, fail or are killed, and no more than MaxAttempts
\* codes are tried. (attempt_count is committed before the ApiError)
AttemptsCounted ==
    \A p \in Pairings :
        /\ Cardinality(Tried(p)) <= attempts[p]
        /\ Cardinality(Tried(p)) <= MaxAttempts

\* A request is confirmed exactly when a device was created for it, and by
\* one call only. (the FOR UPDATE of confirm_pairing)
PairedOnce ==
    /\ \A p \in Pairings :
        status[p] = "confirmed" <=> \E c \in devices : target[c] = p
    /\ \A c, d \in devices : target[c] = target[d] => c = d

\* A request that is confirmed, expired or rejected stays so: a call that
\* waited for the row does not act on what it was before.
DecidedStays ==
    [][\A p \in Pairings :
        status[p] \in {"confirmed", "expired", "rejected"}
            => status'[p] = status[p]]_vars

\* Every call of confirm_pairing is answered, whoever holds the row.
CallsAnswered ==
    \A c \in Calls : reply[c] = "wait" ~> reply[c] \in Answer
=============================================================================
