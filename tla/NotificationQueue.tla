------------------------- MODULE NotificationQueue -------------------------
(***************************************************************************)
(* The outgoing queue of the bot: the table scheduled_notifications        *)
(* (internal/storage/postgres/notifications.go) and the delivery workers   *)
(* that lease rows from it, send them to Telegram and record the outcome   *)
(* (internal/delivery/worker.go).                                          *)
(*                                                                         *)
(* A row is a member of Notifs for its whole life; KeyOf gives its         *)
(* idempotency key and ReminderOf the reminder it belongs to.  Time is     *)
(* abstracted to two facts the code compares with the clock: a row is due  *)
(* (fire_at <= now) and a lease has lapsed (locked_at is older than two    *)
(* minutes).  What a worker knows of a row is the copy it leased.          *)
(***************************************************************************)
EXTENDS Integers, FiniteSets

CONSTANTS
  Workers,      \* delivery workers, one per worker process
  Notifs,       \* rows the table may ever hold
  Reminders,    \* the reminders they belong to
  ReminderOf,   \* the reminder of a row
  KeyOf,        \* the idempotency key of a row
  NoWorker,     \* the null of the column locked_by
  MaxAttempts,  \* maxAttempts of both packages (5 in the code)
  BatchSize,    \* batchSize of the worker (20 in the code)
  MaxFaults,    \* bound: crashes, overrun leases and lost writes together
  MaxRequeues   \* bound: "remindctl notifications retry" commands

ASSUME QueueAssumption ==
  /\ Notifs # {}
  /\ NoWorker \notin Workers
  /\ ReminderOf \in [Notifs -> Reminders]
  /\ MaxAttempts \in Nat \ {0}
  /\ BatchSize \in Nat \ {0}
  /\ MaxFaults \in Nat
  /\ MaxRequeues \in Nat

VARIABLES
  status,     \* the column status, or "absent" before and "deleted" after
  attempts,   \* the column attempts
  due,        \* fire_at <= now
  lockedBy,   \* the column locked_by
  lapsed,     \* locked_at is more than two minutes ago
  existing,   \* the reminders that have a row of their own
  pc,         \* where a worker is in deliver()
  cur,        \* the row it is delivering
  batch,      \* the rows it leased and has not finished with
  copy,       \* the attempts it read when it leased them
  sends,      \* history: how often the user was sent the row's message
  tries,      \* history: how often an attempt at the row ended in retry()
  exposed,    \* history: a fault made a second message for the row possible
  faults,     \* faults so far
  requeues    \* operator retries so far

rows == <<status, attempts, due, lockedBy, lapsed>>
worker == <<pc, cur, batch, copy>>
history == <<sends, tries, exposed>>
vars == <<rows, existing, worker, history, faults, requeues>>

Statuses == {"absent", "pending", "sent", "failed", "cancelled", "deleted"}
Stages == {"idle", "found", "gone", "sent", "retry"}

Exists(n) == status[n] \notin {"absent", "deleted"}
Held(n) == \E w \in Workers : n \in batch[w]

(***************************************************************************)
(* Types and initial state: an empty table, idle workers.                  *)
(***************************************************************************)

RowTypeOK ==
  /\ status \in [Notifs -> Statuses]
  /\ attempts \in [Notifs -> 0..MaxAttempts]
  /\ due \in [Notifs -> BOOLEAN]
  /\ lockedBy \in [Notifs -> Workers \cup {NoWorker}]
  /\ lapsed \in [Notifs -> BOOLEAN]

WorkerTypeOK ==
  /\ pc \in [Workers -> Stages]
  /\ cur \in [Workers -> Notifs]
  /\ batch \in [Workers -> SUBSET Notifs]
  /\ copy \in [Workers -> [Notifs -> 0..MaxAttempts]]
  /\ \A w \in Workers : pc[w] # "idle" => cur[w] \in batch[w]

HistoryTypeOK ==
  /\ sends \in [Notifs -> Nat]
  /\ tries \in [Notifs -> Nat]
  /\ exposed \in [Notifs -> BOOLEAN]
  /\ faults \in Nat
  /\ requeues \in Nat

\* Every variable has its type; no row counts more attempts than it is
\* allowed, and a worker that delivers has a current row, one it leased.
TypeOK ==
  /\ RowTypeOK
  /\ existing \in SUBSET Reminders
  /\ WorkerTypeOK
  /\ HistoryTypeOK

AnyNotif == CHOOSE n \in Notifs : TRUE

Init ==
  /\ status = [n \in Notifs |-> "absent"]
  /\ attempts = [n \in Notifs |-> 0]
  /\ due = [n \in Notifs |-> FALSE]
  /\ lockedBy = [n \in Notifs |-> NoWorker]
  /\ lapsed = [n \in Notifs |-> FALSE]
  /\ existing = Reminders
  /\ pc = [w \in Workers |-> "idle"]
  /\ cur = [w \in Workers |-> AnyNotif]
  /\ batch = [w \in Workers |-> {}]
  /\ copy = [w \in Workers |-> [n \in Notifs |-> 0]]
  /\ sends = [n \in Notifs |-> 0]
  /\ tries = [n \in Notifs |-> 0]
  /\ exposed = [n \in Notifs |-> FALSE]
  /\ faults = 0
  /\ requeues = 0
-----------------------------------------------------------------------------
(***************************************************************************)
(* The statements of NotificationRepo.  Each is one transaction.           *)
(***************************************************************************)

Release(n) ==
  /\ lockedBy' = [lockedBy EXCEPT ![n] = NoWorker]
  /\ lapsed' = [lapsed EXCEPT ![n] = FALSE]

\* UPDATE ... WHERE id = n: it has no guard but the row's existence, whoever
\* holds the lease and whatever became of the row since it was leased.
UpdateRow(n, newStatus, newAttempts, newDue) ==
  IF Exists(n)
  THEN /\ status' = [status EXCEPT ![n] = newStatus]
       /\ attempts' = [attempts EXCEPT ![n] = newAttempts]
       /\ due' = [due EXCEPT ![n] = newDue]
       /\ Release(n)
  ELSE UNCHANGED rows

MarkSent(n) == UpdateRow(n, "sent", attempts[n], due[n])

MarkFailed(n, a) ==
  UpdateRow(n, IF a >= MaxAttempts THEN "failed" ELSE "pending", a, due[n])

\* The next delivery lies a backoff in the future; the status is not written.
ScheduleRetry(n, a) == UpdateRow(n, status[n], a, FALSE)

KeyTaken(n) == \E m \in Notifs : KeyOf[m] = KeyOf[n] /\ Exists(m)

\* INSERT ... ON CONFLICT (idempotency_key) DO NOTHING.  The row may be due
\* at once or later.  A row whose reminder is gone breaks the foreign key.
Enqueue(n, isDue) ==
  /\ status[n] = "absent"
  /\ ReminderOf[n] \in existing
  /\ ~KeyTaken(n)
  /\ status' = [status EXCEPT ![n] = "pending"]
  /\ due' = [due EXCEPT ![n] = isDue]
  /\ UNCHANGED <<attempts, lockedBy, lapsed, existing, worker, history,
                 faults, requeues>>

\* Mutant: the lock of another worker is not looked at.
LeasableDespiteLocks == {n \in Notifs : status[n] = "pending" /\ due[n]}

\* Mutant: a lock never lapses.
LeasableUnlocked ==
  {n \in Notifs : status[n] = "pending" /\ due[n] /\ lockedBy[n] = NoWorker}

\* Mutant: a row is leased whatever its status.
LeasableDespiteStatus ==
  {n \in Notifs : Exists(n) /\ due[n] /\ (lockedBy[n] = NoWorker \/ lapsed[n])}

Leasable ==
  {n \in Notifs : status[n] = "pending" /\ due[n]
                  /\ (lockedBy[n] = NoWorker \/ lapsed[n])}

\* LIMIT batchSize: every leasable row, or a full batch of them.
Batches ==
  {B \in SUBSET Leasable : /\ B # {}
                           /\ Cardinality(B) <= BatchSize
                           /\ B = Leasable \/ Cardinality(B) = BatchSize}

LeaseRows(w, B) ==
  /\ lockedBy' = [n \in Notifs |-> IF n \in B THEN w ELSE lockedBy[n]]
  /\ lapsed' = [n \in Notifs |-> IF n \in B THEN FALSE ELSE lapsed[n]]
  /\ UNCHANGED <<status, attempts, due>>

-----------------------------------------------------------------------------
(***************************************************************************)
(* A delivery worker: process() leases a batch, then deliver() takes its   *)
(* rows one after the other.                                               *)
(***************************************************************************)

Fault ==
  /\ faults < MaxFaults
  /\ faults' = faults + 1

LeasePending(w) ==
  /\ pc[w] = "idle"
  /\ batch[w] = {}
  /\ \E B \in Batches :
       /\ LeaseRows(w, B)
       /\ batch' = [batch EXCEPT ![w] = B]
       /\ copy' = [copy EXCEPT ![w] = [n \in Notifs |-> IF n \in B THEN attempts[n] ELSE 0]]
  /\ UNCHANGED <<existing, pc, cur, history, faults, requeues>>

\* The commit of the lease reports an error but has taken effect: process()
\* returns, and the rows stay locked until the lease lapses.
LeaseAnswerLost(w) ==
  /\ Fault
  /\ pc[w] = "idle"
  /\ batch[w] = {}
  /\ \E B \in Batches : LeaseRows(w, B)
  /\ UNCHANGED <<existing, worker, history, requeues>>

\* deliver() starts on a row of the batch and reads its reminder.
Lookup(w) ==
  /\ pc[w] = "idle"
  /\ \E n \in batch[w] :
       /\ cur' = [cur EXCEPT ![w] = n]
       /\ pc' = [pc EXCEPT ![w] = IF ReminderOf[n] \in existing THEN "found" ELSE "gone"]
  /\ UNCHANGED <<rows, existing, batch, copy, history, faults, requeues>>

\* reminders.Get fails for another reason than a missing row.
LookupFails(w) ==
  /\ pc[w] = "idle"
  /\ \E n \in batch[w] :
       /\ cur' = [cur EXCEPT ![w] = n]
       /\ tries' = [tries EXCEPT ![n] = @ + 1]
  /\ pc' = [pc EXCEPT ![w] = "retry"]
  /\ UNCHANGED <<rows, existing, batch, copy, sends, exposed, faults, requeues>>

\* Telegram accepts the message.  Neither the reminder's status nor the row's
\* is read again before.
SendSucceeds(w) ==
  /\ pc[w] = "found"
  /\ pc' = [pc EXCEPT ![w] = "sent"]
  /\ sends' = [sends EXCEPT ![cur[w]] = @ + 1]
  /\ UNCHANGED <<rows, existing, cur, batch, copy, tries, exposed, faults, requeues>>

\* sender.Send returns an error, or deliver() panics and deliverSafe recovers.
SendFails(w) ==
  /\ pc[w] = "found"
  /\ pc' = [pc EXCEPT ![w] = "retry"]
  /\ tries' = [tries EXCEPT ![cur[w]] = @ + 1]
  /\ UNCHANGED <<rows, existing, cur, batch, copy, sends, exposed, faults, requeues>>

\* The message reaches the user, but the answer to the worker is an error.
SendAnswerLost(w) ==
  /\ Fault
  /\ pc[w] = "found"
  /\ pc' = [pc EXCEPT ![w] = "retry"]
  /\ sends' = [sends EXCEPT ![cur[w]] = @ + 1]
  /\ tries' = [tries EXCEPT ![cur[w]] = @ + 1]
  /\ exposed' = [exposed EXCEPT ![cur[w]] = TRUE]
  /\ UNCHANGED <<rows, existing, cur, batch, copy, requeues>>

\* The worker is done with its current row and goes on to the next.
NextRow(w) ==
  /\ pc' = [pc EXCEPT ![w] = "idle"]
  /\ batch' = [batch EXCEPT ![w] = @ \ {cur[w]}]
  /\ copy' = [copy EXCEPT ![w][cur[w]] = 0]
  /\ UNCHANGED cur

RecordSent(w) ==
  /\ pc[w] = "sent"
  /\ MarkSent(cur[w])
  /\ NextRow(w)
  /\ UNCHANGED <<existing, history, faults, requeues>>

\* The reminder is gone: no point in another attempt.
RecordGone(w) ==
  /\ pc[w] = "gone"
  /\ MarkFailed(cur[w], MaxAttempts)
  /\ NextRow(w)
  /\ UNCHANGED <<existing, history, faults, requeues>>

\* Mutants: attempts are not bounded; the bound is off by one.
RetryRowForever(n, leased) == ScheduleRetry(n, leased + 1)

RetryRowTooOften(n, leased) ==
  IF leased >= MaxAttempts
  THEN MarkFailed(n, leased)
  ELSE ScheduleRetry(n, leased + 1)

\* retry(): the attempts written are those of the leased copy plus one.
RetryRow(n, leased) ==
  IF leased + 1 >= MaxAttempts
  THEN MarkFailed(n, leased + 1)
  ELSE ScheduleRetry(n, leased + 1)

RecordRetry(w) ==
  /\ pc[w] = "retry"
  /\ RetryRow(cur[w], copy[w][cur[w]])
  /\ NextRow(w)
  /\ UNCHANGED <<existing, history, faults, requeues>>

\* The write of an outcome fails; the worker logs it and goes on.
OutcomeLost(w) ==
  /\ Fault
  /\ pc[w] \in {"sent", "gone", "retry"}
  /\ NextRow(w)
  /\ exposed' = [exposed EXCEPT ![cur[w]] = @ \/ pc[w] = "sent"]
  /\ UNCHANGED <<rows, existing, sends, tries, requeues>>

\* The worker process dies and is started again; the leases stay in the table.
Crash(w) ==
  /\ Fault
  /\ batch[w] # {}
  /\ pc' = [pc EXCEPT ![w] = "idle"]
  /\ batch' = [batch EXCEPT ![w] = {}]
  /\ copy' = [copy EXCEPT ![w] = [n \in Notifs |-> 0]]
  /\ exposed' = [n \in Notifs |-> exposed[n] \/ (pc[w] = "sent" /\ cur[w] = n)]
  /\ UNCHANGED <<rows, existing, cur, sends, tries, requeues>>
-----------------------------------------------------------------------------
(***************************************************************************)
(* The clock, and the other users of the table.                            *)
(***************************************************************************)

\* fire_at passes.
ComesDue(n) ==
  /\ status[n] = "pending"
  /\ ~due[n]
  /\ due' = [due EXCEPT ![n] = TRUE]
  /\ UNCHANGED <<status, attempts, lockedBy, lapsed, existing, worker, history,
                 faults, requeues>>

Lapses(n) ==
  /\ lockedBy[n] # NoWorker
  /\ ~lapsed[n]
  /\ lapsed' = [lapsed EXCEPT ![n] = TRUE]
  /\ UNCHANGED <<status, attempts, due, lockedBy, existing, worker, sends,
                 tries, requeues>>

\* Two minutes pass over a lease nobody works under any more.
OrphanLapses(n) ==
  /\ ~Held(n)
  /\ Lapses(n)
  /\ UNCHANGED <<exposed, faults>>

\* Two minutes pass and the worker has not come to the end of its batch.
LeaseOverruns(n) ==
  /\ Fault
  /\ Held(n)
  /\ Lapses(n)
  /\ exposed' = [exposed EXCEPT ![n] = TRUE]

\* Mutant: rows are cancelled whatever their status.
CancelAll(r) ==
  LET Hit == {n \in Notifs : ReminderOf[n] = r /\ Exists(n)} IN
  /\ Hit # {}
  /\ status' = [n \in Notifs |-> IF n \in Hit THEN "cancelled" ELSE status[n]]
  /\ lockedBy' = [n \in Notifs |-> IF n \in Hit THEN NoWorker ELSE lockedBy[n]]
  /\ lapsed' = [n \in Notifs |-> IF n \in Hit THEN FALSE ELSE lapsed[n]]
  /\ UNCHANGED <<attempts, due, existing, worker, history, faults, requeues>>

\* cancelPendingNotifications, in the transactions that pause, edit, finish
\* or cancel a reminder.
CancelPending(r) ==
  LET Hit == {n \in Notifs : ReminderOf[n] = r /\ status[n] = "pending"} IN
  /\ Hit # {}
  /\ status' = [n \in Notifs |-> IF n \in Hit THEN "cancelled" ELSE status[n]]
  /\ lockedBy' = [n \in Notifs |-> IF n \in Hit THEN NoWorker ELSE lockedBy[n]]
  /\ lapsed' = [n \in Notifs |-> IF n \in Hit THEN FALSE ELSE lapsed[n]]
  /\ UNCHANGED <<attempts, due, existing, worker, history, faults, requeues>>

\* DELETE of some rows; what a deleted row held is forgotten.
DeleteRows(D) ==
  /\ status' = [n \in Notifs |-> IF n \in D THEN "deleted" ELSE status[n]]
  /\ attempts' = [n \in Notifs |-> IF n \in D THEN 0 ELSE attempts[n]]
  /\ due' = [n \in Notifs |-> IF n \in D THEN FALSE ELSE due[n]]
  /\ lockedBy' = [n \in Notifs |-> IF n \in D THEN NoWorker ELSE lockedBy[n]]
  /\ lapsed' = [n \in Notifs |-> IF n \in D THEN FALSE ELSE lapsed[n]]

\* DELETE of a reminder: the foreign key takes its notifications along.
RemoveReminder(r) ==
  /\ r \in existing
  /\ existing' = existing \ {r}
  /\ DeleteRows({n \in Notifs : ReminderOf[n] = r /\ Exists(n)})
  /\ UNCHANGED <<worker, history, faults, requeues>>

\* PruneNotifications, a week after fire_at: no lease is open that long.
Prune(n) ==
  /\ status[n] \in {"sent", "failed"}
  /\ ~Held(n)
  /\ DeleteRows({n})
  /\ UNCHANGED <<existing, worker, history, faults, requeues>>

\* Mutant: any row can be put back into the queue.
RetryAnyRow(n) ==
  /\ requeues < MaxRequeues
  /\ Exists(n)
  /\ requeues' = requeues + 1
  /\ UpdateRow(n, "pending", 0, due[n])
  /\ UNCHANGED <<existing, worker, history, faults>>

\* "remindctl notifications retry" on a failed row.
Retry(n) ==
  /\ requeues < MaxRequeues
  /\ status[n] = "failed"
  /\ requeues' = requeues + 1
  /\ UpdateRow(n, "pending", 0, due[n])
  /\ UNCHANGED <<existing, worker, history, faults>>

-----------------------------------------------------------------------------

\* What a worker does when nothing goes wrong with its process or its writes.
WorkerStep(w) ==
  \/ Lookup(w)
  \/ LookupFails(w)
  \/ SendSucceeds(w)
  \/ SendFails(w)
  \/ RecordSent(w)
  \/ RecordGone(w)
  \/ RecordRetry(w)

WorkerFault(w) ==
  \/ LeaseAnswerLost(w)
  \/ SendAnswerLost(w)
  \/ OutcomeLost(w)
  \/ Crash(w)

TimeStep(n) == ComesDue(n) \/ OrphanLapses(n) \/ LeaseOverruns(n)

Next ==
  \/ \E w \in Workers : LeasePending(w) \/ WorkerStep(w) \/ WorkerFault(w)
  \/ \E n \in Notifs : TimeStep(n) \/ Prune(n) \/ Retry(n)
  \/ \E n \in Notifs, isDue \in BOOLEAN : Enqueue(n, isDue)
  \/ \E r \in Reminders : CancelPending(r) \/ RemoveReminder(r)

Spec == Init /\ [][Next]_vars

\* The worker's ticker fires for ever, its loop goes through the batch
\* (Telegram calls return), and time passes.
Fairness ==
  /\ \A w \in Workers : WF_vars(LeasePending(w)) /\ WF_vars(WorkerStep(w))
  /\ \A n \in Notifs : WF_vars(ComesDue(n)) /\ WF_vars(OrphanLapses(n))

FairSpec == Spec /\ Fairness
-----------------------------------------------------------------------------
(***************************************************************************)
(* Properties.                                                             *)
(***************************************************************************)

\* The lease protocol keeps the user from getting a message twice: a row is
\* sent a second time only after a lease overran, a crash between sending
\* and recording, or an answer or write that was lost (deliver, LeasePending).
NoDuplicateUnlessExposed == \A n \in Notifs : sends[n] > 1 => exposed[n]

\* The last attempt of a row is its last: what is still pending has attempts
\* left, also when a worker writes from a copy older than the row (retry).
PendingHasAttemptsLeft ==
  \A n \in Notifs : status[n] = "pending" => attempts[n] < MaxAttempts

\* A withdrawn row that no worker holds stays silent: it is not leased again
\* and no later command brings it back (cancelPendingNotifications, Retry).
AtRest(n) == status[n] = "cancelled" /\ ~Held(n)

WithdrawnStaysAtRest ==
  [][\A n \in Notifs : AtRest(n) => AtRest(n)' \/ status'[n] = "deleted"]_vars

\* A row the lease protected is settled once and for all: when no fault
\* touched it, a row recorded as sent or failed is not held by any worker.
SettledIsReleased ==
  \A n \in Notifs : status[n] \in {"sent", "failed"} /\ ~exposed[n] => ~Held(n)

\* The contract, with the columns of the table as its stages.
StageOf(s) ==
  CASE s = "absent" -> "new"
    [] s = "pending" -> "open"
    [] s = "sent" -> "delivered"
    [] s = "failed" -> "abandoned"
    [] s = "cancelled" -> "withdrawn"
    [] s = "deleted" -> "forgotten"

Contract == INSTANCE DeliveryContract WITH stage <- [n \in Notifs |-> StageOf(status[n])]

\* The queue implements the contract: sent rows were sent, failed rows were
\* tried MaxAttempts times, and only pending rows are withdrawn.
ImplementsContract == Contract!ContractSpec

\* A pending row is in the end sent, failed, cancelled or deleted.
PendingIsSettled == Contract!EventuallySettled
=============================================================================
