---------------------- MODULE NotificationQueueProofs ----------------------
(***************************************************************************)
(* For every number of workers, rows, attempts and faults: the types, the  *)
(* safety invariants of NotificationQueue and the safety part of its       *)
(* contract.                                                               *)
(***************************************************************************)
EXTENDS NotificationQueue, TLAPS

-----------------------------------------------------------------------------
(***************************************************************************)
(* The inductive invariant.                                                *)
(***************************************************************************)

\* Attempts are only counted when an attempt was made.
CountsTries ==
  /\ \A n \in Notifs : attempts[n] <= tries[n] \/ ~Exists(n)
  /\ \A n \in Notifs : status[n] = "failed" => tries[n] >= MaxAttempts
  /\ \A w \in Workers, n \in Notifs : copy[w][n] < MaxAttempts /\ copy[w][n] <= tries[n]
  /\ \A w \in Workers : pc[w] = "retry" => copy[w][cur[w]] < tries[cur[w]]

\* What is recorded, or about to be recorded, as sent was sent.
RecordsSends ==
  /\ \A n \in Notifs : status[n] = "sent" => sends[n] > 0
  /\ \A w \in Workers : pc[w] = "sent" => sends[cur[w]] > 0

\* Rows belong to reminders that exist, and only rows that were inserted are
\* worked on.
RowsHaveReminders ==
  /\ \A n \in Notifs : Exists(n) => ReminderOf[n] \in existing
  /\ \A w \in Workers : pc[w] = "gone" => ReminderOf[cur[w]] \notin existing
  /\ \A n \in Notifs : status[n] = "absent" =>
       attempts[n] = 0 /\ sends[n] = 0 /\ tries[n] = 0 /\ ~Held(n)

\* A row no fault touched is held by one worker at most, under a live lease
\* unless the row was withdrawn meanwhile.
LeaseProtects ==
  \A n \in Notifs, w \in Workers : ~exposed[n] /\ n \in batch[w] =>
    /\ \A v \in Workers : n \in batch[v] => v = w
    /\ \/ status[n] \in {"cancelled", "deleted"}
       \/ status[n] = "pending" /\ lockedBy[n] = w /\ ~lapsed[n]

\* Once such a row was sent, the worker that sent it records it next.
SentOnce ==
  \A n \in Notifs : ~exposed[n] /\ sends[n] > 0 =>
    /\ sends[n] = 1
    /\ \A w \in Workers : n \in batch[w] => pc[w] = "sent" /\ cur[w] = n
    /\ Held(n) \/ status[n] \in {"sent", "deleted"}

QueueInv ==
  /\ TypeOK
  /\ PendingHasAttemptsLeft
  /\ CountsTries
  /\ RecordsSends
  /\ RowsHaveReminders
  /\ LeaseProtects
  /\ SentOnce

-----------------------------------------------------------------------------
\* An update of a row, with values of their types, keeps the table typed
\* (MarkSent, MarkFailed, ScheduleRetry, Retry).
LEMMA UpdateRowTyped ==
  ASSUME NEW n \in Notifs, NEW s \in Statuses, NEW a \in 0..MaxAttempts,
         NEW d \in BOOLEAN, RowTypeOK, UpdateRow(n, s, a, d)
  PROVE  RowTypeOK'
<1>1. CASE ~Exists(n)
  BY <1>1 DEF UpdateRow, RowTypeOK, rows
<1>2. CASE Exists(n)
  <2>1. /\ status' = [status EXCEPT ![n] = s]
        /\ attempts' = [attempts EXCEPT ![n] = a]
        /\ due' = [due EXCEPT ![n] = d]
        /\ Release(n)
    BY <1>2 DEF UpdateRow
  <2>2. status' \in [Notifs -> Statuses] /\ attempts' \in [Notifs -> 0..MaxAttempts]
    BY <2>1 DEF RowTypeOK
  <2>3. due' \in [Notifs -> BOOLEAN]
    BY <2>1 DEF RowTypeOK
  <2>4. lockedBy' \in [Notifs -> Workers \cup {NoWorker}] /\ lapsed' \in [Notifs -> BOOLEAN]
    BY <2>1 DEF RowTypeOK, Release
  <2> QED
    BY <2>2, <2>3, <2>4 DEF RowTypeOK
<1> QED
  BY <1>1, <1>2

\* A DELETE keeps the table typed (Remove, PruneNotifications).
LEMMA DeleteRowsTyped ==
  ASSUME NEW D \in SUBSET Notifs, RowTypeOK, DeleteRows(D)
  PROVE  RowTypeOK'
<1> USE QueueAssumption DEF DeleteRows, RowTypeOK
<1>1. status' \in [Notifs -> Statuses]
  BY DEF Statuses
<1>2. attempts' \in [Notifs -> 0..MaxAttempts]
  OBVIOUS
<1>3. due' \in [Notifs -> BOOLEAN] /\ lapsed' \in [Notifs -> BOOLEAN]
  OBVIOUS
<1>4. lockedBy' \in [Notifs -> Workers \cup {NoWorker}]
  OBVIOUS
<1> QED
  BY <1>1, <1>2, <1>3, <1>4

\* The UPDATE of a lease keeps the table typed (LeasePending).
LEMMA LeaseRowsTyped ==
  ASSUME NEW w \in Workers, NEW B \in Batches, RowTypeOK, LeaseRows(w, B)
  PROVE  RowTypeOK'
<1> USE DEF LeaseRows, RowTypeOK
<1>1. lockedBy' \in [Notifs -> Workers \cup {NoWorker}]
  OBVIOUS
<1>2. lapsed' \in [Notifs -> BOOLEAN]
  OBVIOUS
<1> QED
  BY <1>1, <1>2

\* An inserted row starts with nothing counted, sent or held (Enqueue).
LEMMA EnqueueKeeps ==
  ASSUME NEW n \in Notifs, NEW isDue \in BOOLEAN, QueueInv, Enqueue(n, isDue)
  PROVE  QueueInv'
<1> USE QueueAssumption DEF QueueInv, TypeOK, WorkerTypeOK, HistoryTypeOK,
                            Enqueue, rows, worker, history
<1> USE DEF RowTypeOK
<1>1. TypeOK'
  BY DEF Statuses, Stages
<1>2. PendingHasAttemptsLeft'
  BY DEF PendingHasAttemptsLeft, CountsTries, RowsHaveReminders
<1>3. CountsTries'
  BY DEF CountsTries, PendingHasAttemptsLeft, RowsHaveReminders, Exists
<1>4. RowsHaveReminders'
  BY DEF RowsHaveReminders, Exists, Held
<1>5. (RecordsSends /\ LeaseProtects /\ SentOnce)'
  BY DEF RecordsSends, LeaseProtects, Held, SentOnce
<1> QED
  BY <1>1, <1>2, <1>3, <1>4, <1>5

\* A lease takes rows that no other worker holds unless their lease lapsed
\* (process, LeasePending).
LEMMA LeasePendingKeeps ==
  ASSUME NEW w \in Workers, QueueInv, LeasePending(w)
  PROVE  QueueInv'
<1> USE QueueAssumption DEF QueueInv, TypeOK, WorkerTypeOK, HistoryTypeOK,
                            LeasePending, rows, worker, history
<1>1. TypeOK'
  <2>1. RowTypeOK'
    BY LeaseRowsTyped
  <2>2. (WorkerTypeOK /\ HistoryTypeOK)'
    BY DEF Stages, Batches, Leasable, RowTypeOK
  <2> QED
    BY <2>1, <2>2
<1> USE DEF RowTypeOK, LeaseRows, Batches, Leasable
<1>2. CountsTries'
  BY DEF CountsTries, PendingHasAttemptsLeft, RowsHaveReminders, Exists
<1>3. RowsHaveReminders'
  BY DEF RowsHaveReminders, Exists, Held
<1>4. LeaseProtects'
  BY DEF LeaseProtects, Held, Exists, RowsHaveReminders
<1>5. SentOnce'
  <2> SUFFICES ASSUME NEW n \in Notifs, ~exposed[n], sends[n] > 0
               PROVE  /\ sends[n] = 1
                      /\ \A v \in Workers : n \in batch'[v] => pc'[v] = "sent" /\ cur'[v] = n
                      /\ Held(n)' \/ status'[n] \in {"sent", "deleted"}
    BY DEF SentOnce
  <2>1. n \notin Leasable
    <3>1. CASE Held(n)
      BY <3>1 DEF SentOnce, LeaseProtects, Held
    <3>2. CASE ~Held(n)
      BY <3>2 DEF SentOnce
    <3> QED
      BY <3>1, <3>2
  <2>2. \A v \in Workers : n \in batch'[v] <=> n \in batch[v]
    BY <2>1 DEF Batches
  <2> QED
    BY <2>2 DEF SentOnce, Held, LeaseRows
<1>6. (PendingHasAttemptsLeft /\ RecordsSends)'
  BY DEF PendingHasAttemptsLeft, RecordsSends
<1> QED
  BY <1>1, <1>2, <1>3, <1>4, <1>5, <1>6

\* A lease nobody knows of holds nothing in any worker's hands (process).
LEMMA LeaseAnswerLostKeeps ==
  ASSUME NEW w \in Workers, QueueInv, LeaseAnswerLost(w)
  PROVE  QueueInv'
<1> USE QueueAssumption DEF QueueInv, TypeOK, WorkerTypeOK, HistoryTypeOK,
                            LeaseAnswerLost, Fault, rows, worker, history
<1>1. TypeOK'
  <2>1. RowTypeOK'
    BY LeaseRowsTyped
  <2>2. (WorkerTypeOK /\ HistoryTypeOK)'
    BY DEF Stages, Batches, Leasable, RowTypeOK
  <2> QED
    BY <2>1, <2>2
<1> USE DEF RowTypeOK, LeaseRows, Batches, Leasable
<1>2. LeaseProtects'
  BY DEF LeaseProtects, Held, Exists, RowsHaveReminders
<1>3. (PendingHasAttemptsLeft /\ CountsTries /\ RecordsSends /\ RowsHaveReminders /\ SentOnce)'
  BY DEF PendingHasAttemptsLeft, CountsTries, Exists, RecordsSends, RowsHaveReminders, Held, SentOnce
<1> QED
  BY <1>1, <1>2, <1>3

\* A worker takes up a row of its batch (deliver).
LEMMA LookupKeeps ==
  ASSUME NEW w \in Workers, QueueInv, Lookup(w)
  PROVE  QueueInv'
<1> USE QueueAssumption DEF QueueInv, TypeOK, WorkerTypeOK, HistoryTypeOK,
                            Lookup, rows, worker, history
<1> USE DEF RowTypeOK
<1>1. TypeOK'
  BY DEF Statuses, Stages
<1>2. RowsHaveReminders'
  BY DEF RowsHaveReminders, Exists, Held
<1>3. SentOnce'
  BY DEF SentOnce, Held, Exists, LeaseProtects, RecordsSends, RowsHaveReminders
<1>4. (PendingHasAttemptsLeft /\ CountsTries /\ RecordsSends /\ LeaseProtects)'
  BY DEF PendingHasAttemptsLeft, CountsTries, Exists, RecordsSends, LeaseProtects, Held
<1> QED
  BY <1>1, <1>2, <1>3, <1>4

\* A failed lookup is an attempt that was made (deliver).
LEMMA LookupFailsKeeps ==
  ASSUME NEW w \in Workers, QueueInv, LookupFails(w)
  PROVE  QueueInv'
<1> USE QueueAssumption DEF QueueInv, TypeOK, WorkerTypeOK, HistoryTypeOK,
                            LookupFails, rows, worker, history
<1> USE DEF RowTypeOK
<1>1. TypeOK'
  BY DEF Statuses, Stages
<1>2. CountsTries'
  BY DEF CountsTries, PendingHasAttemptsLeft, RowsHaveReminders, Exists
<1>3. RowsHaveReminders'
  BY DEF RowsHaveReminders, Exists, Held
<1>4. SentOnce'
  BY DEF SentOnce, Held, Exists, LeaseProtects, RecordsSends, RowsHaveReminders
<1>5. (PendingHasAttemptsLeft /\ RecordsSends /\ LeaseProtects)'
  BY DEF PendingHasAttemptsLeft, RecordsSends, LeaseProtects, Held
<1> QED
  BY <1>1, <1>2, <1>3, <1>4, <1>5

\* The first message of an unexposed row comes from its only holder (deliver).
LEMMA SendSucceedsKeeps ==
  ASSUME NEW w \in Workers, QueueInv, SendSucceeds(w)
  PROVE  QueueInv'
<1> USE QueueAssumption DEF QueueInv, TypeOK, WorkerTypeOK, HistoryTypeOK,
                            SendSucceeds, rows, worker, history
<1> USE DEF RowTypeOK
<1>1. TypeOK'
  BY DEF Statuses, Stages
<1>2. RecordsSends'
  BY DEF RecordsSends
<1>3. RowsHaveReminders'
  BY DEF RowsHaveReminders, Exists, Held
<1>4. SentOnce'
  BY DEF SentOnce, Held, Exists, LeaseProtects, RecordsSends, RowsHaveReminders
<1>5. (PendingHasAttemptsLeft /\ CountsTries /\ LeaseProtects)'
  BY DEF PendingHasAttemptsLeft, CountsTries, Exists, LeaseProtects, Held
<1> QED
  BY <1>1, <1>2, <1>3, <1>4, <1>5

\* A failed send is an attempt that was made (deliver, deliverSafe).
LEMMA SendFailsKeeps ==
  ASSUME NEW w \in Workers, QueueInv, SendFails(w)
  PROVE  QueueInv'
<1> USE QueueAssumption DEF QueueInv, TypeOK, WorkerTypeOK, HistoryTypeOK,
                            SendFails, rows, worker, history
<1> USE DEF RowTypeOK
<1>1. TypeOK'
  BY DEF Statuses, Stages
<1>2. CountsTries'
  BY DEF CountsTries, PendingHasAttemptsLeft, RowsHaveReminders, Exists
<1>3. RowsHaveReminders'
  BY DEF RowsHaveReminders, Exists, Held
<1>4. SentOnce'
  BY DEF SentOnce, Held, Exists, LeaseProtects, RecordsSends, RowsHaveReminders
<1>5. (PendingHasAttemptsLeft /\ RecordsSends /\ LeaseProtects)'
  BY DEF PendingHasAttemptsLeft, RecordsSends, LeaseProtects, Held
<1> QED
  BY <1>1, <1>2, <1>3, <1>4, <1>5

\* A send whose answer is lost exposes the row (deliver).
LEMMA SendAnswerLostKeeps ==
  ASSUME NEW w \in Workers, QueueInv, SendAnswerLost(w)
  PROVE  QueueInv'
<1> USE QueueAssumption DEF QueueInv, TypeOK, WorkerTypeOK, HistoryTypeOK,
                            SendAnswerLost, Fault, rows, worker, history
<1> USE DEF RowTypeOK
<1>1. TypeOK'
  BY DEF Statuses, Stages
<1>2. CountsTries'
  BY DEF CountsTries, PendingHasAttemptsLeft, RowsHaveReminders, Exists
<1>3. RecordsSends'
  BY DEF RecordsSends
<1>4. RowsHaveReminders'
  BY DEF RowsHaveReminders, Exists, Held
<1>5. SentOnce'
  BY DEF SentOnce, Held, Exists, LeaseProtects, RecordsSends, RowsHaveReminders
<1>6. (PendingHasAttemptsLeft /\ LeaseProtects)'
  BY DEF PendingHasAttemptsLeft, LeaseProtects, Held
<1> QED
  BY <1>1, <1>2, <1>3, <1>4, <1>5, <1>6

\* A row is recorded as sent by a worker that sent it (MarkSent).
LEMMA RecordSentKeeps ==
  ASSUME NEW w \in Workers, QueueInv, RecordSent(w)
  PROVE  QueueInv'
<1> USE QueueAssumption DEF QueueInv, TypeOK, WorkerTypeOK, HistoryTypeOK,
                            RecordSent, NextRow, MarkSent, rows, worker, history
<1>1. TypeOK'
  <2>1. RowTypeOK'
    <3>1. PICK m \in Notifs, s \in Statuses, a \in 0..MaxAttempts, d \in BOOLEAN :
            m = cur[w] /\ s = "sent" /\ a = attempts[cur[w]] /\ d = due[cur[w]]
      BY DEF Statuses, RowTypeOK
    <3>2. UpdateRow(m, s, a, d)
      BY <3>1
    <3> QED
      BY <3>1, <3>2, UpdateRowTyped
  <2>2. (WorkerTypeOK /\ HistoryTypeOK)'
    BY DEF Stages
  <2> QED
    BY <2>1, <2>2
<1> USE DEF RowTypeOK, UpdateRow, Release
<1>2. PendingHasAttemptsLeft'
  BY DEF PendingHasAttemptsLeft, CountsTries, RowsHaveReminders
<1>3. CountsTries'
  BY DEF CountsTries, PendingHasAttemptsLeft, RowsHaveReminders, Exists
<1>4. RecordsSends'
  BY DEF RecordsSends
<1>5. RowsHaveReminders'
  BY DEF RowsHaveReminders, Exists, Held
<1>6. LeaseProtects'
  BY DEF LeaseProtects, Held, Exists, RowsHaveReminders
<1>7. SentOnce'
  BY DEF SentOnce, Held, Exists, LeaseProtects, RecordsSends, RowsHaveReminders
<1> QED
  BY <1>1, <1>2, <1>3, <1>4, <1>5, <1>6, <1>7

\* A row whose reminder is gone went with it: the update finds no row
\* (deliver, MarkFailed).
LEMMA RecordGoneKeeps ==
  ASSUME NEW w \in Workers, QueueInv, RecordGone(w)
  PROVE  QueueInv'
<1> USE QueueAssumption DEF QueueInv, TypeOK, WorkerTypeOK, HistoryTypeOK,
                            RecordGone, NextRow, MarkFailed, rows, worker, history
<1>1. TypeOK'
  <2>1. RowTypeOK'
    <3>1. PICK m \in Notifs, s \in Statuses, a \in 0..MaxAttempts, d \in BOOLEAN :
            m = cur[w] /\ s = "failed" /\ a = MaxAttempts /\ d = due[cur[w]]
      BY DEF Statuses, RowTypeOK
    <3>2. UpdateRow(m, s, a, d)
      BY <3>1
    <3> QED
      BY <3>1, <3>2, UpdateRowTyped
  <2>2. (WorkerTypeOK /\ HistoryTypeOK)'
    BY DEF Stages
  <2> QED
    BY <2>1, <2>2
<1> USE DEF RowTypeOK, UpdateRow, Release
<1>2. CountsTries'
  BY DEF CountsTries, PendingHasAttemptsLeft, RowsHaveReminders, Exists
<1>3. RowsHaveReminders'
  BY DEF RowsHaveReminders, Exists, Held
<1>4. LeaseProtects'
  BY DEF LeaseProtects, Held, Exists, RowsHaveReminders
<1>5. SentOnce'
  BY DEF SentOnce, Held, Exists, LeaseProtects, RecordsSends, RowsHaveReminders
<1>6. (PendingHasAttemptsLeft /\ RecordsSends)'
  BY DEF PendingHasAttemptsLeft, RecordsSends
<1> QED
  BY <1>1, <1>2, <1>3, <1>4, <1>5, <1>6

\* The attempts written from a copy are attempts that were made, and stay
\* below the limit or fail the row (retry).
LEMMA RecordRetryKeeps ==
  ASSUME NEW w \in Workers, QueueInv, RecordRetry(w)
  PROVE  QueueInv'
<1> USE QueueAssumption DEF QueueInv, TypeOK, RowTypeOK, WorkerTypeOK, HistoryTypeOK,
                            RecordRetry, NextRow, RetryRow, MarkFailed, ScheduleRetry,
                            UpdateRow, Release, rows, worker, history
<1>0. PICK m \in Notifs, a \in 1..MaxAttempts :
        m = cur[w] /\ a = copy[w][m] + 1 /\ a <= tries[m]
  BY DEF CountsTries
<1>1. TypeOK'
  <2>1. RowTypeOK'
    <3>1. CASE ~Exists(m)
      BY <1>0, <3>1
    <3>2. CASE Exists(m)
      <4>1. /\ \/ status' = [status EXCEPT ![m] = "failed"] /\ due' = [due EXCEPT ![m] = due[m]]
               \/ status' = [status EXCEPT ![m] = status[m]] /\ due' = [due EXCEPT ![m] = FALSE]
            /\ attempts' = [attempts EXCEPT ![m] = a]
            /\ lockedBy' = [lockedBy EXCEPT ![m] = NoWorker]
            /\ lapsed' = [lapsed EXCEPT ![m] = FALSE]
        BY <1>0, <3>2
      <4>2. status' \in [Notifs -> Statuses] /\ attempts' \in [Notifs -> 0..MaxAttempts]
        BY <4>1 DEF Statuses
      <4> QED
        BY <4>1, <4>2
    <3> QED
      BY <3>1, <3>2
  <2>2. (WorkerTypeOK /\ HistoryTypeOK)'
    BY DEF Stages
  <2> QED
    BY <2>1, <2>2
<1>2. PendingHasAttemptsLeft'
  BY DEF PendingHasAttemptsLeft, CountsTries, RowsHaveReminders
<1>3. CountsTries'
  <2>1. \A n \in Notifs : attempts'[n] = IF n = m /\ Exists(n) THEN a ELSE attempts[n]
    BY <1>0
  <2>2. \A n \in Notifs : status'[n] = IF n = m /\ Exists(n) /\ a >= MaxAttempts
                                       THEN "failed" ELSE status[n]
    BY <1>0
  <2>3. \A n \in Notifs : attempts'[n] <= tries'[n] \/ ~Exists(n)'
    BY <1>0, <2>1, <2>2 DEF CountsTries, Exists
  <2>4. \A n \in Notifs : status'[n] = "failed" => tries'[n] >= MaxAttempts
    BY <1>0, <2>2 DEF CountsTries
  <2>5. \A v \in Workers, n \in Notifs : copy'[v][n] < MaxAttempts /\ copy'[v][n] <= tries'[n]
    BY <1>0 DEF CountsTries
  <2>6. \A v \in Workers : pc'[v] = "retry" => copy'[v][cur'[v]] < tries'[cur'[v]]
    BY DEF CountsTries, Stages
  <2> QED
    BY <2>3, <2>4, <2>5, <2>6 DEF CountsTries
<1>4. RowsHaveReminders'
  BY DEF RowsHaveReminders, Exists, Held
<1>5. LeaseProtects'
  BY DEF LeaseProtects, Held, Exists, RowsHaveReminders
<1>6. SentOnce'
  BY DEF SentOnce, Held, Exists, LeaseProtects, RecordsSends, RowsHaveReminders
<1>7. RecordsSends'
  BY DEF RecordsSends
<1> QED
  BY <1>1, <1>2, <1>3, <1>4, <1>5, <1>6, <1>7

\* An outcome that is not written exposes the row if it was sent (deliver).
LEMMA OutcomeLostKeeps ==
  ASSUME NEW w \in Workers, QueueInv, OutcomeLost(w)
  PROVE  QueueInv'
<1> USE QueueAssumption DEF QueueInv, TypeOK, WorkerTypeOK, HistoryTypeOK,
                            OutcomeLost, NextRow, Fault, rows, worker, history
<1> USE DEF RowTypeOK
<1>1. TypeOK'
  BY DEF Statuses, Stages
<1>2. RowsHaveReminders'
  BY DEF RowsHaveReminders, Exists, Held
<1>3. LeaseProtects'
  BY DEF LeaseProtects, Held, Exists, RowsHaveReminders
<1>4. SentOnce'
  <2> SUFFICES ASSUME NEW n \in Notifs, ~exposed'[n], sends[n] > 0
               PROVE  /\ sends[n] = 1
                      /\ \A v \in Workers : n \in batch'[v] => pc'[v] = "sent" /\ cur'[v] = n
                      /\ Held(n)' \/ status[n] \in {"sent", "deleted"}
    BY DEF SentOnce
  <2>1. ~exposed[n] /\ n # cur[w]
    BY DEF SentOnce
  <2>2. \A v \in Workers : n \in batch'[v] <=> n \in batch[v]
    BY <2>1
  <2> QED
    BY <2>1, <2>2 DEF SentOnce, Held
<1>5. (PendingHasAttemptsLeft /\ CountsTries /\ RecordsSends)'
  BY DEF PendingHasAttemptsLeft, CountsTries, Exists, RecordsSends
<1> QED
  BY <1>1, <1>2, <1>3, <1>4, <1>5

\* A crash exposes the row that was sent and not recorded (Run).
LEMMA CrashKeeps ==
  ASSUME NEW w \in Workers, QueueInv, Crash(w)
  PROVE  QueueInv'
<1> USE QueueAssumption DEF QueueInv, TypeOK, WorkerTypeOK, HistoryTypeOK,
                            Crash, Fault, rows, worker, history
<1> USE DEF RowTypeOK
<1>1. TypeOK'
  BY DEF Statuses, Stages
<1>2. RowsHaveReminders'
  BY DEF RowsHaveReminders, Exists, Held
<1>3. LeaseProtects'
  BY DEF LeaseProtects, Held, Exists, RowsHaveReminders
<1>4. SentOnce'
  <2> SUFFICES ASSUME NEW n \in Notifs, ~exposed'[n], sends[n] > 0
               PROVE  /\ sends[n] = 1
                      /\ \A v \in Workers : n \in batch'[v] => pc'[v] = "sent" /\ cur'[v] = n
                      /\ Held(n)' \/ status[n] \in {"sent", "deleted"}
    BY DEF SentOnce
  <2>1. ~exposed[n] /\ n \notin batch[w]
    BY DEF SentOnce
  <2>2. \A v \in Workers : n \in batch'[v] <=> n \in batch[v]
    BY <2>1
  <2> QED
    BY <2>1, <2>2 DEF SentOnce, Held
<1>5. (PendingHasAttemptsLeft /\ CountsTries /\ RecordsSends)'
  BY DEF PendingHasAttemptsLeft, CountsTries, Exists, RecordsSends
<1> QED
  BY <1>1, <1>2, <1>3, <1>4, <1>5

\* The clock passes fire_at.
LEMMA ComesDueKeeps ==
  ASSUME NEW n \in Notifs, QueueInv, ComesDue(n)
  PROVE  QueueInv'
<1> USE QueueAssumption DEF QueueInv, TypeOK, WorkerTypeOK, HistoryTypeOK,
                            ComesDue, rows, worker, history
<1> USE DEF RowTypeOK
<1>1. TypeOK'
  BY DEF Statuses, Stages
<1>2. (PendingHasAttemptsLeft /\ CountsTries /\ RecordsSends /\ RowsHaveReminders /\ LeaseProtects /\ SentOnce)'
  BY DEF PendingHasAttemptsLeft, CountsTries, Exists, RecordsSends, RowsHaveReminders, Held, LeaseProtects, SentOnce
<1> QED
  BY <1>1, <1>2

\* A lapsed lease of nobody's protects nothing.
LEMMA OrphanLapsesKeeps ==
  ASSUME NEW n \in Notifs, QueueInv, OrphanLapses(n)
  PROVE  QueueInv'
<1> USE QueueAssumption DEF QueueInv, TypeOK, WorkerTypeOK, HistoryTypeOK,
                            OrphanLapses, Lapses, rows, worker, history
<1> USE DEF RowTypeOK
<1>1. TypeOK'
  BY DEF Statuses, Stages
<1>2. LeaseProtects'
  BY DEF LeaseProtects, Held, Exists, RowsHaveReminders
<1>3. (PendingHasAttemptsLeft /\ CountsTries /\ RecordsSends /\ RowsHaveReminders /\ SentOnce)'
  BY DEF PendingHasAttemptsLeft, CountsTries, Exists, RecordsSends, RowsHaveReminders, Held, SentOnce
<1> QED
  BY <1>1, <1>2, <1>3

\* A lease that lapses under its worker exposes the row.
LEMMA LeaseOverrunsKeeps ==
  ASSUME NEW n \in Notifs, QueueInv, LeaseOverruns(n)
  PROVE  QueueInv'
<1> USE QueueAssumption DEF QueueInv, TypeOK, WorkerTypeOK, HistoryTypeOK,
                            LeaseOverruns, Lapses, Fault, rows, worker, history
<1> USE DEF RowTypeOK
<1>1. TypeOK'
  BY DEF Statuses, Stages
<1>2. LeaseProtects'
  BY DEF LeaseProtects, Held, Exists, RowsHaveReminders
<1>3. (PendingHasAttemptsLeft /\ CountsTries /\ RecordsSends /\ RowsHaveReminders /\ SentOnce)'
  BY DEF PendingHasAttemptsLeft, CountsTries, Exists, RecordsSends, RowsHaveReminders, Held, SentOnce
<1> QED
  BY <1>1, <1>2, <1>3

\* Rows are withdrawn, also under a worker's hands (cancelPendingNotifications).
LEMMA CancelPendingKeeps ==
  ASSUME NEW r \in Reminders, QueueInv, CancelPending(r)
  PROVE  QueueInv'
<1> USE QueueAssumption DEF QueueInv, TypeOK, WorkerTypeOK, HistoryTypeOK,
                            CancelPending, rows, worker, history
<1> USE DEF RowTypeOK
<1>1. TypeOK'
  BY DEF Statuses, Stages
<1>2. LeaseProtects'
  BY DEF LeaseProtects, Held, Exists, RowsHaveReminders
<1>3. SentOnce'
  BY DEF SentOnce, Held, Exists, LeaseProtects, RecordsSends, RowsHaveReminders
<1>4. (PendingHasAttemptsLeft /\ CountsTries /\ RecordsSends /\ RowsHaveReminders)'
  BY DEF PendingHasAttemptsLeft, CountsTries, Exists, RecordsSends, RowsHaveReminders, Held
<1> QED
  BY <1>1, <1>2, <1>3, <1>4

\* A reminder goes with all its rows (Remove).
LEMMA RemoveReminderKeeps ==
  ASSUME NEW r \in Reminders, QueueInv, RemoveReminder(r)
  PROVE  QueueInv'
<1> USE QueueAssumption DEF QueueInv, TypeOK, WorkerTypeOK, HistoryTypeOK,
                            RemoveReminder, rows, worker, history
<1>1. TypeOK'
  <2>1. RowTypeOK'
    BY DeleteRowsTyped
  <2>2. (WorkerTypeOK /\ HistoryTypeOK)'
    BY DEF Stages
  <2> QED
    BY <2>1, <2>2
<1> USE DEF RowTypeOK, DeleteRows
<1>2. RowsHaveReminders'
  BY DEF RowsHaveReminders, Exists, Held
<1>3. LeaseProtects'
  BY DEF LeaseProtects, Held, Exists, RowsHaveReminders
<1>4. SentOnce'
  BY DEF SentOnce, Held, Exists, LeaseProtects, RecordsSends, RowsHaveReminders
<1>5. (PendingHasAttemptsLeft /\ CountsTries /\ RecordsSends)'
  BY DEF PendingHasAttemptsLeft, CountsTries, Exists, RecordsSends
<1> QED
  BY <1>1, <1>2, <1>3, <1>4, <1>5

\* The janitor deletes a settled row that nobody holds (PruneNotifications).
LEMMA PruneKeeps ==
  ASSUME NEW n \in Notifs, QueueInv, Prune(n)
  PROVE  QueueInv'
<1> USE QueueAssumption DEF QueueInv, TypeOK, WorkerTypeOK, HistoryTypeOK,
                            Prune, rows, worker, history
<1>1. TypeOK'
  <2>1. RowTypeOK'
    BY DeleteRowsTyped
  <2>2. (WorkerTypeOK /\ HistoryTypeOK)'
    BY DEF Stages
  <2> QED
    BY <2>1, <2>2
<1> USE DEF RowTypeOK, DeleteRows
<1>2. LeaseProtects'
  BY DEF LeaseProtects, Held, Exists, RowsHaveReminders
<1>3. SentOnce'
  BY DEF SentOnce, Held, Exists, LeaseProtects, RecordsSends, RowsHaveReminders
<1>4. (PendingHasAttemptsLeft /\ CountsTries /\ RecordsSends /\ RowsHaveReminders)'
  BY DEF PendingHasAttemptsLeft, CountsTries, Exists, RecordsSends, RowsHaveReminders, Held
<1> QED
  BY <1>1, <1>2, <1>3, <1>4

\* The operator's retry finds a failed row, which no worker holds unless a
\* fault touched it (Retry).
LEMMA RetryKeeps ==
  ASSUME NEW n \in Notifs, QueueInv, Retry(n)
  PROVE  QueueInv'
<1> USE QueueAssumption DEF QueueInv, TypeOK, WorkerTypeOK, HistoryTypeOK,
                            Retry, rows, worker, history
<1>1. TypeOK'
  <2>1. RowTypeOK'
    <3>1. PICK m \in Notifs, s \in Statuses, a \in 0..MaxAttempts, d \in BOOLEAN :
            m = n /\ s = "pending" /\ a = 0 /\ d = due[n]
      BY DEF Statuses, RowTypeOK
    <3>2. UpdateRow(m, s, a, d)
      BY <3>1
    <3> QED
      BY <3>1, <3>2, UpdateRowTyped
  <2>2. (WorkerTypeOK /\ HistoryTypeOK)'
    BY DEF Stages
  <2> QED
    BY <2>1, <2>2
<1> USE DEF RowTypeOK, UpdateRow, Release
<1>2. PendingHasAttemptsLeft'
  BY DEF PendingHasAttemptsLeft, CountsTries, RowsHaveReminders
<1>3. CountsTries'
  BY DEF CountsTries, PendingHasAttemptsLeft, RowsHaveReminders, Exists
<1>4. RowsHaveReminders'
  BY DEF RowsHaveReminders, Exists, Held
<1>5. LeaseProtects'
  BY DEF LeaseProtects, Held, Exists, RowsHaveReminders
<1>6. SentOnce'
  BY DEF SentOnce, Held, Exists, LeaseProtects, RecordsSends, RowsHaveReminders
<1>7. RecordsSends'
  BY DEF RecordsSends
<1> QED
  BY <1>1, <1>2, <1>3, <1>4, <1>5, <1>6, <1>7

-----------------------------------------------------------------------------
(***************************************************************************)
(* The theorems.                                                           *)
(***************************************************************************)

\* An empty table with idle workers satisfies the invariant.
LEMMA InitQueueInv == Init => QueueInv
<1> SUFFICES ASSUME Init PROVE QueueInv
  OBVIOUS
<1> USE QueueAssumption DEF Init
<1>1. TypeOK
  BY DEF TypeOK, RowTypeOK, WorkerTypeOK, HistoryTypeOK, Statuses, Stages, AnyNotif
<1>2. PendingHasAttemptsLeft /\ CountsTries /\ RecordsSends
  BY DEF PendingHasAttemptsLeft, CountsTries, RecordsSends, Exists
<1>3. RowsHaveReminders /\ LeaseProtects /\ SentOnce
  BY DEF RowsHaveReminders, LeaseProtects, SentOnce, Exists, Held
<1> QED
  BY <1>1, <1>2, <1>3 DEF QueueInv

\* Every step of the workers, the clock and the other users of the table
\* keeps the invariant.
LEMMA StepKeepsQueueInv == QueueInv /\ [Next]_vars => QueueInv'
<1> SUFFICES ASSUME QueueInv, [Next]_vars PROVE QueueInv'
  OBVIOUS
<1>1. ASSUME NEW w \in Workers, LeasePending(w) \/ WorkerStep(w) \/ WorkerFault(w)
      PROVE  QueueInv'
  BY <1>1, LeasePendingKeeps, LeaseAnswerLostKeeps, LookupKeeps, LookupFailsKeeps,
     SendSucceedsKeeps, SendFailsKeeps, SendAnswerLostKeeps, RecordSentKeeps,
     RecordGoneKeeps, RecordRetryKeeps, OutcomeLostKeeps, CrashKeeps
     DEF WorkerStep, WorkerFault
<1>2. ASSUME NEW n \in Notifs, TimeStep(n) \/ Prune(n) \/ Retry(n)
      PROVE  QueueInv'
  BY <1>2, ComesDueKeeps, OrphanLapsesKeeps, LeaseOverrunsKeeps, PruneKeeps, RetryKeeps
     DEF TimeStep
<1>3. ASSUME NEW n \in Notifs, NEW isDue \in BOOLEAN, Enqueue(n, isDue)
      PROVE  QueueInv'
  BY <1>3, EnqueueKeeps
<1>4. ASSUME NEW r \in Reminders, CancelPending(r) \/ RemoveReminder(r)
      PROVE  QueueInv'
  BY <1>4, CancelPendingKeeps, RemoveReminderKeeps
<1>5. ASSUME UNCHANGED vars
      PROVE  QueueInv'
  <2> USE <1>5 DEF QueueInv, vars, rows, worker, history
  <2>1. TypeOK' /\ PendingHasAttemptsLeft' /\ CountsTries'
    BY DEF TypeOK, RowTypeOK, WorkerTypeOK, HistoryTypeOK, PendingHasAttemptsLeft,
           CountsTries, Exists
  <2>2. RecordsSends' /\ RowsHaveReminders' /\ LeaseProtects' /\ SentOnce'
    BY DEF RecordsSends, RowsHaveReminders, LeaseProtects, SentOnce, Exists, Held
  <2> QED
    BY <2>1, <2>2
<1> QED
  BY <1>1, <1>2, <1>3, <1>4, <1>5 DEF Next

\* The invariant of all the queue's code together: Enqueue, LeasePending,
\* deliver, retry and the statements that withdraw, delete or requeue rows.
THEOREM QueueInvariant == Spec => []QueueInv
BY InitQueueInv, StepKeepsQueueInv, PTL DEF Spec

\* Every reachable state of the queue is well typed; in particular no column
\* attempts ever exceeds maxAttempts.
THEOREM QueueTypeCorrect == Spec => []TypeOK
<1>1. QueueInv => TypeOK
  BY DEF QueueInv
<1> QED
  BY <1>1, QueueInvariant, PTL

\* However many workers poll the table, a message is only ever sent twice
\* after an overrun lease, a crash or a lost answer.
THEOREM NoDuplicates == Spec => []NoDuplicateUnlessExposed
<1>1. QueueInv => NoDuplicateUnlessExposed
  BY DEF QueueInv, TypeOK, HistoryTypeOK, SentOnce, NoDuplicateUnlessExposed
<1> QED
  BY <1>1, QueueInvariant, PTL

\* A pending row always has an attempt left, whatever stale copy of it a
\* worker last wrote from.
THEOREM AttemptsLeft == Spec => []PendingHasAttemptsLeft
<1>1. QueueInv => PendingHasAttemptsLeft
  BY DEF QueueInv
<1> QED
  BY <1>1, QueueInvariant, PTL

\* A row no fault touched is out of every worker's hands once it is settled.
THEOREM SettledReleased == Spec => []SettledIsReleased
<1>1. QueueInv => SettledIsReleased
  BY DEF QueueInv, LeaseProtects, SettledIsReleased, Held
<1> QED
  BY <1>1, QueueInvariant, PTL

\* No single step disturbs a withdrawn row at rest (LeasePending, the outcome
\* writes, Retry).
LEMMA StepKeepsRest ==
  ASSUME QueueInv, [Next]_vars, NEW n \in Notifs, AtRest(n)
  PROVE  AtRest(n)' \/ status'[n] = "deleted"
<1> USE DEF QueueInv, TypeOK, RowTypeOK, WorkerTypeOK, AtRest, Held, rows, worker
<1>1. ASSUME NEW w \in Workers, LeasePending(w) \/ LeaseAnswerLost(w)
      PROVE  AtRest(n)'
  BY <1>1 DEF LeasePending, LeaseAnswerLost, LeaseRows, Batches, Leasable
<1>2. ASSUME NEW w \in Workers,
             Lookup(w) \/ LookupFails(w) \/ SendSucceeds(w) \/ SendFails(w)
               \/ SendAnswerLost(w) \/ OutcomeLost(w) \/ Crash(w)
      PROVE  AtRest(n)'
  <2>1. status' = status
    BY <1>2 DEF Lookup, LookupFails, SendSucceeds, SendFails, SendAnswerLost,
                OutcomeLost, Crash
  <2>2. \A v \in Workers : batch'[v] \subseteq batch[v]
    BY <1>2 DEF Lookup, LookupFails, SendSucceeds, SendFails, SendAnswerLost,
                OutcomeLost, Crash, NextRow
  <2> QED
    BY <2>1, <2>2
<1>3. ASSUME NEW w \in Workers, RecordSent(w) \/ RecordGone(w) \/ RecordRetry(w)
      PROVE  AtRest(n)'
  <2>1. n # cur[w]
    BY <1>3 DEF RecordSent, RecordGone, RecordRetry
  <2> QED
    BY <1>3, <2>1 DEF RecordSent, RecordGone, RecordRetry, NextRow, MarkSent,
                      RetryRow, MarkFailed, ScheduleRetry, UpdateRow
<1>4. ASSUME NEW m \in Notifs, TimeStep(m) \/ Retry(m)
      PROVE  AtRest(n)'
  BY <1>4 DEF TimeStep, ComesDue, OrphanLapses, LeaseOverruns, Lapses, Retry, UpdateRow
<1>5. ASSUME NEW m \in Notifs, NEW isDue \in BOOLEAN, Enqueue(m, isDue)
      PROVE  AtRest(n)'
  BY <1>5 DEF Enqueue
<1>6. ASSUME NEW r \in Reminders, CancelPending(r)
      PROVE  AtRest(n)'
  BY <1>6 DEF CancelPending
<1>7. ASSUME UNCHANGED vars
      PROVE  AtRest(n)'
  BY <1>7 DEF vars
<1>8. ASSUME NEW r \in Reminders, RemoveReminder(r)
      PROVE  AtRest(n)' \/ status'[n] = "deleted"
  BY <1>8 DEF RemoveReminder, DeleteRows
<1>9. ASSUME NEW m \in Notifs, Prune(m)
      PROVE  AtRest(n)'
  BY <1>9 DEF Prune, DeleteRows
<1> QED
  BY <1>1, <1>2, <1>3, <1>4, <1>5, <1>6, <1>7, <1>8, <1>9
     DEF Next, WorkerStep, WorkerFault

\* A withdrawn notification that no worker holds is never brought back: not
\* by a lease, not by a late outcome, not by the operator's retry.
THEOREM WithdrawnRests == Spec => WithdrawnStaysAtRest
<1>1. QueueInv /\ [Next]_vars
        => [\A n \in Notifs : AtRest(n) => AtRest(n)' \/ status'[n] = "deleted"]_vars
  BY StepKeepsRest
<1> QED
  BY <1>1, QueueInvariant, PTL DEF Spec, WithdrawnStaysAtRest

-----------------------------------------------------------------------------
(***************************************************************************)
(* The queue implements DeliveryContract.                                  *)
(***************************************************************************)

\* Every status of the table is a stage of the contract.
LEMMA StageType == \A s \in Statuses : StageOf(s) \in Contract!ContractStages
BY DEF Statuses, StageOf, Contract!ContractStages

\* What each kind of step does to the rows, as the contract sees it.
LEMMA StatusMoves ==
  ASSUME QueueInv, [Next]_vars, NEW n \in Notifs, status'[n] # status[n]
  PROVE  \/ status[n] = "absent" /\ status'[n] = "pending"
         \/ status[n] \notin {"absent", "deleted"} /\ status'[n] = "deleted"
         \/ status[n] \notin {"absent", "deleted"} /\ status'[n] = "sent" /\ sends[n] > 0
         \/ /\ status[n] \notin {"absent", "deleted"} /\ status'[n] = "failed"
            /\ tries[n] >= MaxAttempts
         \/ status[n] = "pending" /\ status'[n] = "cancelled"
         \/ status[n] = "failed" /\ status'[n] = "pending"
<1> USE DEF QueueInv, TypeOK, RowTypeOK, WorkerTypeOK, rows
<1>1. ASSUME NEW w \in Workers, RecordSent(w)
      PROVE  Exists(n) /\ status'[n] = "sent" /\ sends[n] > 0
  BY <1>1 DEF RecordSent, MarkSent, UpdateRow, RecordsSends
<1>2. ASSUME NEW w \in Workers, RecordGone(w)
      PROVE  FALSE
  BY <1>2 DEF RecordGone, MarkFailed, UpdateRow, RowsHaveReminders
<1>3. ASSUME NEW w \in Workers, RecordRetry(w)
      PROVE  Exists(n) /\ status'[n] = "failed" /\ tries[n] >= MaxAttempts
  <2>1. PICK m \in Notifs, a \in Nat :
          m = cur[w] /\ a = copy[w][m] + 1 /\ a <= tries[m]
    BY <1>3, QueueAssumption DEF CountsTries, RecordRetry, HistoryTypeOK
  <2>2. Exists(m) /\ n = m
    BY <1>3, <2>1 DEF RecordRetry, RetryRow, MarkFailed, ScheduleRetry, UpdateRow
  <2>3. a >= MaxAttempts
    BY <1>3, <2>1, <2>2 DEF RecordRetry, RetryRow, ScheduleRetry, UpdateRow
  <2>4. status'[n] = "failed"
    BY <1>3, <2>1, <2>2, <2>3 DEF RecordRetry, RetryRow, MarkFailed, UpdateRow
  <2> QED
    BY <2>1, <2>2, <2>3, <2>4, QueueAssumption DEF HistoryTypeOK
<1>4. ASSUME NEW m \in Notifs, NEW isDue \in BOOLEAN, Enqueue(m, isDue)
      PROVE  status[n] = "absent" /\ status'[n] = "pending"
  BY <1>4 DEF Enqueue
<1>5. ASSUME NEW r \in Reminders, CancelPending(r)
      PROVE  status[n] = "pending" /\ status'[n] = "cancelled"
  BY <1>5 DEF CancelPending
<1>6. ASSUME NEW r \in Reminders, RemoveReminder(r)
      PROVE  Exists(n) /\ status'[n] = "deleted"
  BY <1>6 DEF RemoveReminder, DeleteRows
<1>7. ASSUME NEW m \in Notifs, Prune(m)
      PROVE  Exists(n) /\ status'[n] = "deleted"
  BY <1>7 DEF Prune, DeleteRows, Exists
<1>8. ASSUME NEW m \in Notifs, Retry(m)
      PROVE  status[n] = "failed" /\ status'[n] = "pending"
  BY <1>8 DEF Retry, UpdateRow
<1>9. ASSUME NEW w \in Workers,
             LeasePending(w) \/ LeaseAnswerLost(w) \/ Lookup(w) \/ LookupFails(w)
               \/ SendSucceeds(w) \/ SendFails(w) \/ SendAnswerLost(w)
               \/ OutcomeLost(w) \/ Crash(w)
      PROVE  FALSE
  BY <1>9 DEF LeasePending, LeaseAnswerLost, LeaseRows, Lookup, LookupFails, SendSucceeds,
              SendFails, SendAnswerLost, OutcomeLost, Crash
<1>10. ASSUME NEW m \in Notifs, TimeStep(m)
       PROVE  FALSE
  BY <1>10 DEF TimeStep, ComesDue, OrphanLapses, LeaseOverruns, Lapses
<1> QED
  BY <1>1, <1>2, <1>3, <1>4, <1>5, <1>6, <1>7, <1>8, <1>9, <1>10
     DEF Next, WorkerStep, WorkerFault, Exists, vars

\* A step that makes an attempt leaves the rows alone and makes one attempt
\* only; every other step leaves the history alone.
LEMMA StepAttempts ==
  ASSUME QueueInv, [Next]_vars
  PROVE  \/ UNCHANGED <<sends, tries>>
         \/ UNCHANGED status /\ \E n \in Notifs : Contract!Attempt(n)
<1> USE DEF QueueInv, TypeOK, WorkerTypeOK
<1> DEFINE Tries(w) == LookupFails(w) \/ SendSucceeds(w) \/ SendFails(w) \/ SendAnswerLost(w)
<1>1. ASSUME NEW w \in Workers, Tries(w)
      PROVE  UNCHANGED status /\ \E n \in Notifs : Contract!Attempt(n)
  <2>1. PICK n \in batch[w] :
          \/ sends' = [sends EXCEPT ![n] = @ + 1] /\ tries' = tries
          \/ tries' = [tries EXCEPT ![n] = @ + 1] /\ sends' = sends
          \/ /\ sends' = [sends EXCEPT ![n] = @ + 1]
             /\ tries' = [tries EXCEPT ![n] = @ + 1]
    BY <1>1 DEF LookupFails, SendSucceeds, SendFails, SendAnswerLost
  <2>2. n \in Notifs /\ StageOf(status[n]) # "new"
    BY DEF RowsHaveReminders, Held, StageOf, RowTypeOK, Statuses
  <2>3. status' = status
    BY <1>1 DEF LookupFails, SendSucceeds, SendFails, SendAnswerLost, rows
  <2> QED
    BY <2>1, <2>2, <2>3 DEF Contract!Attempt
<1>2. ASSUME [Next]_vars, ~\E w \in Workers : Tries(w)
      PROVE  UNCHANGED <<sends, tries>>
  BY <1>2 DEF Next, WorkerStep, WorkerFault, TimeStep, LeasePending, LeaseAnswerLost, Lookup,
              RecordSent, RecordGone, RecordRetry, OutcomeLost, Crash, ComesDue,
              OrphanLapses, LeaseOverruns, Lapses, Enqueue, CancelPending,
              RemoveReminder, Prune, Retry, history, vars
<1> QED
  BY <1>1, <1>2

\* Every step of the queue is a step of the contract or a stutter (retry,
\* deliver, cancelPendingNotifications, Retry, the deletions).
LEMMA StepRefines == QueueInv /\ QueueInv' /\ [Next]_vars => [Contract!ContractNext]_(Contract!cvars)
<1> SUFFICES ASSUME QueueInv, QueueInv', [Next]_vars
             PROVE  Contract!ContractNext \/ UNCHANGED Contract!cvars
  OBVIOUS
<1>1. CASE UNCHANGED status /\ \E n \in Notifs : Contract!Attempt(n)
  BY <1>1 DEF Contract!ContractNext
<1>2. CASE UNCHANGED <<sends, tries>>
  <2> DEFINE stage == [n \in Notifs |-> StageOf(status[n])]
  <2>1. stage' \in [Notifs -> Contract!ContractStages]
    BY StageType DEF QueueInv, TypeOK, RowTypeOK
  <2>2. ASSUME NEW n \in Notifs, stage'[n] # stage[n]
        PROVE  stage'[n] \in Contract!MayBecome(n)
    <3>1. status'[n] # status[n]
      BY <2>2
    <3> QED
      BY <3>1, StatusMoves DEF Contract!MayBecome, StageOf, QueueInv, TypeOK, RowTypeOK, Statuses
  <2> QED
    BY <1>2, <2>1, <2>2 DEF Contract!ContractNext, Contract!Settle
<1> QED
  BY <1>1, <1>2, StepAttempts

\* The queue implements the contract: whatever the interleaving, the faults
\* and the other users of the table do, a row recorded as sent was sent and
\* a row recorded as failed had MaxAttempts failed attempts.
THEOREM QueueImplementsContract == Spec => ImplementsContract
<1>1. Init => Contract!ContractInit
  BY DEF Init, Contract!ContractInit, StageOf
<1> QED
  BY <1>1, StepRefines, QueueInvariant, PTL DEF Spec, ImplementsContract, Contract!ContractSpec
=============================================================================
