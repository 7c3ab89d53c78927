# Verification of the reminder bot

TLA+ models of the Telegram reminder bot in this repository, the TLC runs that
check them on small instances, and TLAPS proofs for every size of instance.
Paths in this document are relative to the repository.

## The system

The bot turns messages such as "remind me tomorrow at nine" into *reminders*,
evaluates them when they are due, and sends *notifications* through Telegram.
Three programs share one database (SQLite in WAL mode or PostgreSQL):

| program | role |
| --- | --- |
| `cmd/bot` | handles updates from Telegram, each in its own goroutine: creates, edits, pauses, deletes reminders |
| `cmd/worker` | runs four loops: the watcher (evaluates due reminders), the delivery worker (sends notifications), the janitor (deletes old rows), the import of the TV programme guide |
| `cmd/remindctl` | migrations, puts failed notifications back into the queue |

Programs talk only through tables. No lock outlives a transaction; ownership
of a row between two transactions is a *lease*: the columns `locked_by` and
`locked_at`, void after two minutes (notifications) or five (reminders).

### Inventory

| component | state | operations | hard about it | correct if |
| --- | --- | --- | --- | --- |
| notification queue, delivery worker (`storage/postgres/notifications.go`, `delivery/worker.go`) | `scheduled_notifications`; the worker's leased batch | Enqueue, LeasePending, MarkSent, MarkFailed, ScheduleRetry, Retry, process, deliver, retry | two workers, slow batches, crashes between send and record, writes from an old copy, rows cancelled while leased | no message is repeated without a fault; a row fails after `maxAttempts` and no sooner; what is withdrawn stays so; what is pending is settled |
| reminder table (`storage/postgres/reminders.go`) | `reminders` with a version for optimistic locking | Create, LeaseDue, UpdateNextEval, UpdateStatus, Pause, Cancel, Finish, Remove, Update, MarkConditionalDue | unguarded updates by the watcher against versioned ones by the user | no command and no edit is undone; a deleted reminder leaves nothing |
| watcher (`scheduler/watcher.go`) | its leased batch, in memory | startup, tick, processReminder, scheduleRetry | crashes between insert and advance; retries move the time that keys are made of | a slot is announced once; a one-shot is finished only after its notification is queued; what is due is evaluated |
| evaluator (`scheduler/evaluator.go`, `condition.go`) | `observations` | scheduled, anchor, threshold, digest, news digest | keys; the observation is saved before the notification | each event is announced; a threshold crossing is announced once |
| notification actions (`telegram/reminder_service.go`, `storage/postgres/notification_actions.go`) | `notification_actions` | Apply, Record, snooze | effect and record are two steps; repeated presses | a press has its effect once |
| dialog (`telegram/handlers.go`, `ui.go`, `fsm.go`) | `dialog_states`, one row per user | text and button handlers, drafts, edits, settings | concurrent handlers of one user; expiry after 30 minutes | a confirmed draft makes one reminder, an expired one none |
| quiet mode, preferences | `user_ui_preferences` | IsQuiet, Update | intervals over midnight | quiet exactly inside the interval |
| janitor (`scheduler/janitor.go`, `housekeeping.go`) | none | four deletions | cascades | only settled data goes |
| programme guide (`provider/iptvx`, `epg.go`) | `epg_*` tables, a file, a channel list in memory | download, import, lookup | failed imports, restarts, stale memory | a lookup answers from the last import |
| language understanding (`nlu`) | none | fast path, language model, clarification | fallbacks | a spec that passes is valid |
| providers (`provider/price`, `weather`, `exchangerate`, `rss`, `tvschedule`, `travel`) | caches | sample, lookup, search | partial failures, fallbacks | absence is told from failure |
| network guard, configuration, migrations, metrics | none | start-up, I/O | – | – |

`PROJECT.json` lists these as components with their status, and under
`hazards` every place of the code found to be hard to test, with the property
that covers it; one has none, for the reason its note gives.

## The modules

| module | models |
| --- | --- |
| `DeliveryContract` | what the queue promises for a notification: an abstract specification, without leases and workers |
| `NotificationQueue` | the table `scheduled_notifications` and the delivery workers |
| `NotificationQueueProofs` | its inductive invariant and theorems |
| `MCNotificationQueue` | instances for TLC |
| `ReminderScheduler` | the table `reminders`, the watchers, and the user's commands and edits |
| `ReminderSchedulerProofs` | its inductive invariant and theorems |
| `MCReminderScheduler` | instances for TLC |
| `ConditionalEvaluation` | one conditional reminder, its observations, and all that evaluates it: watchers and /run |
| `ConditionalEvaluationProofs` | its inductive invariant and theorems |
| `MCConditionalEvaluation` | an instance for TLC, with a specification of each sort |
| `ReminderDraft` | what is made of a recognised request: its kind, what is accepted, the reminder and its key, edits of a field (no state) |
| `Conversation` | the row `dialog_states` of a user and the goroutines that handle the user's updates; extends `ReminderDraft` |
| `NotificationActions` | the buttons under a reminder's notifications, their record, and the janitor |
| `MCNotificationActions` | an instance for the finding `press_repeated` |
| `Bot` | `Conversation` and `NotificationActions` side by side |
| `BotProofs` | inductive invariants and theorems of both, and of `Bot` |
| `MCBot` | an instance of `Bot` |
| `Nothing` | the constant `None` that the modules below share |
| `ProgrammeGuide` | the guide's file, tables, channel list, its import and its lookups |
| `MCProgrammeGuide` | an instance for the finding `run_without_guide` |
| `TvGuide` | the lookup that asks the EPG service when there is no guide file |
| `ProgrammeProofs` | inductive invariants and theorems of `ProgrammeGuide` and `TvGuide` |
| `LanguageModel` | one completion asked of OpenRouter: models, retries, deadlines |
| `Requests` | how a text becomes a recognised request, by patterns or by a model |
| `UnderstandingProofs` | inductive invariants and theorems of `LanguageModel` and `Requests` |
| `Rates` | the exchange-rate provider and its cache |
| `Weather` | the weather provider: places, forecasts and the clock |
| `Prices` | the price provider: how a page is fetched and which price is read |
| `MeasurementsProofs` | inductive invariants and theorems of `Rates`, `Weather` and `Prices` |
| `NewsFeed` | how a news digest is made: feeds, scores, ranking, messages |
| `Outside` | the eight models from `ProgrammeGuide` to `NewsFeed` side by side |
| `OutsideProofs` | the inductive invariant and theorems of `NewsFeed`, and the theorems of `Outside` |
| `MCOutside` | an instance of `Outside` |

The modules speak of different tables and time scales, so they are composed
where their state meets and kept apart where the code keeps it apart. `Bot` and
`Outside` put modules side by side that share no variable: a behaviour belongs
to the part named by `part`, so a run checks each of them by itself, and a
theorem says that a behaviour of the composition is one of every part (of the
requests only when it is theirs, see `HeardInv`).

### NotificationQueue

A row is a member of `Notifs` from before its insertion to after its deletion.
The variables `status`, `attempts`, `lockedBy` are columns; `due` stands for
`fire_at <= now` and `lapsed` for `locked_at < two minutes ago`, the only two
comparisons the code makes with the clock. `pc`, `cur`, `batch` and `copy` are
a worker's place in `deliver`, its current row, the rest of its batch and the
attempts it read when it leased them: `retry` writes from that copy, however
old it is. Each statement of `NotificationRepo` is one action, since each is
one transaction. `UpdateRow` is their common form `UPDATE ... WHERE id = n`,
which asks neither for the lease nor for the status.

Faults are actions of their own, bounded by `MaxFaults`: a commit whose answer
is lost, a send whose answer is lost, an outcome that cannot be written, a
crash, a lease that lapses under its worker. Failures the code expects (a
failed send or lookup, a panic that `deliverSafe` recovers) are not bounded
except by `MaxAttempts`. Other writers of the table are `CancelPending`
(pause, edit, finish, cancel), `RemoveReminder`, `Prune` and `Retry`.

`sends`, `tries` and `exposed` are history variables: messages sent, attempts
made, and whether a fault made a second message possible.

### ReminderScheduler

Time is counted in watcher ticks; a cron matches each tick and a retry is due
at the next. Reminders fire by the clock (`evaluateScheduled`) or are anchors
that look events up (`evaluateAnchor`). The queue is reduced to one record per
idempotency key, because the key decides whether an insert takes effect:
`<<reminder, due time>>` for scheduled reminders and `<<user, event>>` for
anchors. A watcher leases a batch (`LeaseDue`), then for each reminder plans
(`Evaluate`), inserts (`EnqueuePlan`) and advances (`Advance`), and any command
of the user may come between. `UpdateNextEval` and `UpdateStatusDone` are
written as in the code: by id, whatever happened to the row since.

The user pauses, finishes, cancels (`Withdraw`), resumes, deletes, or opens an
edit dialog and saves it; `SaveEdit` succeeds only at the version the dialog
opened with. `slot` remembers which occurrence `next_eval_at` stands for, so
that a retry of an occurrence is told from the next one; `fired` counts the rows
inserted per occurrence; `asked` is the time of an edit no watcher has leased
yet; `raced` notes a withdrawal under a watcher's hands.

Left out: digests and thresholds (`ConditionalEvaluation`), weather anchors
(their errors are retries, and start-up keeps their time), the look-ahead window
of a lookup (it is one of the reasons why a lookup finds nothing), and the
branch that marks a reminder failed when its cron does not parse, since crons
are parsed before they are stored.

### ConditionalEvaluation

One active conditional reminder: a threshold, a travel digest or a news digest.
An evaluation is what the code does between reading the clock and returning:
`evaluateThreshold` samples the metric, `ReadLast` and `SaveObservation` are two
statements, and only then is the planned notification inserted (`Enqueue`) or,
by /run, sent. Another watcher whose lease check passed, or /run, may come
between any two of these steps. `conditionMatches`, the cooldown and the edge
rules are those of `condition.go`, with the state an observation carries
(`matched`, the last trigger, and the older form without it). Digests have a key
per day, a news digest one per message, and what a digest found is stored as an
observation too (`StoreDigest`). `Restart` is `MarkConditionalDue` as well:
it unlocks all conditional reminders, also those in another worker's hands.
`PruneObservations` is the janitor's.

The properties compare what was announced with `expected`, a history of what
the rules of the repository's README ask for: each sample is judged when it is
taken, from the samples before it and from when an announcement was last due,
never from the observations the code reads. Two assumptions: no two
evaluations read the same clock time (the code's clock has nanoseconds), and
what an older version stored at time 0 was its own affair. `overlapped`, `lost`
and `disturbed` remember the cases the code does not handle, and the properties
say exactly which of them they excuse: `NothingExtra` excuses only overlapping
evaluations, not failures; `NothingMissing` also a failure between `Save` and
`Enqueue`, which loses the crossing for good.

### ReminderDraft and Conversation

`ReminderDraft` has the pure rules: `parseResultKind`, the checks before a draft
is shown, what an edit of each field changes, how a confirmed draft becomes a
reminder, and the key by which the table refuses the same one twice.
`Conversation` has the row of a user and handlers that read it, think, and write
dialog and reminders in separate statements. A handler keeps what it read in
`local`; `pc` says which statement comes next. A text goes to `handleText`, which
sends it, as the code does, to the parser, to the clarification, to the field
being edited or to the confirmation; buttons have handlers of their own.
Statements fail (`WriteFails`, `CreateFails`) and handlers die (`Abandon`). What
the user and the watcher do to finished reminders is there as far as it touches
keys: `Withdraw` frees one, `FinishDue` does not, `Duplicate` makes a row
without. The janitor's deletion of done reminders would free keys too and is
left to `NotificationActions`. An update that changes nothing is a stuttering
step. What a text is recognised as is a parameter (`Parses`); `Requests` says
where it comes from. A language model may name any trigger, and the code accepts
it (`llm.go:594`, `handlers.go:1622`), so `Parses` may hold triggers that no
evaluator knows: `KindMatchesTrigger` says that a reminder with a trigger some
evaluator knows is conditional, and that a conditional one names a trigger.

`touched`, `created`, `refused`, `withdrawn`, `dismissed` and `overlapped` are
history: when the user last worked on a draft, what was made or refused of it.

### NotificationActions

`Apply` is three steps: the effect (`TakeEffect`: done, pause, or a new
notification), the record (`Record`), and for a check the run (`RunNow`). Each may
fail, and the process may die between them. `Deliver`, `Resume` and
`Remove` are what else happens to the reminder; `Tick` is a week and includes the
janitor's deletions, which the worker makes every hour by default. A press takes
seconds, so none lasts over a tick. Notifications are named by the path of
snoozes that made them. `effects` and `runs` are history.

### ProgrammeGuide

A worker checks its file at start and at every tick of a ticker that is never
reset, downloads another when it is an interval old, and imports it element by
element in one transaction with batches held back. A document may be whole, have
elements nobody reads, be cut, or name a channel twice; `db` is what readers see,
`memory` the list of channels of each process, `import` the open transaction.
The importer keeps the list in the order of its document, a list read from the
table is in the order of ids (`byId`): two channels with the same name may be
told apart differently after a restart.
`healthy` says that nothing failed since the last good import. An import takes
no time against the interval of a week. The time-out of a download is less than
the interval, and a guide has a channel. `QuerySchedule` and `SearchProgrammes`
are left out.

### LanguageModel and Requests

`LanguageModel` is one call of `openRouterCompleter`: `asked` is the model whose
turn it is, `since` its start, `wake` the end of a pause, `tries` the endings
that may pass. Failures of a model lead to the next, 503 and silence are tried
again after doubling pauses or as long as `Retry-After` says, and each model has
a deadline. The alternative claude provider is one call without any of this.

`Requests` is the chain of parsers. A text is the record of phrases the patterns
find in it, so that a text may have several and the order of the patterns
matters; each pattern yields the result the code builds, with its confidence,
its units (hundredths, scaled rates, percents, tenths of degrees) and its cron.
The model's answer is what its prompt prescribes by its rules and examples
(`Prescribed`), with the omissions the code allows for (`Sloppy`), a lead time
also in the words of the user in place of hours (`Answers`); or it is one with a
lead time or a cooldown that cannot be read (`Garbled`); or nothing.
`mapToResult` is the code's conversion of it. A duration is spelled, as a number
and a unit: `parseLeadTime` knows days and weeks and makes nothing of what it
cannot read, without an error, while `ParseDuration`, which reads cooldowns,
ends at hours and refuses the answer. `UnderstoodAlike` relates the two parsers
over `Answers`; `PolledInTime` speaks of `"*/n"`, which restarts with the hour or
day.

Where the two parsers differ, `Expressible` says so, condition by condition:

- The pattern of a price drop passes over an amount (`fastpath.go:385-401`):
  of a drop "below 50 000" it makes an alert about any drop, while the prompt
  has a model name the target in kopecks, a percentage, or a repeated alert
  (`llm.go:472-474`), as the repository's README promises (lines 305-327 and
  484-485). With several links the text may be taken for a digest. Patterns come
  first, so of a text they match the user gets the alert without its target.
- The prompt has models name whole rates, the patterns take two decimals.
- A digest without an hour is at nine for the patterns, while the prompt names
  no hour for it.
- Only the patterns drop links beyond the tenth, and only a model's count is cut
  to twenty.
- A rate or a temperature that the patterns do not know is passed over to
  whatever else is in the text.

Since the patterns do not see the amount of a price, `UnderstoodAlike` says of it
by itself that what a model names is stored as the user said it, in kopecks or
percent, told at each crossing or once a day (`AmountIsKept`).

### TvGuide, Rates, Weather, Prices, NewsFeed

These five are providers that ask a service. What a service answers is a choice,
what the code makes of it is translated.

- `TvGuide`: a lookup resolves the channel in a list kept for an hour and asks
  the service for each week its window touches. Weeks are the service's, whose
  clock is `Zone >= 0` ahead; weeks are published one by one, one that is
  missing is skipped, any other failure ends the lookup. The file of a week
  carries the broadcast that runs over its end, so the next week's has it too;
  `seen` keeps one; events are a set in the model, so the property speaks of
  what is missing. The query by a channel's id, which skips the list, is left out.
  What begins at the same time comes in any order, since
  `sort.Slice` is not stable.
- `Rates`: askers share a cache and may ask for the same pair at once; replies
  arrive in any order and each is stored with an expiry counted from its arrival.
- `Weather`: the clock is read before the request, when the day is chosen and
  when the hours ahead are; at most a half-hour passes in a request, and
  midnight or the end of a night may fall anywhere in it. Places are cached in a
  map that is emptied when it is full. Some days are an hour shorter or longer
  (`ShortDays`, `LongDays`): `forecastDays` truncates the hours that pass to days
  of 24 (`provider.go:366`), so across a day of 23 hours that is not over it asks
  for one day too few, and tomorrow, the next night or a date is refused.
  `ForecastIsThere` lists that refusal among those the code makes. Time is what
  the clock shows, so the hour that is skipped or repeated in such a night is not
  in the model. A query by coordinates skips the geocoder and is left out.
- `Prices`: the address is checked and its host looked up (`validateURL`), which
  is not tried again: a failure of the resolver that would pass in a moment ends
  the sample. Then come plain requests that share a cookie jar, warm the session
  and try again, or a headless tab with a budget for waiting out a challenge. The
  context of a plain sample may be cancelled at any time (`CancelSample`), which
  ends the retries. A page is what its sources print, in their order: JSON-LD
  nodes, `property` and `name` metas, microdata, prices in scripts, each as many
  and as wrong as it may be; an offer whose price JSON takes for no number ends
  the offers of its node (`Decoded`). Shops are trusted with nothing:
  `PriceIsTrue` says that a price that is reported is printed as the product's
  by a page the sample was shown, and that no place looked at before prints one;
  whether a shop prints several there, or the wrong one, is its own affair.
  `forgotten` notes that the shop's cookie expired during a sample. Texts with
  thousands separators (`1,299.00`) are outside the documented forms that are
  modelled.
- `NewsFeed`: feeds answer side by side in any order; items are parsed, scored,
  joined by link and title, perhaps ranked and reworded by a model, and split
  into messages between items. The orders that sorting and picking make are
  stated by what they are (`inSequence`: the n-th has n - 1 before it). The
  header of a message is left out. A date that cannot be read (`Unreadable`) is
  no date, also where an Atom entry has a readable one for its update. That the
  order of arrival does not matter holds by the way `Fetch` collects, a place for
  each feed; which feeds answered is what the property is about. When a model names a link twice, the digest
  has the item twice, and no property denies it.

## The runs

| run | bounds | checks |
| --- | --- | --- |
| `delivery_safety` | 2 workers, 3 rows of one reminder, 2 with the same key, 2 attempts, 1 fault, 1 operator retry, batches of 2 | types; `NoDuplicateUnlessExposed`, `PendingHasAttemptsLeft`, `SettledIsReleased`; `WithdrawnStaysAtRest`; refinement of `DeliveryContract` |
| `delivery_liveness` | 2 workers, 2 rows of 2 reminders, 1 fault | `PendingIsSettled` |
| `scheduler_safety` | 2 watchers, 1 reminder that edits turn from one-shot to recurring and back, 2 ticks, 2 commands, 2 faults | types; `OncePerSlot`, `WithdrawnIsSilent`; `DoneIsPlanned`, `EditSeesStatus` |
| `scheduler_liveness` | 1 watcher, a one-shot and an anchor in one batch, 1 command, 1 fault | `DueIsEvaluated` |
| `conditional_evaluation` | 2 watchers and /run once; 7 specifications (levels, edges, percentages, a price, an unsupported legacy one, both digests); 4 readings of the clock, a day of 3; the newest observation kept; 1 fault | types; `NothingExtra`, `NothingMissing`, `NewsIsWhole`, `NoExtraDigest`; `PruneKeepsLast` |
| `bot` | dialog: 2 handlers, 6 recognised requests (one with an unknown trigger), 4 updates, expiry after 1 of 3 ticks, 1 change, 1 fault; buttons: 2 taps, 3 presses, 6 weeks, retention of 1 and 4, 1 change, 1 fault | types; `OncePerContent`, `DraftIsSpent`, `RefusedHasTwin`, `KindMatchesTrigger`, `NoStaleCreate`; `RunOnce`, `TookEffect`, `SnoozeSurvives` |
| `outside_world` | guide: 3 channels, 6 programmes each, batches of 2, interval 3, time-out 2, 10 time units, 2 faults; model: 3 models, 2 retries, deadline 4; requests: every combination of phrases the instance lists, at 4 times of day; TV: 6 broadcasts in 2 weeks, windows of a week; rates: 2 askers, 3 queries; weather: 4 places, a cache of 2, 6 queries, over two days of 25 and 23 hours; prices: 5 pages, 4 guards, with and without the tab; news: 3 feeds in 6 lists, 3 rankings | types; `GuideIsWhole`, `GuideIsRecent`; `FallsBack`; `UnderstoodAlike`, `PolledInTime`; `WindowIsComplete`; `RateIsRecent`; `ForecastFits`; `SampleIsHonest`; `DigestIsFaithful` |
| `edit_overwritten`, `edit_swallowed`, `shared_event`, `press_repeated`, `run_without_guide` | the least that shows it | see Findings |

Why these bounds: every property of the queue speaks of a row, and a second
worker, a second attempt and one fault suffice for a lease to be lost, a copy to
become stale and both workers to write. A third row with a used key makes an
insert meet a conflict, and batches of two make one row wait while the other
is sent. For the scheduler, two commands cover opening, saving and a command
between them, and two faults a crash followed by a failed recovery; two ticks
suffice for a slot to be retried under another time. What bounds can hide about
a safety property, the proofs rule out where there is one (see What is proved).

Two watchers and /run are all the sorts of evaluation there are. Four readings
of the clock with a day of three cross a midnight and let a cooldown of two
begin, end and begin again; one fault suffices for each of the excuses the
properties make. For the dialog two handlers are the least that interleave, and
four updates make a draft, edit it, confirm it and confirm it again or make its
twin. Six weeks are longer than both retentions with a snooze of a snooze
between; a third generation may be as old as a reminder's retention, and
`SnoozeSurvives` excludes it. A guide of ten units sees three intervals, with a
failed download or a restart between two ticks, which brings `GuideIsRecent` to
its bound. The three models are one that fails, one to fall back on and one to
tell "the next" from "the last". The instances of the providers cross each
boundary their code compares with: the end of a cache's time, of a day, of a
night, of a week, of a deadline, of a list, of a message.

Deadlock is not checked: with all notifications settled, or all that is asked
answered, and the bounds used up, the system rests.

### Fairness

`delivery_liveness` assumes weak fairness of each worker's lease and of its
next step (the ticker fires for ever, calls to Telegram and the database
return, with success or not), and of the clock. No fairness is assumed of
faults, users or successful sends: a row that always fails is failed after
`MaxAttempts`. `scheduler_liveness` assumes the same of the watchers, and that a
dead worker is started again (`docker-compose.yml` restarts the services). The
other runs check safety only. Where the code bounds a wait by a deadline the
bound itself is the property (`FallsBack`, `GuideIsRecent`, `RateIsRecent`), and
time cannot pass a deadline that is due. `FallsBack` has two parts: no model is
left out while it might answer, and the answer or the error comes in time.

## Findings

- **`edit_overwritten`.** A watcher leases a reminder; its user edits it, and
  the edit is saved; the watcher then writes the next evaluation, or the status
  done, it computed for the old version (`reminders.go:180-193`). The comment on
  `Update` says the watcher recalculates from the new time. The same write turns
  a reminder paused meanwhile into a done one.
- **`edit_swallowed`.** An edit cancels an anchor's pending notification, but
  the cancelled row keeps its key. The next evaluation finds the same event,
  makes the same key, and its insert does nothing: the user is never told.
  Pausing and resuming does the same.
- **`shared_event`.** An anchor's key has the user and the event, not the
  reminder. Two anchors with different lead times share one notification,
  against the comment on `userIdemKey`.
- **`press_repeated`.** `Apply` finishes or pauses the reminder before it asks
  `notification_actions` whether the press is new (`reminder_service.go:227`). A
  second press after the user resumed the reminder takes it out of work again,
  and is answered with "already done". The repository's README says repeated
  presses are idempotent.
- **`run_without_guide`.** In the bot's process nobody fills the channel list
  in memory that `Lookup` resolves names with (`iptvx/provider.go:359`), so /run
  of a TV reminder finds nothing while /tv, which reads the tables, shows the
  programme. The comment in `cmd/bot/main.go` says `Lookup` queries the database.

Some limits of what holds are worth knowing. `OncePerSlot` excuses a retry of an
occurrence that has its row already: `scheduleRetry` moves the time from which
the key is made, so an insert that committed with a lost answer is announced
twice. `WithdrawnIsSilent` excuses a watcher at work during the withdrawal: its
insert after the pause is delivered. `NothingMissing` excuses a failure between
an observation and its notification: that crossing is never announced.
`DraftIsSpent` excuses updates that overlap: an edit that began before a draft
was dismissed or confirmed puts the draft back. `WindowIsComplete` leaves the
last hours of a window out when the service's clock is ahead, since the weeks
are computed from ours. `ForecastIsThere` allows the refusal of an alert about
the coming night in its last hour, which has no full hour left, and of a
forecast across a day of 23 hours. `RefusalIsDue` allows that a sample ends
before its first request. `UnderstoodAlike` leaves out the texts in which a
pattern passes over the amount of a price. `GuideIsRecent`
allows two intervals and two downloads: a worker restarted between two ticks
checks at a new phase, may find a file a moment younger than an interval, and
looks again an interval later. A reminder whose trigger no evaluator knows is
accepted, shown and never announced: each evaluation of it ends in an error
(`evaluator.go:95`).

## What is proved

Every safety property of the passing runs, types included, is a theorem for all
values of the constants, and for `bot` and `outside_world` of the composition
that the run checks. Each proof has the same shape: an inductive invariant whose
clauses say what the code relies on without saying it, one lemma for each
action, and the properties as consequences. TLC checked every invariant on
instances before it was proved.

| module | inductive invariant | theorems, and the properties they state |
| --- | --- | --- |
| `NotificationQueueProofs` | `QueueInv` (`QueueInvariant`) | `QueueTypeCorrect`: `TypeOK`; `NoDuplicates`: `NoDuplicateUnlessExposed`; `AttemptsLeft`: `PendingHasAttemptsLeft`; `SettledReleased`: `SettledIsReleased`; `WithdrawnRests`: `WithdrawnStaysAtRest`; `QueueImplementsContract`: `ImplementsContract` |
| `ReminderSchedulerProofs` | `SchedulerInv` (`SchedulerIsSafe`) | `SchedulerIsTyped`: `TypeOK`; `SlotsAreAnnouncedOnce`: `OncePerSlot`; `WithdrawnAreSilent`: `WithdrawnIsSilent`; `DoneArePlanned`: `DoneIsPlanned`; `EditsSeeStatus`: `EditSeesStatus` |
| `ConditionalEvaluationProofs` | `ConditionInv` (`ConditionIsSafe`) | `ConditionIsTyped`: `TypeOK`; `NothingIsExtra`: `NothingExtra`; `NothingIsMissing`: `NothingMissing`; `NewsStaysWhole`: `NewsIsWhole`; `DigestsAreNotDoubled`: `NoExtraDigest`; `JanitorKeepsLast`: `PruneKeepsLast` |
| `BotProofs` | `ConversationInv` (`ConversationIsSafe`) | `ConversationIsTyped`: `TypeOK`; `ContentsAreMadeOnce`: `OncePerContent`; `RefusalsHaveTwins`: `RefusedHasTwin`; `KindsMatchTriggers`: `KindMatchesTrigger`; `DraftsAreSpentOnce`: `DraftIsSpent`; `StaleDraftsAreNotCreated`: `NoStaleCreate` |
| | `ButtonsInv` (`ButtonsAreSafe`) | `ButtonsAreTyped`: `ButtonsTypeOK`; `ChecksRunOnce`: `RunOnce`; `RecordedTookEffect`: `TookEffect`; `SnoozesSurvive`: `SnoozeSurvives` |
| | | `BotKeepsItsParts`, `BotIsSafe`: all of these in the composition `Bot` |
| `ProgrammeProofs` | `GuideInv` (`GuideIsSafe`) | `GuideIsTyped`: `GuideTypeOK`; `ImportsAreWhole`: `GuideIsWhole`; `GuidesAreRecent`: `GuideIsRecent` |
| | `TvInv` | `WindowsAreComplete`: `WindowIsComplete`; `LookupsAreTyped`: `TvTypeOK` |
| `UnderstandingProofs` | `CallInv` (`CompletionIsSafe`) | `CompletionsFallBack`: `FallsBack`; `CompletionsAreTyped`: `CallTypeOK` |
| | `PollingInv`, `RequestInv` | `TextsAreUnderstoodAlike`: `UnderstoodAlike`; `MetricsArePolledInTime`: `PolledInTime`; `RequestsAreTyped`: `RequestTypeOK` |
| `MeasurementsProofs` | `RatesInv` (`RatesAreSafe`) | `RatesAreRecent`: `RateIsRecent`; `RatesAreTyped`: `RatesTypeOK` |
| | `WeatherInv` | `ForecastsFit`: `ForecastFits`; `PlacesAreFew`: `WeatherTypeOK` |
| | `PricesInv` | `SamplesAreHonest`: `SampleIsHonest`; `SamplesAreTyped`: `PricesTypeOK` |
| `OutsideProofs` | `NewsInv` | `DigestsAreFaithful`: `DigestIsFaithful`; `DigestsAreTyped`: `NewsTypeOK` |
| | `HeardInv` | `PartsKeepTheirSpecs`; `OutsideIsTyped`: `OutsideTypeOK`; `OutsideIsSafe`: all other invariants of `outside_world` |

### The assumptions

Each module names what its proofs assume of the constants, and TLC evaluates it
on every run: limits are numbers and at least one where zero makes no sense, a
null is none of the values it stands beside, and the functions among the
constants have their domains. Some say more. `SchedulerAssumption`: a
conditional reminder is an anchor (what metrics, searches and news plan is the
subject of `ConditionalEvaluation`). `RetentionAssumption`: the retention of
reminders is twice that of notifications, and two weeks; with less the janitor
takes a reminder while a snooze of a snooze is still to come.
`RatesAssumption`: a rate lives for a time unit at least. `GuideAssumption`: a
guide lists a channel, and a download ends before the interval does.
`TextsAssumption`: what the patterns can find in a text at all, digits and the
words they look for, and that a day has whole hours. `TvAssumption`: a window is not empty (`Lookup` returns
before it asks for anything when it is), and the service's clock is not behind.
`WeatherAssumption`: a forecast covers two days at least and has a temperature
for each full hour, and a night ends within a day. `ShopAssumption`: what a page is made of, nothing about its
prices. `NewsAssumption`: a digest has room for one item, an item's date is a
number, cannot be read, or is not given.

### The invariants

**`QueueInv`.** An unexposed row is in one worker's hands at most, under
a live lease unless it was withdrawn (`LeaseProtects`); once it was sent, its
holder has nothing left but to record that (`SentOnce`); attempts written from a
copy are attempts that were made, and a copy was below the limit when it was
read (`CountsTries`); a row recorded as sent was sent (`RecordsSends`); a row's
reminder exists as long as the row (`RowsHaveReminders`), so that the branch for
a missing reminder never finds a row to fail. The refinement maps statuses to
stages; a step that changes a status is shown to be a move of the contract,
every other one an attempt or a stutter.

**`SchedulerInv`.** Once per slot is a matter of who may still announce a slot
and under which key. As long as no lease overran and no announced slot was
retried, one watcher at most holds a slot, and holds the lock while the row
stands for it (`SlotHasOneHolder`); an announced slot has one key, in the row
and in every stale copy (`SlotHasOneKey`); copies are of slots that are over
(`SlotsArePast`). A plan is one notification (`PlansOne`) under a key that no
other reminder uses (`KeysAreOwn`), and whoever advances has inserted it
(`AdvanceIsPlanned`), which is why a one-shot is not done without its
notification. A reminder withdrawn out of nobody's hands is in nobody's hands
(`WithdrawnIsFree`). A dialog whose version is the current one saw the current
status (`DialogRemembers`).

**`ConditionInv`.** The rules look at the whole series of samples, the code at
its newest observation. The invariant is that this is enough: without an overlap
the newest observation holds the last value, whether the condition held, and the
last announcement (`StateIsEnough`), the one sample under comparison was taken
last and is compared with it (`SampleIsFresh`), and what is planned, queued, told
or lost is what was expected (`AllIsAccounted`). Observations are told apart by
their times (`TimesDiffer`). A message of a news digest has an edition and the
key of its place (`NewsIsOfEditions`). The travel digests queued are no more
than the periods that the due time has passed, one more while a watcher has
queued one and not yet moved the due time (`DigestsAreCounted`).

**`ButtonsInv`.** That a check runs once rests on a record outliving
every press of its notification: what is recorded or pressed is there
(`AllIsThere`), and a run is recorded, or its notification is gone for good
(`RunsAreRecorded`), for which a notification must not come back: each is
made of one that goes before it (`LineageIsWhole`). Ages are bounded by the
generation (`AgesAreBounded`), which is why a snooze outlives the janitor.
Effects come before records (`EffectsAreFirst`).

**`ConversationInv`.** What a handler is about to write fits what the user last
did, and a reminder about to be inserted is of a draft that is not stale
(`HandlersKnow`). A key is held by one reminder at most (`KeysAreHeld`), what was
created is held or withdrawn (`CreatedIsAccounted`), and so a draft that was
refused has its twin. With one update at a time and nothing failing, a spent
draft is in the dialog only until its handler has reset it
(`DraftsAreSpent`).

**`CallInv`, `RatesInv`.** A model's turn begins when those before it have ended
and lasts a timeout (`TurnsAreBounded`); a model that is still asked failed in
passing ways and not too often (`MayBeRetried`), and one that was left behind
could not have answered (`NoneIsLeftOut`). An answer in the cache expires a time
to live after its request was over at the latest (`AnswersExpire`), whichever of
two requests for one pair was answered first.

**`GuideInv`.** An open import has read its document up to some element: what it
wrote, followed by the batches it holds back, is what the document begins with
(`ImportIsBeginning`, proved with `DocumentIs`, an index of a document's
elements). At the commit it is the whole, or there was an error that it could
not have passed, or a twin that the table refuses. The next check is at most an
interval away and no download outlasts the interval (`TicksAreAhead`), a file is
at most a download older than it looks (`FilesAreYoung`), and while nothing
failed the next check finds a file younger than two intervals (`HealthIsKept`).
The proof corrected the bound of `GuideIsRecent`, which had one download too few
and held only for a time-out of one unit.

**`TvInv`.** A lookup on its way has, of what it was asked for, all that the
service dates into the weeks before the one it fetches next (`HasUntil` in
`LookupInv`), and nothing it was not asked for. The weeks it fetches follow one
another without a gap (`Span`), and what begins before the window's end less the
offset is in one of them, although the service counts weeks by its own clock
(`WeekOrder`).

**`PollingInv`, `RequestInv`.** Whatever parser a result is of, its cron is what
the text's interval becomes (`PollingInv`); that a step of n from the start of an
hour never waits longer than n, also over the end of the hour and for an n
longer than it, is arithmetic (`NextFire`). `UnderstoodAlike` is proved pattern
by pattern (`RateAlike`, `DegreesAlike`, `RainAlike` and so on, each with the
order of the patterns before it) from two lemmas: what an answer means is a
function of what it leaves unsaid (`AnswerMeans`), and no omission changes it
(`SloppyMeans`). The scales are those of the code: a whole number times a scale
is the same whether a pattern rounds hundredths of it or a model's answer is
multiplied (`WholeIsScaledAlike`), and both refuse the same overflows. A lead time
lasts as long in the prompt's hours as in the unit of the user, and a cooldown
the prompt prescribes is one that `ParseDuration` reads. `AmountsAreKept` needs no
pattern: a condition of a price is stored as it is prescribed (`PricedIsStored`,
`PriceIsStored`), whatever of it is left unsaid.

**`WeatherInv`.** Each stage of a request remembers a reading of the clock that
is between its beginning and now: the days asked for are those at some time
(`AskedAt`), the forecast begins on the day of a later one (`Replied`), the day
was chosen at a later one still (`Chosen`). Since a half-hour passes at most,
two of these readings fall on the same side of midnight and of the night's end
unless an excuse that `ForecastIsThere` makes applies. How many days are asked
for is a matter of the hours that pass (`HoursPass`): with no short day among
those between, the whole days of 24 hours in them are not fewer than the calendar's
(`WholeDays`), and so the day that was asked for is covered (`DayIsCovered`).

**`PricesInv`.** What the requests of a sample met with accounts for its step:
the attempts in a row all failed in passing (`PlainInv`), the root was visited
before the page is asked for again, and its cookie is in the jar if it greeted
and nothing was forgotten; a tab that waits out a challenge has at most the
reserve left beyond its budget, and when it is read with one in it at most the
reserve (`TabInv`). Before its address is looked up it has asked for nothing
(`UrlInv`). What `extractPrice` returns is one of the
prices of the first place that prints any (`ExtractedIsPrinted`, from
`DecodedAre`): the places are tried one after another, and one that yields nothing
prints no usable price.

**`NewsInv`.** What is scored is what the feeds that answered told, item by item
(`AllTold`); the items of a digest are of those (`OnlyTold`), and until a model
ranks them they are the stories in order (`DigestInv`, from the lemmas on
`inSequence`: an order of a finite set is a sequence that holds each element
once). The messages are packed from the items up to some place, each within the
limit or alone (`WellPacked`).

**`HeardInv`.** A behaviour of `Outside` that is not of its requests has a text
that says nothing; this is why `PartsKeepTheirSpecs` names seven parts, and why
the properties of the eighth need an invariant of the composition.

Recursive functions are reasoned about with induction over the naturals: the
library's induction theorems need an operator that the provers cannot instantiate,
but a set of naturals with an element has a least (`Least`, from the well-founded
order), and from that follows induction over a set (`NatInd`). Lengths of
messages, joined sequences, orders of sets and doubling pauses are proved with it.

The proofs corrected the project where the instances had been too kind. What
`Expressible` excludes is what the proof of `UnderstoodAlike` found: a rate that
no pattern knows, an impossible temperature, a digest without an hour, a count
beyond twenty, none of which the texts of the instance had shown.
`ForecastIsThere` had not allowed for a night that is named by its date and is
over. Broadcasts that begin together had come in one order only.

### Only model-checked

- `PendingIsSettled` and `DueIsEvaluated`: TLAPS proves no fairness arguments
  and no ENABLED.
- The findings: each run refutes one property on an instance.

## Not modelled

- Travel search: its live sources are not implemented and return no offers, so
  the aggregator joins empty lists.
- Preferences and quiet mode: a row per user that a dialog replaces whole; quiet
  mode decides only whether a message makes a sound.
- Commands that only read (/list, /today, /tv, /refresh), and /rss, a `Create`
  without a draft.
- `QuerySchedule` and `SearchProgrammes`, the claude provider, weather by
  coordinates, price texts with separators: named above with their modules.
- The network guard, configuration, migrations, dialect differences,
  observability, the provider registry and its cache: stateless, start-up code,
  or I/O. Of `remindctl` the retry command is modelled.
- The wording of messages, cards and keyboards.

## Plan

`ReminderSystem`, the scheduler over `NotificationQueue` in place of its
abstract queue, with the refinement that shows the one record per key enough;
quiet hours over midnight.
