--------------------------- MODULE ProgrammeGuide ---------------------------
(***************************************************************************)
(* The worker keeps a TV guide: a file fetched from a publisher, imported  *)
(* into two tables by one transaction, and a list of channels in memory    *)
(* that resolves names.  The bot reads the tables; it has a provider of    *)
(* its own whose list nobody fills.  The publisher's document is another   *)
(* one at every time unit, and covers the units that follow.               *)
(***************************************************************************)
EXTENDS Nothing, Integers, Sequences, FiniteSets, SequencesExt

CONSTANTS
  Channels,          \* <<id, display name>> in the order of the documents
  Similar,           \* <<a, b>>: one of the two names contains the other
  Coverage,          \* a channel's programmes start 1..Coverage units after publication
  epgBatchSize, UpdateInterval, Timeout,
  MaxTime, MaxFaults

\* A guide lists a channel, and the time-out of a download is less than the interval.
ASSUME GuideAssumption ==
  /\ Channels \in Seq(Range(Channels)) /\ Channels # <<>>
  /\ \A i \in DOMAIN Channels : Channels[i][1] \in Int
  /\ Coverage \in Nat /\ MaxTime \in Nat /\ epgBatchSize \in Nat \ {0}
  /\ UpdateInterval \in Nat /\ Timeout \in 0..UpdateInterval - 1
  /\ None \notin Nat

VARIABLES
  now,
  file,      \* the document on disk: [published, mtime, shape], or None
  db,        \* [channels, programmes]: the committed rows
  memory,    \* the channel list of each process's provider
  worker,    \* what the refreshing goroutine is doing
  fetching,  \* the download: [published, since], or None
  import,    \* the transaction: [todo, channels, programmes, batch, read], or None
  due,       \* the ticker's next tick, None before it is created
  healthy,   \* history: since the last import of a fresh file nothing failed, no time
             \* passed without a worker, and no refresh was cut short
  faults

guideVars == <<now, file, db, memory, worker, fetching, import, due, healthy, faults>>

Processes == {"worker", "bot"}
\* A document may end early, repeat a channel, or hold elements to be skipped.
Shapes == {"whole", "noisy", "cut", "twin"}
ChannelElements == [i \in DOMAIN Channels |-> [kind |-> "channel", row |-> Channels[i]]]
Programme(c, at) == [channel |-> c[1], at |-> at]
ProgrammeElements(published) ==
  [i \in 1..Len(Channels) * Coverage |->
     [kind |-> "programme",
      row |-> Programme(Channels[1 + ((i - 1) \div Coverage)], published + 1 + ((i - 1) % Coverage))]]
Document(f) ==
  (IF f.shape = "noisy" THEN <<[kind |-> "skipped"]>> ELSE <<>>)
  \o ChannelElements
  \o (IF f.shape = "twin" THEN <<ChannelElements[1]>> ELSE <<>>)
  \o ProgrammeElements(f.published)
  \o (IF f.shape = "cut" THEN <<[kind |-> "error"]>> ELSE <<>>)

NoRows == [channels |-> <<>>, programmes |-> <<>>]
Rows(published) ==
  [channels |-> Channels,
   programmes |-> [i \in 1..Len(Channels) * Coverage |-> ProgrammeElements(published)[i].row]]

GuideTypeOK ==
  /\ now \in 0..MaxTime
  /\ file # None => file.published \in 0..file.mtime /\ file.mtime \in 0..now /\ file.shape \in Shapes
  /\ worker \in {"down", "checking", "fetching", "importing", "waiting"}
  /\ IF worker = "fetching" THEN fetching.published = fetching.since /\ fetching.since \in 0..now
     ELSE fetching = None
  /\ IF worker = "importing"
     THEN Len(import.batch.channels) < epgBatchSize /\ Len(import.batch.programmes) < epgBatchSize
     ELSE import = None
  /\ due \in {None} \cup 0..MaxTime + UpdateInterval
  /\ memory["bot"] = <<>>

GuideInit ==
  /\ now = 0 /\ file = None /\ db = NoRows
  /\ memory = [p \in Processes |-> <<>>]
  /\ worker = "down" /\ fetching = None /\ import = None /\ due = None
  /\ healthy = FALSE /\ faults = 0

Fault == faults < MaxFaults /\ faults' = faults + 1

\* The rows an import writes, and the batches it holds back.
flushed(w, table) ==
  [w EXCEPT ![table] = @ \o w.batch[table], !.batch[table] = <<>>]
Add(w, table, row) ==
  LET added == [w EXCEPT !.batch[table] = Append(@, row)]
  IN IF Len(added.batch[table]) >= epgBatchSize THEN flushed(added, table) ELSE added
\* epg_channels has its ids as primary key: a second row with one id is refused.
Refused(w) == ~IsInjective([i \in DOMAIN w.channels |-> w.channels[i][1]])

\* A list read from epg_channels is in the order of the ids; the importer keeps the
\* list in memory as it read it.
byId(rows) == SortSeq(rows, LAMBDA a, b : a[1] < b[1])
HasFutureSchedule == \E i \in DOMAIN db.programmes : db.programmes[i].at > now
\* Mutant: a file of just one interval is still fresh.
fileStaleLater == file # None => now - file.mtime > UpdateInterval
fileStale == file # None => now - file.mtime >= UpdateInterval

\* The ticker is created when the first check is over and never reset.
Settle ==
  /\ worker' = "waiting"
  /\ due' = IF due = None THEN now + UpdateInterval ELSE due

Start ==
  /\ worker = "down"
  /\ worker' = "checking"
  /\ UNCHANGED <<now, file, db, memory, fetching, import, due, healthy, faults>>

TickerFires ==
  /\ worker = "waiting" /\ now >= due
  /\ worker' = "checking" /\ due' = due + UpdateInterval
  /\ UNCHANGED <<now, file, db, memory, fetching, import, healthy, faults>>

beginImport(f) ==
  /\ worker' = "importing"
  /\ import' = [todo |-> Document(f), channels |-> <<>>, programmes |-> <<>>,
                batch |-> NoRows, read |-> <<>>]

\* ensureImported: a fresh file whose import is still of use only warms the list.
ensureImported ==
  /\ worker = "checking"
  /\ \/ /\ ~fileStale /\ db.channels # <<>> /\ HasFutureSchedule
        /\ memory' = [memory EXCEPT !["worker"] = byId(db.channels)]
        /\ Settle
        /\ UNCHANGED <<fetching, import, faults>>
     \/ /\ ~fileStale
        /\ \/ (db.channels = <<>> \/ ~HasFutureSchedule) /\ UNCHANGED faults
           \/ Fault                              \* the tables cannot be read
        /\ beginImport(file)
        /\ UNCHANGED <<memory, fetching, due>>
     \/ /\ fileStale
        /\ worker' = "fetching" /\ fetching' = [published |-> now, since |-> now]
        /\ UNCHANGED <<memory, import, due, faults>>
  /\ UNCHANGED <<now, file, db, healthy>>

\* The file appears by a rename, when it is complete, with the time of that moment.
Download ==
  /\ worker = "fetching"
  /\ \E shape \in Shapes :
       /\ IF shape \in {"cut", "twin"} THEN Fault ELSE UNCHANGED faults
       /\ file' = [published |-> fetching.published, mtime |-> now, shape |-> shape]
       /\ beginImport(file')
  /\ fetching' = None
  /\ UNCHANGED <<now, db, memory, due, healthy>>

\* An old file is imported again in its place.
DownloadFails ==
  /\ worker = "fetching" /\ Fault
  /\ fetching' = None /\ healthy' = FALSE
  /\ IF file # None THEN beginImport(file) /\ UNCHANGED due ELSE Settle /\ UNCHANGED import
  /\ UNCHANGED <<now, file, db, memory>>

\* parseXMLTV: one element goes to the writer, which may have a batch to insert.
ReadElement ==
  /\ worker = "importing" /\ import.todo # <<>>
  /\ LET e == Head(import.todo)
         w == [import EXCEPT !.todo = Tail(@)]
         added == CASE e.kind = "channel" -> [Add(w, "channels", e.row) EXCEPT !.read = Append(@, e.row)]
                    [] e.kind = "programme" -> Add(w, "programmes", e.row)
                    [] OTHER -> w
     IN e.kind # "error" /\ ~Refused(added) /\ import' = added
  /\ UNCHANGED <<now, file, db, memory, worker, fetching, due, healthy, faults>>

\* Mutant: the commit comes without the batches held back.
importedSoFar(w) == w
\* What ImportEPG writes before it commits: the last batches too.
imported(w) == flushed(flushed(w, "channels"), "programmes")

ImportEPG ==
  /\ worker = "importing" /\ import.todo = <<>> /\ ~Refused(imported(import))
  /\ db' = [channels |-> imported(import).channels, programmes |-> imported(import).programmes]
  /\ memory' = [memory EXCEPT !["worker"] = import.read]
  /\ import' = None /\ healthy' = (healthy \/ ~fileStale)
  /\ Settle
  /\ UNCHANGED <<now, file, fetching, faults>>

\* A syntax error, a refused row, or a statement that fails: all is rolled back.
ImportFails ==
  /\ worker = "importing"
  /\ LET broken == import.todo # <<>> /\ Head(import.todo).kind = "error"
         next == IF import.todo # <<>> /\ Head(import.todo).kind = "channel"
                 THEN Add(import, "channels", Head(import.todo).row) ELSE imported(import)
     IN IF broken \/ Refused(next) THEN UNCHANGED faults ELSE Fault
  /\ import' = None /\ healthy' = FALSE
  /\ Settle
  /\ UNCHANGED <<now, file, db, memory, fetching>>

\* The worker stops at any point; an open transaction is gone with it.
Crash ==
  /\ worker # "down" /\ Fault
  /\ worker' = "down" /\ fetching' = None /\ import' = None /\ due' = None
  /\ memory' = [memory EXCEPT !["worker"] = <<>>]
  /\ healthy' = (healthy /\ worker = "waiting")
  /\ UNCHANGED <<now, file, db>>

\* Time passes while the worker is down, waits, or downloads; a download has a
\* timeout, and an import takes seconds where the interval is a week.
Pass ==
  /\ now < MaxTime
  /\ \/ worker = "down" /\ healthy' = FALSE
     \/ worker = "waiting" /\ now < due /\ UNCHANGED healthy
     \/ worker = "fetching" /\ now < fetching.since + Timeout /\ UNCHANGED healthy
  /\ now' = now + 1
  /\ UNCHANGED <<file, db, memory, worker, fetching, import, due, faults>>

GuideNext ==
  \/ Start \/ TickerFires \/ ensureImported \/ Download \/ DownloadFails
  \/ ReadElement \/ ImportEPG \/ ImportFails \/ Crash \/ Pass

GuideSpec == GuideInit /\ [][GuideNext]_guideVars

-----------------------------------------------------------------------------
matchScore(value, wanted) ==
  CASE value = wanted -> 3
    [] value # wanted /\ ({<<value, wanted>>, <<wanted, value>>} \cap Similar # {}) -> 2
    [] OTHER -> 0

\* The first channel with the highest score, None if nothing matches.
bestChannelMatch(list, query) ==
  LET better(best, c) == IF best = None
                         THEN IF matchScore(c[2], query) > 0 THEN c ELSE best
                         ELSE IF matchScore(c[2], query) > matchScore(best[2], query) THEN c ELSE best
  IN FoldLeft(better, None, list)

Programmes(id, from, to) ==
  {p \in Range(db.programmes) : p.channel = id /\ from <= p.at /\ p.at < to}

\* Provider.Lookup in a process: the channel from its list, the rest from the tables.
Lookup(process, query, from, to) ==
  LET ch == bestChannelMatch(memory[process], query)
  IN IF ch = None THEN {} ELSE Programmes(ch[1], from, to)

\* Scheduler.ChannelDaySchedule, the /tv command: all of it from the tables.
ChannelDaySchedule(query, from, to) ==
  LET ch == bestChannelMatch(byId(db.channels), query)
  IN IF ch = None THEN {} ELSE Programmes(ch[1], from, to)

Names == {Channels[i][2] : i \in DOMAIN Channels} \cup UNION {{s[1], s[2]} : s \in Similar}

\* Readers see all rows of one published document, or what was there before:
\* never a part of an import, and a list in memory is a whole one too (epg.go
\* ImportEPG "atomically replaces all EPG data").
GuideIsWhole ==
  /\ db \in {NoRows} \cup {Rows(v) : v \in 0..now}
  /\ memory["worker"] \in {<<>>, db.channels, byId(db.channels)}

\* While nothing fails the guide is less than two intervals and two downloads
\* old: a check may find a file just younger than an interval and skip (after a
\* restart, at any phase of the ticker), the next one comes an interval later, and
\* both the file and the one that replaces it were published when their download began.
GuideIsRecent ==
  healthy => \E v \in 0..now : db = Rows(v) /\ now - v < 2 * (UpdateInterval + Timeout)

\* The check of a TV reminder by /run finds what /tv shows for the channel, as
\* cmd/bot/main.go says of its provider ("Lookup queries the DB the worker
\* already keeps fresh").
RunSeesGuide ==
  \A query \in Names : Lookup("bot", query, now, MaxTime) = ChannelDaySchedule(query, now, MaxTime)
=============================================================================
