---------------------------- MODULE Conversation ----------------------------
(***************************************************************************)
(* The dialog of one user with the bot: a text is recognised, clarified,   *)
(* shown as a draft, edited, and confirmed into a reminder.  Each update   *)
(* is handled by a goroutine of its own that reads the dialog, thinks, and *)
(* writes the dialog and the reminders in separate statements; the dialog  *)
(* is one row that whoever writes last replaces.  An update that changes   *)
(* nothing is a stuttering step.                                           *)
(***************************************************************************)
EXTENDS ReminderDraft

CONSTANTS
  Handlers,     \* the goroutines that handle the user's updates
  Parses,       \* what the parser may make of a text
  PollCron,     \* the configured schedule of a metric
  Fields,       \* the fields of a draft the user may edit
  TTL,          \* dialogTTL in ticks
  MaxTime,      \* bound: the clock
  MaxUpdates,   \* bound: updates handled
  MaxChanges,   \* bound: what happens to a reminder afterwards
  MaxFaults     \* bound: failed statements and crashes

\* The parser answers with a nlu.ParseResult, whatever a language model named in it.
ASSUME ConversationAssumption ==
  /\ {TTL, MaxTime, MaxUpdates} \subseteq Nat
  /\ Fields \subseteq {"text", "date", "time", "repeat", "condition"}
  /\ \A d \in Parses :
       {"kind", "trigger", "type", "title", "params", "message", "condition", "cron", "fireAt",
        "missing", "understood"} \subseteq DOMAIN d

VARIABLES
  now,
  dialog,       \* the row of dialog_states
  rows,         \* the user's reminders
  pc, local,    \* where a handler is, and what it is about to write
  touched,      \* history: when the user last worked on each draft
  created,      \* history: the reminders made of drafts
  refused,      \* history: the drafts refused as duplicates, and their twins
  withdrawn,    \* history: the keys of the reminders the user withdrew or edited
  dismissed,    \* history: the drafts the user answered no to
  overlapped,   \* history: two updates were handled at the same time
  updates, changes, faults  \* so far

history == <<touched, created, refused, withdrawn, dismissed, overlapped>>
bounds == <<updates, changes, faults>>
vars == <<now, dialog, rows, pc, local, history, bounds>>

Times == 0..MaxTime
Drafts == 1..MaxUpdates
Idle == [state |-> "idle"]
Nothing == [todo |-> "nothing"]
Stages == {"idle", "confirm", "create", "set", "reset", "expire"}
Statuses == {"active", "paused", "done", "cancelled"}

\* The dialog row fits its state: a draft to confirm has nothing missing, a
\* question names what is missing, an edit names its field.
DialogOK(d) ==
  \/ d = Idle
  \/ d.state = "await_confirm" /\ d.mode = "create" /\ d.result.missing = <<>>
  \/ d.state = "await_field" /\ d.mode = "create" /\ d.result.missing # <<>>
  \/ d.state = "await_edit" /\ \/ d.mode \in {"settings", "reminder"}
                               \/ d.mode = "create" /\ d.field \in Fields

\* Every variable has its type, and the dialog row fits its state.
TypeOK ==
  /\ now \in Times
  /\ DialogOK(dialog)
  /\ dialog # Idle => dialog.createdAt \in 0..now /\ dialog.draft \in 0..MaxUpdates
  /\ \A r \in rows : r.status \in Statuses /\ r.key \in {NoKey} \cup {c.key : c \in created}
  /\ pc \in [Handlers -> Stages]
  /\ \A h \in Handlers : pc[h] = "set" => DialogOK(local[h])
  /\ touched \in [Drafts -> Times]

Init ==
  /\ now = 0 /\ dialog = Idle /\ rows = {}
  /\ pc = [h \in Handlers |-> "idle"]
  /\ local = [h \in Handlers |-> Nothing]
  /\ touched = [d \in Drafts |-> 0]
  /\ created = {} /\ refused = {} /\ withdrawn = {} /\ dismissed = {}
  /\ overlapped = FALSE
  /\ updates = 0 /\ changes = 0 /\ faults = 0
-----------------------------------------------------------------------------
Others(h) == Handlers \ {h}
Resting == \A h \in Handlers : pc[h] = "idle"

\* A handler ends within seconds; the clock ticks in minutes.
Tick ==
  /\ now < MaxTime /\ Resting
  /\ now' = now + 1
  /\ UNCHANGED <<dialog, rows, pc, local, history, bounds>>

Fault ==
  /\ faults < MaxFaults
  /\ faults' = faults + 1
  /\ UNCHANGED <<updates, changes>>

\* An update arrives and a handler starts with it.
Arrives(h) ==
  /\ pc[h] = "idle" /\ updates < MaxUpdates
  /\ updates' = updates + 1
  /\ overlapped' = (overlapped \/ \E g \in Others(h) : pc[g] # "idle")
  /\ UNCHANGED <<changes, faults>>

Goto(h, stage, what) ==
  /\ pc' = [pc EXCEPT ![h] = stage]
  /\ local' = [local EXCEPT ![h] = what]

Ends(h) == Goto(h, "idle", Nothing)

Stale(d) == d # Idle /\ now - d.createdAt > TTL

Awaiting(state, mode, result, draft, field) ==
  [state |-> state, mode |-> mode, result |-> result, draft |-> draft,
   field |-> field, createdAt |-> now]

Touch(draft) == touched' = [touched EXCEPT ![draft] = now]

\* Mutant: a draft that can be made is shown although something is missing.
continueParsingUnasked(h, result, draft) ==
  \/ /\ validateParseResult(result)
     /\ Goto(h, "set", Awaiting("await_confirm", "create",
                                withDefaults(result, PollCron, None), draft, ""))
  \/ /\ ~validateParseResult(result)
     /\ Ends(h)

\* continueParsing: ask for what is missing, else show the draft, else say
\* that it was not understood and leave the dialog as it was.
continueParsing(h, result, draft) ==
  \/ /\ result.missing # <<>>
     /\ Goto(h, "set", Awaiting("await_field", "create", result, draft, Head(result.missing)))
  \/ /\ result.missing = <<>> /\ validateParseResult(result)
     /\ Goto(h, "set", Awaiting("await_confirm", "create",
                                withDefaults(result, PollCron, None), draft, ""))
  \/ /\ result.missing = <<>> /\ ~validateParseResult(result)
     /\ Ends(h)

startParsing(h) ==
  \E result \in Parses :
    /\ continueParsing(h, result, updates')
    /\ Touch(updates')
    /\ UNCHANGED dismissed

\* The answer is parsed together with the text before it; when that fails
\* the dialog is given up.
handleFieldInput(h, d) ==
  /\ \/ \E result \in Parses : continueParsing(h, result, d.draft)
     \/ Goto(h, "reset", Nothing)
  /\ Touch(d.draft)
  /\ UNCHANGED dismissed

\* A draft keeps the age of the press that began the edit.
handleEditFieldInput(h, d) ==
  /\ \/ /\ d.mode = "create"
        /\ \E e \in editedDrafts(d.result, d.field, now, Times) :
             Goto(h, "set", [d EXCEPT !.state = "await_confirm", !.result = e])
        /\ Touch(d.draft)
     \/ /\ d.mode \in {"settings", "reminder"}
        /\ Goto(h, "reset", Nothing)
        /\ UNCHANGED touched
  /\ UNCHANGED dismissed

\* A written yes or no; anything else is answered with the question.
confirmationDecision(h, d) ==
  \/ /\ Goto(h, "confirm", Nothing)
     /\ UNCHANGED <<touched, dismissed>>
  \/ /\ Goto(h, "reset", Nothing)
     /\ dismissed' = dismissed \cup {d.draft}
     /\ UNCHANGED touched

handleText(h) ==
  /\ Arrives(h)
  /\ IF Stale(dialog)
     THEN Goto(h, "expire", Nothing) /\ UNCHANGED <<touched, dismissed>>
     ELSE CASE dialog.state = "await_confirm" -> confirmationDecision(h, dialog)
            [] dialog.state = "await_field" -> handleFieldInput(h, dialog)
            [] dialog.state = "await_edit" -> handleEditFieldInput(h, dialog)
            [] dialog.state = "idle" -> startParsing(h)
  /\ UNCHANGED <<now, dialog, rows, created, refused, withdrawn>>

\* The stale dialog is reset and the text taken as a new request.
Expire(h) ==
  /\ pc[h] = "expire"
  /\ dialog' = Idle
  /\ \E result \in Parses : continueParsing(h, result, updates) \/ Ends(h)
  /\ Touch(updates)
  /\ UNCHANGED <<now, rows, created, refused, withdrawn, dismissed, overlapped, bounds>>

\* The menu and the button of a draft give the dialog up, whatever it is.
Abandon(h) ==
  /\ Arrives(h)
  /\ Goto(h, "reset", Nothing)
  /\ dismissed' = IF dialog = Idle THEN dismissed ELSE dismissed \cup {dialog.draft}
  /\ UNCHANGED <<now, dialog, rows, touched, created, refused, withdrawn>>

\* A button under a draft opens a field of the draft that is current by now.
handleDraftCallback(h) ==
  /\ Arrives(h)
  /\ dialog.state = "await_confirm"
  /\ \E field \in Fields :
       Goto(h, "set", [dialog EXCEPT !.state = "await_edit", !.field = field, !.createdAt = now])
  /\ Touch(dialog.draft)
  /\ UNCHANGED <<now, dialog, rows, created, refused, withdrawn, dismissed>>

\* The settings and the card of a saved reminder ask for a value too.
beginOtherEdit(h) ==
  /\ Arrives(h)
  /\ \E mode \in {"settings", "reminder"} :
       Goto(h, "set", Awaiting("await_edit", mode, Nothing, 0, ""))
  /\ UNCHANGED <<now, dialog, rows, touched, created, refused, withdrawn, dismissed>>

\* Mutant: the age of a draft is looked at in handleText only.
confirmedAnyAge(h) ==
  \/ /\ dialog.state = "await_confirm" /\ buildReminder(dialog.result, now) # None
     /\ Goto(h, "create", [draft |-> dialog.draft, reminder |-> buildReminder(dialog.result, now)])
  \/ /\ dialog.state # "await_confirm"
     /\ Ends(h)

\* createReminderFromDialog, up to the insert.
confirmed(h) ==
  LET reminder == buildReminder(dialog.result, now) IN
  \/ /\ dialog.state = "await_confirm" /\ ~Stale(dialog) /\ reminder # None
     /\ Goto(h, "create", [draft |-> dialog.draft, reminder |-> reminder])
  \/ /\ dialog.state = "await_confirm" /\ (Stale(dialog) \/ reminder = None)
     /\ Goto(h, "reset", Nothing)
  \/ /\ dialog.state # "await_confirm"
     /\ Ends(h)

\* The button of a draft.
handleConfirmYes(h) ==
  /\ Arrives(h)
  /\ dialog # Idle
  /\ confirmed(h)
  /\ UNCHANGED <<now, dialog, rows, touched, created, refused, withdrawn, dismissed>>

\* The written yes reads the dialog once more.
confirmReminderByText(h) ==
  /\ pc[h] = "confirm"
  /\ confirmed(h)
  /\ UNCHANGED <<now, dialog, rows, history, bounds>>

Twins(key) == {r \in rows : r.key = key}

NewRow(reminder) ==
  [key |-> reminder.key, copy |-> FALSE, status |-> "active", next |-> reminder.next,
   once |-> reminder.cron = None]

\* ON CONFLICT (idempotency_key) DO NOTHING
Insert(l) ==
  IF Twins(l.reminder.key) = {}
  THEN /\ rows' = rows \cup {NewRow(l.reminder)}
       /\ created' = created \cup {[draft |-> l.draft, at |-> now, key |-> l.reminder.key,
                                    kind |-> l.reminder.kind, trigger |-> l.reminder.trigger,
                                    n |-> Cardinality(created) + 1,
                                    again |-> l.reminder.key \in withdrawn]}
       /\ withdrawn' = withdrawn \ {l.reminder.key}
       /\ UNCHANGED refused
  ELSE /\ refused' = refused \cup {[key |-> l.reminder.key, at |-> now,
                                    again |-> l.reminder.key \in withdrawn]}
       /\ UNCHANGED <<rows, created, withdrawn>>

\* Mutant: the dialog is not reset once the reminder is made.
CreateKeepsDraft(h) ==
  /\ pc[h] = "create"
  /\ Insert(local[h])
  /\ Ends(h)
  /\ UNCHANGED <<now, dialog, touched, dismissed, overlapped, bounds>>

Create(h) ==
  /\ pc[h] = "create"
  /\ Insert(local[h])
  /\ Goto(h, "reset", Nothing)
  /\ UNCHANGED <<now, dialog, touched, dismissed, overlapped, bounds>>

\* The insert fails, or its answer is lost: the draft stays to be confirmed
\* again.
CreateFails(h) ==
  /\ pc[h] = "create" /\ Fault
  /\ \/ Insert(local[h])
     \/ UNCHANGED <<rows, created, refused, withdrawn>>
  /\ Ends(h)
  /\ UNCHANGED <<now, dialog, touched, dismissed, overlapped>>

SetDialog(h) ==
  /\ pc[h] = "set"
  /\ dialog' = local[h]
  /\ Ends(h)
  /\ UNCHANGED <<now, rows, history, bounds>>

ResetDialog(h) ==
  /\ pc[h] = "reset"
  /\ dialog' = Idle
  /\ Ends(h)
  /\ UNCHANGED <<now, rows, history, bounds>>

\* That the dialog is not written is ignored, or told to the user; a crash
\* of the bot has the same outcome.
WriteFails(h) ==
  /\ pc[h] \in {"set", "reset"} /\ Fault
  /\ Ends(h)
  /\ UNCHANGED <<now, dialog, rows, history>>

(***************************************************************************)
(* What happens to the reminders afterwards.                               *)
(***************************************************************************)

Changed ==
  /\ changes < MaxChanges /\ Resting
  /\ changes' = changes + 1
  /\ UNCHANGED <<now, dialog, pc, local, touched, created, refused, dismissed,
                 overlapped, updates, faults>>

Replace(r, s) == rows' = (rows \ {r}) \cup {s}

\* Mutant: the key outlives the reminder.
keptKey(r) == r.key

\* setTerminalStatus and Update release the key of the row they write.
releasedKey(r) == NoKey

\* Mutant: the janitor's rows, or the watcher's, lose their keys.
finishedWithoutKey(r) == [r EXCEPT !.status = "done", !.key = NoKey]

\* UpdateStatus leaves the key.
finished(r) == [r EXCEPT !.status = "done"]

\* The user cancels, finishes or edits a reminder.
Withdraw ==
  /\ Changed
  /\ \E r \in rows : \E status \in {"done", "cancelled", r.status} :
       /\ Replace(r, [r EXCEPT !.status = status, !.key = releasedKey(r)])
       /\ withdrawn' = withdrawn \cup {r.key}

\* The user deletes a reminder.
Remove ==
  /\ Changed
  /\ \E r \in rows : rows' = rows \ {r} /\ withdrawn' = withdrawn \cup {r.key}

\* The watcher finishes a one-shot reminder; a pause keeps it from that.
FinishDue ==
  /\ Changed
  /\ \E r \in rows : /\ r.status = "active" /\ r.once /\ r.next <= now
                     /\ Replace(r, finished(r))
  /\ UNCHANGED withdrawn

\* Duplicate copies a reminder without its key.
Duplicate ==
  /\ Changed
  /\ \E r \in rows : rows' = rows \cup {[r EXCEPT !.copy = TRUE, !.key = NoKey, !.status = "active"]}
  /\ UNCHANGED withdrawn

HandlerStep(h) ==
  \/ handleText(h) \/ Expire(h) \/ Abandon(h) \/ handleDraftCallback(h)
  \/ beginOtherEdit(h) \/ handleConfirmYes(h) \/ confirmReminderByText(h)
  \/ Create(h) \/ CreateFails(h) \/ SetDialog(h) \/ ResetDialog(h) \/ WriteFails(h)

Next ==
  \/ Tick \/ Withdraw \/ Remove \/ FinishDue \/ Duplicate
  \/ \E h \in Handlers : HandlerStep(h)

Spec == Init /\ [][Next]_vars

-----------------------------------------------------------------------------
\* However often a draft is confirmed, by its button, by a written yes and
\* by both at once, and whatever failed on the way, the same reminder is
\* made once, unless the user withdrew or edited it since: the key depends
\* on nothing but the draft, and the watcher leaves it in place.
OncePerContent ==
  \A c, d \in created :
    c.key = d.key /\ c.n < d.n => d.again

\* As long as the user waits for each answer and nothing fails, a draft makes
\* one reminder at most, edited or not, and none after a no.
DraftIsSpent ==
  ~overlapped /\ faults = 0 =>
    /\ \A c, d \in created : c.draft = d.draft => c = d
    /\ (dialog # Idle /\ Resting) =>
         \/ dialog.mode # "create"
         \/ dialog.draft \notin {c.draft : c \in created} \cup dismissed

\* No draft the user left alone for longer than dialogTTL becomes a reminder.
NoStaleCreate == [][\A c \in created' \ created : now - touched[c.draft] <= TTL]_vars

\* A draft is refused as a duplicate only while the user has not withdrawn
\* the reminder it repeats (setTerminalStatus, Update).
RefusedHasTwin == \A r \in refused : ~r.again

\* However a draft was edited, and whatever kind was named, a reminder with a
\* trigger that is evaluated is conditional, and a conditional one names a
\* trigger: a price watch that was told not to repeat is still watched.
KindMatchesTrigger ==
  \A c \in created :
    /\ c.trigger \in Triggers => c.kind = "conditional"
    /\ c.kind = "conditional" => c.trigger # ""
=============================================================================
