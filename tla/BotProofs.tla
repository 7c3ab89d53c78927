----------------------------- MODULE BotProofs ------------------------------
(***************************************************************************)
(* The dialog and the buttons under notifications: the types and the       *)
(* safety properties of Conversation and NotificationActions, for any      *)
(* number of handlers, taps, presses and failures, any parser, schedule,   *)
(* fields, bounds and retention that the assumptions allow, and of both    *)
(* together.                                                               *)
(***************************************************************************)
EXTENDS Bot, FiniteSetTheorems, TLAPS

-----------------------------------------------------------------------------
(***************************************************************************)
(* Conversation: a user's dialog.                                          *)
(***************************************************************************)
-----------------------------------------------------------------------------
(***************************************************************************)
(* The inductive invariant.                                                *)
(***************************************************************************)

\* A dialog that waits for an answer at time t, when the user last worked on
\* the drafts at ts and n updates were handled: its draft is one of theirs and
\* not younger than the user's last work on it.
FitsDraft(d, ts, n) ==
  /\ d.mode = "create" /\ d.draft \in 1..n /\ d.createdAt <= ts[d.draft]
  /\ "missing" \in DOMAIN d.result
  /\ \/ d.state = "await_field" /\ d.result.missing # <<>>
     \/ d.state = "await_confirm" /\ d.result.missing = <<>>
     \/ d.state = "await_edit" /\ d.result.missing = <<>> /\ d.field \in Fields

Fits(d, t, ts, n) ==
  /\ d \in [state : {d.state}, mode : {d.mode}, result : {d.result}, draft : {d.draft},
            field : {d.field}, createdAt : {d.createdAt}]
  /\ d.createdAt \in 0..t
  /\ \/ FitsDraft(d, ts, n)
     \/ d.mode \in {"settings", "reminder"} /\ d.state = "await_edit" /\ d.draft = 0

\* A reminder about to be inserted for a draft that is not stale.
FitsReminder(l, t, ts, n) ==
  /\ l.draft \in 1..n /\ t - ts[l.draft] <= TTL
  /\ l.reminder.key # NoKey
  /\ l.reminder.trigger \in Triggers => l.reminder.kind = "conditional"
  /\ l.reminder.kind = "conditional" => l.reminder.trigger # ""

Typed ==
  /\ now \in Times /\ updates \in 0..MaxUpdates /\ faults \in Nat
  /\ touched \in [Drafts -> Times] /\ \A x \in Drafts : touched[x] <= now
  /\ dialog = Idle \/ Fits(dialog, now, touched, updates)
  /\ pc \in [Handlers -> Stages] /\ DOMAIN local = Handlers
  /\ overlapped \in BOOLEAN

\* What a handler is about to write fits what it read.
HandlersKnow ==
  \A h \in Handlers :
    /\ pc[h] = "set" => Fits(local[h], now, touched, updates)
    /\ pc[h] = "create" => FitsReminder(local[h], now, touched, updates)
    /\ pc[h] = "expire" => updates \in 1..MaxUpdates

\* A key is held by one reminder at most, of those the user did not withdraw.
KeysAreHeld ==
  /\ \A r \in rows :
       /\ r \in [key : {r.key}, copy : {r.copy}, status : {r.status}, next : {r.next}, once : {r.once}]
       /\ r.status \in Statuses
       /\ r.key # NoKey => r.key \in {c.key : c \in created} /\ r.key \notin withdrawn
  /\ \A r, s \in rows : r.key = s.key /\ r.key # NoKey => r = s

\* What was created is still held, or was withdrawn; its number is its rank.
CreatedIsAccounted ==
  /\ IsFiniteSet(created)
  /\ \A c \in created :
       /\ c.n \in 1..Cardinality(created)
       /\ c.draft \in 1..updates
       /\ c.key \in withdrawn \/ \E r \in rows : r.key = c.key
  /\ OncePerContent /\ KindMatchesTrigger

\* The drafts that were made or declined.
Spent == {c.draft : c \in created} \cup dismissed

\* One update at a time and nothing failing: a handler writes no spent draft,
\* and the dialog holds one only until its handler has reset it.
DraftsAreSpent ==
  /\ dismissed \subseteq 0..updates
  /\ ~overlapped /\ faults = 0 =>
       /\ \A g, h \in Handlers : g # h => pc[g] = "idle" \/ pc[h] = "idle"
       /\ \A c, d \in created : c.draft = d.draft => c = d
       /\ dialog # Idle /\ dialog.mode = "create" /\ dialog.draft \in Spent =>
            \E h \in Handlers : pc[h] = "reset"
       /\ \A h \in Handlers :
            /\ pc[h] = "set" /\ local[h].mode = "create" => local[h].draft \notin Spent
            /\ pc[h] = "create" => local[h].draft \notin Spent
            /\ pc[h] = "expire" => updates \notin Spent

ConversationInv ==
  /\ Typed
  /\ HandlersKnow
  /\ KeysAreHeld
  /\ CreatedIsAccounted
  /\ RefusedHasTwin
  /\ DraftsAreSpent
-----------------------------------------------------------------------------
(***************************************************************************)
(* Lemmas about drafts.                                                    *)
(***************************************************************************)

\* No edit asks for anything, or forgets what is missing.
LEMMA EditsKeepMissing ==
  ASSUME NEW d, "missing" \in DOMAIN d, NEW field \in Fields, NEW t,
         NEW e \in editedDrafts(d, field, t, Times)
  PROVE  "missing" \in DOMAIN e /\ e.missing = d.missing
<1>1. \A x : LET y == withText(d, x) IN "missing" \in DOMAIN y /\ y.missing = d.missing
  BY DEF withText
<1>2. \A x : LET y == withFireAt(d, x) IN "missing" \in DOMAIN y /\ y.missing = d.missing
  BY DEF withFireAt
<1>3. LET y == withoutRepeat(d, t) IN "missing" \in DOMAIN y /\ y.missing = d.missing
  BY DEF withoutRepeat
<1>4. \A x : LET y == withRepeat(d, x) IN "missing" \in DOMAIN y /\ y.missing = d.missing
  BY DEF withRepeat
<1>5. \A x : LET y == withCondition(d, x) IN "missing" \in DOMAIN y /\ y.missing = d.missing
  BY DEF withCondition
<1>6. \/ field = "text" /\ \E x : e = withText(d, x)
      \/ field \in {"date", "time"} /\ \E x : e = withFireAt(d, x)
      \/ field = "repeat" /\ (e = withoutRepeat(d, t) \/ \E x : e = withRepeat(d, x))
      \/ field = "condition" /\ \E x : e = withCondition(d, x)
  BY ConversationAssumption DEF editedDrafts
<1> QED
  BY <1>1, <1>2, <1>3, <1>4, <1>5, <1>6

\* Nor do the configured defaults.
LEMMA DefaultsKeepMissing ==
  ASSUME NEW d, "missing" \in DOMAIN d, NEW cron, NEW location
  PROVE  LET e == withDefaults(d, cron, location)
         IN "missing" \in DOMAIN e /\ e.missing = d.missing
<1>1. ASSUME NEW x, "missing" \in DOMAIN x, NEW v
      PROVE  "missing" \in DOMAIN [x EXCEPT !.cron = v] /\ [x EXCEPT !.cron = v].missing = x.missing
  BY <1>1
<1> DEFINE placed == IF d.type = "weather" /\ ~Has(d, "location")
                     THEN [d EXCEPT !.params = [p \in DOMAIN @ \cup {"location"} |->
                                                  IF p = "location" THEN location ELSE @[p]]]
                     ELSE d
<1>2. "missing" \in DOMAIN placed /\ placed.missing = d.missing
  OBVIOUS
<1>3. withDefaults(d, cron, location) =
        IF d.cron = None /\ d.trigger = "threshold" THEN [placed EXCEPT !.cron = cron] ELSE placed
  BY DEF withDefaults
<1> HIDE DEF placed
<1> QED
  BY <1>1, <1>2, <1>3

\* A reminder that can be built has a key, and its kind follows its trigger.
LEMMA BuiltHasKey ==
  ASSUME NEW d, NEW t, buildReminder(d, t) # None
  PROVE  LET r == buildReminder(d, t)
         IN /\ r.key # NoKey
            /\ r.trigger \in Triggers => r.kind = "conditional"
            /\ r.kind = "conditional" => r.trigger # ""
<1> DEFINE kind == parseResultKind(d)
           r == buildReminder(d, t)
<1>1. validateParseResult(d)
  BY DEF buildReminder
<1>2. /\ kind \in {"absolute", "recurring", "conditional"}
      /\ kind = "conditional" => d.trigger # ""
  BY <1>1 DEF validateParseResult
<1>3. d.trigger \in Triggers => kind = "conditional"
  BY DEF parseResultKind
<1>4. \A next : reminderIdemKey(kind, d, next) # NoKey
  BY <1>2 DEF reminderIdemKey, NoKey
<1>5. r.kind = kind /\ r.trigger = d.trigger /\ \E next : r.key = reminderIdemKey(kind, d, next)
  BY DEF buildReminder
<1> QED
  BY <1>2, <1>3, <1>4, <1>5

-----------------------------------------------------------------------------
(***************************************************************************)
(* Lemmas about dialogs.                                                   *)
(***************************************************************************)

\* What fits goes on to fit as time passes and the user works on drafts.
LEMMA FitsStays ==
  ASSUME NEW t \in Times, NEW u \in Times, t <= u, NEW m \in 0..MaxUpdates, NEW n \in 0..MaxUpdates, m <= n,
         NEW ts \in [Drafts -> Times], NEW us \in [Drafts -> Times], \A x \in Drafts : ts[x] <= us[x]
  PROVE  /\ \A d : Fits(d, t, ts, m) => Fits(d, u, us, n)
         /\ \A l : FitsReminder(l, t, ts, m) => FitsReminder(l, t, us, n)
<1> USE ConversationAssumption
<1>1. Times \subseteq Nat /\ MaxUpdates \in Nat /\ m \in Nat /\ n \in Nat /\ 1..m \subseteq Drafts /\ 1..m \subseteq 1..n
  BY DEF Times, Drafts
<1>2. ASSUME NEW d, Fits(d, t, ts, m)
      PROVE  Fits(d, u, us, n)
  <2>1. d.createdAt \in 0..u /\ d.createdAt \in Int
    BY <1>1, <1>2 DEF Fits
  <2>2. FitsDraft(d, ts, m) => FitsDraft(d, us, n)
    <3>1. SUFFICES ASSUME FitsDraft(d, ts, m) PROVE FitsDraft(d, us, n)
      OBVIOUS
    <3>2. d.draft \in Drafts /\ d.draft \in 1..n /\ d.createdAt <= ts[d.draft]
      BY <1>1, <3>1 DEF FitsDraft
    <3>3. ts[d.draft] \in Nat /\ us[d.draft] \in Nat /\ ts[d.draft] <= us[d.draft]
      BY <1>1, <3>2
    <3>4. d.createdAt <= us[d.draft]
      BY <2>1, <3>2, <3>3
    <3> QED
      BY <3>1, <3>2, <3>4 DEF FitsDraft
  <2> QED
    BY <1>2, <2>1, <2>2 DEF Fits
<1>3. ASSUME NEW l, FitsReminder(l, t, ts, m)
      PROVE  FitsReminder(l, t, us, n)
  <2>1. l.draft \in Drafts /\ l.draft \in 1..n /\ t - ts[l.draft] <= TTL
    BY <1>1, <1>3 DEF FitsReminder
  <2>2. ts[l.draft] \in Nat /\ us[l.draft] \in Nat /\ ts[l.draft] <= us[l.draft]
    BY <1>1, <2>1
  <2>3. t - us[l.draft] <= TTL
    BY <1>1, <2>1, <2>2
  <2> QED
    BY <1>3, <2>1, <2>3 DEF FitsReminder
<1> QED
  BY <1>2, <1>3

\* Working on a draft makes it young.
LEMMA TouchFacts ==
  ASSUME Typed, NEW draft \in Drafts, Touch(draft)
  PROVE  /\ touched' \in [Drafts -> Times] /\ touched'[draft] = now
         /\ \A x \in Drafts : touched[x] <= touched'[x] /\ touched'[x] <= now
<1> USE ConversationAssumption
<1>1. Times \subseteq Nat /\ now \in Times /\ touched \in [Drafts -> Times]
  BY DEF Typed, Times
<1>2. touched' = [touched EXCEPT ![draft] = now]
  BY DEF Touch
<1>3. \A x \in Drafts : touched[x] <= now /\ touched[x] \in Nat
  BY <1>1 DEF Typed
<1> QED
  BY <1>1, <1>2, <1>3

\* A new question fits.
LEMMA AwaitingFits ==
  ASSUME Typed, NEW state, NEW result, NEW n \in 0..MaxUpdates, NEW draft \in 1..n, NEW field,
         NEW ts, ts[draft] = now, "missing" \in DOMAIN result,
         \/ state = "await_field" /\ result.missing # <<>>
         \/ state = "await_confirm" /\ result.missing = <<>>
  PROVE  /\ Fits(Awaiting(state, "create", result, draft, field), now, ts, n)
         /\ Awaiting(state, "create", result, draft, field).draft = draft
BY ConversationAssumption DEF Typed, Times, Awaiting, Fits, FitsDraft

\* What continueParsing makes of a parse.
LEMMA ParsingFits ==
  ASSUME Typed, NEW h \in Handlers, NEW result \in Parses, NEW n \in 0..MaxUpdates, NEW draft \in 1..n,
         NEW ts, ts[draft] = now, continueParsing(h, result, draft)
  PROVE  \/ Ends(h)
         \/ \E what : /\ Goto(h, "set", what)
                      /\ Fits(what, now, ts, n) /\ what.draft = draft
<1>1. "missing" \in DOMAIN result
  BY ConversationAssumption
<1>2. CASE result.missing # <<>> /\ Goto(h, "set", Awaiting("await_field", "create", result, draft, Head(result.missing)))
  <2> DEFINE w == Awaiting("await_field", "create", result, draft, Head(result.missing))
  <2>1. Fits(w, now, ts, n) /\ w.draft = draft
    BY <1>1, <1>2, AwaitingFits
  <2> HIDE DEF w
  <2>2. Goto(h, "set", w)
    BY <1>2 DEF w
  <2> QED
    BY <2>1, <2>2
<1>3. CASE result.missing = <<>> /\ Goto(h, "set", Awaiting("await_confirm", "create",
                                          withDefaults(result, PollCron, None), draft, ""))
  <2>1. PICK e : e = withDefaults(result, PollCron, None) /\ "missing" \in DOMAIN e /\ e.missing = <<>>
    BY <1>1, <1>3, DefaultsKeepMissing
  <2>2. \A f : LET w == Awaiting("await_confirm", "create", e, draft, f)
              IN Fits(w, now, ts, n) /\ w.draft = draft
    BY <2>1, AwaitingFits
  <2>3. PICK f : Goto(h, "set", Awaiting("await_confirm", "create", e, draft, f))
    BY <1>3, <2>1
  <2> QED
    BY <2>2, <2>3
<1> QED
  BY <1>2, <1>3 DEF continueParsing

-----------------------------------------------------------------------------
(***************************************************************************)
(* What a step of a handler makes of it.                                   *)
(***************************************************************************)

\* The draft a handler may work on: that of its own text, or the current one.
Own(h, draft) ==
  \/ pc[h] = "idle" /\ draft = updates + 1
  \/ pc[h] = "expire" /\ draft = updates
  \/ pc[h] \in {"idle", "confirm"} /\ dialog # Idle /\ dialog.mode = "create" /\ draft = dialog.draft

Becomes(h, stage, what) ==
  /\ Goto(h, stage, what) /\ stage \in Stages
  /\ stage = "set" => /\ Fits(what, now, touched', updates')
                      /\ what.mode = "create" => Own(h, what.draft)
  /\ stage = "create" => FitsReminder(what, now, touched', updates') /\ Own(h, what.draft)
  /\ stage = "expire" => pc[h] = "idle"

\* What the dialog says of itself.
LEMMA DialogFacts ==
  ASSUME Typed
  PROVE  \/ dialog = Idle /\ dialog.state = "idle"
         \/ /\ dialog # Idle /\ Fits(dialog, now, touched, updates)
            /\ dialog.state \in {"await_field", "await_confirm", "await_edit"}
            /\ dialog.state # "await_edit" \/ dialog.mode = "create" =>
                 FitsDraft(dialog, touched, updates) /\ dialog.mode = "create"
BY DEF Typed, Fits, FitsDraft, Idle

\* Each update is counted, and drafts are touched now or not at all.
LEMMA StepTouches ==
  ASSUME Typed, HandlersKnow, NEW h \in Handlers, HandlerStep(h)
  PROVE  /\ now' = now
         /\ updates' \in 0..MaxUpdates
         /\ updates' = updates + (IF pc[h] = "idle" THEN 1 ELSE 0)
         /\ touched' \in [Drafts -> Times]
         /\ \A x \in Drafts : touched[x] <= touched'[x] /\ touched'[x] <= now
<1> USE ConversationAssumption
<1>1. /\ updates \in Nat /\ updates <= MaxUpdates /\ MaxUpdates \in Nat /\ now \in Nat
      /\ touched \in [Drafts -> Times] /\ \A x \in Drafts : touched[x] \in Nat /\ touched[x] <= now
  BY DEF Typed, Times
<1>2. now' = now
  BY DEF HandlerStep, handleText, Expire, Abandon, handleDraftCallback, beginOtherEdit, handleConfirmYes,
         confirmReminderByText, Create, CreateFails, SetDialog, ResetDialog, WriteFails
<1>3. CASE Arrives(h) /\ updates' = updates + 1 /\ pc[h] = "idle" /\ updates' \in 1..MaxUpdates
  <2>1. CASE touched' = touched
    BY <1>1, <1>2, <1>3, <2>1
  <2>2. CASE Touch(updates')
    <3>1. updates' \in Drafts
      BY <1>3 DEF Drafts
    <3> QED
      BY <1>2, <1>3, <2>2, <3>1, TouchFacts
  <2>3. CASE Touch(dialog.draft) /\ FitsDraft(dialog, touched, updates)
    <3>1. dialog.draft \in Drafts
      BY <1>1, <2>3 DEF Drafts, FitsDraft
    <3> QED
      BY <1>2, <1>3, <2>3, <3>1, TouchFacts
  <2> QED
    BY <1>3, <2>1, <2>2, <2>3, DialogFacts
       DEF HandlerStep, handleText, Expire, Abandon, handleDraftCallback, beginOtherEdit, handleConfirmYes,
           confirmReminderByText, Create, CreateFails, SetDialog, ResetDialog, WriteFails,
           confirmationDecision, handleFieldInput, handleEditFieldInput, startParsing
<1>4. CASE Expire(h)
  <2>1. updates \in Drafts /\ Touch(updates) /\ updates' = updates /\ pc[h] # "idle"
    BY <1>4 DEF Expire, HandlersKnow, Drafts, bounds
  <2> QED
    BY <1>1, <1>2, <2>1, TouchFacts
<1>5. CASE touched' = touched /\ updates' = updates /\ pc[h] # "idle"
  BY <1>1, <1>2, <1>5
<1>6. Arrives(h) => updates' = updates + 1 /\ pc[h] = "idle" /\ updates' \in 1..MaxUpdates
  BY <1>1 DEF Arrives
<1>7. Arrives(h) \/ Expire(h) \/ (touched' = touched /\ updates' = updates /\ pc[h] # "idle")
  BY DEF HandlerStep, handleText, Abandon, handleDraftCallback, beginOtherEdit, handleConfirmYes,
         confirmReminderByText, Create, CreateFails, SetDialog, ResetDialog, WriteFails, Fault, history, bounds
<1> QED
  BY <1>3, <1>4, <1>5, <1>6, <1>7

\* An edited field.
LEMMA EditFits ==
  ASSUME Typed, NEW t \in Times, FitsDraft(dialog, touched, updates), Fits(dialog, now, touched, updates),
         NEW n \in 0..MaxUpdates, updates <= n, NEW ts \in [Drafts -> Times],
         \A x \in Drafts : touched[x] <= ts[x]
  PROVE  /\ dialog.state = "await_edit" =>
              \A e \in editedDrafts(dialog.result, dialog.field, t, Times) :
                LET w == [dialog EXCEPT !.state = "await_confirm", !.result = e]
                IN Fits(w, now, ts, n) /\ w.draft = dialog.draft
         /\ dialog.state = "await_confirm" /\ ts[dialog.draft] = now =>
              \A field \in Fields :
                LET w == [dialog EXCEPT !.state = "await_edit", !.field = field, !.createdAt = now]
                IN Fits(w, now, ts, n) /\ w.draft = dialog.draft
<1> USE ConversationAssumption
<1>1. now \in Times /\ updates \in 0..MaxUpdates /\ now \in Nat
  BY DEF Typed, Times
<1>2. Fits(dialog, now, ts, n) /\ FitsDraft(dialog, ts, n)
  <2>1. Fits(dialog, now, ts, n)
    BY <1>1, FitsStays DEF Typed
  <2> QED
    BY <2>1 DEF Fits, FitsDraft
<1>3. /\ dialog.mode = "create" /\ dialog.draft \in 1..n /\ dialog.createdAt <= ts[dialog.draft]
      /\ dialog.createdAt \in 0..now /\ "missing" \in DOMAIN dialog.result
  BY <1>2 DEF Fits, FitsDraft
<1>4. ASSUME dialog.state = "await_edit", NEW e \in editedDrafts(dialog.result, dialog.field, t, Times)
      PROVE  LET w == [dialog EXCEPT !.state = "await_confirm", !.result = e]
             IN Fits(w, now, ts, n) /\ w.draft = dialog.draft
  <2>1. dialog.result.missing = <<>> /\ dialog.field \in Fields
    BY <1>4 DEF FitsDraft
  <2>2. "missing" \in DOMAIN e /\ e.missing = <<>>
    <3>1. PICK r, f : /\ r = dialog.result /\ "missing" \in DOMAIN r /\ r.missing = <<>>
                      /\ f = dialog.field /\ f \in Fields
      BY <1>3, <2>1
    <3>2. e \in editedDrafts(r, f, t, Times)
      BY <1>4, <3>1
    <3>3. "missing" \in DOMAIN e /\ e.missing = r.missing
      BY <3>1, <3>2, EditsKeepMissing
    <3> QED
      BY <3>1, <3>3
  <2> DEFINE w == [dialog EXCEPT !.state = "await_confirm", !.result = e]
  <2>3. /\ w \in [state : {w.state}, mode : {w.mode}, result : {w.result}, draft : {w.draft},
                   field : {w.field}, createdAt : {w.createdAt}]
        /\ w.state = "await_confirm" /\ w.result = e
        /\ w.mode = dialog.mode /\ w.draft = dialog.draft /\ w.createdAt = dialog.createdAt
    BY DEF Fits
  <2> HIDE DEF w
  <2>4. Fits(w, now, ts, n)
    BY <1>3, <2>2, <2>3 DEF Fits, FitsDraft
  <2> QED
    BY <2>3, <2>4 DEF w
<1>5. ASSUME dialog.state = "await_confirm", ts[dialog.draft] = now, NEW field \in Fields
      PROVE  LET w == [dialog EXCEPT !.state = "await_edit", !.field = field, !.createdAt = now]
             IN Fits(w, now, ts, n) /\ w.draft = dialog.draft
  <2>1. dialog.result.missing = <<>>
    BY <1>5 DEF FitsDraft
  <2> DEFINE w == [dialog EXCEPT !.state = "await_edit", !.field = field, !.createdAt = now]
  <2>2. /\ w \in [state : {w.state}, mode : {w.mode}, result : {w.result}, draft : {w.draft},
                   field : {w.field}, createdAt : {w.createdAt}]
        /\ w.state = "await_edit" /\ w.field = field /\ w.createdAt = now
        /\ w.mode = dialog.mode /\ w.draft = dialog.draft /\ w.result = dialog.result
    BY DEF Fits
  <2> HIDE DEF w
  <2>3. Fits(w, now, ts, n)
    BY <1>1, <1>3, <1>5, <2>1, <2>2 DEF Fits, FitsDraft
  <2> QED
    BY <2>2, <2>3 DEF w
<1> QED
  BY <1>4, <1>5

\* A confirmed draft is not stale, and gives a reminder with a key.
LEMMA ConfirmedBecomes ==
  ASSUME Typed, NEW h \in Handlers, pc[h] \in {"idle", "confirm"}, confirmed(h),
         touched' = touched, updates' \in 0..MaxUpdates, updates <= updates'
  PROVE  \E stage, what : Becomes(h, stage, what)
<1> USE ConversationAssumption
<1>1. CASE Ends(h) \/ Goto(h, "reset", Nothing)
  BY <1>1 DEF Becomes, Stages, Ends
<1>2. CASE /\ dialog.state = "await_confirm" /\ ~Stale(dialog) /\ buildReminder(dialog.result, now) # None
           /\ Goto(h, "create", [draft |-> dialog.draft, reminder |-> buildReminder(dialog.result, now)])
  <2>1. PICK r : r = buildReminder(dialog.result, now) /\ Goto(h, "create", [draft |-> dialog.draft, reminder |-> r])
    BY <1>2
  <2>2. PICK d : d = dialog.result
    OBVIOUS
  <2>3. buildReminder(d, now) # None /\ r = buildReminder(d, now)
    BY <1>2, <2>1, <2>2
  <2>4. /\ r.key # NoKey
        /\ r.trigger \in Triggers => r.kind = "conditional"
        /\ r.kind = "conditional" => r.trigger # ""
    BY <2>3, BuiltHasKey
  <2>5. dialog # Idle /\ Fits(dialog, now, touched, updates) /\ FitsDraft(dialog, touched, updates)
    BY <1>2, DialogFacts
  <2>6. /\ dialog.mode = "create" /\ dialog.draft \in Drafts /\ dialog.draft \in 1..updates'
        /\ touched[dialog.draft] \in Nat /\ dialog.createdAt \in Nat /\ dialog.createdAt <= touched[dialog.draft]
        /\ now \in Nat
    BY <2>5 DEF Typed, Times, Drafts, Fits, FitsDraft
  <2>7. now - dialog.createdAt <= TTL
    BY <1>2, <2>5, <2>6 DEF Stale
  <2>8. now - touched'[dialog.draft] <= TTL
    BY <2>6, <2>7
  <2> DEFINE w == [draft |-> dialog.draft, reminder |-> r]
  <2>9. FitsReminder(w, now, touched', updates')
    BY <2>4, <2>6, <2>8 DEF FitsReminder
  <2>10. Own(h, w.draft)
    BY <2>5, <2>6 DEF Own
  <2> QED
    BY <2>1, <2>9, <2>10 DEF Becomes, Stages
<1> QED
  BY <1>1, <1>2 DEF confirmed

\* An answered question, or a new request.
LEMMA ParsedBecomes ==
  ASSUME Typed, HandlersKnow, NEW h \in Handlers, NEW result \in Parses, NEW draft,
         continueParsing(h, result, draft), Own(h, draft), draft \in 1..updates',
         updates' \in 0..MaxUpdates, touched'[draft] = now
  PROVE  \E stage, what : Becomes(h, stage, what)
<1>1. CASE Ends(h)
  BY <1>1 DEF Becomes, Stages, Ends
<1>2. CASE \E what : Goto(h, "set", what) /\ Fits(what, now, touched', updates') /\ what.draft = draft
  BY <1>2 DEF Becomes, Stages
<1>3. PICK n, ts : n = updates' /\ ts = touched'
  OBVIOUS
<1> QED
  BY <1>1, <1>2, <1>3, ParsingFits

\* An edited field of a draft, or of something else.
LEMMA EditedBecomes ==
  ASSUME Typed, HandlersKnow, NEW h \in Handlers, handleText(h), HandlerStep(h),
         dialog.state = "await_edit", handleEditFieldInput(h, dialog)
  PROVE  \E stage, what : Becomes(h, stage, what)
<1> USE ConversationAssumption
<1>1. CASE Goto(h, "reset", Nothing)
  BY <1>1 DEF Becomes, Stages
<1>2. CASE dialog.mode = "create" /\ ~Goto(h, "reset", Nothing)
  <2>1. PICK e \in editedDrafts(dialog.result, dialog.field, now, Times) :
          Goto(h, "set", [dialog EXCEPT !.state = "await_confirm", !.result = e])
    BY <1>2 DEF handleEditFieldInput
  <2>2. dialog # Idle /\ Fits(dialog, now, touched, updates) /\ FitsDraft(dialog, touched, updates)
    BY <1>2, DialogFacts
  <2>3. /\ updates' \in 0..MaxUpdates /\ touched' \in [Drafts -> Times]
        /\ \A x \in Drafts : touched[x] <= touched'[x]
    BY StepTouches
  <2>4. updates <= updates'
    BY StepTouches DEF Typed
  <2>5. PICK n, ts : n = updates' /\ ts = touched'
    OBVIOUS
  <2>6. now \in Times
    BY DEF Typed
  <2> DEFINE w == [dialog EXCEPT !.state = "await_confirm", !.result = e]
  <2>7. Fits(w, now, ts, n) /\ w.draft = dialog.draft
    BY <2>1, <2>2, <2>3, <2>4, <2>5, <2>6, EditFits
  <2>8. Goto(h, "set", w)
    BY <2>1
  <2> HIDE DEF w
  <2>9. pc[h] = "idle"
    BY DEF handleText, Arrives
  <2> QED
    BY <1>2, <2>2, <2>5, <2>7, <2>8, <2>9 DEF Becomes, Stages, Own
<1> QED
  BY <1>1, <1>2 DEF handleEditFieldInput

\* Each step leaves its handler with something that fits.
LEMMA StepBecomes ==
  ASSUME Typed, HandlersKnow, NEW h \in Handlers, HandlerStep(h)
  PROVE  \E stage, what : Becomes(h, stage, what)
<1> USE ConversationAssumption
<1>1. /\ updates' \in 0..MaxUpdates /\ touched' \in [Drafts -> Times]
      /\ \A x \in Drafts : touched[x] <= touched'[x]
      /\ updates' = updates + (IF pc[h] = "idle" THEN 1 ELSE 0)
  BY StepTouches
<1>2. updates \in Nat /\ updates <= updates' /\ updates' \in Nat /\ MaxUpdates \in Nat /\ now \in Times
  BY <1>1 DEF Typed
<1>3. CASE \E what : \E stage \in {"idle", "reset", "confirm"} : Goto(h, stage, what)
  BY <1>3 DEF Becomes, Stages
<1>4. CASE Expire(h)
  <2>1. CASE Ends(h)
    BY <1>3, <2>1 DEF Ends
  <2>2. CASE \E result \in Parses : continueParsing(h, result, updates)
    <3>1. updates \in 1..MaxUpdates /\ pc[h] = "expire" /\ updates' = updates /\ updates \in Drafts /\ Touch(updates)
      BY <1>4 DEF Expire, HandlersKnow, bounds, Drafts
    <3>2. touched'[updates] = now /\ Own(h, updates) /\ updates \in 1..updates'
      BY <1>2, <3>1, TouchFacts DEF Own
    <3> QED
      BY <1>1, <2>2, <3>2, ParsedBecomes
  <2> QED
    BY <1>4, <2>1, <2>2 DEF Expire
<1>5. CASE handleText(h)
  <2>1. Arrives(h) /\ pc[h] = "idle" /\ updates' = updates + 1 /\ updates' \in Drafts
    BY <1>1, <1>2, <1>5 DEF handleText, Arrives, Drafts
  <2>2. CASE Stale(dialog)
    BY <1>5, <2>1, <2>2 DEF handleText, Becomes, Stages
  <2>3. CASE ~Stale(dialog) /\ dialog.state = "await_confirm"
    <3>1. confirmationDecision(h, dialog)
      BY <1>5, <2>3 DEF handleText
    <3> QED
      BY <1>3, <3>1 DEF confirmationDecision
  <2>4. CASE ~Stale(dialog) /\ dialog.state = "await_field"
    <3>1. handleFieldInput(h, dialog)
      BY <1>5, <2>4 DEF handleText
    <3>2. dialog # Idle /\ FitsDraft(dialog, touched, updates)
      BY <2>4, DialogFacts
    <3>3. dialog.draft \in Drafts /\ dialog.draft \in 1..updates' /\ dialog.mode = "create"
      BY <1>1, <1>2, <3>2 DEF FitsDraft, Drafts
    <3>4. touched'[dialog.draft] = now /\ Own(h, dialog.draft)
      BY <2>1, <3>1, <3>2, <3>3, TouchFacts DEF handleFieldInput, Own
    <3>5. CASE Goto(h, "reset", Nothing)
      BY <1>3, <3>5
    <3>6. CASE \E result \in Parses : continueParsing(h, result, dialog.draft)
      <4>1. PICK draft : draft = dialog.draft
        OBVIOUS
      <4>2. \E result \in Parses : continueParsing(h, result, draft)
        BY <3>6, <4>1
      <4> QED
        BY <1>1, <3>3, <3>4, <4>1, <4>2, ParsedBecomes
    <3> QED
      BY <3>1, <3>5, <3>6 DEF handleFieldInput
  <2>5. CASE ~Stale(dialog) /\ dialog.state = "await_edit"
    <3>1. handleEditFieldInput(h, dialog)
      BY <1>5, <2>5 DEF handleText
    <3> QED
      BY <1>5, <2>5, <3>1, EditedBecomes
  <2>6. CASE ~Stale(dialog) /\ dialog.state = "idle"
    <3>1. startParsing(h)
      BY <1>5, <2>6 DEF handleText
    <3>2. PICK draft : draft = updates'
      OBVIOUS
    <3>3. PICK result \in Parses : continueParsing(h, result, draft)
      BY <3>1, <3>2 DEF startParsing
    <3>4. draft \in Drafts /\ Touch(draft) /\ draft \in 1..updates' /\ Own(h, draft)
      BY <1>2, <2>1, <3>1, <3>2 DEF startParsing, Own, Drafts
    <3>5. touched'[draft] = now
      BY <3>4, TouchFacts
    <3> QED
      BY <1>1, <3>3, <3>4, <3>5, ParsedBecomes
  <2> QED
    BY <2>2, <2>3, <2>4, <2>5, <2>6, DialogFacts
<1>6. CASE handleDraftCallback(h)
  <2>1. PICK field \in Fields :
          Goto(h, "set", [dialog EXCEPT !.state = "await_edit", !.field = field, !.createdAt = now])
    BY <1>6 DEF handleDraftCallback
  <2>2. dialog.state = "await_confirm" /\ Touch(dialog.draft) /\ pc[h] = "idle"
    BY <1>6 DEF handleDraftCallback, Arrives
  <2>3. dialog # Idle /\ Fits(dialog, now, touched, updates) /\ FitsDraft(dialog, touched, updates)
    BY <2>2, DialogFacts
  <2>4. dialog.draft \in Drafts /\ dialog.mode = "create"
    BY <1>1, <1>2, <2>3 DEF FitsDraft, Drafts
  <2>5. touched'[dialog.draft] = now
    BY <2>2, <2>4, TouchFacts
  <2>6. PICK n, ts : n = updates' /\ ts = touched'
    OBVIOUS
  <2> DEFINE w == [dialog EXCEPT !.state = "await_edit", !.field = field, !.createdAt = now]
  <2>7. Fits(w, now, ts, n) /\ w.draft = dialog.draft
    BY <1>1, <1>2, <2>2, <2>3, <2>5, <2>6, EditFits
  <2>8. Goto(h, "set", w)
    BY <2>1
  <2> HIDE DEF w
  <2> QED
    BY <2>2, <2>3, <2>4, <2>6, <2>7, <2>8 DEF Becomes, Stages, Own
<1>7. CASE beginOtherEdit(h)
  <2>1. \A f : \A mode \in {"settings", "reminder"} :
          LET w == Awaiting("await_edit", mode, Nothing, 0, f)
          IN Fits(w, now, touched', updates') /\ w.mode # "create"
    BY <1>2 DEF Awaiting, Fits, Times
  <2>2. PICK mode \in {"settings", "reminder"} : Goto(h, "set", Awaiting("await_edit", mode, Nothing, 0, ""))
    BY <1>7 DEF beginOtherEdit
  <2>3. PICK f : Goto(h, "set", Awaiting("await_edit", mode, Nothing, 0, f))
    BY <2>2
  <2> QED
    BY <2>1, <2>3 DEF Becomes, Stages
<1>8. CASE handleConfirmYes(h) \/ confirmReminderByText(h)
  <2>1. confirmed(h) /\ pc[h] \in {"idle", "confirm"} /\ touched' = touched
    BY <1>8 DEF handleConfirmYes, confirmReminderByText, Arrives, history
  <2> QED
    BY <1>1, <1>2, <2>1, ConfirmedBecomes
<1>9. CASE Abandon(h) \/ Create(h) \/ CreateFails(h) \/ SetDialog(h) \/ ResetDialog(h) \/ WriteFails(h)
  BY <1>3, <1>9 DEF Abandon, Create, CreateFails, SetDialog, ResetDialog, WriteFails, Ends
<1> QED
  BY <1>4, <1>5, <1>6, <1>7, <1>8, <1>9 DEF HandlerStep

-----------------------------------------------------------------------------
(***************************************************************************)
(* Each part of the invariant is kept.                                     *)
(***************************************************************************)

\* How the other handlers and the dialog fare while one handler steps.
LEMMA StepFrame ==
  ASSUME Typed, HandlersKnow, NEW h \in Handlers, HandlerStep(h)
  PROVE  /\ dialog' = dialog \/ dialog' = Idle \/ (pc[h] = "set" /\ dialog' = local[h])
         /\ \A g \in Handlers \ {h} : pc'[g] = pc[g] /\ local'[g] = local[g]
         /\ pc' \in [Handlers -> Stages] /\ DOMAIN local' = Handlers
         /\ faults' \in Nat /\ faults <= faults'
<1>1. PICK stage, what : stage \in Stages /\ Goto(h, stage, what)
  BY StepBecomes DEF Becomes
<1>2. pc \in [Handlers -> Stages] /\ DOMAIN local = Handlers /\ faults \in Nat
  BY DEF Typed
<1>3. dialog' = dialog \/ dialog' = Idle \/ (pc[h] = "set" /\ dialog' = local[h])
  BY DEF HandlerStep, handleText, Expire, Abandon, handleDraftCallback, beginOtherEdit, handleConfirmYes,
         confirmReminderByText, Create, CreateFails, SetDialog, ResetDialog, WriteFails
<1>4. faults' = faults \/ faults' = faults + 1
  BY DEF HandlerStep, handleText, Expire, Abandon, handleDraftCallback, beginOtherEdit, handleConfirmYes,
         confirmReminderByText, Create, CreateFails, SetDialog, ResetDialog, WriteFails, Fault, Arrives, bounds
<1>5. faults' \in Nat /\ faults <= faults'
  BY <1>2, <1>4
<1>6. /\ \A g \in Handlers \ {h} : pc'[g] = pc[g] /\ local'[g] = local[g]
      /\ pc' \in [Handlers -> Stages] /\ DOMAIN local' = Handlers
  BY <1>1, <1>2 DEF Goto
<1> QED
  BY <1>3, <1>5, <1>6

\* What a change of a reminder, and the clock, leave alone.
LEMMA OthersFrame ==
  ASSUME Next, ~\E h \in Handlers : HandlerStep(h)
  PROVE  /\ UNCHANGED <<dialog, pc, local, touched, created, refused, dismissed, overlapped, updates, faults>>
         /\ Resting
         /\ \/ now' = now
            \/ /\ now < MaxTime /\ now' = now + 1 /\ UNCHANGED <<rows, withdrawn>>
BY DEF Next, Tick, Withdraw, Remove, FinishDue, Duplicate, Changed, history, bounds

LEMMA TypedStep ==
  ASSUME Typed, HandlersKnow, Next
  PROVE  Typed' /\ HandlersKnow'
<1> USE ConversationAssumption
<1>1. /\ now \in Times /\ Times \subseteq Nat /\ updates \in 0..MaxUpdates /\ touched \in [Drafts -> Times]
      /\ \A x \in Drafts : touched[x] <= now
  BY DEF Typed, Times
<1>2. /\ dialog = Idle \/ Fits(dialog, now, touched, updates)
      /\ pc \in [Handlers -> Stages] /\ DOMAIN local = Handlers /\ overlapped \in BOOLEAN /\ faults \in Nat
  BY DEF Typed
<1>3. ASSUME NEW h \in Handlers, HandlerStep(h)
      PROVE  Typed' /\ HandlersKnow'
  <2>1. /\ now' = now /\ updates' \in 0..MaxUpdates /\ updates' = updates + (IF pc[h] = "idle" THEN 1 ELSE 0)
        /\ touched' \in [Drafts -> Times]
        /\ \A x \in Drafts : touched[x] <= touched'[x] /\ touched'[x] <= now
    BY <1>3, StepTouches
  <2>2. updates <= updates' /\ now <= now
    BY <1>1, <2>1
  <2>3. PICK n, ts : n = updates' /\ ts = touched'
    OBVIOUS
  <2>4. /\ \A d : Fits(d, now, touched, updates) => Fits(d, now, ts, n)
        /\ \A l : FitsReminder(l, now, touched, updates) => FitsReminder(l, now, ts, n)
    BY <1>1, <2>1, <2>2, <2>3, FitsStays
  <2>5. /\ dialog' = dialog \/ dialog' = Idle \/ (pc[h] = "set" /\ dialog' = local[h])
        /\ \A g \in Handlers \ {h} : pc'[g] = pc[g] /\ local'[g] = local[g]
        /\ pc' \in [Handlers -> Stages] /\ DOMAIN local' = Handlers
        /\ faults' \in Nat
    BY <1>3, StepFrame
  <2>6. dialog' = Idle \/ Fits(dialog', now', touched', updates')
    BY <1>2, <2>1, <2>3, <2>4, <2>5 DEF HandlersKnow
  <2>7. overlapped' \in BOOLEAN
    BY <1>2, <1>3 DEF HandlerStep, handleText, Expire, Abandon, handleDraftCallback, beginOtherEdit,
         handleConfirmYes, confirmReminderByText, Create, CreateFails, SetDialog, ResetDialog, WriteFails,
         Arrives, history
  <2>8. PICK stage, what : Becomes(h, stage, what)
    BY <1>3, StepBecomes
  <2>9. pc'[h] = stage /\ local'[h] = what
    BY <1>2, <2>8 DEF Becomes, Goto
  <2>10. /\ pc'[h] = "set" => Fits(local'[h], now', touched', updates')
         /\ pc'[h] = "create" => FitsReminder(local'[h], now', touched', updates')
         /\ pc'[h] = "expire" => updates' \in 1..MaxUpdates
    <3>1. stage = "expire" => updates' \in 1..MaxUpdates
      BY <1>1, <2>1, <2>8 DEF Becomes
    <3> QED
      BY <2>1, <2>8, <2>9, <3>1 DEF Becomes
  <2>11. ASSUME NEW g \in Handlers \ {h}
         PROVE  /\ pc'[g] = "set" => Fits(local'[g], now', touched', updates')
                /\ pc'[g] = "create" => FitsReminder(local'[g], now', touched', updates')
                /\ pc'[g] = "expire" => updates' \in 1..MaxUpdates
    <3>1. pc[g] = "expire" => updates' \in 1..MaxUpdates
      BY <2>1, <2>2 DEF HandlersKnow
    <3> QED
      BY <2>1, <2>3, <2>4, <2>5, <3>1 DEF HandlersKnow
  <2>12. Typed'
    BY <1>1, <2>1, <2>5, <2>6, <2>7 DEF Typed
  <2>13. HandlersKnow'
    BY <2>10, <2>11 DEF HandlersKnow
  <2> QED
    BY <2>12, <2>13
<1>4. ASSUME ~\E h \in Handlers : HandlerStep(h)
      PROVE  Typed' /\ HandlersKnow'
  <2>1. /\ dialog' = dialog /\ pc' = pc /\ local' = local /\ touched' = touched /\ updates' = updates
        /\ overlapped' = overlapped /\ faults' = faults
        /\ \A h \in Handlers : pc[h] = "idle"
        /\ now' = now \/ (now < MaxTime /\ now' = now + 1)
    BY <1>4, OthersFrame DEF Resting
  <2>2. now' \in Times /\ now <= now' /\ \A x \in Drafts : touched[x] <= now'
    BY <1>1, <2>1 DEF Times
  <2>3. PICK t : t = now'
    OBVIOUS
  <2>4. \A d : Fits(d, now, touched, updates) => Fits(d, t, touched, updates)
    <3>1. t \in Times /\ now <= t /\ updates <= updates
      BY <1>1, <2>2, <2>3
    <3>2. ASSUME NEW x \in Drafts
          PROVE  touched[x] <= touched[x]
      <4>1. touched[x] \in Nat
        BY <1>1
      <4> QED
        BY <4>1
    <3> QED
      BY <1>1, <3>1, <3>2, FitsStays
  <2>5. Typed'
    BY <1>1, <1>2, <2>1, <2>2, <2>3, <2>4 DEF Typed
  <2>6. HandlersKnow'
    BY <2>1 DEF HandlersKnow
  <2> QED
    BY <2>5, <2>6
<1> QED
  BY <1>3, <1>4

-----------------------------------------------------------------------------
\* The reminders, and what is known of them.
Reminders == KeysAreHeld /\ CreatedIsAccounted /\ RefusedHasTwin

\* The key makes the insert happen once, until the user withdraws.
LEMMA InsertKeeps ==
  ASSUME Typed, Reminders, NEW l, FitsReminder(l, now, touched, updates), Insert(l), updates' = updates
  PROVE  Reminders'
<1> DEFINE key == l.reminder.key
           card == Cardinality(created)
<1>1. key # NoKey /\ l.draft \in 1..updates
  BY DEF FitsReminder
<1>2. IsFiniteSet(created) /\ card \in Nat
  BY FS_CardinalityType DEF Reminders, CreatedIsAccounted
<1>3. CASE Twins(key) = {}
  <2> DEFINE new == [draft |-> l.draft, at |-> now, key |-> l.reminder.key,
                     kind |-> l.reminder.kind, trigger |-> l.reminder.trigger,
                     n |-> Cardinality(created) + 1, again |-> l.reminder.key \in withdrawn]
             row == NewRow(l.reminder)
  <2>1. /\ new.draft = l.draft /\ new.key = key /\ new.n = card + 1
        /\ new.kind = l.reminder.kind /\ new.trigger = l.reminder.trigger
        /\ key \in withdrawn => new.again
    OBVIOUS
  <2>2. /\ row \in [key : {row.key}, copy : {row.copy}, status : {row.status}, next : {row.next}, once : {row.once}]
        /\ row.key = key /\ row.status \in Statuses
    BY DEF NewRow, Statuses
  <2>3. /\ rows' = rows \cup {row} /\ created' = created \cup {new}
        /\ withdrawn' = withdrawn \ {key} /\ refused' = refused
    BY <1>3 DEF Insert
  <2> HIDE DEF new, row
  <2>4. \A r \in rows : r.key # key
    BY <1>3 DEF Twins
  <2>5. \A c \in created : c.n \in 1..card /\ c.n \in Nat
    BY <1>2 DEF Reminders, CreatedIsAccounted
  <2>6. new \notin created
    BY <1>2, <2>1, <2>5
  <2>7. IsFiniteSet(created') /\ Cardinality(created') = card + 1
    BY <1>2, <2>3, <2>6, FS_AddElement
  <2>8. \A c \in created : c.key = key => key \in withdrawn
    BY <2>4 DEF Reminders, CreatedIsAccounted
  <2>9. OncePerContent'
    <3>1. ASSUME NEW c \in created', NEW d \in created', c.key = d.key, c.n < d.n
          PROVE  d.again
      <4>1. CASE c \in created /\ d \in created
        BY <3>1, <4>1 DEF Reminders, CreatedIsAccounted, OncePerContent
      <4>2. CASE c = new /\ d \in created
        BY <1>2, <2>1, <2>5, <3>1, <4>2
      <4>3. CASE c = new /\ d = new
        BY <1>2, <2>1, <3>1, <4>3
      <4>4. CASE c \in created /\ d = new
        BY <2>1, <2>8, <3>1, <4>4
      <4> QED
        BY <2>3, <4>1, <4>2, <4>3, <4>4
    <3> QED
      BY <3>1 DEF OncePerContent
  <2>10. KindMatchesTrigger'
    BY <2>1, <2>3 DEF Reminders, CreatedIsAccounted, KindMatchesTrigger, FitsReminder
  <2>11. ASSUME NEW c \in created'
         PROVE  /\ c.n \in 1..Cardinality(created')
                /\ c.draft \in 1..updates'
                /\ c.key \in withdrawn' \/ \E r \in rows' : r.key = c.key
    <3>1. CASE c \in created
      <4>1. c.n \in 1..Cardinality(created')
        BY <1>2, <2>5, <2>7, <3>1
      <4>2. c.draft \in 1..updates'
        BY <3>1 DEF Reminders, CreatedIsAccounted
      <4>3. c.key \in withdrawn \/ \E r \in rows : r.key = c.key
        BY <3>1 DEF Reminders, CreatedIsAccounted
      <4>4. c.key \in withdrawn' \/ \E r \in rows' : r.key = c.key
        BY <2>2, <2>3, <4>3
      <4> QED
        BY <4>1, <4>2, <4>4
    <3>2. CASE c = new
      BY <1>1, <1>2, <2>1, <2>2, <2>3, <2>7, <3>2
    <3> QED
      BY <2>3, <3>1, <3>2
  <2>12. KeysAreHeld'
    <3>1. ASSUME NEW r \in rows'
          PROVE  /\ r \in [key : {r.key}, copy : {r.copy}, status : {r.status}, next : {r.next}, once : {r.once}]
                 /\ r.status \in Statuses
                 /\ r.key # NoKey => r.key \in {c.key : c \in created'} /\ r.key \notin withdrawn'
      BY <2>1, <2>2, <2>3 DEF Reminders, KeysAreHeld
    <3>2. ASSUME NEW r \in rows', NEW s \in rows', r.key = s.key, r.key # NoKey
          PROVE  r = s
      BY <2>2, <2>3, <2>4, <3>2 DEF Reminders, KeysAreHeld
    <3> QED
      BY <3>1, <3>2 DEF KeysAreHeld
  <2>13. CreatedIsAccounted'
    BY <2>7, <2>9, <2>10, <2>11 DEF CreatedIsAccounted
  <2> QED
    BY <2>3, <2>12, <2>13 DEF Reminders, RefusedHasTwin
<1>4. CASE Twins(key) # {}
  <2> DEFINE new == [key |-> l.reminder.key, at |-> now, again |-> l.reminder.key \in withdrawn]
  <2>1. PICK r \in rows : r.key = key
    BY <1>4 DEF Twins
  <2>2. key \notin withdrawn
    BY <1>1, <2>1 DEF Reminders, KeysAreHeld
  <2>3. ~new.again
    BY <2>2
  <2>4. refused' = refused \cup {new} /\ UNCHANGED <<rows, created, withdrawn>>
    BY <1>4 DEF Insert
  <2> HIDE DEF new
  <2>5. RefusedHasTwin'
    BY <2>3, <2>4 DEF Reminders, RefusedHasTwin
  <2>6. KeysAreHeld' /\ CreatedIsAccounted'
    BY <2>4 DEF Reminders, KeysAreHeld, CreatedIsAccounted, OncePerContent, KindMatchesTrigger
  <2> QED
    BY <2>5, <2>6 DEF Reminders
<1> QED
  BY <1>3, <1>4

\* Reminders that are replaced by ones of the same key, or lose their key as
\* the user withdraws them, leave the rest as it is.
LEMMA ReplaceKeeps ==
  ASSUME Typed, Reminders, NEW r \in rows, NEW s, Replace(r, s),
         s \in [key : {s.key}, copy : {s.copy}, status : {s.status}, next : {s.next}, once : {s.once}],
         s.status \in Statuses,
         \/ s.key = r.key /\ withdrawn' = withdrawn
         \/ s.key = NoKey /\ withdrawn' = withdrawn \cup {r.key},
         UNCHANGED <<created, refused, updates>>
  PROVE  Reminders'
<1>1. rows' = (rows \ {r}) \cup {s}
  BY DEF Replace
<1>2. \A x \in rows \ {r} : x.key # NoKey => x.key # r.key
  BY DEF Reminders, KeysAreHeld
<1>3. KeysAreHeld'
  <2>1. ASSUME NEW x \in rows'
        PROVE  /\ x \in [key : {x.key}, copy : {x.copy}, status : {x.status}, next : {x.next}, once : {x.once}]
               /\ x.status \in Statuses
               /\ x.key # NoKey => x.key \in {c.key : c \in created'} /\ x.key \notin withdrawn'
    <3>1. CASE x \in rows \ {r}
      BY <1>2, <3>1 DEF Reminders, KeysAreHeld
    <3>2. CASE x = s
      BY <3>2 DEF Reminders, KeysAreHeld
    <3> QED
      BY <1>1, <3>1, <3>2
  <2>2. ASSUME NEW x \in rows', NEW y \in rows', x.key = y.key, x.key # NoKey
        PROVE  x = y
    BY <1>1, <1>2, <2>2 DEF Reminders, KeysAreHeld
  <2> QED
    BY <2>1, <2>2 DEF KeysAreHeld
<1>4. CreatedIsAccounted'
  <2>1. ASSUME NEW c \in created
        PROVE  c.key \in withdrawn' \/ \E x \in rows' : x.key = c.key
    BY <1>1 DEF Reminders, CreatedIsAccounted
  <2> QED
    BY <2>1 DEF Reminders, CreatedIsAccounted, OncePerContent, KindMatchesTrigger
<1> QED
  BY <1>3, <1>4 DEF Reminders, RefusedHasTwin

\* The reminders that a removal leaves, or a duplicate joins.
LEMMA RemoveKeeps ==
  ASSUME Typed, Reminders, NEW r \in rows, rows' = rows \ {r}, withdrawn' = withdrawn \cup {r.key},
         UNCHANGED <<created, refused, updates>>
  PROVE  Reminders'
<1>1. \A x \in rows \ {r} : x.key # NoKey => x.key # r.key
  BY DEF Reminders, KeysAreHeld
<1>2. KeysAreHeld'
  BY <1>1 DEF Reminders, KeysAreHeld
<1>3. ASSUME NEW c \in created
      PROVE  c.key \in withdrawn' \/ \E x \in rows' : x.key = c.key
  BY DEF Reminders, CreatedIsAccounted
<1>4. CreatedIsAccounted'
  BY <1>3 DEF Reminders, CreatedIsAccounted, OncePerContent, KindMatchesTrigger
<1> QED
  BY <1>2, <1>4 DEF Reminders, RefusedHasTwin

LEMMA DuplicateKeeps ==
  ASSUME Typed, Reminders, NEW s, rows' = rows \cup {s}, s.key = NoKey, s.status \in Statuses,
         s \in [key : {s.key}, copy : {s.copy}, status : {s.status}, next : {s.next}, once : {s.once}],
         UNCHANGED <<created, refused, updates, withdrawn>>
  PROVE  Reminders'
<1>1. KeysAreHeld'
  BY DEF Reminders, KeysAreHeld
<1>2. ASSUME NEW c \in created
      PROVE  c.key \in withdrawn' \/ \E x \in rows' : x.key = c.key
  BY DEF Reminders, CreatedIsAccounted
<1>3. CreatedIsAccounted'
  BY <1>2 DEF Reminders, CreatedIsAccounted, OncePerContent, KindMatchesTrigger
<1> QED
  BY <1>1, <1>3 DEF Reminders, RefusedHasTwin

\* A row that is changed keeps its form.
LEMMA RowForm ==
  ASSUME Reminders, NEW r \in rows
  PROVE  /\ \A status, key : LET s == [r EXCEPT !.status = status, !.key = key] IN
              /\ s \in [key : {s.key}, copy : {s.copy}, status : {s.status}, next : {s.next}, once : {s.once}]
              /\ s.status = status /\ s.key = key
         /\ \A status : LET s == [r EXCEPT !.status = status] IN
              /\ s \in [key : {s.key}, copy : {s.copy}, status : {s.status}, next : {s.next}, once : {s.once}]
              /\ s.status = status /\ s.key = r.key
         /\ \A copy, key, status : LET s == [r EXCEPT !.copy = copy, !.key = key, !.status = status] IN
              /\ s \in [key : {s.key}, copy : {s.copy}, status : {s.status}, next : {s.next}, once : {s.once}]
              /\ s.status = status /\ s.key = key
<1>1. r \in [key : {r.key}, copy : {r.copy}, status : {r.status}, next : {r.next}, once : {r.once}]
  BY DEF Reminders, KeysAreHeld
<1> QED
  BY <1>1

LEMMA RemindersStep ==
  ASSUME Typed, HandlersKnow, Reminders, Next
  PROVE  Reminders'
<1> USE ConversationAssumption
<1>1. ASSUME NEW h \in Handlers, HandlerStep(h)
      PROVE  Reminders'
  <2>1. CASE Insert(local[h]) /\ pc[h] = "create" /\ updates' = updates
    <3>1. PICK l : l = local[h]
      OBVIOUS
    <3>2. FitsReminder(l, now, touched, updates) /\ Insert(l)
      BY <2>1, <3>1 DEF HandlersKnow
    <3> QED
      BY <2>1, <3>2, InsertKeeps
  <2>2. CASE UNCHANGED <<rows, created, refused, withdrawn>>
    <3>1. updates \in Nat /\ updates' \in Nat /\ updates <= updates'
      BY <1>1, StepTouches DEF Typed
    <3>2. \A c \in created : c.draft \in 1..updates'
      BY <3>1 DEF Reminders, CreatedIsAccounted
    <3>3. KeysAreHeld' /\ RefusedHasTwin'
      BY <2>2 DEF Reminders, KeysAreHeld, RefusedHasTwin
    <3>4. CreatedIsAccounted'
      BY <2>2, <3>2 DEF Reminders, CreatedIsAccounted, OncePerContent, KindMatchesTrigger
    <3> QED
      BY <3>3, <3>4 DEF Reminders
  <2> QED
    BY <1>1, <2>1, <2>2
       DEF HandlerStep, handleText, Expire, Abandon, handleDraftCallback, beginOtherEdit, handleConfirmYes,
           confirmReminderByText, Create, CreateFails, SetDialog, ResetDialog, WriteFails, Fault, history, bounds
<1>2. CASE Tick
  BY <1>2 DEF Tick, history, bounds, Reminders, KeysAreHeld, RefusedHasTwin, CreatedIsAccounted,
              OncePerContent, KindMatchesTrigger
<1>3. CASE Withdraw
  <2>1. UNCHANGED <<created, refused, updates>>
    BY <1>3 DEF Withdraw, Changed
  <2>2. PICK r \in rows : \E status \in {"done", "cancelled", r.status} :
          /\ Replace(r, [r EXCEPT !.status = status, !.key = releasedKey(r)])
          /\ withdrawn' = withdrawn \cup {r.key}
    BY <1>3 DEF Withdraw
  <2>3. PICK status \in {"done", "cancelled", r.status} :
          /\ Replace(r, [r EXCEPT !.status = status, !.key = NoKey])
          /\ withdrawn' = withdrawn \cup {r.key}
    BY <2>2 DEF releasedKey
  <2> DEFINE s == [r EXCEPT !.status = status, !.key = NoKey]
  <2>4. status \in Statuses
    BY DEF Reminders, KeysAreHeld, Statuses
  <2>5. /\ s \in [key : {s.key}, copy : {s.copy}, status : {s.status}, next : {s.next}, once : {s.once}]
        /\ s.status \in Statuses /\ s.key = NoKey
    BY <2>4, RowForm
  <2>6. Replace(r, s)
    BY <2>3
  <2> HIDE DEF s
  <2> QED
    BY <2>1, <2>3, <2>5, <2>6, ReplaceKeeps
<1>4. CASE Remove
  BY <1>4, RemoveKeeps DEF Remove, Changed
<1>5. CASE FinishDue
  <2>1. UNCHANGED <<created, refused, updates, withdrawn>>
    BY <1>5 DEF FinishDue, Changed
  <2>2. PICK r \in rows : Replace(r, [r EXCEPT !.status = "done"])
    BY <1>5 DEF FinishDue, finished
  <2> DEFINE s == [r EXCEPT !.status = "done"]
  <2>3. /\ s \in [key : {s.key}, copy : {s.copy}, status : {s.status}, next : {s.next}, once : {s.once}]
        /\ s.status \in Statuses /\ s.key = r.key
    BY RowForm DEF Statuses
  <2>4. Replace(r, s)
    BY <2>2
  <2> HIDE DEF s
  <2> QED
    BY <2>1, <2>3, <2>4, ReplaceKeeps
<1>6. CASE Duplicate
  <2>1. UNCHANGED <<created, refused, updates, withdrawn>>
    BY <1>6 DEF Duplicate, Changed
  <2>2. PICK r \in rows : rows' = rows \cup {[r EXCEPT !.copy = TRUE, !.key = NoKey, !.status = "active"]}
    BY <1>6 DEF Duplicate
  <2> DEFINE s == [r EXCEPT !.copy = TRUE, !.key = NoKey, !.status = "active"]
  <2>3. /\ s \in [key : {s.key}, copy : {s.copy}, status : {s.status}, next : {s.next}, once : {s.once}]
        /\ s.status \in Statuses /\ s.key = NoKey
    BY RowForm DEF Statuses
  <2>4. rows' = rows \cup {s}
    BY <2>2
  <2> HIDE DEF s
  <2> QED
    BY <2>1, <2>3, <2>4, DuplicateKeeps
<1> QED
  BY <1>1, <1>2, <1>3, <1>4, <1>5, <1>6 DEF Next

\* One update at a time, and nothing failing.
Sequential == ~overlapped /\ faults = 0

\* A handler at work is the only one, until another one overlaps it.
LEMMA SequentialFacts ==
  ASSUME Typed, HandlersKnow, DraftsAreSpent, NEW h \in Handlers, HandlerStep(h), Sequential'
  PROVE  /\ Sequential
         /\ \A g \in Handlers \ {h} : pc[g] = "idle" /\ pc'[g] = "idle"
         /\ pc[h] = "idle" => Resting
<1>1. Sequential
  <2>1. faults = 0
    <3>1. faults \in Nat /\ faults <= faults'
      BY StepFrame DEF Typed
    <3> QED
      BY <3>1 DEF Sequential
  <2>2. overlapped => overlapped'
    BY DEF HandlerStep, handleText, Expire, Abandon, handleDraftCallback, beginOtherEdit, handleConfirmYes,
           confirmReminderByText, Create, CreateFails, SetDialog, ResetDialog, WriteFails, Arrives, history
  <2> QED
    BY <2>1, <2>2 DEF Sequential
<1>2. \A g \in Handlers \ {h} : pc[g] = "idle"
  <2>1. CASE pc[h] # "idle"
    BY <1>1, <2>1 DEF DraftsAreSpent, Sequential
  <2>2. CASE pc[h] = "idle"
    <3>1. Arrives(h)
      BY <2>2 DEF HandlerStep, handleText, Expire, Abandon, handleDraftCallback, beginOtherEdit, handleConfirmYes,
           confirmReminderByText, Create, CreateFails, SetDialog, ResetDialog, WriteFails
    <3> QED
      BY <3>1 DEF Arrives, Sequential, Others
  <2> QED
    BY <2>1, <2>2
<1>3. \A g \in Handlers \ {h} : pc'[g] = "idle"
  BY <1>2, StepFrame
<1> QED
  BY <1>1, <1>2, <1>3 DEF Resting

\* How a handler's step spends drafts: what it makes was its own, and what is
\* declined is what the dialog holds, to be reset.
LEMMA SpendingFacts ==
  ASSUME Typed, HandlersKnow, NEW h \in Handlers, HandlerStep(h)
  PROVE  /\ \/ created' = created
            \/ /\ pc[h] = "create" /\ dismissed' = dismissed
               /\ faults' = 0 => pc'[h] = "reset"
               /\ \A c \in created' : c \in created \/ c.draft = local[h].draft
               /\ \A c, d \in created' \ created : c = d
         /\ \/ dismissed' = dismissed
            \/ /\ pc[h] = "idle" /\ pc'[h] = "reset" /\ dialog # Idle /\ dialog' = dialog
               /\ dismissed' = dismissed \cup {dialog.draft}
<1>1. DOMAIN local = Handlers /\ pc \in [Handlers -> Stages] /\ faults \in Nat
  BY DEF Typed
<1>2. CASE Insert(local[h]) /\ pc[h] = "create" /\ dismissed' = dismissed
  <2>1. /\ \A c \in created' : c \in created \/ c.draft = local[h].draft
        /\ \A c, d \in created' \ created : c = d
    BY <1>2 DEF Insert
  <2>2. CASE Create(h)
    BY <1>1, <1>2, <2>1, <2>2 DEF Create, Goto
  <2>3. CASE CreateFails(h)
    <3>1. faults' # 0
      BY <1>1, <2>3 DEF CreateFails, Fault
    <3> QED
      BY <1>2, <2>1, <3>1
  <2> QED
    BY <1>2, <2>2, <2>3
       DEF HandlerStep, handleText, Expire, Abandon, handleDraftCallback, beginOtherEdit, handleConfirmYes,
           confirmReminderByText, SetDialog, ResetDialog, WriteFails, Arrives
<1>3. CASE created' = created /\ dismissed' = dismissed
  BY <1>3
<1>4. CASE Abandon(h)
  BY <1>1, <1>4 DEF Abandon, Arrives, Goto
<1>5. CASE handleText(h)
  <2>1. CASE confirmationDecision(h, dialog) /\ dialog.state = "await_confirm"
    <3>1. dialog # Idle
      BY <2>1, DialogFacts
    <3> QED
      BY <1>1, <1>5, <2>1, <3>1 DEF handleText, Arrives, confirmationDecision, Goto
  <2>2. CASE ~(confirmationDecision(h, dialog) /\ dialog.state = "await_confirm")
    <3>1. dismissed' = dismissed
      BY <1>5, <2>2, DialogFacts
         DEF handleText, handleFieldInput, handleEditFieldInput, startParsing
    <3> QED
      BY <1>5, <3>1 DEF handleText
  <2> QED
    BY <2>1, <2>2
<1> QED
  BY <1>2, <1>3, <1>4, <1>5
     DEF HandlerStep, Expire, handleDraftCallback, beginOtherEdit, handleConfirmYes,
         confirmReminderByText, Create, CreateFails, SetDialog, ResetDialog, WriteFails, Fault, history

\* What a handler may work on is not spent as long as updates do not overlap.
LEMMA OwnIsUnspent ==
  ASSUME Typed, HandlersKnow, Reminders, DraftsAreSpent, Sequential, NEW h \in Handlers,
         \A g \in Handlers \ {h} : pc[g] = "idle", NEW draft, Own(h, draft)
  PROVE  draft \notin Spent
<1>1. updates \in Nat /\ \A x \in Spent : x \in 0..updates
  <2>1. updates \in Nat
    BY DEF Typed
  <2>2. \A c \in created : c.draft \in 0..updates
    BY <2>1 DEF Reminders, CreatedIsAccounted
  <2>3. dismissed \subseteq 0..updates
    BY DEF DraftsAreSpent
  <2> QED
    BY <2>1, <2>2, <2>3 DEF Spent
<1>2. CASE draft = updates + 1
  BY <1>1, <1>2
<1>3. CASE pc[h] = "expire" /\ draft = updates
  BY <1>3 DEF DraftsAreSpent, Sequential
<1>4. CASE pc[h] \in {"idle", "confirm"} /\ dialog # Idle /\ dialog.mode = "create" /\ draft = dialog.draft
  BY <1>4 DEF DraftsAreSpent, Sequential
<1> QED
  BY <1>2, <1>3, <1>4 DEF Own

LEMMA HandlerSpends ==
  ASSUME Typed, HandlersKnow, Reminders, DraftsAreSpent, NEW h \in Handlers, HandlerStep(h)
  PROVE  DraftsAreSpent'
<1> USE ConversationAssumption
<1>1. /\ updates \in Nat /\ updates' \in Nat /\ updates <= updates'
      /\ updates' = updates + (IF pc[h] = "idle" THEN 1 ELSE 0)
  BY StepTouches DEF Typed
<1>2. dismissed' \subseteq 0..updates'
  <2>1. dialog # Idle => dialog.draft \in 0..updates
    BY <1>1, DialogFacts DEF Fits, FitsDraft
  <2>2. dismissed \subseteq 0..updates /\ 0..updates \subseteq 0..updates'
    BY <1>1 DEF DraftsAreSpent
  <2>3. dismissed' = dismissed \/ (dialog # Idle /\ dismissed' = dismissed \cup {dialog.draft})
    BY SpendingFacts
  <2> QED
    BY <2>1, <2>2, <2>3
<1>3. ASSUME Sequential'
      PROVE  /\ \A g, k \in Handlers : g # k => pc'[g] = "idle" \/ pc'[k] = "idle"
             /\ \A c, d \in created' : c.draft = d.draft => c = d
             /\ dialog' # Idle /\ dialog'.mode = "create" /\ dialog'.draft \in Spent' =>
                  \E k \in Handlers : pc'[k] = "reset"
             /\ \A k \in Handlers :
                  /\ pc'[k] = "set" /\ local'[k].mode = "create" => local'[k].draft \notin Spent'
                  /\ pc'[k] = "create" => local'[k].draft \notin Spent'
                  /\ pc'[k] = "expire" => updates' \notin Spent'
  <2>1. /\ Sequential
        /\ \A g \in Handlers \ {h} : pc[g] = "idle" /\ pc'[g] = "idle"
    BY <1>3, SequentialFacts
  <2>2. faults' = 0
    BY <1>3 DEF Sequential
  <2>3. \A c, d \in created' : c.draft = d.draft => c = d
    <3>1. CASE created' = created
      BY <2>1, <3>1 DEF DraftsAreSpent, Sequential
    <3>2. CASE /\ pc[h] = "create"
               /\ \A c \in created' : c \in created \/ c.draft = local[h].draft
               /\ \A c, d \in created' \ created : c = d
      <4>1. \A c \in created : c.draft # local[h].draft
        BY <2>1, <3>2 DEF DraftsAreSpent, Sequential, Spent
      <4>2. \A c, d \in created : c.draft = d.draft => c = d
        BY <2>1 DEF DraftsAreSpent, Sequential
      <4> QED
        BY <3>2, <4>1, <4>2
    <3> QED
      BY <3>1, <3>2, SpendingFacts
  <2>4. Spent' = Spent \/ pc'[h] = "reset"
    BY <2>2, SpendingFacts DEF Spent
  <2>5. ASSUME dialog' # Idle, dialog'.mode = "create", dialog'.draft \in Spent', pc'[h] # "reset"
        PROVE  FALSE
    <3>1. Spent' = Spent
      BY <2>4, <2>5
    <3>2. CASE dialog' = dialog
      <4>1. pc[h] = "reset"
        BY <2>1, <2>5, <3>1, <3>2 DEF DraftsAreSpent, Sequential
      <4>2. ResetDialog(h)
        BY <2>2, <4>1 DEF HandlerStep, handleText, Expire, Abandon, handleDraftCallback, beginOtherEdit,
             handleConfirmYes, confirmReminderByText, Create, CreateFails, SetDialog, WriteFails, Arrives,
             Fault, Typed
      <4> QED
        BY <2>5, <4>2 DEF ResetDialog
    <3>3. CASE pc[h] = "set" /\ dialog' = local[h]
      BY <2>1, <2>5, <3>1, <3>3 DEF DraftsAreSpent, Sequential
    <3> QED
      BY <2>5, <3>2, <3>3, StepFrame
  <2>6. PICK stage, what : Becomes(h, stage, what)
    BY StepBecomes
  <2>7. pc'[h] = stage /\ local'[h] = what
    BY <2>6 DEF Typed, Becomes, Goto
  <2>8. /\ stage = "set" /\ what.mode = "create" => what.draft \notin Spent'
        /\ stage = "create" => what.draft \notin Spent'
        /\ stage = "expire" => updates' \notin Spent'
    <3>1. \A draft : Own(h, draft) => draft \notin Spent
      BY <2>1, OwnIsUnspent
    <3>2. stage = "expire" => Own(h, updates')
      BY <1>1, <2>6 DEF Becomes, Own
    <3> QED
      BY <2>4, <2>6, <2>7, <3>1, <3>2 DEF Becomes
  <2>9. \A k \in Handlers :
          /\ pc'[k] = "set" /\ local'[k].mode = "create" => local'[k].draft \notin Spent'
          /\ pc'[k] = "create" => local'[k].draft \notin Spent'
          /\ pc'[k] = "expire" => updates' \notin Spent'
    BY <2>1, <2>7, <2>8
  <2> QED
    BY <2>1, <2>3, <2>5, <2>9
<1> QED
  BY <1>2, <1>3 DEF DraftsAreSpent, Sequential

LEMMA DraftsStep ==
  ASSUME Typed, HandlersKnow, Reminders, DraftsAreSpent, Next
  PROVE  DraftsAreSpent'
<1>1. CASE \E h \in Handlers : HandlerStep(h)
  BY <1>1, HandlerSpends
<1>2. CASE ~\E h \in Handlers : HandlerStep(h)
  BY <1>2, OthersFrame DEF DraftsAreSpent, Spent
<1> QED
  BY <1>1, <1>2

-----------------------------------------------------------------------------
(***************************************************************************)
(* The theorems.                                                           *)
(***************************************************************************)

LEMMA ConversationInit == Init => ConversationInv
<1> USE ConversationAssumption
<1> SUFFICES ASSUME Init PROVE ConversationInv
  OBVIOUS
<1>1. Typed
  <2>1. now \in Times /\ updates \in 0..MaxUpdates /\ faults \in Nat
    BY DEF Init, Times
  <2>2. touched \in [Drafts -> Times] /\ \A x \in Drafts : touched[x] <= now
    BY DEF Init, Times
  <2>3. pc \in [Handlers -> Stages] /\ DOMAIN local = Handlers
    BY DEF Init, Stages
  <2>4. overlapped \in BOOLEAN /\ dialog = Idle
    BY DEF Init
  <2> QED
    BY <2>1, <2>2, <2>3, <2>4 DEF Typed
<1>2. HandlersKnow /\ KeysAreHeld /\ RefusedHasTwin
  BY DEF Init, HandlersKnow, KeysAreHeld, RefusedHasTwin
<1>3. CreatedIsAccounted
  BY FS_EmptySet DEF Init, CreatedIsAccounted, OncePerContent, KindMatchesTrigger
<1>4. DraftsAreSpent
  BY DEF Init, DraftsAreSpent, Spent, Idle
<1> QED
  BY <1>1, <1>2, <1>3, <1>4 DEF ConversationInv

LEMMA ConversationStep == ConversationInv /\ [Next]_vars => ConversationInv'
<1> SUFFICES ASSUME ConversationInv, [Next]_vars PROVE ConversationInv'
  OBVIOUS
<1>1. CASE Next
  <2>1. Typed /\ HandlersKnow /\ Reminders /\ DraftsAreSpent
    BY DEF ConversationInv, Reminders
  <2>2. Typed' /\ HandlersKnow' /\ Reminders' /\ DraftsAreSpent'
    BY <1>1, <2>1, TypedStep, RemindersStep, DraftsStep
  <2> QED
    BY <2>2 DEF ConversationInv, Reminders
<1>2. CASE UNCHANGED vars
  BY <1>2 DEF vars, history, bounds, ConversationInv, Typed, HandlersKnow, KeysAreHeld, CreatedIsAccounted,
              OncePerContent, KindMatchesTrigger, RefusedHasTwin, DraftsAreSpent, Spent
<1> QED
  BY <1>1, <1>2

\* Updates handled at once, in any order, with statements that fail and answers
\* that are lost, keep the whole invariant: the dialog, what the handlers are
\* about to write, the reminders and their keys fit together (handleText,
\* handleCallback, createReminderFromDialog and the reminder commands).
THEOREM ConversationIsSafe == Spec => []ConversationInv
<1> QED
  BY ConversationInit, ConversationStep, PTL DEF Spec

\* Every variable has its type, and the dialog row fits its state: a draft to
\* confirm has nothing missing (SetDialog).
THEOREM ConversationIsTyped == Spec => []TypeOK
<1> USE ConversationAssumption
<1>1. ConversationInv => TypeOK
  <2> SUFFICES ASSUME ConversationInv PROVE TypeOK
    OBVIOUS
  <2>1. Typed /\ HandlersKnow /\ KeysAreHeld
    BY DEF ConversationInv
  <2>2. ASSUME NEW d, Fits(d, now, touched, updates)
        PROVE  DialogOK(d) /\ d.createdAt \in 0..now /\ d.draft \in 0..MaxUpdates
    <3>1. updates \in 0..MaxUpdates
      BY <2>1 DEF Typed
    <3> QED
      BY <2>2, <3>1 DEF Fits, FitsDraft, DialogOK
  <2>3. DialogOK(dialog) /\ (dialog # Idle => dialog.createdAt \in 0..now /\ dialog.draft \in 0..MaxUpdates)
    BY <2>1, <2>2 DEF Typed, DialogOK
  <2>4. \A h \in Handlers : pc[h] = "set" => DialogOK(local[h])
    BY <2>1, <2>2 DEF HandlersKnow
  <2>5. \A r \in rows : r.status \in Statuses /\ r.key \in {NoKey} \cup {c.key : c \in created}
    BY <2>1 DEF KeysAreHeld
  <2> QED
    BY <2>1, <2>3, <2>4, <2>5 DEF TypeOK, Typed
<1> QED
  BY <1>1, ConversationIsSafe, PTL

\* The same reminder is made once, however often its draft is confirmed, until
\* the user withdraws or edits it (ON CONFLICT (idempotency_key) DO NOTHING).
THEOREM ContentsAreMadeOnce == Spec => []OncePerContent
<1>1. ConversationInv => OncePerContent
  BY DEF ConversationInv, CreatedIsAccounted
<1> QED
  BY <1>1, ConversationIsSafe, PTL

\* Nothing is refused as the duplicate of what the user withdrew
\* (setTerminalStatus and Update release the key).
THEOREM RefusalsHaveTwins == Spec => []RefusedHasTwin
<1>1. ConversationInv => RefusedHasTwin
  BY DEF ConversationInv
<1> QED
  BY <1>1, ConversationIsSafe, PTL

\* Whatever the parser and the edits named, what is created is conditional when
\* it has a trigger (parseResultKind, validateParseResult).
THEOREM KindsMatchTriggers == Spec => []KindMatchesTrigger
<1>1. ConversationInv => KindMatchesTrigger
  BY DEF ConversationInv, CreatedIsAccounted
<1> QED
  BY <1>1, ConversationIsSafe, PTL

\* One update at a time and without failures, a draft makes one reminder at
\* most and none once declined (createReminderFromDialog resets the dialog).
THEOREM DraftsAreSpentOnce == Spec => []DraftIsSpent
<1>1. ConversationInv => DraftIsSpent
  <2> SUFFICES ASSUME ConversationInv, ~overlapped, faults = 0
               PROVE  /\ \A c, d \in created : c.draft = d.draft => c = d
                      /\ (dialog # Idle /\ Resting) =>
                           \/ dialog.mode # "create"
                           \/ dialog.draft \notin {c.draft : c \in created} \cup dismissed
    BY DEF DraftIsSpent
  <2>1. \A c, d \in created : c.draft = d.draft => c = d
    BY DEF ConversationInv, DraftsAreSpent
  <2>2. dialog # Idle /\ dialog.mode = "create" /\ dialog.draft \in Spent => ~Resting
    BY DEF ConversationInv, DraftsAreSpent, Resting
  <2> QED
    BY <2>1, <2>2 DEF Spent
<1> QED
  BY <1>1, ConversationIsSafe, PTL

\* No draft left alone longer than dialogTTL becomes a reminder, whoever
\* overwrote the dialog meanwhile (the check in createReminderFromDialog).
THEOREM StaleDraftsAreNotCreated == Spec => NoStaleCreate
<1>1. ASSUME ConversationInv, [Next]_vars, NEW c \in created' \ created
      PROVE  now - touched[c.draft] <= TTL
  <2>1. Typed /\ HandlersKnow
    BY <1>1 DEF ConversationInv
  <2>2. created' # created
    OBVIOUS
  <2>3. PICK h \in Handlers : HandlerStep(h)
    BY <1>1, <2>2, OthersFrame DEF vars, history
  <2>4. pc[h] = "create" /\ c.draft = local[h].draft
    BY <2>1, <2>2, <2>3, SpendingFacts
  <2> QED
    BY <2>1, <2>4 DEF HandlersKnow, FitsReminder
<1>2. ConversationInv /\ [Next]_vars => [\A c \in created' \ created : now - touched[c.draft] <= TTL]_vars
  BY <1>1
<1> QED
  BY <1>2, ConversationIsSafe, PTL DEF Spec, NoStaleCreate

-----------------------------------------------------------------------------
(***************************************************************************)
(* NotificationActions: the buttons under a notification.                  *)
(***************************************************************************)
-----------------------------------------------------------------------------
(***************************************************************************)
(* The inductive invariant.                                                *)
(***************************************************************************)

\* Every variable has its type.
Ids == Seq(Snoozes)
Notification == [id : Ids, fireAt : Nat, status : {"pending", "sent", "cancelled"}]
Pressing == [stage : {"effect", "record", "run"}, note : Ids, action : Actions]

ButtonsTyped ==
  /\ time \in 0..MaxWeek
  /\ reminder = NoReminder \/ (reminder \in Status /\ reminder.updated <= time)
  /\ notifications \subseteq Notification
  /\ records \subseteq Ids \X Actions
  /\ \A r \in runs : r.press \in Ids \X Actions
  /\ pressing \in [Taps -> Pressing \cup {NoPress}]

\* What is recorded, or pressed, is there: all goes with the reminder, and a
\* pressed notification stays while its press is handled.
AllIsThere ==
  /\ reminder = NoReminder => notifications = {} /\ records = {}
  /\ \A r \in records : \E n \in notifications : n.id = r[1]
  /\ \A h \in Taps : pressing[h] # NoPress /\ reminder # NoReminder =>
       \E n \in notifications : n.id = pressing[h].note /\ n.status = "sent"

\* How old a notification may be: the janitor takes what was sent long ago,
\* and each snooze ends within a week of the press.
AgesAreBounded ==
  \A n \in notifications :
    /\ n.status = "pending" => time <= n.fireAt
    /\ n.status = "sent" => n.fireAt <= time /\ time <= n.fireAt + NotificationRetention
    /\ n.fireAt <= Len(n.id) * (NotificationRetention + 1)

\* One row per notification; a snooze is younger than what it was made of, and
\* goes later.
Ancestor(s, t) == Len(s) <= Len(t) /\ \A i \in 1..Len(s) : s[i] = t[i]

LineageIsWhole ==
  \A m, n \in notifications :
    /\ m.id = n.id => m = n
    /\ Ancestor(m.id, n.id) =>
         /\ m.id # n.id => m.status = "sent" /\ m.fireAt <= n.fireAt
         /\ \A k \in Len(m.id)..Len(n.id) :
              \E x \in notifications : Len(x.id) = k /\ Ancestor(x.id, n.id)

\* A check that ran is recorded, or its notification is gone for good; one
\* that is about to run has not run.
Gone(id) == \A n \in notifications : ~Ancestor(n.id, id)
Runs(h) == pressing[h].stage = "run"

RunsAreRecorded ==
  /\ RunOnce
  /\ \A r \in runs : r.press \in records \/ Gone(r.press[1])
  /\ \A h \in Taps : Runs(h) =>
       /\ reminder # NoReminder => Press(h) \in records
       /\ \A r \in runs : r.press # Press(h)
       /\ \A g \in Taps \ {h} : Runs(g) => Press(g) # Press(h)

\* Effects come before records.
EffectsAreFirst ==
  /\ TookEffect
  /\ \A h \in Taps : pressing[h].stage \in {"record", "run"} => Press(h) \in effects

ButtonsInv ==
  /\ ButtonsTyped
  /\ AllIsThere
  /\ AgesAreBounded
  /\ LineageIsWhole
  /\ RunsAreRecorded
  /\ EffectsAreFirst

-----------------------------------------------------------------------------
(***************************************************************************)
(* Lemmas about identities and presses.                                    *)
(***************************************************************************)

\* Who descends from whom.
LEMMA AncestorFacts ==
  ASSUME NEW s \in Ids, NEW t \in Ids, NEW u \in Ids
  PROVE  /\ Ancestor(s, s)
         /\ Ancestor(s, t) /\ Ancestor(t, u) => Ancestor(s, u)
         /\ Ancestor(s, u) /\ Ancestor(t, u) /\ Len(s) <= Len(t) => Ancestor(s, t)
         /\ Ancestor(s, t) /\ Len(s) = Len(t) => s = t
<1>1. Len(s) \in Nat /\ Len(t) \in Nat /\ Len(u) \in Nat
  BY DEF Ids
<1>2. Ancestor(s, s)
  BY <1>1 DEF Ancestor
<1>3. Ancestor(s, t) /\ Ancestor(t, u) => Ancestor(s, u)
  BY <1>1 DEF Ancestor
<1>4. Ancestor(s, u) /\ Ancestor(t, u) /\ Len(s) <= Len(t) => Ancestor(s, t)
  BY <1>1 DEF Ancestor
<1>5. Ancestor(s, t) /\ Len(s) = Len(t) => s = t
  BY <1>1 DEF Ancestor, Ids
<1> QED
  BY <1>2, <1>3, <1>4, <1>5

\* A snooze descends from what it was made of, and from its ancestors only.
LEMMA ChildFacts ==
  ASSUME NEW s \in Ids, NEW t \in Ids, NEW a \in Snoozes
  PROVE  /\ Child(t, a) \in Ids /\ Len(Child(t, a)) = Len(t) + 1
         /\ Ancestor(t, Child(t, a))
         /\ Ancestor(s, Child(t, a)) => s = Child(t, a) \/ Ancestor(s, t)
<1> DEFINE c == Child(t, a)
<1>1. /\ c \in Ids /\ Len(c) = Len(t) + 1 /\ Len(t) \in Nat /\ Len(s) \in Nat
      /\ \A i \in 1..Len(t) : c[i] = t[i]
  BY DEF Child, Ids
<1> HIDE DEF c
<1>2. Ancestor(t, c)
  BY <1>1 DEF Ancestor
<1>3. ASSUME Ancestor(s, c)
      PROVE  s = c \/ Ancestor(s, t)
  <2>1. CASE Len(s) <= Len(t)
    BY <1>1, <1>2, <1>3, <2>1, AncestorFacts
  <2>2. CASE Len(s) > Len(t)
    <3>1. Len(s) = Len(c)
      BY <1>1, <1>3, <2>2 DEF Ancestor
    <3> QED
      BY <1>1, <1>3, <3>1, AncestorFacts
  <2> QED
    BY <1>1, <2>1, <2>2
<1> QED
  BY <1>1, <1>2, <1>3 DEF c

\* What a press is about.
LEMMA PressFacts ==
  ASSUME ButtonsTyped, NEW h \in Taps
  PROVE  /\ pressing[h] # NoPress => /\ pressing[h] \in Pressing
                                     /\ Press(h) \in Ids \X Actions
                                     /\ Press(h)[1] = pressing[h].note
         /\ pressing[h].stage \in {"effect", "record", "run"} => pressing[h] # NoPress
BY DEF ButtonsTyped, Pressing, Press, NoPress

\* A tap that moves to its next stage.
LEMMA StageMoves ==
  ASSUME ButtonsTyped, NEW h \in Taps, NEW stage \in {"record", "run"}, pressing[h] # NoPress,
         Proceed(h, stage)
  PROVE  /\ pressing' \in [Taps -> Pressing \cup {NoPress}]
         /\ pressing'[h] # NoPress /\ pressing'[h].stage = stage
         /\ Press(h)' = Press(h) /\ pressing'[h].note = pressing[h].note
         /\ \A g \in Taps \ {h} : pressing'[g] = pressing[g] /\ Press(g)' = Press(g)
<1> DEFINE new == [pressing[h] EXCEPT !.stage = stage]
<1>1. pressing[h] \in Pressing
  BY PressFacts
<1>2. new \in Pressing /\ new.stage = stage /\ new.note = pressing[h].note /\ new.action = pressing[h].action
  BY <1>1 DEF Pressing
<1>3. pressing' = [pressing EXCEPT ![h] = new]
  BY DEF Proceed
<1> HIDE DEF new
<1>4. /\ pressing' \in [Taps -> Pressing \cup {NoPress}] /\ pressing'[h] = new
      /\ \A g \in Taps \ {h} : pressing'[g] = pressing[g]
  BY <1>2, <1>3 DEF ButtonsTyped
<1>5. new # NoPress
  BY <1>2 DEF NoPress
<1> QED
  BY <1>2, <1>4, <1>5 DEF Press

\* A tap that ends.
LEMMA PressEnds ==
  ASSUME ButtonsTyped, NEW h \in Taps, EndPress(h)
  PROVE  /\ pressing' \in [Taps -> Pressing \cup {NoPress}] /\ pressing'[h] = NoPress
         /\ \A g \in Taps \ {h} : pressing'[g] = pressing[g]
BY DEF ButtonsTyped, EndPress

-----------------------------------------------------------------------------
(***************************************************************************)
(* The notifications.                                                      *)
(***************************************************************************)

Notifications == AgesAreBounded /\ LineageIsWhole

\* A row that was withdrawn, or sent when its time had come.
ButtonsChanged(m, n) ==
  /\ n.id = m.id /\ n.fireAt = m.fireAt
  /\ \/ n.status = m.status
     \/ m.status = "pending" /\ n.status = "cancelled"
     \/ m.status = "pending" /\ n.status = "sent" /\ m.fireAt <= time

\* Changes of the status keep ages and lineage, and bring nothing back.
LEMMA StatusesChange ==
  ASSUME ButtonsTyped, Notifications, time' = time, notifications' \subseteq Notification,
         \A n \in notifications' : \E m \in notifications : ButtonsChanged(m, n),
         \A m \in notifications : \E n \in notifications' : ButtonsChanged(m, n),
         \A m, n \in notifications' : m.id = n.id => m = n
  PROVE  /\ Notifications'
         /\ \A id : Gone(id) => Gone(id)'
<1> USE RetentionAssumption
<1>1. AgesAreBounded'
  <2>1. ASSUME NEW m \in notifications, NEW n \in notifications', ButtonsChanged(m, n)
        PROVE  /\ n.status = "pending" => time <= n.fireAt
               /\ n.status = "sent" => n.fireAt <= time /\ time <= n.fireAt + NotificationRetention
               /\ n.fireAt <= Len(n.id) * (NotificationRetention + 1)
    <3>1. m.fireAt \in Nat /\ time \in Nat /\ NotificationRetention \in Nat
      BY DEF ButtonsTyped, Notification
    <3>2. /\ m.status = "pending" => time <= m.fireAt
          /\ m.status = "sent" => m.fireAt <= time /\ time <= m.fireAt + NotificationRetention
          /\ m.fireAt <= Len(m.id) * (NotificationRetention + 1)
      BY DEF Notifications, AgesAreBounded
    <3>3. n.fireAt <= Len(n.id) * (NotificationRetention + 1)
      BY <2>1, <3>2 DEF ButtonsChanged
    <3>4. n.fireAt = m.fireAt
      BY <2>1 DEF ButtonsChanged
    <3>5. n.status = m.status \/ n.status = "cancelled" \/ (n.status = "sent" /\ m.status = "pending" /\ m.fireAt <= time)
      BY <2>1 DEF ButtonsChanged
    <3>6. n.status = "pending" => time <= n.fireAt
      BY <3>2, <3>4, <3>5
    <3>7. ASSUME n.status = "sent"
          PROVE  n.fireAt <= time /\ time <= n.fireAt + NotificationRetention
      <4>1. CASE m.status = "sent"
        BY <3>2, <3>4, <4>1
      <4>2. CASE m.status = "pending" /\ m.fireAt <= time
        <5>1. time <= m.fireAt
          BY <3>2, <4>2
        <5> QED
          BY <3>1, <3>4, <4>2, <5>1
      <4> QED
        BY <3>5, <3>7, <4>1, <4>2
    <3> QED
      BY <3>3, <3>6, <3>7
  <2> QED
    BY <2>1 DEF AgesAreBounded
<1>2. LineageIsWhole'
  <2>1. ASSUME NEW m \in notifications', NEW n \in notifications', Ancestor(m.id, n.id)
        PROVE  /\ m.id # n.id => m.status = "sent" /\ m.fireAt <= n.fireAt
               /\ \A k \in Len(m.id)..Len(n.id) :
                    \E x \in notifications' : Len(x.id) = k /\ Ancestor(x.id, n.id)
    <3>1. PICK m0 \in notifications : ButtonsChanged(m0, m)
      OBVIOUS
    <3>2. PICK n0 \in notifications : ButtonsChanged(n0, n)
      OBVIOUS
    <3>3. Ancestor(m0.id, n0.id) /\ m0.id = m.id /\ n0.id = n.id
      BY <2>1, <3>1, <3>2 DEF ButtonsChanged
    <3>4. m.id # n.id => m.status = "sent" /\ m.fireAt <= n.fireAt
      BY <3>1, <3>2, <3>3 DEF Notifications, LineageIsWhole, ButtonsChanged
    <3>5. ASSUME NEW k \in Len(m.id)..Len(n.id)
          PROVE  \E x \in notifications' : Len(x.id) = k /\ Ancestor(x.id, n.id)
      <4>1. PICK x \in notifications : Len(x.id) = k /\ Ancestor(x.id, n.id)
        BY <3>3, <3>5 DEF Notifications, LineageIsWhole
      <4>2. PICK y \in notifications' : ButtonsChanged(x, y)
        OBVIOUS
      <4> QED
        BY <4>1, <4>2 DEF ButtonsChanged
    <3> QED
      BY <3>4, <3>5
  <2> QED
    BY <2>1 DEF LineageIsWhole, Ancestor
<1>3. ASSUME NEW id, Gone(id)
      PROVE  Gone(id)'
  BY <1>3 DEF Gone, ButtonsChanged, Ancestor
<1> QED
  BY <1>1, <1>2, <1>3 DEF Notifications

\* Withdrawing what is pending (CancelActiveByReminderID).
LEMMA WithdrawalKeeps ==
  ASSUME ButtonsTyped, Notifications, time' = time, notifications' = Cancelled
  PROVE  /\ Notifications' /\ notifications' \subseteq Notification
         /\ \A id : Gone(id) => Gone(id)'
         /\ \A m \in notifications : \E n \in notifications' : n.id = m.id /\ (m.status = "sent" => n = m)
         /\ \A n \in notifications' : n.status # "pending"
<1> DEFINE f(n) == [n EXCEPT !.status = IF @ = "pending" THEN "cancelled" ELSE @]
<1>1. ASSUME NEW n \in notifications
      PROVE  /\ f(n) \in Notification /\ ButtonsChanged(n, f(n)) /\ f(n).id = n.id
             /\ f(n).status # "pending" /\ (n.status = "sent" => f(n) = n)
  <2>1. n \in Notification
    BY DEF ButtonsTyped
  <2> QED
    BY <2>1 DEF ButtonsChanged, Notification
<1>2. notifications' = {f(n) : n \in notifications}
  BY DEF Cancelled
<1> HIDE DEF f
<1>3. \A m, n \in notifications' : m.id = n.id => m = n
  BY <1>1, <1>2 DEF Notifications, LineageIsWhole
<1>4. /\ notifications' \subseteq Notification
      /\ \A n \in notifications' : \E m \in notifications : ButtonsChanged(m, n)
      /\ \A m \in notifications : \E n \in notifications' : ButtonsChanged(m, n)
  BY <1>1, <1>2
<1> QED
  BY <1>1, <1>2, <1>3, <1>4, StatusesChange

\* Delivering what is due.
LEMMA DeliveryKeeps ==
  ASSUME ButtonsTyped, Notifications, Deliver
  PROVE  /\ Notifications' /\ notifications' \subseteq Notification
         /\ \A id : Gone(id) => Gone(id)'
         /\ \A m \in notifications : \E n \in notifications' : n.id = m.id /\ (m.status = "sent" => n = m)
<1>1. PICK d \in notifications :
        /\ d.status = "pending" /\ d.fireAt <= time
        /\ notifications' = (notifications \ {d}) \cup {[d EXCEPT !.status = "sent"]}
  BY DEF Deliver
<1> DEFINE s == [d EXCEPT !.status = "sent"]
<1>2. s \in Notification /\ ButtonsChanged(d, s) /\ s.id = d.id
  BY <1>1 DEF ButtonsTyped, Notification, ButtonsChanged
<1> HIDE DEF s
<1>3. notifications' = (notifications \ {d}) \cup {s} /\ time' = time
  BY <1>1 DEF Deliver, s
<1>4. \A m, n \in notifications' : m.id = n.id => m = n
  BY <1>2, <1>3 DEF Notifications, LineageIsWhole
<1>5. /\ notifications' \subseteq Notification
      /\ \A n \in notifications' : \E m \in notifications : ButtonsChanged(m, n)
      /\ \A m \in notifications : \E n \in notifications' : ButtonsChanged(m, n)
  BY <1>1, <1>2, <1>3 DEF ButtonsTyped, ButtonsChanged
<1>6. \A m \in notifications : \E n \in notifications' : n.id = m.id /\ (m.status = "sent" => n = m)
  BY <1>1, <1>2, <1>3
<1> QED
  BY <1>3, <1>4, <1>5, <1>6, StatusesChange

\* A generation more.
LEMMA NextGeneration ==
  ASSUME NEW n \in Nat, NEW k \in Nat
  PROVE  n * (k + 1) \in Nat /\ (n + 1) * (k + 1) = n * (k + 1) + (k + 1)
OBVIOUS

\* The row that a snooze enqueues.
Snoozed(m, action) ==
  [id |-> Child(m.id, action), fireAt |-> IF action = "snooze_10" THEN time ELSE time + 1,
   status |-> "pending"]

\* A new snooze is younger than what it was made of, ends a generation later,
\* and revives nothing.
LEMMA SnoozeKeeps ==
  ASSUME ButtonsTyped, Notifications, time' = time,
         NEW m \in notifications, m.status = "sent",
         NEW action \in Snoozes, Row(Child(m.id, action)) = {},
         notifications' = notifications \cup {Snoozed(m, action)}
  PROVE  /\ Notifications' /\ notifications' \subseteq Notification
         /\ \A id : Gone(id) => Gone(id)'
<1> USE RetentionAssumption
<1> DEFINE s == Snoozed(m, action)
           c == Child(m.id, action)
<1>1. m \in Notification /\ time \in Nat /\ NotificationRetention \in Nat
  BY DEF ButtonsTyped
<1>2. m.id \in Ids /\ Len(m.id) \in Nat /\ m.fireAt \in Nat
  BY <1>1 DEF Notification, Ids
<1>3. /\ c \in Ids /\ Len(c) = Len(m.id) + 1 /\ Ancestor(m.id, c)
      /\ \A x \in Ids : Ancestor(x, c) => x = c \/ Ancestor(x, m.id)
  BY <1>2, ChildFacts
<1>4. \A x \in notifications : x.id # c /\ x.id \in Ids /\ x \in Notification
  BY DEF Row, ButtonsTyped, Notification
<1>5. s.id = c /\ s.status = "pending" /\ s.fireAt \in {time, time + 1}
  BY DEF Snoozed
<1>6. s \in Notification
  BY <1>1, <1>3 DEF Notification, Snoozed
<1>7. s.fireAt <= Len(c) * (NotificationRetention + 1)
  <2>1. time <= m.fireAt + NotificationRetention /\ m.fireAt <= Len(m.id) * (NotificationRetention + 1)
    BY DEF Notifications, AgesAreBounded
  <2>2. (Len(m.id) + 1) * (NotificationRetention + 1)
          = Len(m.id) * (NotificationRetention + 1) + (NotificationRetention + 1)
    BY <1>1, <1>2, NextGeneration
  <2>3. Len(m.id) * (NotificationRetention + 1) \in Nat
    BY <1>1, <1>2, NextGeneration
  <2>4. s.fireAt <= Len(m.id) * (NotificationRetention + 1) + NotificationRetention + 1
    <3> DEFINE bound == Len(m.id) * (NotificationRetention + 1)
    <3> HIDE DEF bound
    <3>1. time <= m.fireAt + NotificationRetention /\ m.fireAt <= bound /\ bound \in Nat
      BY <2>1, <2>3 DEF bound
    <3>2. s.fireAt <= bound + NotificationRetention + 1
      BY <1>1, <1>2, <1>5, <3>1
    <3> QED
      BY <3>2 DEF bound
  <2>5. Len(c) * (NotificationRetention + 1) = (Len(m.id) + 1) * (NotificationRetention + 1)
    BY <1>3
  <2> DEFINE before == Len(m.id) * (NotificationRetention + 1)
             after == (Len(m.id) + 1) * (NotificationRetention + 1)
  <2>6. after = before + (NotificationRetention + 1) /\ before \in Nat /\ s.fireAt <= before + NotificationRetention + 1
    BY <2>2, <2>3, <2>4
  <2> HIDE DEF before, after
  <2>7. s.fireAt <= after
    BY <1>1, <2>6
  <2> QED
    BY <2>5, <2>7 DEF after
<1> HIDE DEF c, s
<1>8. notifications' = notifications \cup {s}
  BY DEF s
<1>9. AgesAreBounded'
  <2>1. time <= s.fireAt
    BY <1>1, <1>5
  <2> QED
    BY <1>5, <1>7, <1>8, <2>1 DEF Notifications, AgesAreBounded
<1>10. \A n \in notifications : ~Ancestor(c, n.id)
  <2>1. SUFFICES ASSUME NEW n \in notifications, Ancestor(c, n.id)
                 PROVE  FALSE
    OBVIOUS
  <2>2. Ancestor(m.id, n.id) /\ Len(c) <= Len(n.id) /\ n.id \in Ids
    BY <1>2, <1>3, <1>4, <2>1, AncestorFacts DEF Ancestor
  <2>3. Len(c) \in Len(m.id)..Len(n.id)
    BY <1>2, <1>3, <2>2 DEF Ids
  <2>4. PICK x \in notifications : Len(x.id) = Len(c) /\ Ancestor(x.id, n.id)
    BY <2>2, <2>3 DEF Notifications, LineageIsWhole
  <2>5. Ancestor(x.id, c)
    BY <1>3, <1>4, <2>1, <2>2, <2>4, AncestorFacts, Len(x.id) <= Len(c)
  <2>6. x.id = c
    BY <1>3, <1>4, <2>4, <2>5, AncestorFacts
  <2> QED
    BY <1>4, <2>6
<1>11. LineageIsWhole'
  <2>1. ASSUME NEW x \in notifications', NEW y \in notifications', x.id = y.id
        PROVE  x = y
    BY <1>4, <1>5, <1>8, <2>1 DEF Notifications, LineageIsWhole
  <2>2. ASSUME NEW x \in notifications', NEW y \in notifications', Ancestor(x.id, y.id)
        PROVE  /\ x.id # y.id => x.status = "sent" /\ x.fireAt <= y.fireAt
               /\ \A k \in Len(x.id)..Len(y.id) :
                    \E z \in notifications' : Len(z.id) = k /\ Ancestor(z.id, y.id)
    <3>1. CASE x \in notifications /\ y \in notifications
      BY <1>8, <2>2, <3>1 DEF Notifications, LineageIsWhole
    <3>2. CASE x = s /\ y = s
      <4>1. ASSUME NEW k \in Len(x.id)..Len(y.id)
            PROVE  Len(x.id) = k /\ Ancestor(x.id, y.id)
        BY <1>2, <1>3, <1>5, <2>2, <3>2, <4>1
      <4> QED
        BY <1>8, <3>2, <4>1
    <3>3. CASE x = s /\ y \in notifications
      BY <1>5, <1>10, <2>2, <3>3
    <3>4. CASE x \in notifications /\ y = s
      <4>1. x.id # c /\ Ancestor(x.id, m.id) /\ x.id \in Ids
        BY <1>3, <1>4, <1>5, <2>2, <3>4
      <4>2. x.status = "sent" /\ x.fireAt <= m.fireAt
        <5>1. CASE x.id = m.id
          <6>1. x = m
            BY <3>4, <5>1 DEF Notifications, LineageIsWhole
          <6> QED
            BY <1>2, <6>1
        <5>2. CASE x.id # m.id
          BY <3>4, <4>1, <5>2 DEF Notifications, LineageIsWhole
        <5> QED
          BY <5>1, <5>2
      <4>3. x.fireAt <= y.fireAt
        <5>1. m.fireAt <= time /\ x.fireAt \in Nat
          BY <1>4, <3>4 DEF Notifications, AgesAreBounded, Notification
        <5> QED
          BY <1>1, <1>2, <1>5, <3>4, <4>2, <5>1
      <4>4. ASSUME NEW k \in Len(x.id)..Len(y.id)
            PROVE  \E z \in notifications' : Len(z.id) = k /\ Ancestor(z.id, y.id)
        <5>1. CASE k = Len(c)
          <6>1. s \in notifications' /\ Ancestor(s.id, y.id)
            BY <1>3, <1>5, <1>8, <3>4, AncestorFacts
          <6> QED
            BY <1>5, <5>1, <6>1
        <5>2. CASE k # Len(c)
          <6>1. k \in Len(x.id)..Len(m.id)
            BY <1>2, <1>3, <1>5, <3>4, <4>1, <4>4, <5>2 DEF Ids
          <6>2. PICK z \in notifications : Len(z.id) = k /\ Ancestor(z.id, m.id)
            BY <3>4, <4>1, <6>1 DEF Notifications, LineageIsWhole
          <6>3. Ancestor(z.id, c)
            BY <1>2, <1>3, <1>4, <6>2, AncestorFacts
          <6> QED
            BY <1>5, <1>8, <3>4, <6>2, <6>3
        <5> QED
          BY <5>1, <5>2
      <4> QED
        BY <4>2, <4>3, <4>4
    <3> QED
      BY <1>8, <3>1, <3>2, <3>3, <3>4
  <2> HIDE DEF Ancestor
  <2> QED
    BY <2>1, <2>2 DEF LineageIsWhole
<1>12. ASSUME NEW id, Gone(id)
       PROVE  Gone(id)'
  <2>1. ASSUME Ancestor(s.id, id)
        PROVE  FALSE
    <3>1. Ancestor(m.id, id)
      <4>1. Len(c) <= Len(id) /\ \A i \in 1..Len(c) : c[i] = id[i]
        BY <1>5, <2>1 DEF Ancestor
      <4>2. \A i \in 1..Len(m.id) : m.id[i] = c[i]
        BY <1>3 DEF Ancestor
      <4> QED
        BY <1>2, <1>3, <4>1, <4>2 DEF Ancestor
    <3> QED
      BY <1>12, <3>1 DEF Gone
  <2>2. \A n \in notifications' : ~Ancestor(n.id, id)
    BY <1>8, <1>12, <2>1 DEF Gone
  <2> QED
    BY <2>2 DEF Gone, Ancestor
<1> QED
  BY <1>6, <1>8, <1>9, <1>11, <1>12 DEF Notifications, ButtonsTyped

\* Two generations at most.
LEMMA TwoGenerations ==
  ASSUME NEW n \in Nat, n <= 2, NEW k \in Nat, NEW f \in Nat, f <= n * (k + 1)
  PROVE  f <= 2 * (k + 1)
<1>1. n = 0 \/ n = 1 \/ n = 2
  OBVIOUS
<1>2. CASE n = 0
  BY <1>2
<1>3. CASE n = 1
  BY <1>3
<1>4. CASE n = 2
  BY <1>4
<1> QED
  BY <1>1, <1>2, <1>3, <1>4

\* What is pending when a week passes is due in it; with two snoozes at most,
\* the retention of a finished reminder is not over by then.
LEMMA PendingIsYoung ==
  ASSUME ButtonsTyped, Notifications, WeekPasses, NEW n \in notifications, n.status = "pending"
  PROVE  /\ time' <= n.fireAt
         /\ Generation(n) <= 2 => time' <= ReminderRetention
<1> USE RetentionAssumption
<1>1. n.fireAt \in Nat /\ time \in Nat /\ NotificationRetention \in Nat /\ ReminderRetention \in Nat
      /\ Len(n.id) \in Nat
  BY DEF ButtonsTyped, Notification, Ids
<1>2. time' = time + 1 /\ ~(n.fireAt <= time)
  BY DEF WeekPasses
<1>3. time' <= n.fireAt
  BY <1>1, <1>2
<1>4. n.fireAt <= Len(n.id) * (NotificationRetention + 1)
  BY DEF Notifications, AgesAreBounded
<1>5. ASSUME Len(n.id) <= 2
      PROVE  n.fireAt <= 2 * (NotificationRetention + 1)
  BY <1>1, <1>4, <1>5, TwoGenerations
<1> QED
  BY <1>1, <1>2, <1>3, <1>5 DEF Generation

\* What is old was made of older: the janitor takes a sent row only after its
\* ancestors.
LEMMA AncestorsAreOlder ==
  ASSUME ButtonsTyped, Notifications, NEW m \in notifications, NEW n \in notifications,
         Ancestor(m.id, n.id), NEW t \in Nat, Old(n, t)
  PROVE  Old(m, t)
<1> USE RetentionAssumption
<1>1. m.fireAt \in Nat /\ n.fireAt \in Nat /\ NotificationRetention \in Nat
  BY DEF ButtonsTyped, Notification
<1>2. CASE m.id = n.id
  BY <1>2 DEF Notifications, LineageIsWhole
<1>3. CASE m.id # n.id
  <2>1. m.status = "sent" /\ m.fireAt <= n.fireAt
    BY <1>3 DEF Notifications, LineageIsWhole
  <2> QED
    BY <1>1, <2>1 DEF Old
<1> QED
  BY <1>2, <1>3

\* The janitor: what it leaves is young and of whole lineage, and a recorded
\* press whose row it takes is gone for good.
LEMMA JanitorKeeps ==
  ASSUME ButtonsTyped, Notifications, AllIsThere, WeekPasses
  PROVE  /\ Notifications' /\ notifications' \subseteq notifications
         /\ records' \subseteq records
         /\ \A r \in records : r \in records' \/ Gone(r[1])'
         /\ \A id : Gone(id) => Gone(id)'
<1> USE RetentionAssumption
<1>1. /\ time \in Nat /\ time' = time + 1 /\ NotificationRetention \in Nat
      /\ notifications \subseteq Notification
  BY DEF ButtonsTyped, WeekPasses
<1>2. /\ records' = {r \in records : \E n \in notifications' : n.id = r[1]}
      /\ notifications' = {} \/ notifications' = {n \in notifications : ~Old(n, time')}
  BY DEF WeekPasses
<1>3. notifications' \subseteq notifications /\ \A n \in notifications' : ~Old(n, time')
  BY <1>2
<1>4. AgesAreBounded'
  <2>1. ASSUME NEW n \in notifications'
        PROVE  /\ n.status = "pending" => time' <= n.fireAt
               /\ n.status = "sent" => n.fireAt <= time' /\ time' <= n.fireAt + NotificationRetention
               /\ n.fireAt <= Len(n.id) * (NotificationRetention + 1)
    <3>1. n \in notifications /\ n.fireAt \in Nat
      BY <1>1, <1>3 DEF Notification
    <3>2. n.status = "pending" => time' <= n.fireAt
      BY <3>1, PendingIsYoung
    <3>3. ASSUME n.status = "sent"
          PROVE  n.fireAt <= time' /\ time' <= n.fireAt + NotificationRetention
      <4>1. n.fireAt <= time
        BY <3>1, <3>3 DEF Notifications, AgesAreBounded
      <4>2. ~(n.fireAt < time' - NotificationRetention)
        BY <1>3, <3>3 DEF Old
      <4> QED
        BY <1>1, <3>1, <4>1, <4>2
    <3>4. n.fireAt <= Len(n.id) * (NotificationRetention + 1)
      BY <3>1 DEF Notifications, AgesAreBounded
    <3> QED
      BY <3>2, <3>3, <3>4
  <2> QED
    BY <2>1 DEF AgesAreBounded
<1>5. LineageIsWhole'
  <2>1. ASSUME NEW m \in notifications', NEW n \in notifications', Ancestor(m.id, n.id)
        PROVE  /\ m.id # n.id => m.status = "sent" /\ m.fireAt <= n.fireAt
               /\ \A k \in Len(m.id)..Len(n.id) :
                    \E x \in notifications' : Len(x.id) = k /\ Ancestor(x.id, n.id)
    <3>1. m \in notifications /\ n \in notifications
      BY <1>3
    <3>2. m.id # n.id => m.status = "sent" /\ m.fireAt <= n.fireAt
      BY <2>1, <3>1 DEF Notifications, LineageIsWhole
    <3>3. ASSUME NEW k \in Len(m.id)..Len(n.id)
          PROVE  \E x \in notifications' : Len(x.id) = k /\ Ancestor(x.id, n.id)
      <4>1. PICK x \in notifications : Len(x.id) = k /\ Ancestor(x.id, n.id)
        BY <2>1, <3>1, <3>3 DEF Notifications, LineageIsWhole
      <4>2. m.id \in Ids /\ x.id \in Ids /\ n.id \in Ids /\ Len(m.id) <= Len(x.id)
        BY <1>1, <3>1, <3>3, <4>1 DEF Notification
      <4>3. Ancestor(m.id, x.id)
        BY <2>1, <4>1, <4>2, AncestorFacts
      <4>4. ~Old(x, time')
        BY <1>1, <1>3, <2>1, <3>1, <4>3, AncestorsAreOlder
      <4>5. x \in notifications'
        BY <1>2, <2>1, <4>4
      <4> QED
        BY <4>1, <4>5
    <3> QED
      BY <3>2, <3>3
  <2>2. \A m, n \in notifications' : m.id = n.id => m = n
    BY <1>3 DEF Notifications, LineageIsWhole
  <2> QED
    BY <2>1, <2>2 DEF LineageIsWhole, Ancestor
<1>6. ASSUME NEW r \in records, r \notin records'
      PROVE  Gone(r[1])'
  <2>1. PICK x \in notifications : x.id = r[1]
    BY DEF AllIsThere
  <2>2. x \notin notifications'
    BY <1>2, <1>6, <2>1
  <2>3. ASSUME NEW n \in notifications', Ancestor(n.id, r[1])
        PROVE  FALSE
    <3>1. Old(x, time')
      BY <1>2, <2>2, <2>3
    <3>2. Old(n, time')
      BY <1>1, <1>3, <2>1, <2>3, <3>1, AncestorsAreOlder
    <3> QED
      BY <1>3, <3>2
  <2> QED
    BY <2>3 DEF Gone, Ancestor
<1>7. \A id : Gone(id) => Gone(id)'
  BY <1>3 DEF Gone, Ancestor
<1> QED
  BY <1>2, <1>3, <1>4, <1>5, <1>6, <1>7 DEF Notifications

-----------------------------------------------------------------------------
(***************************************************************************)
(* What each step does to the parts of the invariant.                      *)
(***************************************************************************)

\* What a step that moves no tap does to the runs: records that go are gone
\* for good, and nobody comes closer to running.
LEMMA RunsStay ==
  ASSUME RunsAreRecorded, runs' = runs,
         \A r \in records : r \in records' \/ Gone(r[1])',
         \A id : Gone(id) => Gone(id)',
         \A h \in Taps : Runs(h)' => /\ Runs(h) /\ Press(h)' = Press(h)
                                     /\ reminder' # NoReminder => reminder # NoReminder /\ records \subseteq records'
  PROVE  RunsAreRecorded'
<1>1. RunOnce'
  BY DEF RunsAreRecorded, RunOnce
<1>2. \A r \in runs' : r.press \in records' \/ Gone(r.press[1])'
  BY DEF RunsAreRecorded
<1>3. ASSUME NEW h \in Taps, Runs(h)'
      PROVE  /\ reminder' # NoReminder => Press(h)' \in records'
             /\ \A r \in runs' : r.press # Press(h)'
             /\ \A g \in Taps \ {h} : Runs(g)' => Press(g)' # Press(h)'
  BY <1>3 DEF RunsAreRecorded
<1> QED
  BY <1>1, <1>2, <1>3 DEF RunsAreRecorded

\* Effects stay first when records do not grow and no tap moves on.
LEMMA EffectsStay ==
  ASSUME EffectsAreFirst, effects \subseteq effects', records' \subseteq records,
         \A h \in Taps : pressing'[h].stage \in {"record", "run"} =>
           pressing[h].stage \in {"record", "run"} /\ Press(h)' = Press(h)
  PROVE  EffectsAreFirst'
BY DEF EffectsAreFirst, TookEffect

\* The effect of a press on the notifications.
LEMMA EffectKeeps ==
  ASSUME ButtonsTyped, Notifications, AllIsThere, NEW h \in Taps, TakeEffect(h)
  PROVE  /\ Notifications' /\ notifications' \subseteq Notification
         /\ \A id : Gone(id) => Gone(id)'
         /\ \A m \in notifications : \E n \in notifications' : n.id = m.id /\ (m.status = "sent" => n = m)
<1>1. pressing[h] \in Pressing /\ pressing[h] # NoPress /\ time' = time
  BY PressFacts DEF TakeEffect
<1>2. PICK m \in notifications : m.id = pressing[h].note /\ m.status = "sent"
  BY <1>1 DEF AllIsThere, TakeEffect, Effect
<1>3. CASE notifications' = Cancelled
  BY <1>1, <1>3, WithdrawalKeeps
<1>4. CASE notifications' = notifications
  <2>1. Notifications'
    BY <1>1, <1>4 DEF Notifications, AgesAreBounded, LineageIsWhole, Ancestor
  <2>2. \A id : Gone(id) => Gone(id)'
    BY <1>4 DEF Gone, Ancestor
  <2> QED
    BY <1>4, <2>1, <2>2 DEF ButtonsTyped
<1>5. CASE \E action \in Snoozes : Row(Child(m.id, action)) = {}
                                   /\ notifications' = notifications \cup {Snoozed(m, action)}
  BY <1>1, <1>2, <1>5, SnoozeKeeps
<1> QED
  BY <1>2, <1>3, <1>4, <1>5 DEF TakeEffect, Effect, Snoozed

\* Every step keeps the ages and the lineage and revives nothing; but for the
\* janitor and the removal it keeps every row, and what was sent as it is.
LEMMA NotificationSteps ==
  ASSUME ButtonsTyped, Notifications, AllIsThere, ButtonsNext
  PROVE  /\ Notifications' /\ notifications' \subseteq Notification
         /\ \A id : Gone(id) => Gone(id)'
         /\ WeekPasses \/ RemoveReminder \/ \A m \in notifications : \E n \in notifications' :
                                n.id = m.id /\ (m.status = "sent" => n = m)
<1>1. CASE WeekPasses
  BY <1>1, JanitorKeeps DEF ButtonsTyped
<1>2. CASE Deliver
  BY <1>2, DeliveryKeeps
<1>3. CASE RemoveReminder
  BY <1>3 DEF RemoveReminder, Notifications, AgesAreBounded, LineageIsWhole, Gone
<1>4. CASE \E h \in Taps : TakeEffect(h)
  BY <1>4, EffectKeeps
<1>5. CASE notifications' = notifications /\ time' = time
  <2>1. Notifications'
    BY <1>5 DEF Notifications, AgesAreBounded, LineageIsWhole, Ancestor
  <2>2. \A id : Gone(id) => Gone(id)'
    BY <1>5 DEF Gone, Ancestor
  <2> QED
    BY <1>5, <2>1, <2>2 DEF ButtonsTyped
<1> QED
  BY <1>1, <1>2, <1>3, <1>4, <1>5
     DEF ButtonsNext, TapStep, Resume, Crash, Tap, EffectFails, Record, RecordFails, RunNow

\* A tap takes up what was sent, keeps to its press, takes its effect before
\* it records it, and runs what was not recorded before.
LEMMA PressMoves ==
  ASSUME ButtonsTyped, ButtonsNext
  PROVE  /\ pressing' \in [Taps -> Pressing \cup {NoPress}]
         /\ \A h \in Taps : pressing'[h] # NoPress =>
              \/ /\ pressing[h] # NoPress
                 /\ Press(h)' = Press(h) /\ pressing'[h].note = pressing[h].note
                 /\ pressing'[h].stage \in {"record", "run"} /\ pressing[h].stage = "effect"
                      => TakeEffect(h)
                 /\ Runs(h)' => Runs(h) \/ (Record(h) /\ Press(h) \notin records)
              \/ /\ Tap(h) /\ pressing'[h].stage = "effect"
                 /\ \E n \in notifications : n.status = "sent" /\ n.id = pressing'[h].note
<1>1. CASE UNCHANGED pressing
  BY <1>1 DEF ButtonsTyped, Press, Runs, Pressing, NoPress
<1>2. CASE Crash
  BY <1>2 DEF Crash
<1>3. ASSUME NEW h \in Taps, Tap(h)
      PROVE  /\ pressing' \in [Taps -> Pressing \cup {NoPress}]
             /\ pressing'[h].stage = "effect"
             /\ \E n \in notifications : n.status = "sent" /\ n.id = pressing'[h].note
             /\ \A g \in Taps \ {h} : pressing'[g] = pressing[g]
  <2>1. PICK n \in notifications, action \in Actions :
          /\ n.status = "sent"
          /\ pressing' = [pressing EXCEPT ![h] = [stage |-> "effect", note |-> n.id, action |-> action]]
    BY <1>3 DEF Tap
  <2> DEFINE new == [stage |-> "effect", note |-> n.id, action |-> action]
  <2>2. new \in Pressing /\ new.stage = "effect" /\ new.note = n.id
    BY <2>1 DEF ButtonsTyped, Pressing, Notification
  <2> HIDE DEF new
  <2>3. pressing' = [pressing EXCEPT ![h] = new]
    BY <2>1 DEF new
  <2> QED
    BY <2>1, <2>2, <2>3 DEF ButtonsTyped
<1>4. ASSUME NEW h \in Taps, Tap(h)
      PROVE  \A g \in Taps \ {h} : Press(g)' = Press(g) /\ (Runs(g)' => Runs(g))
                                   /\ pressing'[g].stage = pressing[g].stage
                                   /\ pressing'[g].note = pressing[g].note
  BY <1>3, <1>4 DEF Press, Runs
<1>5. ASSUME NEW h \in Taps, EndPress(h)
      PROVE  /\ pressing' \in [Taps -> Pressing \cup {NoPress}] /\ pressing'[h] = NoPress
             /\ \A g \in Taps \ {h} : pressing'[g] = pressing[g] /\ Press(g)' = Press(g)
                                      /\ (Runs(g)' => Runs(g))
  BY <1>5, PressEnds DEF Press, Runs
<1>6. ASSUME NEW h \in Taps, NEW stage \in {"record", "run"}, Proceed(h, stage), pressing[h] # NoPress
      PROVE  /\ pressing' \in [Taps -> Pressing \cup {NoPress}]
             /\ pressing'[h] # NoPress /\ pressing'[h].stage = stage
             /\ Press(h)' = Press(h) /\ pressing'[h].note = pressing[h].note
             /\ \A g \in Taps \ {h} : pressing'[g] = pressing[g] /\ Press(g)' = Press(g)
                                      /\ (Runs(g)' => Runs(g))
  <2>1. /\ pressing' \in [Taps -> Pressing \cup {NoPress}]
        /\ pressing'[h] # NoPress /\ pressing'[h].stage = stage
        /\ Press(h)' = Press(h) /\ pressing'[h].note = pressing[h].note
        /\ \A g \in Taps \ {h} : pressing'[g] = pressing[g] /\ Press(g)' = Press(g)
    BY <1>6, StageMoves
  <2> QED
    BY <2>1 DEF Runs
<1>7. \A h \in Taps : pressing[h] # NoPress => pressing[h].stage \in {"effect", "record", "run"}
  BY DEF ButtonsTyped, Pressing
<1>8. CASE \E h \in Taps : Tap(h)
  <2>1. PICK h \in Taps : Tap(h)
    BY <1>8
  <2>2. pressing' \in [Taps -> Pressing \cup {NoPress}]
    BY <1>3, <2>1
  <2>3. ASSUME NEW g \in Taps \ {h}, pressing'[g] # NoPress
        PROVE  /\ pressing[g] # NoPress
               /\ Press(g)' = Press(g) /\ pressing'[g].note = pressing[g].note
               /\ pressing'[g].stage = pressing[g].stage /\ (Runs(g)' => Runs(g))
    BY <1>3, <1>4, <2>1, <2>3
  <2> QED
    BY <1>3, <2>1, <2>2, <2>3
<1>9. CASE \E h \in Taps : EndPress(h)
  <2>1. PICK h \in Taps : EndPress(h)
    BY <1>9
  <2> QED
    BY <1>5, <2>1
<1>10. CASE \E h \in Taps : TakeEffect(h)
  <2>1. PICK h \in Taps : TakeEffect(h)
    BY <1>10
  <2>2. Proceed(h, "record") /\ pressing[h] # NoPress
    BY <2>1 DEF TakeEffect, NoPress
  <2>3. ~Runs(h)'
    BY <1>6, <2>2 DEF Runs
  <2> QED
    BY <1>6, <2>1, <2>2, <2>3
<1>11. CASE \E h \in Taps : Record(h) /\ Proceed(h, "run") /\ Press(h) \notin records
  <2>1. PICK h \in Taps : Record(h) /\ Proceed(h, "run") /\ Press(h) \notin records
    BY <1>11
  <2>2. pressing[h] # NoPress /\ pressing[h].stage = "record"
    BY <2>1 DEF Record, NoPress
  <2> QED
    BY <1>6, <2>1, <2>2
<1> QED
  BY <1>1, <1>2, <1>8, <1>9, <1>10, <1>11
     DEF ButtonsNext, TapStep, WeekPasses, Deliver, Resume, RemoveReminder, EffectFails, unavailable,
         Record, recorded,
         RecordFails, RunNow

-----------------------------------------------------------------------------
(***************************************************************************)
(* Each part of the invariant is kept.                                     *)
(***************************************************************************)

LEMMA ButtonsTypedStep ==
  ASSUME ButtonsTyped, Notifications, AllIsThere, ButtonsNext
  PROVE  ButtonsTyped'
<1> USE RetentionAssumption
<1>1. time' \in 0..MaxWeek /\ time <= time' /\ time \in Nat
  BY DEF ButtonsTyped, ButtonsNext, TapStep, WeekPasses, Deliver, Resume, RemoveReminder, Crash, Tap,
         TakeEffect, EffectFails,
         Record, RecordFails, RunNow
<1>2. reminder' = NoReminder \/ (reminder' \in Status /\ reminder'.updated <= time')
  <2>1. CASE reminder' = reminder
    <3>1. reminder \in Status => reminder.updated \in Nat
      BY DEF Status
    <3> QED
      BY <1>1, <2>1, <3>1 DEF ButtonsTyped
  <2>2. CASE reminder' = NoReminder
    BY <2>2
  <2>3. CASE \E s \in {"active", "paused", "done"} : reminder' = [status |-> s, updated |-> time]
    BY <1>1, <2>3 DEF ButtonsTyped, Status
  <2> QED
    BY <2>1, <2>2, <2>3
       DEF ButtonsNext, TapStep, WeekPasses, Deliver, Resume, RemoveReminder, Crash, Tap, TakeEffect,
           Effect, EffectFails,
           Record, RecordFails, RunNow
<1>3. notifications' \subseteq Notification
  BY NotificationSteps
<1>4. ASSUME NEW h \in Taps, Record(h) \/ RunNow(h)
      PROVE  Press(h) \in Ids \X Actions
  BY <1>4, PressFacts DEF Record, RunNow, NoPress
<1>5. records' \subseteq Ids \X Actions
  BY <1>4 DEF ButtonsTyped, ButtonsNext, TapStep, WeekPasses, Deliver, Resume, RemoveReminder, Crash, Tap,
              TakeEffect, EffectFails,
              Record, RecordFails, RunNow
<1>6. \A r \in runs' : r.press \in Ids \X Actions
  <2>1. CASE runs' = runs
    BY <2>1 DEF ButtonsTyped
  <2>2. CASE \E h \in Taps : RunNow(h)
    BY <1>4, <2>2 DEF ButtonsTyped, RunNow
  <2> QED
    BY <2>1, <2>2
       DEF ButtonsNext, TapStep, WeekPasses, Deliver, Resume, RemoveReminder, Crash, Tap, TakeEffect,
           EffectFails,
           Record, RecordFails
<1>7. pressing' \in [Taps -> Pressing \cup {NoPress}]
  BY PressMoves
<1> QED
  BY <1>1, <1>2, <1>3, <1>5, <1>6, <1>7 DEF ButtonsTyped

LEMMA AllIsThereStep ==
  ASSUME ButtonsTyped, Notifications, AllIsThere, ButtonsNext
  PROVE  AllIsThere'
<1> USE RetentionAssumption
<1>1. reminder = NoReminder => notifications = {} /\ records = {}
  BY DEF AllIsThere
<1>2. reminder' = NoReminder => notifications' = {} /\ records' = {}
  <2>1. CASE WeekPasses
    BY <1>1, <2>1 DEF WeekPasses
  <2>2. CASE \E h \in Taps : TakeEffect(h)
    <3>1. ASSUME NEW s \in {"active", "paused", "done"}
          PROVE  [status |-> s, updated |-> time] # NoReminder
      BY DEF ButtonsTyped, Status
    <3> QED
      BY <2>2, <3>1 DEF TakeEffect, Effect
  <2>3. CASE Resume
    <3>1. [status |-> "active", updated |-> time] # NoReminder
      BY DEF ButtonsTyped, Status
    <3> QED
      BY <2>3, <3>1 DEF Resume
  <2>4. CASE \E h \in Taps : Record(h)
    BY <1>1, <2>4 DEF Record, Row
  <2> QED
    BY <1>1, <2>1, <2>2, <2>3, <2>4
       DEF ButtonsNext, TapStep, Deliver, RemoveReminder, Crash, Tap, EffectFails, RecordFails, RunNow
<1>3. \A r \in records' : \E n \in notifications' : n.id = r[1]
  <2>1. CASE WeekPasses
    BY <2>1 DEF WeekPasses
  <2>2. CASE RemoveReminder
    BY <2>2 DEF RemoveReminder
  <2>3. CASE ~WeekPasses /\ ~RemoveReminder
    <3>1. \A m \in notifications : \E n \in notifications' : n.id = m.id
      BY <2>3, NotificationSteps
    <3>2. \A r \in records' : \E m \in notifications : m.id = r[1]
      <4>1. CASE records' = records
        BY <4>1 DEF AllIsThere
      <4>2. CASE \E h \in Taps : Record(h)
        <5>1. PICK h \in Taps : Record(h)
          BY <4>2
        <5>2. Press(h)[1] = pressing[h].note
          BY DEF Press
        <5> QED
          BY <5>1, <5>2 DEF AllIsThere, Record, Row
      <4> QED
        BY <2>3, <4>1, <4>2
           DEF ButtonsNext, TapStep, Deliver, Resume, Crash, Tap, TakeEffect, EffectFails, RecordFails,
               RunNow
    <3> QED
      BY <3>1, <3>2
  <2> QED
    BY <2>1, <2>2, <2>3
<1>4. ASSUME NEW h \in Taps, pressing'[h] # NoPress, reminder' # NoReminder
      PROVE  \E n \in notifications' : n.id = pressing'[h].note /\ n.status = "sent"
  <2>1. ~RemoveReminder
    BY <1>4 DEF RemoveReminder
  <2>2. ~WeekPasses
    BY <1>4 DEF WeekPasses
  <2>3. reminder # NoReminder
    BY <1>4, <2>2 DEF ButtonsNext, TapStep, Deliver, Resume, RemoveReminder, Crash, Tap, TakeEffect,
                      Effect, EffectFails,
                      Record, RecordFails, RunNow
  <2>4. \E m \in notifications : m.id = pressing'[h].note /\ m.status = "sent"
    <3>1. CASE pressing[h] # NoPress /\ pressing'[h].note = pressing[h].note
      BY <2>3, <3>1 DEF AllIsThere
    <3>2. CASE \E n \in notifications : n.status = "sent" /\ n.id = pressing'[h].note
      BY <3>2
    <3> QED
      BY <1>4, <3>1, <3>2, PressMoves
  <2> QED
    BY <2>1, <2>2, <2>4, NotificationSteps
<1> QED
  BY <1>2, <1>3, <1>4 DEF AllIsThere

\* A check runs only when its record is new, and runs of what is gone are not
\* repeated because nothing that is gone comes back to be pressed.
LEMMA RunsStep ==
  ASSUME ButtonsInv, ButtonsNext
  PROVE  RunsAreRecorded'
<1> USE RetentionAssumption DEF ButtonsInv
<1>1. Notifications
  BY DEF Notifications
<1>2. /\ \A id : Gone(id) => Gone(id)'
      /\ \A h \in Taps : Runs(h)' =>
           /\ pressing[h] # NoPress /\ Press(h)' = Press(h)
           /\ Runs(h) \/ (Record(h) /\ Press(h) \notin records)
  BY <1>1, NotificationSteps, PressMoves DEF Runs, NoPress
<1>3. ASSUME NEW h \in Taps, Record(h)
      PROVE  RunsAreRecorded'
  <2>1. /\ reminder # NoReminder /\ reminder' = reminder /\ runs' = runs /\ notifications' = notifications
        /\ records' = records \cup {Press(h)}
        /\ \E n \in notifications : n.id = pressing[h].note
        /\ pressing[h].stage = "record"
    BY <1>3 DEF Record, Row, AllIsThere
  <2>2. \A g \in Taps : Runs(g) => Press(g) \in records
    BY <2>1 DEF RunsAreRecorded
  <2>3. ~Gone(Press(h)[1])
    BY <1>3, <2>1, PressFacts, AncestorFacts DEF Gone, Press, ButtonsTyped, Notification, Pressing, Record,
                                                 NoPress
  <2>4. Press(h) \notin records => \A r \in runs : r.press # Press(h)
    BY <2>3 DEF RunsAreRecorded
  <2>5. \A g \in Taps \ {h} : Runs(g)' => Runs(g) /\ Press(g)' = Press(g)
    <3>1. ASSUME NEW g \in Taps \ {h}
          PROVE  pressing'[g] = pressing[g] \/ ~Runs(g)'
      <4>1. pressing[h] # NoPress
        BY <2>1 DEF NoPress
      <4> QED
        BY <1>3, <4>1, PressEnds, StageMoves DEF Record, recorded
    <3> QED
      BY <3>1 DEF Runs, Press
  <2>6. RunOnce'
    BY <2>1 DEF RunsAreRecorded, RunOnce
  <2>7. \A r \in runs' : r.press \in records' \/ Gone(r.press[1])'
    BY <1>2, <2>1 DEF RunsAreRecorded
  <2>8. ASSUME NEW g \in Taps, Runs(g)'
        PROVE  /\ Press(g)' \in records'
               /\ \A r \in runs' : r.press # Press(g)'
               /\ \A k \in Taps \ {g} : Runs(k)' => Press(k)' # Press(g)'
    <3>1. CASE g = h
      <4>1. Press(h)' = Press(h) /\ Press(h) \notin records
        BY <1>2, <2>1, <2>8, <3>1 DEF Runs
      <4>2. \A k \in Taps \ {h} : Runs(k)' => Press(k)' \in records
        BY <2>2, <2>5
      <4> QED
        BY <2>1, <2>4, <3>1, <4>1, <4>2
    <3>2. CASE g # h
      <4>1. Runs(g) /\ Press(g)' = Press(g) /\ Press(g) \in records
        BY <2>2, <2>5, <2>8, <3>2
      <4>2. \A k \in Taps \ {g, h} : Runs(k)' => Press(k)' # Press(g)'
        BY <2>5, <4>1 DEF RunsAreRecorded
      <4>3. Runs(h)' => Press(h)' # Press(g)'
        BY <1>2, <2>1, <4>1 DEF Runs
      <4>4. \A r \in runs' : r.press # Press(g)'
        BY <2>1, <4>1 DEF RunsAreRecorded
      <4> QED
        BY <2>1, <4>1, <4>2, <4>3, <4>4
    <3> QED
      BY <3>1, <3>2
  <2> QED
    BY <2>6, <2>7, <2>8 DEF RunsAreRecorded
<1>4. ASSUME NEW h \in Taps, RunNow(h)
      PROVE  RunsAreRecorded'
  <2> DEFINE new == [press |-> Press(h), n |-> Cardinality(runs)]
  <2>1. /\ Runs(h) /\ runs' = runs \cup {new} /\ new.press = Press(h)
        /\ records' = records /\ reminder' = reminder
    BY <1>4 DEF RunNow, Runs
  <2> HIDE DEF new
  <2>2. Press(h) \in records \/ Gone(Press(h)[1])
    BY <2>1 DEF RunsAreRecorded, AllIsThere, Gone
  <2>3. \A r \in runs : r.press # Press(h)
    BY <2>1 DEF RunsAreRecorded
  <2>4. RunOnce'
    BY <2>1, <2>3 DEF RunsAreRecorded, RunOnce
  <2>5. \A r \in runs' : r.press \in records' \/ Gone(r.press[1])'
    BY <1>2, <2>1, <2>2 DEF RunsAreRecorded
  <2>6. ASSUME NEW g \in Taps, Runs(g)'
        PROVE  /\ reminder' # NoReminder => Press(g)' \in records'
               /\ \A r \in runs' : r.press # Press(g)'
               /\ \A k \in Taps \ {g} : Runs(k)' => Press(k)' # Press(g)'
    <3>1. g # h
      BY <1>4, <2>6, PressEnds DEF RunNow, Runs, NoPress
    <3>2. \A k \in Taps : Runs(k)' => Runs(k) /\ Press(k)' = Press(k)
      BY <1>2, <1>4 DEF RunNow, Record
    <3> QED
      BY <2>1, <2>6, <3>1, <3>2 DEF RunsAreRecorded
  <2> QED
    BY <2>4, <2>5, <2>6 DEF RunsAreRecorded
<1>5. ASSUME \A h \in Taps : ~Record(h) /\ ~RunNow(h)
      PROVE  RunsAreRecorded'
  <2>1. runs' = runs
    BY <1>5 DEF ButtonsNext, TapStep, WeekPasses, Deliver, Resume, RemoveReminder, Crash, Tap,
                TakeEffect, EffectFails,
                RecordFails
  <2>2. \A r \in records : r \in records' \/ Gone(r[1])'
    <3>1. CASE WeekPasses
      BY <1>1, <3>1, JanitorKeeps
    <3>2. CASE RemoveReminder
      BY <3>2 DEF RemoveReminder, Gone
    <3>3. CASE ~WeekPasses /\ ~RemoveReminder
      BY <1>5, <3>3 DEF ButtonsNext, TapStep, Deliver, Resume, Crash, Tap, TakeEffect, EffectFails,
                        RecordFails
    <3> QED
      BY <3>1, <3>2, <3>3
  <2>3. ASSUME NEW h \in Taps, Runs(h)'
        PROVE  /\ Runs(h) /\ Press(h)' = Press(h)
               /\ reminder' # NoReminder => reminder # NoReminder /\ records \subseteq records'
    <3>1. Runs(h) /\ Press(h)' = Press(h) /\ pressing[h] # NoPress
      BY <1>2, <1>5, <2>3
    <3>2. ~WeekPasses
      BY <3>1 DEF WeekPasses
    <3> QED
      BY <1>5, <3>1, <3>2
         DEF ButtonsNext, TapStep, Deliver, Resume, RemoveReminder, Crash, Tap, TakeEffect, Effect,
             EffectFails, RecordFails
  <2> QED
    BY <1>2, <2>1, <2>2, <2>3, RunsStay
<1> QED
  BY <1>3, <1>4, <1>5

LEMMA EffectsStep ==
  ASSUME ButtonsInv, ButtonsNext
  PROVE  EffectsAreFirst'
<1> USE DEF ButtonsInv
<1>1. \A h \in Taps : pressing'[h].stage \in {"record", "run"} =>
        /\ Press(h)' = Press(h)
        /\ pressing[h].stage \in {"record", "run"} \/ TakeEffect(h)
  BY PressMoves DEF ButtonsTyped, Pressing, NoPress
<1>2. CASE \E h \in Taps : TakeEffect(h)
  <2>1. PICK h \in Taps : TakeEffect(h)
    BY <1>2
  <2>2. effects' = effects \cup {Press(h)} /\ records' = records
    BY <2>1 DEF TakeEffect, Effect
  <2>3. \A g \in Taps \ {h} : ~TakeEffect(g) \/ pressing'[g] = pressing[g]
    BY <2>1 DEF TakeEffect, Proceed, ButtonsTyped
  <2> QED
    BY <1>1, <2>1, <2>2, <2>3 DEF EffectsAreFirst, TookEffect, TakeEffect
<1>3. CASE \E h \in Taps : Record(h)
  <2>1. PICK h \in Taps : Record(h)
    BY <1>3
  <2>2. effects' = effects /\ records' = records \cup {Press(h)} /\ Press(h) \in effects
    BY <2>1 DEF Record, EffectsAreFirst
  <2>3. \A g \in Taps : TakeEffect(g) => Press(g) \in effects'
    BY DEF TakeEffect, Effect
  <2> QED
    BY <1>1, <2>2, <2>3 DEF EffectsAreFirst, TookEffect
<1>4. ASSUME \A h \in Taps : ~TakeEffect(h) /\ ~Record(h)
      PROVE  EffectsAreFirst'
  <2>1. effects' = effects /\ records' \subseteq records
    BY <1>4 DEF ButtonsNext, TapStep, WeekPasses, Deliver, Resume, RemoveReminder, Crash, Tap,
                EffectFails, RecordFails, RunNow
  <2> QED
    BY <1>1, <1>4, <2>1, EffectsStay
<1> QED
  BY <1>2, <1>3, <1>4

-----------------------------------------------------------------------------
(***************************************************************************)
(* The theorems.                                                           *)
(***************************************************************************)

LEMMA ButtonsStart == ButtonsInit => ButtonsInv
<1> USE RetentionAssumption
<1> SUFFICES ASSUME ButtonsInit PROVE ButtonsInv
  OBVIOUS
<1>1. Original \in Notification /\ Original.id = <<>> /\ Original.fireAt = 0 /\ Original.status = "sent"
  BY DEF Original, Notification, Ids
<1>2. reminder \in Status /\ reminder.updated = 0
  BY DEF ButtonsInit, Status
<1>3. ButtonsTyped
  BY <1>1, <1>2 DEF ButtonsInit, ButtonsTyped
<1>4. AllIsThere
  BY <1>2 DEF ButtonsInit, AllIsThere
<1>5. AgesAreBounded
  BY <1>1 DEF ButtonsInit, AgesAreBounded
<1>6. LineageIsWhole
  BY <1>1 DEF ButtonsInit, LineageIsWhole, Ancestor
<1>7. RunsAreRecorded /\ EffectsAreFirst
  BY DEF ButtonsInit, RunsAreRecorded, RunOnce, Runs, NoPress, EffectsAreFirst, TookEffect
<1> QED
  BY <1>3, <1>4, <1>5, <1>6, <1>7 DEF ButtonsInv

LEMMA ButtonsStep == ButtonsInv /\ [ButtonsNext]_buttonVars => ButtonsInv'
<1> SUFFICES ASSUME ButtonsInv, [ButtonsNext]_buttonVars PROVE ButtonsInv'
  OBVIOUS
<1>1. CASE ButtonsNext
  <2>1. ButtonsTyped /\ Notifications /\ AllIsThere
    BY DEF ButtonsInv, Notifications
  <2>2. Notifications'
    BY <1>1, <2>1, NotificationSteps
  <2> QED
    BY <1>1, <2>1, <2>2, ButtonsTypedStep, AllIsThereStep, RunsStep, EffectsStep DEF ButtonsInv, Notifications
<1>2. CASE UNCHANGED buttonVars
  BY <1>2 DEF buttonVars, ButtonsInv, ButtonsTyped, AllIsThere, AgesAreBounded, LineageIsWhole, Ancestor,
              RunsAreRecorded, RunOnce, Runs, Press, Gone, EffectsAreFirst, TookEffect
<1> QED
  BY <1>1, <1>2

\* Presses, the janitor, failures and restarts in any order keep the whole
\* invariant: notifications, records, runs and effects fit together
\* (NotificationActionService, PruneDoneReminders, notification pruning).
THEOREM ButtonsAreSafe == ButtonsSpec => []ButtonsInv
<1> QED
  BY ButtonsStart, ButtonsStep, PTL DEF ButtonsSpec

\* Every variable of the model has its type, and records name actions.
THEOREM ButtonsAreTyped == ButtonsSpec => []ButtonsTypeOK
<1>1. ButtonsInv => ButtonsTypeOK
  <2> SUFFICES ASSUME ButtonsInv PROVE ButtonsTypeOK
    OBVIOUS
  <2>1. ButtonsTyped
    BY DEF ButtonsInv
  <2>2. reminder # NoReminder => reminder.status \in {"active", "paused", "done"} /\ reminder.updated \in 0..time
    BY <2>1, RetentionAssumption DEF ButtonsTyped, Status
  <2>3. \A h \in Taps : pressing[h] = NoPress \/ pressing[h].stage \in {"effect", "record", "run"}
    BY <2>1 DEF ButtonsTyped, Pressing
  <2>4. \A n \in notifications : n.status \in {"pending", "sent", "cancelled"}
    BY <2>1 DEF ButtonsTyped, Notification
  <2> QED
    BY <2>1, <2>2, <2>3, <2>4 DEF ButtonsTypeOK, ButtonsTyped
<1> QED
  BY <1>1, ButtonsAreSafe, PTL

\* A check runs its reminder once, whoever presses its button and however
\* often (Apply with its unique key on notification_actions).
THEOREM ChecksRunOnce == ButtonsSpec => []RunOnce
<1>1. ButtonsInv => RunOnce
  BY DEF ButtonsInv, RunsAreRecorded
<1> QED
  BY <1>1, ButtonsAreSafe, PTL

\* No press is recorded, and answered as done from then on, without its effect.
THEOREM RecordedTookEffect == ButtonsSpec => []TookEffect
<1>1. ButtonsInv => TookEffect
  BY DEF ButtonsInv, EffectsAreFirst
<1> QED
  BY <1>1, ButtonsAreSafe, PTL

\* The janitor takes no snooze, and no snooze of a snooze, before it is sent:
\* it is sent before the reminder's retention ends (PruneDoneReminders).
THEOREM SnoozesSurvive == ButtonsSpec => SnoozeSurvives
<1> USE RetentionAssumption
<1>1. ASSUME ButtonsInv, [ButtonsNext]_buttonVars, NEW n \in notifications,
             n.status = "pending", Generation(n) <= 2, time' > time
      PROVE  n \in notifications'
  <2>1. ButtonsTyped /\ Notifications /\ AllIsThere
    BY <1>1 DEF ButtonsInv, Notifications
  <2>2. time \in Nat /\ ReminderRetention \in Nat
    BY <2>1 DEF ButtonsTyped
  <2>3. WeekPasses
    BY <1>1, <2>2 DEF buttonVars, ButtonsNext, TapStep, Deliver, Resume, RemoveReminder, Crash, Tap,
                      TakeEffect, EffectFails,
                      Record, RecordFails, RunNow
  <2>4. time' <= ReminderRetention
    BY <1>1, <2>1, <2>3, PendingIsYoung
  <2>5. reminder # NoReminder => ~prunedReminder(reminder, time')
    <3>1. reminder # NoReminder => reminder.updated \in Nat
      BY <2>1 DEF ButtonsTyped, Status
    <3> QED
      BY <2>2, <2>3, <2>4, <3>1 DEF prunedReminder, WeekPasses
  <2>6. notifications' = {m \in notifications : ~Old(m, time')}
    BY <2>3, <2>5 DEF WeekPasses
  <2> QED
    BY <1>1, <2>6 DEF Old
<1>2. ButtonsInv /\ [ButtonsNext]_buttonVars =>
        [\A n \in notifications :
           n.status = "pending" /\ Generation(n) <= 2 /\ time' > time => n \in notifications']_buttonVars
  BY <1>1
<1> QED
  BY <1>2, ButtonsAreSafe, PTL DEF ButtonsSpec, SnoozeSurvives

-----------------------------------------------------------------------------
(***************************************************************************)
(* Bot: the composition of both.                                           *)
(***************************************************************************)
\* Every behavior of the composition is one of each of the two parts: what is proved
\* of one alone holds of it here.
THEOREM BotKeepsItsParts == BotSpec => Spec /\ ButtonsSpec
<1>1. BotInit => Init /\ ButtonsInit
  BY DEF BotInit
<1>2. [BotNext]_<<part, vars, buttonVars>> => [Next]_vars /\ [ButtonsNext]_buttonVars
  <2>1. CASE BotNext
    BY <2>1 DEF BotNext
  <2>2. CASE UNCHANGED <<part, vars, buttonVars>>
    BY <2>2
  <2> QED
    BY <2>1, <2>2
<1> QED
  BY <1>1, <1>2, PTL DEF BotSpec, Spec, ButtonsSpec

\* And what is promised of a dialog and of a button holds in the composition.
THEOREM BotIsSafe ==
  BotSpec =>
    /\ [](/\ TypeOK /\ OncePerContent /\ DraftIsSpent /\ RefusedHasTwin /\ KindMatchesTrigger
          /\ ButtonsTypeOK /\ RunOnce /\ TookEffect)
    /\ NoStaleCreate /\ SnoozeSurvives
BY BotKeepsItsParts, ConversationIsTyped, ContentsAreMadeOnce, DraftsAreSpentOnce, RefusalsHaveTwins,
   KindsMatchTriggers, ButtonsAreTyped, ChecksRunOnce, RecordedTookEffect, StaleDraftsAreNotCreated, SnoozesSurvive, PTL
=============================================================================
