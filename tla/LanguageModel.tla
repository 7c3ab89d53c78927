---------------------------- MODULE LanguageModel ----------------------------
(***************************************************************************)
(* One completion asked of OpenRouter, for a reminder's text or for the    *)
(* ranking of a digest: the models in their order, each under a deadline   *)
(* of its own, with retries of the failures that may pass.  A time unit is *)
(* the first pause; Retry-After may name any pause, even a very long one.  *)
(***************************************************************************)
EXTENDS Integers, Sequences, SequencesExt

CONSTANTS
  NoPause,
  NumModels,         \* the configured model and its fallbacks
  maxServerRetries,
  timeout,           \* of one model, in units
  Pauses,            \* what Retry-After may say
  MaxNow

ASSUME CallAssumption ==
  /\ NumModels \in Nat \ {0}
  /\ {maxServerRetries, timeout, MaxNow} \subseteq Nat /\ Pauses \subseteq Nat

VARIABLES
  instant,
  asked,       \* the model being asked, from 1
  since,       \* when its deadline began
  wake,        \* the end of a pause, NoPause while a reply is awaited
  tries,       \* what each attempt of this model ended with
  outcome      \* "none", "answer", "error" or "cancelled"

callVars == <<instant, asked, since, wake, tries, outcome>>

Models == 1..NumModels
\* A reply is a status, with what is found inside a successful one; or nothing.
Statuses == {"401", "404", "429", "503"}
Contents == {"good", "unusable", "empty", "no choices", "undecodable"}
Endings == Statuses \cup Contents \cup {"silence"}

CallTypeOK ==
  /\ asked \in Models
  /\ since \in 0..instant /\ wake \in {NoPause} \cup Nat
  /\ tries \in Seq(Endings) /\ Len(tries) <= maxServerRetries + 1
  /\ outcome \in {"none", "answer", "error", "cancelled"}

CallInit ==
  /\ instant = 0 /\ asked = 1 /\ since = 0 /\ wake = NoPause
  /\ tries = <<>> /\ outcome = "none"

\* 5xx and silence may pass: the same model is asked again, maxServerRetries times.
Passing(ending) == ending \in {"503", "silence"}
\* Mutant: a limit is not of the model.
ofModelOnly(ending) == ending \in {"404", "empty", "unusable"}
\* These are of this model: a limit, a slug that is gone, a completion that is
\* blank or that the caller cannot use.
ofModel(ending) == ending \in {"429", "404", "empty", "unusable"}

Awaiting == outcome = "none" /\ wake = NoPause
Expired == instant >= since + timeout

Goto(model) == asked' = model /\ since' = instant /\ tries' = <<>> /\ UNCHANGED outcome
Give(up) == outcome' = "error" /\ tries' = up /\ UNCHANGED <<asked, since>>

\* What openRouterCompleter does with a model that gave no answer: the next one
\* is asked when this one's own fault or its deadline ended it.
fallback(up, tryNextModel) ==
  /\ IF (tryNextModel \/ Expired) /\ asked < NumModels THEN Goto(asked + 1) ELSE Give(up)
  /\ wake' = NoPause /\ UNCHANGED instant

Answered ==
  /\ Awaiting
  /\ outcome' = "answer" /\ tries' = Append(tries, "good")
  /\ UNCHANGED <<instant, asked, since, wake>>

ModelFails ==
  /\ Awaiting
  /\ \E ending \in (Statuses \cup Contents) \ {"good"} :
       ~Passing(ending) /\ fallback(Append(tries, ending), ofModel(ending))

\* A 5xx waits as long as Retry-After says, if it says so.
retryDelays(ending) == {2^Len(tries)} \cup (IF ending = "503" THEN Pauses ELSE {})
MayPass ==
  /\ Awaiting
  /\ \E ending \in {"503", "silence"} :
       IF Len(tries) < maxServerRetries
       THEN /\ \E delay \in retryDelays(ending) : wake' = instant + delay
            /\ tries' = Append(tries, ending)
            /\ UNCHANGED <<instant, asked, since, outcome>>
       ELSE fallback(Append(tries, ending), FALSE)

\* waitForRetry ends with the pause, or with the deadline.
Retry ==
  /\ outcome = "none" /\ wake # NoPause /\ instant >= wake
  /\ wake' = NoPause
  /\ UNCHANGED <<instant, asked, since, tries, outcome>>

Deadline ==
  /\ outcome = "none" /\ Expired
  /\ fallback(tries, FALSE)

\* The process stops, or the caller's own context ends.
Cancel ==
  /\ outcome = "none"
  /\ outcome' = "cancelled"
  /\ UNCHANGED <<instant, asked, since, wake, tries>>

\* A pause and a reply both end with the model's deadline at the latest.
patient == instant < since + timeout
PassTime ==
  /\ outcome = "none" /\ instant < MaxNow
  /\ patient /\ (wake # NoPause => instant < wake)
  /\ instant' = instant + 1
  /\ UNCHANGED <<asked, since, wake, tries, outcome>>

CallNext ==
  \/ Answered \/ ModelFails \/ MayPass \/ Retry \/ Deadline \/ Cancel \/ PassTime

CallSpec == CallInit /\ [][CallNext]_callVars

\* A failure the other models would share: a client error, an envelope that is no
\* completion, or one that stayed for all the retries (openRouterCompleter's comment;
\* a model that answers 503 three times before its deadline is not "unavailable" to it).
Shared(up) ==
  \/ Last(up) \in {"401", "no choices", "undecodable"}
  \/ Len(up) = maxServerRetries + 1 /\ Range(up) \subseteq {"503", "silence"}

\* A request fails only after every model had its turn, or with a shared failure.
NoneIsLeftOut == outcome = "error" => asked = NumModels \/ Shared(tries)

\* The caller waits no longer than one timeout for each model it asked, whatever
\* pauses the servers ask for.
AnswersInTime == instant <= asked * timeout /\ instant - since <= timeout

\* No model of the list is left out while it might answer, and none is waited for
\* longer than its timeout.
FallsBack == NoneIsLeftOut /\ AnswersInTime
=============================================================================
