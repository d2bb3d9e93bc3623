--------------------------- MODULE ReplaySession ---------------------------
(***************************************************************************)
(* One PHP process that may be a replay: ReplayRuntime boots a             *)
(* ReplaySession from the environment, the workload's effects are looked   *)
(* up in the recording, and the shutdown handler settles the verdict and   *)
(* the exit code.  The environment and the mounted recording are one       *)
(* plan, fixed at the start.  A recorded event is known by its position    *)
(* in the stream, a request/answer pair stands for database_query and      *)
(* database_result and for http_request and http_response, and payloads    *)
(* are told apart only where they are compared.                            *)
(***************************************************************************)
EXTENDS Naturals, Sequences, FiniteSets, FiniteSetsExt, Functions

CONSTANTS Plans,    \* the plans the process may be started under
          Effects,  \* the effects its code may perform
          MaxCalls  \* effects performed in one process (bound)

Channels == {"database", "http", "time"}
Intents  == {"read", "write"}
Roles    == {"request", "answer", "self", "note"}
Event    == [channel : Channels, role : Roles, selector : STRING]

\* What performs an effect: an adapter or a call of Effect (with a performer
\* of the real effect, or without), or one of the nine builtins whose
\* handler the extension replaced.
Effect == [channel : Channels, selector : STRING, intent : Intents,
           performer : BOOLEAN, hooked : BOOLEAN]

Modes    == {"blocked", "replayed", "simulated", "passthrough"}
Refusals == {"recording_unavailable", "protocol_unsupported",
             "effect_policy_invalid"}

\* HTTP has one variable for both intents.
Slot(channel, intent) == <<channel, IF channel = "http" THEN "call" ELSE intent>>
Slots == {Slot(channel, intent) : channel \in Channels, intent \in Intents}

\* `mount` is what discovery finds: no recording asked for, a reason to
\* refuse, or a good one.  An "unset" variable takes its default.
Plan == [mount : {"absent", "good"} \cup Refusals,
         recording : Seq(Event),
         policy : [Slots -> Modes \cup {"unset"}],
         answersOnly : BOOLEAN,
         truncated : BOOLEAN]

ASSUME ReplayAssumption ==
  /\ Plans \subseteq Plan
  /\ Effects \subseteq Effect
  /\ \A e \in Effects : e.channel = "time" => e.intent = "read"  \* Effect::time()
  /\ MaxCalls \in Nat

VARIABLES
  plan,         \* the environment and the mounted recording
  phase,        \* "boot", "running", "shutdown", "after" it, "exited"
  step,         \* ReplaySession::$step
  cursors,      \* ::$cursors, the next ordinal of every (channel, selector)
  consumed,     \* ::$consumed, positions of the recording
  lookups,      \* ::$lookups, told apart by their step
  divergences,  \* ::$divergences
  aborted,      \* ::$aborted
  finished,     \* ::$finished
  outcome,      \* ::$outcome; the exit code goes with it
  waiting,      \* passthrough lookups whose performer is running, nested
  reports,      \* what Report::write was given
  status,       \* the exit status of the process
  performed     \* real effects, each with the mode it was performed under

session == <<step, cursors, consumed, lookups, divergences, aborted, finished,
             outcome, reports>>
vars    == <<plan, phase, session, waiting, status, performed>>

---------------------------------------------------------------------------
(* The recording, resolved at load *)

Recording == plan.recording

\* bind(): requests in order, each takes the first later answer of its kind
\* that no request before it has taken.
\* Mutant: the answer just after it, whoever asked
BindNearest ==
  [i \in {j \in DOMAIN Recording :
            /\ Recording[j].role = "request"
            /\ \E k \in DOMAIN Recording : /\ k > j
                                           /\ Recording[k].role = "answer"
                                           /\ Recording[k].channel = Recording[j].channel}
    |-> Min({k \in DOMAIN Recording : /\ k > i
                                      /\ Recording[k].role = "answer"
                                      /\ Recording[k].channel = Recording[i].channel})]

Bind ==
  LET bound[i \in 0..Len(Recording)] ==
        IF i = 0 THEN <<>>
        ELSE LET before == bound[i - 1]
                 free   == {k \in (i + 1)..Len(Recording) :
                              /\ Recording[k].role = "answer"
                              /\ Recording[k].channel = Recording[i].channel
                              /\ k \notin Range(before)}
             IN  IF Recording[i].role = "request" /\ free # {}
                 THEN [j \in DOMAIN before \cup {i} |-> IF j = i THEN Min(free) ELSE before[j]]
                 ELSE before
  IN  bound[Len(Recording)]

Selectable == {i \in DOMAIN Recording : /\ Recording[i].role # "note"
                                        /\ i \notin Range(Bind)}

\* The events that can answer an effect, whatever else the code did.
Matches(e) == {i \in Selectable : /\ Recording[i].channel = e.channel
                                  /\ Recording[i].selector = e.selector}

\* The match with `n` matches before it, 0 when there are not so many.
EventAt(e, n) ==
  LET at == {i \in Matches(e) : Cardinality({j \in Matches(e) : j < i}) = n}
  IN  IF at = {} THEN 0 ELSE CHOOSE i \in at : TRUE

WithAnswer(i) == {i} \cup {Bind[j] : j \in {i} \cap DOMAIN Bind}

---------------------------------------------------------------------------
(* Policy and verdict *)

PolicyMode(slot) ==
  IF plan.policy[slot] = "unset"
  THEN IF slot[2] = "read" THEN "replayed" ELSE "blocked"
  ELSE plan.policy[slot]

\* The clock cannot be simulated.
Downgraded == plan.mount = "good" /\ PolicyMode(Slot("time", "read")) = "simulated"

ModeFor(e) ==
  IF Downgraded /\ Slot(e.channel, e.intent) = Slot("time", "read")
  THEN "replayed"
  ELSE PolicyMode(Slot(e.channel, e.intent))

Informational ==
  {"passthrough_performed", "recording_truncated"}
     \cup (IF plan.answersOnly THEN {"unconsumed_event"} ELSE {})

Raised(at, type, event) == [step |-> at, type |-> type, event |-> event]

\* settle() of the session.
Verdict(found, isAborted) ==
  IF isAborted THEN "aborted"
  ELSE IF \E d \in found : d.type \notin Informational
       THEN "diverged" ELSE "conformant"

ExitCode(verdict) == CASE verdict = "conformant"          -> 0
                       [] verdict = "diverged"            -> 90
                       [] verdict = "precondition_failed" -> 91
                       [] verdict = "aborted"             -> 92

Asked     == plan.mount # "absent"
IsRunning == /\ plan.mount = "good"
             /\ phase # "boot"
             /\ ~aborted
             /\ ~finished

\* The report of a session that ended with these lookups and findings.
Written(verdict, asked, found, left) ==
  [outcome |-> verdict, lookups |-> Cardinality(asked),
   divergences |-> Cardinality(found), unconsumed |-> left]

\* finish(), once: what was never consumed is reported, unless the run was
\* cut short; the verdict is drawn and the report written.
Finish(asked, found, isAborted) ==
  LET left == IF isAborted THEN {} ELSE Selectable \ consumed
      all  == found \cup {Raised(0, "unconsumed_event", i) : i \in left}
  IN  /\ finished'    = TRUE
      /\ divergences' = all
      /\ outcome'     = Verdict(all, isAborted)
      /\ reports'     = Append(reports, Written(Verdict(all, isAborted), asked,
                                                all, Cardinality(left)))

---------------------------------------------------------------------------
(* Boot: auto_prepend_file *)

Init ==
  /\ plan        \in Plans
  /\ phase       = "boot"
  /\ step        = 0
  /\ cursors     = [key \in Channels \X {e.selector : e \in Effects} |-> 0]
  /\ consumed    = {}
  /\ lookups     = {}
  /\ divergences = {}
  /\ aborted     = FALSE
  /\ finished    = FALSE
  /\ outcome     = "conformant"
  /\ waiting     = <<>>
  /\ reports     = <<>>
  /\ status      = 0
  /\ performed   = <<>>

BootOrdinary ==
  /\ phase = "boot" /\ ~Asked
  /\ phase' = "running"
  /\ UNCHANGED <<plan, session, waiting, status, performed>>

\* Mutant: the report is left to finish()
BootRefusedSilently ==
  /\ phase = "boot" /\ plan.mount \in Refusals
  /\ phase'       = "running"
  /\ divergences' = {Raised(0, plan.mount, 0)}
  /\ outcome'     = "precondition_failed"
  /\ finished'    = TRUE
  /\ UNCHANGED <<plan, step, cursors, consumed, lookups, aborted, reports,
                 waiting, status, performed>>

\* failPrecondition(): reported and over, and the script goes on.
BootRefused ==
  /\ phase = "boot" /\ plan.mount \in Refusals
  /\ phase'       = "running"
  /\ divergences' = {Raised(0, plan.mount, 0)}
  /\ outcome'     = "precondition_failed"
  /\ finished'    = TRUE
  /\ reports'     = Append(reports, Written("precondition_failed", {},
                                            {Raised(0, plan.mount, 0)}, 0))
  /\ UNCHANGED <<plan, step, cursors, consumed, lookups, aborted, waiting,
                 status, performed>>

BootReplay ==
  /\ phase = "boot" /\ plan.mount = "good"
  /\ phase'       = "running"
  /\ divergences' = {Raised(0, type, 0) : type \in
                       (IF plan.truncated THEN {"recording_truncated"} ELSE {})
                       \cup (IF Downgraded THEN {"simulated_substitution"} ELSE {})}
  /\ UNCHANGED <<plan, step, cursors, consumed, lookups, aborted, finished,
                 outcome, reports, waiting, status, performed>>

---------------------------------------------------------------------------
(* An effect of the workload: Effect::resolve() *)

Really(e, mode) == performed' = Append(performed, [effect |-> e, mode |-> mode])

\* Effects that went past the session.
Unanswered == {i \in DOMAIN performed : performed[i].mode = "none"}

CanCall == /\ phase \in {"running", "after"}
           /\ step + Cardinality(Unanswered) < MaxCalls

\* No session, or one that is over: the caller performs the real effect.
PerformReal(e) ==
  /\ CanCall /\ ~IsRunning
  /\ Really(e, "none")
  /\ UNCHANGED <<plan, phase, session, waiting, status>>

Key(e)     == <<e.channel, e.selector>>
Ordinal(e) == cursors[Key(e)]

\* Mutant: a live answer does not move the cursor
TakeStepUnlessLive(e) ==
  /\ phase = "running" /\ IsRunning /\ CanCall
  /\ step'    = step + 1
  /\ cursors' = [cursors EXCEPT ![Key(e)] =
                   IF ModeFor(e) \in {"replayed", "simulated"} THEN @ + 1 ELSE @]

\* Every lookup takes a step and moves its cursor, whatever becomes of it.
TakeStep(e) ==
  /\ phase = "running" /\ IsRunning /\ CanCall
  /\ step'    = step + 1
  /\ cursors' = [cursors EXCEPT ![Key(e)] = @ + 1]

Answered(at, e, n, how, event) ==
  [step |-> at, effect |-> e, ordinal |-> n, outcome |-> how, event |-> event]

\* The policy refuses: ReplayBlocked is thrown, and the application goes on.
\* A replaced builtin swallows the exception and calls the original.
Blocked(e) ==
  /\ TakeStep(e)
  /\ ModeFor(e) = "blocked"
  /\ lookups'     = lookups \cup {Answered(step', e, Ordinal(e), "blocked", 0)}
  /\ divergences' = divergences \cup {Raised(step', "effect_blocked", 0)}
  /\ IF e.hooked THEN Really(e, "blocked") ELSE UNCHANGED performed
  /\ UNCHANGED <<plan, phase, consumed, aborted, finished, outcome, reports,
                 waiting, status>>

\* compareExpectation(): the caller's belief may contradict an answer.
Contradicted(at, contradicts) ==
  IF contradicts THEN {Raised(at, "value_mismatch", 0)} ELSE {}

\* Mutant: only the event whose payload is handed back is marked
HitMarksAnswer(e, contradicts) ==
  LET event == EventAt(e, Ordinal(e))
  IN  /\ TakeStep(e)
      /\ ModeFor(e) \in {"replayed", "simulated"} /\ event # 0
      /\ consumed'    = consumed \cup {Max(WithAnswer(event))}
      /\ lookups'     = lookups \cup {Answered(step', e, Ordinal(e), "hit", event)}
      /\ divergences' = divergences \cup Contradicted(step', contradicts)
      /\ UNCHANGED performed \/ (e.hooked /\ Really(e, ModeFor(e)))
      /\ UNCHANGED <<plan, phase, aborted, finished, outcome, reports, waiting,
                     status>>

\* The recording answers.  A replaced builtin that finds no scalar in the answer
\* calls the original all the same, and nothing says so.
Hit(e, contradicts) ==
  LET event == EventAt(e, Ordinal(e))
  IN  /\ TakeStep(e)
      /\ ModeFor(e) \in {"replayed", "simulated"} /\ event # 0
      /\ consumed'    = consumed \cup WithAnswer(event)
      /\ lookups'     = lookups \cup {Answered(step', e, Ordinal(e), "hit", event)}
      /\ divergences' = divergences \cup Contradicted(step', contradicts)
      /\ UNCHANGED performed \/ (e.hooked /\ Really(e, ModeFor(e)))
      /\ UNCHANGED <<plan, phase, aborted, finished, outcome, reports, waiting,
                     status>>

\* Mutant: the invention is not announced
SimulateQuietly(e) ==
  /\ TakeStep(e)
  /\ ModeFor(e) = "simulated" /\ EventAt(e, Ordinal(e)) = 0
  /\ lookups' = lookups \cup {Answered(step', e, Ordinal(e), "simulated", 0)}
  /\ UNCHANGED <<plan, phase, consumed, divergences, aborted, finished, outcome,
                 reports, waiting, status, performed>>

Simulate(e) ==
  /\ TakeStep(e)
  /\ ModeFor(e) = "simulated" /\ EventAt(e, Ordinal(e)) = 0
  /\ lookups'     = lookups \cup {Answered(step', e, Ordinal(e), "simulated", 0)}
  /\ divergences' = divergences \cup {Raised(step', "simulated_substitution", 0)}
  /\ UNCHANGED <<plan, phase, consumed, aborted, finished, outcome, reports,
                 waiting, status, performed>>

\* Mutant: the abort can be caught by the performer it is raised in
AbortCatchable(answer, type) ==
  LET asked == lookups \cup {answer}
  IN  /\ aborted' = TRUE
      /\ lookups' = asked
      /\ Finish(asked, divergences \cup {Raised(answer.step, type, answer.event)}, TRUE)
      /\ UNCHANGED <<phase, status, waiting>>

\* A fatal answer: the session is finished, and exit() unwinds whatever was
\* running, performers included.
Abort(answer, type) ==
  LET asked == lookups \cup {answer}
  IN  /\ aborted' = TRUE
      /\ lookups' = asked
      /\ Finish(asked, divergences \cup {Raised(answer.step, type, answer.event)}, TRUE)
      /\ phase'   = "shutdown"
      /\ status'  = ExitCode("aborted")
      /\ waiting' = <<>>

Miss(e) ==
  /\ TakeStep(e)
  /\ ModeFor(e) = "replayed" /\ EventAt(e, Ordinal(e)) = 0
  /\ Abort(Answered(step', e, Ordinal(e), "miss", 0),
           IF Matches(e) = {} THEN "unrecorded_effect" ELSE "ordinal_exhausted")
  /\ UNCHANGED <<plan, consumed, performed>>

\* The real effect was asked for and nobody can perform it.
NoPerformer(e) ==
  /\ TakeStep(e)
  /\ ModeFor(e) = "passthrough" /\ ~e.performer
  /\ Abort(Answered(step', e, Ordinal(e), "miss", 0), "effect_unavailable")
  /\ UNCHANGED <<plan, consumed, performed>>

\* The performer is called: foreign code, with effects of its own.  The
\* recorded event was fetched before, and is consumed after.
Perform(e) ==
  /\ TakeStep(e)
  /\ ModeFor(e) = "passthrough" /\ e.performer
  /\ waiting' = Append(waiting, [step |-> step', effect |-> e, ordinal |-> Ordinal(e),
                                 event |-> EventAt(e, Ordinal(e))])
  /\ Really(e, "passthrough")
  /\ UNCHANGED <<plan, phase, consumed, lookups, divergences, aborted, finished,
                 outcome, reports, status>>

Innermost == waiting[Len(waiting)]
Outer     == SubSeq(waiting, 1, Len(waiting) - 1)

\* The live answer is back, and the same as the recorded one or not.
PerformerReturns(same, contradicts) ==
  /\ phase = "running" /\ waiting # <<>>
  /\ LET call == Innermost
     IN  /\ consumed'    = IF call.event = 0 THEN consumed
                           ELSE consumed \cup WithAnswer(call.event)
         /\ lookups'     = lookups \cup {Answered(call.step, call.effect, call.ordinal,
                                                  "passthrough", call.event)}
         /\ divergences' = divergences
              \cup (CASE call.event = 0          -> {Raised(call.step, "passthrough_performed", 0)}
                      [] call.event # 0 /\ ~same -> {Raised(call.step, "passthrough_mismatch", call.event)}
                      [] OTHER                   -> {})
              \cup Contradicted(call.step, contradicts)
  /\ waiting' = Outer
  /\ UNCHANGED <<plan, phase, step, cursors, aborted, finished, outcome, reports,
                 status, performed>>

\* It threw, a ReplayBlocked of a nested effect included, or gave no payload.
PerformerFails ==
  /\ phase = "running" /\ waiting # <<>>
  /\ Abort(Answered(Innermost.step, Innermost.effect, Innermost.ordinal, "miss", 0),
           "effect_unavailable")
  /\ UNCHANGED <<plan, step, cursors, consumed, performed>>

Resolve(e) == \/ Blocked(e)
              \/ \E contradicts \in BOOLEAN : Hit(e, contradicts)
              \/ Simulate(e)
              \/ Miss(e)
              \/ NoPerformer(e)
              \/ Perform(e)

---------------------------------------------------------------------------
(* The end of the process *)

\* The script ends or exits, in the middle of a performer too.
ScriptEnds(code) ==
  /\ phase = "running"
  /\ phase'   = "shutdown"
  /\ status'  = code
  /\ waiting' = <<>>
  /\ UNCHANGED <<plan, session, performed>>

\* Mutant: the shutdown handler finishes a session that is over again
SettleAgain ==
  /\ phase = "shutdown" /\ Asked
  /\ phase' = "after"
  /\ IF plan.mount = "good" THEN Finish(lookups, divergences, aborted)
     ELSE UNCHANGED <<divergences, finished, outcome, reports>>
  /\ status' = IF outcome' = "conformant" THEN status ELSE ExitCode(outcome')
  /\ UNCHANGED <<plan, step, cursors, consumed, lookups, aborted, waiting, performed>>

\* Mutant: the handler sets the exit code of a session that was still open only
SettleOpenOnly ==
  /\ phase = "shutdown" /\ Asked
  /\ phase' = "after"
  /\ IF finished THEN UNCHANGED <<divergences, finished, outcome, reports, status>>
     ELSE /\ Finish(lookups, divergences, aborted)
          /\ status' = IF outcome' = "conformant" THEN status ELSE ExitCode(outcome')
  /\ UNCHANGED <<plan, step, cursors, consumed, lookups, aborted, waiting, performed>>

\* The shutdown handler, the first that was registered.
Settle ==
  /\ phase = "shutdown" /\ Asked
  /\ phase' = "after"
  /\ IF finished THEN UNCHANGED <<divergences, finished, outcome, reports>>
     ELSE Finish(lookups, divergences, aborted)
  /\ status' = IF outcome' = "conformant" THEN status ELSE ExitCode(outcome')
  /\ UNCHANGED <<plan, step, cursors, consumed, lookups, aborted, waiting, performed>>

NothingToSettle ==
  /\ phase = "shutdown" /\ ~Asked
  /\ phase' = "after"
  /\ UNCHANGED <<plan, session, waiting, status, performed>>

\* Later shutdown functions and destructors have run.
Exit ==
  /\ phase = "after"
  /\ phase' = "exited"
  /\ UNCHANGED <<plan, session, waiting, status, performed>>

Next ==
  \/ BootOrdinary \/ BootRefused \/ BootReplay
  \/ \E e \in Effects : PerformReal(e) \/ Resolve(e)
  \/ \E same, contradicts \in BOOLEAN : PerformerReturns(same, contradicts)
  \/ PerformerFails
  \/ \E code \in {0, 1} : ScriptEnds(code)
  \/ Settle \/ NothingToSettle \/ Exit

Spec == Init /\ [][Next]_vars
=============================================================================
