------------------------------ MODULE Sampler ------------------------------
(***************************************************************************)
(* The sampling profiler of one PHP worker.  A timer that runs with the    *)
(* CPU of the process raises SIGPROF once a period; the handler only       *)
(* counts.  The count is drained where the observer sees a call begin:     *)
(* there the stack is walked once and up to three samples come out of it,  *)
(* for CPU, for the wall time since the last drains and for the part of it *)
(* the process did not run.  An instrumented call that waits is measured   *)
(* exactly, when it ends.  Samples stay with the request and are written   *)
(* when it ends, under the sequence of the process.                        *)
(***************************************************************************)
EXTENDS Integers, SequencesExt

CONSTANTS
  Requests,      \* requests the worker may profile, each once
  Functions,     \* PHP functions the observer sees begin
  Waits,         \* those of them that are instrumented I/O calls
  Callbacks,     \* those an instrumented call calls itself, for curl to write to (bound)
  Kinds,         \* CHRONOS_PHP_PROFILE_TYPES: a subset of Kind
  Period,        \* units of CPU between two ticks
  MinIo,         \* DEFAULT_MIN_IO_WAIT_US: shorter waits are not recorded
  MaxSamples,    \* max_samples_per_request, 2000 a kind in the code
  MaxDepth,      \* max_stack_depth, 127 in the code
  MaxNesting,    \* calls on the stack (bound)
  MaxTime,       \* readings of the monotonic clock (bound)
  None           \* no baseline yet, no request

Kind == {"cpu", "wall", "off_cpu", "io"}

ASSUME SamplerAssumption ==
  /\ {Period, MaxSamples, MaxDepth, MaxNesting, MaxTime} \subseteq Nat \ {0}
  /\ MinIo \in Nat
  /\ Waits \subseteq Functions /\ Callbacks \subseteq Functions
  /\ Kinds \subseteq Kind /\ Kinds # {}
  /\ None \notin Requests \cup Nat

VARIABLES
  now,       \* the monotonic clock
  timer,     \* units of CPU until the next tick, 0 when disarmed
  ticks,     \* PENDING_TICKS
  active,    \* ACTIVE_SAMPLER, SAMPLING_ACTIVE: the profiled request
  clock,     \* DRAIN_CLOCK
  samples,   \* REQUEST_SAMPLES
  stack,     \* the VM stack, outermost call first: what it is and when it began
  sequence,  \* SEQUENCE of profile_spool
  spooled,   \* what has been written
  truth      \* history, by request: what really happened in it

vars == <<now, timer, ticks, active, clock, samples, stack, sequence, spooled, truth>>

Idle == [last |-> None, wall |-> 0, cpu |-> 0]

\* ran: units of CPU; baseline: when the first drain was and the ticks it found;
\* waited: units off the CPU since then, up to the last window;
\* blocked: the same, since the last window; io: what the instrumented calls took, the CPU
\* and the callbacks within included
Untouched == [ran |-> 0, baseline |-> None, early |-> 0, waited |-> 0, blocked |-> 0, io |-> 0]

Init ==
  /\ now = 0 /\ timer = 0 /\ ticks = 0 /\ active = None /\ clock = Idle
  /\ samples = <<>> /\ stack = <<>> /\ sequence = 0 /\ spooled = <<>>
  /\ truth = [r \in Requests |-> Untouched]

------------------------------------------------------------------------------
(* The windows of the wall clock. *)

\* Mutant: zero taken for the missing reading.
BankFromZero(c, t, cpu) ==
  [last |-> t,
   wall |-> IF c.last \in {None, 0} \/ t <= c.last THEN c.wall ELSE c.wall + t - c.last,
   cpu  |-> c.cpu + cpu]

Bank(c, t, cpu) ==
  [last |-> t,
   wall |-> IF c.last = None \/ t <= c.last THEN c.wall ELSE c.wall + t - c.last,
   cpu  |-> c.cpu + cpu]

\* The first drain has nothing to measure from.
WindowEnds(c, t) == c.last # None /\ Bank(c, t, 0).wall >= Period

Advanced(c, t, cpu) ==
  IF WindowEnds(c, t) THEN [Bank(c, t, cpu) EXCEPT !.wall = 0, !.cpu = 0] ELSE Bank(c, t, cpu)

------------------------------------------------------------------------------
(* Samples. *)

Sample(kind, value, frames) == [kind |-> kind, value |-> value, stack |-> frames, trace |-> active]

\* The cap drops what comes last.
Pushed(more) == SubSeq(samples \o more, 1, Len(samples) + Min({Len(more), MaxSamples - Len(samples)}))

Names(s) == [i \in DOMAIN s |-> s[i].of]

\* The innermost frames are walked first and the root is what a limit loses.
Walked(s) == LET n == Names(s) IN SubSeq(n, Max({1, Len(n) - MaxDepth + 1}), Len(n))

\* The waiting call is the leaf, whether or not Zend still has its frame.
IoStack(frames, f) ==
  IF frames # <<>> /\ Last(frames) = f THEN frames ELSE Append(frames, f)

When(condition, sample) == IF condition THEN <<sample>> ELSE <<>>

\* Mutant: a window in which the process also ran is taken for one without waiting.
SampleIdleWindows(s) ==
  LET cpu  == Period * ticks
      ends == WindowEnds(clock, now)
      took == Bank(clock, now, cpu)
      off  == took.wall - took.cpu
  IN  When("cpu" \in Kinds /\ ticks > 0, Sample("cpu", cpu, Walked(s)))
      \o When(ends /\ "wall" \in Kinds, Sample("wall", took.wall, Walked(s)))
      \o When(ends /\ "off_cpu" \in Kinds /\ off > 0 /\ ticks = 0, Sample("off_cpu", off, Walked(s)))

DrainSamples(s) ==
  LET cpu  == Period * ticks
      ends == WindowEnds(clock, now)
      took == Bank(clock, now, cpu)
      off  == took.wall - took.cpu
  IN  When("cpu" \in Kinds /\ ticks > 0, Sample("cpu", cpu, Walked(s)))
      \o When(ends /\ "wall" \in Kinds, Sample("wall", took.wall, Walked(s)))
      \o When(ends /\ "off_cpu" \in Kinds /\ off > 0, Sample("off_cpu", off, Walked(s)))

\* What the history keeps of a drain.
Witnessed(h) ==
  IF h.baseline = None
    THEN [h EXCEPT !.baseline = now, !.early = ticks, !.blocked = 0]
    ELSE IF WindowEnds(clock, now)
      THEN [h EXCEPT !.waited = @ + h.blocked, !.blocked = 0] ELSE h

\* At the begin of a call, with its frame on the stack s.
ConsumePendingTicks(s) ==
  /\ ticks' = 0
  /\ IF active = None
       THEN UNCHANGED <<clock, samples, truth>>
       ELSE /\ clock'   = Advanced(clock, now, Period * ticks)
            /\ samples' = Pushed(DrainSamples(s))
            /\ truth'   = [truth EXCEPT ![active] = Witnessed(@)]

\* Mutant: the threshold is excluded.
RecordLongIoWait(frames, f, duration) ==
  IF active # None /\ "io" \in Kinds /\ duration > MinIo
    THEN samples' = Pushed(<<Sample("io", duration, IoStack(frames, f))>>)
    ELSE UNCHANGED samples

RecordIoWait(frames, f, duration) ==
  IF active # None /\ "io" \in Kinds /\ duration >= MinIo
    THEN samples' = Pushed(<<Sample("io", duration, IoStack(frames, f))>>)
    ELSE UNCHANGED samples

------------------------------------------------------------------------------
(* The worker. *)

InWait == stack # <<>> /\ Last(stack).of \in Waits

\* Mutant: the ticks of the last request are kept.
StartKeepingTicks(r) ==
  /\ active = None /\ ~InWait /\ truth[r] = Untouched
  /\ samples' = <<>> /\ clock' = Idle /\ ticks' = ticks
  /\ active' = r /\ timer' = Period
  /\ UNCHANGED <<now, stack, sequence, spooled, truth>>

\* The timer is armed with a full period; an earlier tick is forgotten.
OnRequestStart(r) ==
  /\ active = None /\ ~InWait /\ truth[r] = Untouched
  /\ samples' = <<>> /\ clock' = Idle /\ ticks' = 0
  /\ active' = r /\ timer' = Period
  /\ UNCHANGED <<now, stack, sequence, spooled, truth>>

\* The sequence goes on from request to request.
Numbered(batch) ==
  [i \in DOMAIN batch |-> [sample |-> batch[i], sequence |-> sequence + i - 1]]

\* The count is zeroed before the timer is disarmed: the handler may run in between.
OnRequestEnd ==
  /\ active # None /\ ~InWait
  /\ active' = None /\ clock' = Idle /\ timer' = 0
  /\ ticks' \in {0} \cup (IF timer = 1 THEN {1} ELSE {})
  /\ samples'  = <<>>
  /\ sequence' = sequence + Len(samples)
  /\ spooled'  = spooled \o Numbered(samples)
  /\ UNCHANGED <<now, stack, truth>>

\* A unit of CPU; NoteTick is the handler of the signal.
NoteTick == IF timer = 1 THEN ticks + 1 ELSE ticks

Compute ==
  /\ now < MaxTime
  /\ now' = now + 1
  /\ IF active = None
       THEN UNCHANGED <<timer, ticks, truth>>
       ELSE /\ ticks' = NoteTick
            /\ timer' = IF timer = 1 THEN Period ELSE timer - 1
            /\ truth' = [truth EXCEPT ![active].ran = @ + 1]
  /\ UNCHANGED <<active, clock, samples, stack, sequence, spooled>>

\* A unit the process does not run: the timer stands still.
Block ==
  /\ now < MaxTime
  /\ now' = now + 1
  /\ truth' = [r \in Requests |->
                IF r = active /\ truth[r].baseline # None
                  THEN [truth[r] EXCEPT !.blocked = @ + 1] ELSE truth[r]]
  /\ UNCHANGED <<timer, ticks, active, clock, samples, stack, sequence, spooled>>

Call(f) ==
  /\ Len(stack) < MaxNesting /\ (InWait => f \in Callbacks)
  /\ stack' = Append(stack, [of |-> f, since |-> now])
  /\ ConsumePendingTicks(stack')
  /\ UNCHANGED <<now, timer, active, sequence, spooled>>

\* The observer measures an instrumented call when it ends.
Return ==
  /\ stack # <<>>
  /\ stack' = Front(stack)
  /\ LET f == Last(stack).of
         waited == now - Last(stack).since
     IN  IF f \in Waits
           THEN /\ \E s \in {stack, stack'} : RecordIoWait(Walked(s), f, waited)
                /\ truth' = IF active = None \/ waited < MinIo THEN truth
                            ELSE [truth EXCEPT ![active].io = @ + waited]
           ELSE UNCHANGED <<samples, truth>>
  /\ UNCHANGED <<now, timer, ticks, active, clock, sequence, spooled>>

Next ==
  \/ \E r \in Requests : OnRequestStart(r)
  \/ OnRequestEnd \/ Compute \/ Block \/ Return
  \/ \E f \in Functions : Call(f)

Spec == Init /\ [][Next]_vars
=============================================================================
