------------------------------ MODULE SpoolLog ------------------------------
(***************************************************************************)
(* native/src/spool_log.rs: the append-only log of one tenant directory,   *)
(* shared without a lock by every PHP worker process and by the agent.     *)
(*                                                                         *)
(* Every action of a worker is one system call of append, so that anything *)
(* another process does between two of them can happen.  A file is an      *)
(* inode: unlinking a segment removes its name, and a worker that already  *)
(* holds a descriptor keeps writing to a file nobody can open again.       *)
(* Sizes are counted in frames.  The agent is outside this repository and  *)
(* does what the module comment of spool_log.rs says of it.                *)
(***************************************************************************)
EXTENDS Naturals, FiniteSets, Sequences

CONSTANTS
    Worker,         \* the PHP worker processes
    Blind,          \* those whose read_dir of the directory is refused
    Inode,          \* file identities, a fresh one for every file created
    None,           \* no descriptor
    SegmentMax,     \* SEGMENT_MAX_BYTES, in frames
    MaxSegments,    \* MAX_SEGMENTS
    MaxAppends,     \* bound: documents per worker
    MaxFaults       \* bound: failed calls, short writes and killed processes

ASSUME ConstantsAssumption ==
    /\ IsFiniteSet(Worker) /\ Blind \subseteq Worker
    /\ None \notin Inode
    /\ SegmentMax \in Nat \ {0}
    /\ MaxSegments \in Nat \ {0}
    /\ MaxAppends \in Nat
    /\ MaxFaults \in Nat

VARIABLES
    gen,            \* gen[i]: generation in the name inode i was created with, 0 if unused
    entries,        \* entries[i]: what was written to i, in file order
    linked,         \* the inodes that still have their name in the directory
    shipped,        \* shipped[i]: how many entries of i the agent's cursor has passed
    pc,             \* where each worker stands in append
    active,         \* the generation its last directory scan or creation chose
    fd,             \* its open descriptor
    rotating,       \* open_active was called by rotate: the length is not checked again
    victims,        \* generations enforce_segment_budget still has to remove
    measured,       \* metadata().len() of the next victim
    appends,        \* documents handed to append so far
    dropped,        \* DROPPED_FRAMES of each process
    droppedBytes,   \* DROPPED_BYTES of each process, in frames
    faults,         \* failures injected so far
    history         \* what was lost uncounted or counted elsewhere, for the properties only

disk == <<gen, entries, linked, shipped>>
local == <<active, fd, rotating, victims, measured>>
counters == <<dropped, droppedBytes>>
vars == <<gen, entries, linked, shipped, pc, active, fd, rotating, victims,
          measured, appends, dropped, droppedBytes, faults, history>>

Entry == [by : Worker, seq : Nat, whole : BOOLEAN]

PC == {"idle", "scan", "open", "create", "stat", "rotate", "budget", "measure",
       "remove", "write"}

DiskOK ==
    /\ gen \in [Inode -> Nat]
    /\ entries \in [Inode -> Seq(Entry)]
    /\ linked \in SUBSET Inode
    /\ shipped \in [Inode -> Nat]

LocalOK ==
    /\ pc \in [Worker -> PC]
    /\ active \in [Worker -> Nat]
    /\ fd \in [Worker -> Inode \cup {None}]
    /\ rotating \in [Worker -> BOOLEAN]
    /\ victims \in [Worker -> SUBSET Nat]
    /\ measured \in [Worker -> Nat]

CountersOK ==
    /\ appends \in [Worker -> Nat]
    /\ dropped \in [Worker -> Nat]
    /\ droppedBytes \in [Worker -> Nat]
    /\ faults \in Nat
    /\ history \in [buried : Nat, silent : Nat, retired : Nat,
                    unsized : SUBSET (Worker \X Nat)]

TypeOK == DiskOK /\ LocalOK /\ CountersOK

Init ==
    /\ gen = [i \in Inode |-> 0]
    /\ entries = [i \in Inode |-> <<>>]
    /\ linked = {}
    /\ shipped = [i \in Inode |-> 0]
    /\ pc = [w \in Worker |-> "idle"]
    /\ active = [w \in Worker |-> 0]
    /\ fd = [w \in Worker |-> None]
    /\ rotating = [w \in Worker |-> FALSE]
    /\ victims = [w \in Worker |-> {}]
    /\ measured = [w \in Worker |-> 0]
    /\ appends = [w \in Worker |-> 0]
    /\ dropped = [w \in Worker |-> 0]
    /\ droppedBytes = [w \in Worker |-> 0]
    /\ faults = 0
    /\ history = [buried |-> 0, silent |-> 0, retired |-> 0, unsized |-> {}]
-----------------------------------------------------------------------------
\* generations(): the generations whose name is in the directory.
Segments == {gen[i] : i \in linked}

\* Mutant: the first generation of the ascending listing instead of the last.
FirstListed(g, S) == g \in S /\ \A h \in S : g <= h

Newest(g, S) == g \in S /\ \A h \in S : h <= g
Oldest(g, S) == g \in S /\ \A h \in S : g <= h

\* What read_dir shows to w: nothing at all when the call itself is refused.
Seen(w) == IF w \in Blind THEN {} ELSE Segments

\* Mutant: one segment more than the budget is kept.
OverBudgetByTwo(S) == {g \in S : Cardinality({h \in S : h > g}) > MaxSegments}

\* Mutant: the wrong end of the listing is dropped.
NewestOverBudget(S) == {g \in S : Cardinality({h \in S : h < g}) >= MaxSegments}

\* All but the newest MaxSegments of a listing.
OverBudget(S) == {g \in S : Cardinality({h \in S : h > g}) >= MaxSegments}

Free == {i \in Inode : gen[i] = 0}

Goto(w, l) == pc' = [pc EXCEPT ![w] = l]

Fault == faults < MaxFaults /\ faults' = faults + 1

CountDrop(w, frames) ==
    /\ dropped' = [dropped EXCEPT ![w] = @ + 1]
    /\ droppedBytes' = [droppedBytes EXCEPT ![w] = @ + frames]

\* Back to the request: every caller of append discards the result.
Return(w) ==
    /\ Goto(w, "idle")
    /\ active' = [active EXCEPT ![w] = 0]
    /\ fd' = [fd EXCEPT ![w] = None]
    /\ rotating' = [rotating EXCEPT ![w] = FALSE]
    /\ UNCHANGED <<victims, measured>>

\* Mutant: create(true) in place of create_new(true), every creator a winner.
CreateAnyway(w, g) ==
    /\ \E i \in Free :
          /\ i = CHOOSE j \in Free : TRUE
          /\ gen' = [gen EXCEPT ![i] = g]
          /\ linked' = linked \cup {i}
          /\ fd' = [fd EXCEPT ![w] = i]
    /\ active' = [active EXCEPT ![w] = g]
    /\ UNCHANGED <<entries, shipped>>

\* create_new: O_CREAT | O_EXCL, so the name must not exist.
CreateSegment(w, g) ==
    /\ g \notin Segments
    /\ \E i \in Free :
          /\ i = CHOOSE j \in Free : TRUE
          /\ gen' = [gen EXCEPT ![i] = g]
          /\ linked' = linked \cup {i}
          /\ fd' = [fd EXCEPT ![w] = i]
    /\ active' = [active EXCEPT ![w] = g]
    /\ UNCHANGED <<entries, shipped>>

Unlink(g) == linked' = {i \in linked : gen[i] # g}
-----------------------------------------------------------------------------
\* frame() succeeds and create_dir_all finds the directory there.
Begin(w) ==
    /\ pc[w] = "idle" /\ appends[w] < MaxAppends
    /\ appends' = [appends EXCEPT ![w] = @ + 1]
    /\ Goto(w, "scan")
    /\ UNCHANGED <<disk, local, counters, faults, history>>

\* frame() returns None: over the payload budget, or nothing to label it with.
RefuseDocument(w) ==
    /\ pc[w] = "idle" /\ appends[w] < MaxAppends
    /\ Fault
    /\ appends' = [appends EXCEPT ![w] = @ + 1]
    /\ CountDrop(w, 1)
    /\ UNCHANGED <<disk, pc, local, history>>

\* create_dir_all fails: announced, and no counter has it.
DirectoryFails(w) ==
    /\ pc[w] = "idle" /\ appends[w] < MaxAppends
    /\ Fault
    /\ appends' = [appends EXCEPT ![w] = @ + 1]
    /\ history' = [history EXCEPT !.silent = @ + 1]
    /\ UNCHANGED <<disk, pc, local, counters>>

\* open_active: choose the newest generation of the listing.
ScanActive(w) ==
    /\ pc[w] = "scan"
    /\ \/ /\ Seen(w) = {}
          /\ Goto(w, "create")
          /\ UNCHANGED active
       \/ \E g \in Seen(w) :
             /\ Newest(g, Seen(w))
             /\ active' = [active EXCEPT ![w] = g]
             /\ Goto(w, "open")
    /\ UNCHANGED <<disk, fd, rotating, victims, measured, appends, counters, faults, history>>

\* append goes on to the length check; rotate hands the file straight back.
Opened(w) == Goto(w, IF rotating[w] THEN "write" ELSE "stat")

\* open_active: open that generation, or scan again when its name is gone.
OpenActive(w) ==
    /\ pc[w] = "open"
    /\ \/ \E i \in linked :
             /\ gen[i] = active[w]
             /\ fd' = [fd EXCEPT ![w] = i]
             /\ Opened(w)
       \/ /\ active[w] \notin Segments
          /\ Goto(w, "scan")
          /\ UNCHANGED fd
    /\ UNCHANGED <<disk, active, rotating, victims, measured, appends, counters,
                   faults, history>>

\* open_active: the listing was empty, so create generation 1.
CreateFirst(w) ==
    /\ pc[w] = "create"
    /\ \/ CreateSegment(w, 1) /\ Opened(w)
       \/ 1 \in Segments /\ Goto(w, "scan") /\ UNCHANGED <<disk, active, fd>>
    /\ UNCHANGED <<rotating, victims, measured, appends, counters, faults, history>>

\* Mutant: > in place of >=.
StatBeyond(w) ==
    /\ pc[w] = "stat"
    /\ Goto(w, IF Len(entries[fd[w]]) > SegmentMax THEN "rotate" ELSE "write")
    /\ UNCHANGED <<disk, local, appends, counters, faults, history>>

\* append: is the file that was opened already at its size limit?
Stat(w) ==
    /\ pc[w] = "stat"
    /\ Goto(w, IF Len(entries[fd[w]]) >= SegmentMax THEN "rotate" ELSE "write")
    /\ UNCHANGED <<disk, local, appends, counters, faults, history>>

\* append: the length of the file cannot be had, and 0 is taken for it.
StatFails(w) ==
    /\ pc[w] = "stat"
    /\ Fault
    /\ Goto(w, "write")
    /\ history' = [history EXCEPT !.unsized = @ \cup {<<w, appends[w]>>}]
    /\ UNCHANGED <<disk, local, appends, counters>>

\* Mutant: the loser of the race tries the same generation again.
RotateAgain(w) ==
    /\ pc[w] = "rotate"
    /\ \/ /\ CreateSegment(w, active[w] + 1)
          /\ Goto(w, "budget")
       \/ active[w] + 1 \in Segments /\ UNCHANGED <<disk, active, fd, pc>>
    /\ UNCHANGED <<rotating, victims, measured, appends, counters, faults, history>>

\* rotate: create the next generation, or use whatever is newest now.
Rotate(w) ==
    /\ pc[w] = "rotate"
    /\ \/ /\ CreateSegment(w, active[w] + 1)
          /\ Goto(w, "budget")
          /\ UNCHANGED rotating
       \/ /\ active[w] + 1 \in Segments
          /\ rotating' = [rotating EXCEPT ![w] = TRUE]
          /\ Goto(w, "scan")
          /\ UNCHANGED <<disk, active, fd>>
    /\ UNCHANGED <<victims, measured, appends, counters, faults, history>>

\* open or create_new fails for another reason: announced, and no counter has it.
OpenFails(w) ==
    /\ pc[w] \in {"open", "create", "rotate"}
    /\ Fault
    /\ Return(w)
    /\ history' = [history EXCEPT !.silent = @ + 1]
    /\ UNCHANGED <<disk, appends, counters>>
-----------------------------------------------------------------------------
\* enforce_segment_budget: list the directory once.
BudgetScan(w) ==
    /\ pc[w] = "budget"
    /\ victims' = [victims EXCEPT ![w] = OverBudget(Seen(w))]
    /\ Goto(w, IF OverBudget(Seen(w)) = {} THEN "write" ELSE "measure")
    /\ UNCHANGED <<disk, active, fd, rotating, measured, appends, counters, faults,
                   history>>

\* The length of the next victim, 0 when it is gone already.
Measure(w) ==
    /\ pc[w] = "measure"
    /\ \E g \in victims[w] :
          /\ Oldest(g, victims[w])
          /\ \/ \E i \in linked :
                   /\ gen[i] = g
                   /\ measured' = [measured EXCEPT ![w] = Len(entries[i])]
             \/ g \notin Segments /\ measured' = [measured EXCEPT ![w] = 0]
    /\ Goto(w, "remove")
    /\ UNCHANGED <<disk, active, fd, rotating, victims, appends, counters, faults, history>>

\* One victim less, whether or not it could be removed.
Strike(w, g) ==
    /\ Oldest(g, victims[w])
    /\ victims' = [victims EXCEPT ![w] = @ \ {g}]
    /\ measured' = [measured EXCEPT ![w] = 0]
    /\ Goto(w, IF victims[w] = {g} THEN "write" ELSE "measure")
    /\ UNCHANGED <<active, fd, rotating>>

\* Mutant: a victim is counted although another process removed it first.
RemoveCounted(w) ==
    /\ pc[w] = "remove"
    /\ \E g \in victims[w] : Strike(w, g) /\ Unlink(g)
    /\ CountDrop(w, measured[w])
    /\ UNCHANGED <<gen, entries, shipped, appends, faults, history>>

\* remove_file: counted by the process whose call took the name away.
RemoveVictim(w) ==
    /\ pc[w] = "remove"
    /\ \E g \in victims[w] :
          /\ Strike(w, g)
          /\ \/ /\ g \in Segments
                /\ Unlink(g)
                /\ CountDrop(w, measured[w])
             \/ /\ g \notin Segments
                /\ UNCHANGED <<linked, counters>>
    /\ UNCHANGED <<gen, entries, shipped, appends, faults, history>>

\* remove_file fails on a file that is there: it stays, uncounted.
RemoveFails(w) ==
    /\ pc[w] = "remove"
    /\ Fault
    /\ \E g \in victims[w] : Strike(w, g)
    /\ UNCHANGED <<disk, appends, counters, history>>
-----------------------------------------------------------------------------
\* Mutant: the file is opened without O_APPEND, so the write lands at its start.
PutAtStart(w, whole) ==
    entries' = [entries EXCEPT ![fd[w]] =
                    <<[by |-> w, seq |-> appends[w], whole |-> whole]>>
                        \o (IF @ = <<>> THEN @ ELSE Tail(@))]

Put(w, whole) ==
    entries' = [entries EXCEPT ![fd[w]] =
                    Append(@, [by |-> w, seq |-> appends[w], whole |-> whole])]

\* The one write of append, at the end of whatever file fd names.
Write(w) ==
    /\ pc[w] = "write"
    /\ Put(w, TRUE)
    /\ Return(w)
    /\ UNCHANGED <<gen, linked, shipped, appends, counters, faults, history>>

\* write fails and nothing reaches the file.
WriteFails(w) ==
    /\ pc[w] = "write"
    /\ Fault
    /\ CountDrop(w, 1)
    /\ Return(w)
    /\ UNCHANGED <<disk, appends, history>>

\* write stops part way: counted and given up, with the torn bytes left behind.
WriteShort(w) ==
    /\ pc[w] = "write"
    /\ Fault
    /\ Put(w, FALSE)
    /\ CountDrop(w, 1)
    /\ Return(w)
    /\ UNCHANGED <<gen, linked, shipped, appends, history>>

\* The process dies and the pool starts another in its place.
Kill(w) ==
    /\ pc[w] # "idle"
    /\ Fault
    /\ Goto(w, "idle")
    /\ active' = [active EXCEPT ![w] = 0]
    /\ fd' = [fd EXCEPT ![w] = None]
    /\ rotating' = [rotating EXCEPT ![w] = FALSE]
    /\ victims' = [victims EXCEPT ![w] = {}]
    /\ measured' = [measured EXCEPT ![w] = 0]
    /\ history' = [history EXCEPT !.buried = @ + dropped[w], !.silent = @ + 1]
    /\ dropped' = [dropped EXCEPT ![w] = 0]
    /\ droppedBytes' = [droppedBytes EXCEPT ![w] = 0]
    /\ UNCHANGED <<disk, appends>>
-----------------------------------------------------------------------------
Unread(i) == shipped[i] < Len(entries[i])

\* The agent ships in order, oldest segment first.
AgentShip(i) ==
    /\ i \in linked /\ Unread(i)
    /\ \A j \in linked : Unread(j) => gen[i] <= gen[j]
    /\ shipped' = [shipped EXCEPT ![i] = @ + 1]
    /\ UNCHANGED <<gen, entries, linked, pc, local, appends, counters, faults, history>>

\* The agent deletes a retired segment its cursor has reached the end of.
AgentRetire(i) ==
    /\ i \in linked /\ ~Unread(i)
    /\ \E j \in linked : gen[j] > gen[i]
    /\ Unlink(gen[i])
    /\ history' = [history EXCEPT !.retired = @ + 1]
    /\ UNCHANGED <<gen, entries, shipped, pc, local, appends, counters, faults>>

\* The calls of append that do what they were asked.
Step(w) ==
    \/ ScanActive(w) \/ OpenActive(w) \/ CreateFirst(w) \/ Stat(w) \/ Rotate(w)
    \/ BudgetScan(w) \/ Measure(w) \/ RemoveVictim(w) \/ Write(w)

Failure(w) ==
    \/ RefuseDocument(w) \/ DirectoryFails(w) \/ StatFails(w) \/ OpenFails(w) \/ RemoveFails(w)
    \/ WriteFails(w) \/ WriteShort(w) \/ Kill(w)

Agent == \E i \in Inode : AgentShip(i) \/ AgentRetire(i)

Next == (\E w \in Worker : Begin(w) \/ Step(w) \/ Failure(w)) \/ Agent

Spec == Init /\ [][Next]_vars

\* The kernel keeps running a worker that has a call to make.
FairSpec == Spec /\ \A w \in Worker : WF_vars(Step(w))
-----------------------------------------------------------------------------
(* What must hold.                                                         *)

\* A name stands for one file: create_new lets one racing worker through,
\* whoever rotates, resurrects or starts the directory.
OneFilePerName ==
    \A i, j \in linked : gen[i] = gen[j] => i = j

\* The entry at p of i was written by an append that could see how long the file was.
Sized(i, p) == <<entries[i][p].by, entries[i][p].seq>> \notin history.unsized

\* A worker appends at most one frame to a segment from the moment it is full,
\* however stale the length it looked at, and although the loser of a rotation
\* never looks at the length of the file it is given.  A worker that is not told
\* the length is not bound by this: append takes the file for empty.
OneOvershootPerWorker ==
    \A i \in Inode : \A p, q \in SegmentMax..Len(entries[i]) :
        entries[i][p].by = entries[i][q].by /\ Sized(i, p) /\ Sized(i, q) => p = q

Unsized(i) == {p \in SegmentMax..Len(entries[i]) : ~Sized(i, p)}

\* Hence what a segment can grow to: every other worker's last frame past the
\* limit, and not one more but for those that failed to read its length.
SegmentStaysNearLimit ==
    \A i \in Inode : Len(entries[i]) <= SegmentMax - 1 + Cardinality(Worker) + Cardinality(Unsized(i))

\* No step of anybody takes away the newest generation without a newer one to
\* take its place: workers converge on one active segment, which neither the
\* budget nor the agent removes under them.
NewestNeverRetreats ==
    [][\A g \in Segments : \E h \in Segments' : h >= g]_vars

Enforcing == {w \in Worker : pc[w] \in {"budget", "measure", "remove"}}

\* Generation 1, created again by a worker whose empty listing was out of date.
SecondFirst == {i \in linked : gen[i] = 1 /\ \E j \in Inode \ linked : gen[j] = 1}

\* The directory exceeds its budget only by the segments whose creators are still
\* to make room for them, by a second generation 1 (open_active creates it without
\* enforcing the budget), and by removals that failed or whose process died.
SegmentBudget ==
    Cardinality(Segments) <=
        MaxSegments + Cardinality(Enforcing) + Cardinality(SecondFirst) + faults
-----------------------------------------------------------------------------
(* The inductive invariant behind OneOvershootPerWorker.                   *)

Reached(g) == \E h \in Segments : h >= g
Beyond(g) == \E h \in Segments : h > g

\* w has written to i at or behind the position that made i full.
Overshot(w, i) == \E p \in SegmentMax..Len(entries[i]) : entries[i][p].by = w /\ Sized(i, p)

\* Files come from creations, and the newest is never older than any of them.
FilesReached ==
    /\ \A i \in linked : gen[i] # 0
    /\ \A i \in Inode : gen[i] = 0 => entries[i] = <<>>
    /\ \A i \in Inode : gen[i] # 0 => Reached(gen[i])

\* What a worker holds at each point of append.
Holding(w) ==
    /\ pc[w] = "idle" => ~rotating[w]
    /\ pc[w] \in {"stat", "rotate", "budget", "measure", "remove", "write"} =>
           fd[w] \in Inode /\ gen[fd[w]] # 0
    /\ w \in Blind => pc[w] # "open"

\* w is not on its way to write to i again, or has not been told how long i is.
Settled(w, i) ==
    /\ pc[w] \in {"budget", "measure", "remove"} => fd[w] # i
    /\ pc[w] = "write" => fd[w] # i \/ <<w, appends[w]>> \in history.unsized
    /\ w \in Blind /\ pc[w] = "stat" => fd[w] # i
    /\ w \notin Blind =>
           /\ pc[w] # "create"
           /\ pc[w] \in {"scan", "open"} /\ rotating[w] => Beyond(gen[i])
           /\ pc[w] \in {"open", "stat", "rotate"} => active[w] >= gen[i]
           /\ pc[w] = "open" /\ rotating[w] => active[w] > gen[i]

WorkersHold == \A w \in Worker : Holding(w)

\* Whatever the budget is about to remove, something newer remains.
VictimsAreOld == \A w \in Worker : \A g \in victims[w] : Beyond(g)

\* A worker that has overshot a file never writes to it again.
NeverTwice == \A w \in Worker, i \in Inode : Overshot(w, i) => Settled(w, i)

IInv ==
    /\ TypeOK
    /\ FilesReached
    /\ WorkersHold
    /\ VictimsAreOld
    /\ OneFilePerName
    /\ NeverTwice
    /\ OneOvershootPerWorker
=============================================================================
