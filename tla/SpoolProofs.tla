----------------------------- MODULE SpoolProofs -----------------------------
(***************************************************************************)
(* What holds of the spool: of the log that the workers of a machine share *)
(* (any number of workers, segment sizes, budgets and failures), and of    *)
(* the documents that one request leaves in it (any texts, settings,       *)
(* bounds and calls).  The two models meet in no variable.                 *)
(***************************************************************************)
EXTENDS SpoolLogChecks, HttpCaptureChecks, FiniteSetTheorems, FunctionTheorems,
        SequenceTheorems, WellFoundedInduction, TLAPS

\* Generations are naturals.
LEMMA SegmentsAreNat == TypeOK => Segments \subseteq Nat
  BY DEF TypeOK, DiskOK, Segments

\* A creation keeps the types of what it assigns.
LEMMA CreateTypes ==
  ASSUME TypeOK, NEW w \in Worker, NEW g \in Nat, CreateSegment(w, g)
  PROVE  /\ DiskOK'
         /\ fd' \in [Worker -> Inode \cup {None}]
         /\ active' \in [Worker -> Nat]
<1>1. PICK i \in Free : /\ gen' = [gen EXCEPT ![i] = g]
                        /\ linked' = linked \cup {i}
                        /\ fd' = [fd EXCEPT ![w] = i]
  BY DEF CreateSegment
<1>2. QED
  BY <1>1 DEF TypeOK, DiskOK, LocalOK, CreateSegment, Free

\* So does the way back to the request.
LEMMA ReturnTypes ==
  ASSUME TypeOK, NEW w \in Worker, Return(w)
  PROVE  LocalOK'
  BY DEF TypeOK, LocalOK, PC, Return, Goto

\* And so does one entry more.
LEMMA PutTypes ==
  ASSUME TypeOK, NEW w \in Worker, NEW whole \in BOOLEAN, Put(w, whole),
         UNCHANGED <<gen, linked, shipped>>
  PROVE  DiskOK'
<1> DEFINE e == [by |-> w, seq |-> appends[w], whole |-> whole]
<1>1. e \in Entry
  BY DEF TypeOK, CountersOK, Entry
<1> HIDE DEF e
<1>2. \A i \in Inode : Append(entries[i], e) \in Seq(Entry)
  BY <1>1 DEF TypeOK, DiskOK
<1>3. entries' = [entries EXCEPT ![fd[w]] = Append(@, e)]
  BY DEF Put, e
<1>4. QED
  BY <1>2, <1>3 DEF TypeOK, DiskOK

\* Each call of a worker keeps the types, and so does each failure.
LEMMA StepTypes ==
  ASSUME TypeOK, NEW w \in Worker, Begin(w) \/ Step(w)
  PROVE  TypeOK'
<1> USE DEF TypeOK
<1>1. CASE Begin(w)
  BY <1>1 DEF Begin, DiskOK, LocalOK, CountersOK, PC, Goto, disk, local, counters
<1>2. CASE ScanActive(w)
  <2>1. Seen(w) \subseteq Nat
    BY SegmentsAreNat DEF Seen
  <2>2. pc' \in [Worker -> PC]
    BY <1>2 DEF LocalOK, PC, ScanActive, Goto
  <2>3. active' \in [Worker -> Nat]
    BY <1>2, <2>1 DEF LocalOK, ScanActive
  <2>4. QED
    BY <1>2, <2>2, <2>3 DEF ScanActive, DiskOK, LocalOK, CountersOK, disk, counters
<1>3. CASE OpenActive(w)
  <2>1. LocalOK'
    BY <1>3 DEF OpenActive, Opened, Goto, DiskOK, LocalOK, PC
  <2>2. QED
    BY <1>3, <2>1 DEF OpenActive, DiskOK, CountersOK, disk, counters
<1>4. CASE CreateFirst(w)
  <2>1. pc' \in [Worker -> PC]
    BY <1>4 DEF CreateFirst, Opened, Goto, LocalOK, PC
  <2>2. CASE CreateSegment(w, 1)
    BY <1>4, <2>1, <2>2, CreateTypes DEF CreateFirst, LocalOK, CountersOK, counters
  <2>3. CASE UNCHANGED <<disk, active, fd>>
    BY <1>4, <2>1, <2>3 DEF CreateFirst, DiskOK, LocalOK, CountersOK, disk, counters
  <2>4. QED
    BY <1>4, <2>2, <2>3 DEF CreateFirst
<1>5. CASE Stat(w)
  BY <1>5 DEF Stat, DiskOK, LocalOK, CountersOK, PC, Goto, disk, local, counters
<1>6. CASE Rotate(w)
  <2>1. pc' \in [Worker -> PC] /\ rotating' \in [Worker -> BOOLEAN]
    BY <1>6 DEF Rotate, Goto, LocalOK, PC
  <2>2. CASE CreateSegment(w, active[w] + 1)
    <3>1. active[w] + 1 \in Nat
      BY DEF LocalOK
    <3>2. QED
      BY <1>6, <2>1, <2>2, <3>1, CreateTypes DEF Rotate, LocalOK, CountersOK, counters
  <2>3. CASE UNCHANGED <<disk, active, fd>>
    BY <1>6, <2>1, <2>3 DEF Rotate, DiskOK, LocalOK, CountersOK, disk, counters
  <2>4. QED
    BY <1>6, <2>2, <2>3 DEF Rotate
<1>7. CASE BudgetScan(w)
  <2>1. OverBudget(Seen(w)) \subseteq Nat
    BY SegmentsAreNat DEF OverBudget, Seen
  <2>2. LocalOK'
    BY <1>7, <2>1 DEF BudgetScan, Goto, LocalOK, PC
  <2>3. QED
    BY <1>7, <2>2 DEF BudgetScan, DiskOK, CountersOK, disk, counters
<1>8. CASE Measure(w)
  <2>1. LocalOK'
    BY <1>8 DEF Measure, Goto, DiskOK, LocalOK, PC
  <2>2. QED
    BY <1>8, <2>1 DEF Measure, DiskOK, CountersOK, disk, counters
<1>9. CASE RemoveVictim(w)
  <2>1. LocalOK'
    BY <1>9 DEF RemoveVictim, Strike, Goto, LocalOK, PC
  <2>2. DiskOK'
    BY <1>9 DEF RemoveVictim, Unlink, DiskOK
  <2>3. CASE UNCHANGED <<linked, counters>>
    BY <1>9, <2>1, <2>2, <2>3 DEF RemoveVictim, CountersOK, counters
  <2>4. CASE CountDrop(w, measured[w])
    BY <1>9, <2>1, <2>2, <2>4 DEF RemoveVictim, CountDrop, LocalOK, CountersOK
  <2>5. QED
    BY <1>9, <2>3, <2>4 DEF RemoveVictim
<1>10. CASE Write(w)
  <2>1. DiskOK'
    BY <1>10, PutTypes DEF Write
  <2>2. QED
    BY <1>10, <2>1, ReturnTypes DEF Write, CountersOK, counters
<1>11. QED
  BY <1>1, <1>2, <1>3, <1>4, <1>5, <1>6, <1>7, <1>8, <1>9, <1>10 DEF Step

\* A call that fails, or a frame cut short, leaves every variable its type.
LEMMA FailureTypes ==
  ASSUME TypeOK, NEW w \in Worker, Failure(w)
  PROVE  TypeOK'
<1> USE DEF TypeOK, Fault
<1>1. CASE RefuseDocument(w)
  <2>1. CountersOK'
    BY <1>1 DEF RefuseDocument, CountDrop, CountersOK
  <2>2. QED
    BY <1>1, <2>1 DEF RefuseDocument, DiskOK, LocalOK, disk, local
<1>2. CASE DirectoryFails(w)
  <2>1. CountersOK'
    BY <1>2 DEF DirectoryFails, CountersOK, counters
  <2>2. QED
    BY <1>2, <2>1 DEF DirectoryFails, DiskOK, LocalOK, disk, local
<1>3. CASE OpenFails(w)
  <2>1. CountersOK'
    BY <1>3 DEF OpenFails, CountersOK, counters
  <2>2. QED
    BY <1>3, <2>1, ReturnTypes DEF OpenFails, DiskOK, disk
<1>4. CASE RemoveFails(w)
  <2>1. LocalOK'
    BY <1>4 DEF RemoveFails, Strike, Goto, LocalOK, PC
  <2>2. QED
    BY <1>4, <2>1 DEF RemoveFails, DiskOK, CountersOK, disk, counters
<1>5. CASE WriteFails(w)
  <2>1. CountersOK'
    BY <1>5 DEF WriteFails, CountDrop, CountersOK
  <2>2. QED
    BY <1>5, <2>1, ReturnTypes DEF WriteFails, DiskOK, disk
<1>6. CASE WriteShort(w)
  <2>1. CountersOK'
    BY <1>6 DEF WriteShort, CountDrop, CountersOK
  <2>2. DiskOK'
    BY <1>6, PutTypes DEF WriteShort
  <2>3. QED
    BY <1>6, <2>1, <2>2, ReturnTypes DEF WriteShort
<1>7. CASE Kill(w)
  <2>1. CountersOK'
    <3>1. history \in [buried : Nat, silent : Nat, retired : Nat,
                       unsized : SUBSET (Worker \X Nat)]
      BY DEF CountersOK
    <3>2. PICK n \in Nat : n = dropped[w]
      BY DEF CountersOK
    <3>3. history' = [history EXCEPT !.buried = @ + n, !.silent = @ + 1]
      BY <1>7, <3>2 DEF Kill
    <3>4. n \in Nat
      OBVIOUS
    <3>5. history' \in [buried : Nat, silent : Nat, retired : Nat,
                        unsized : SUBSET (Worker \X Nat)]
      <4>1. history' = [[history EXCEPT !.buried = @ + n] EXCEPT !.silent = @ + 1]
        BY ONLY <3>3
      <4>2. [history EXCEPT !.buried = @ + n]
                \in [buried : Nat, silent : Nat, retired : Nat, unsized : SUBSET (Worker \X Nat)]
        BY ONLY <3>1, <3>4
      <4>3. ASSUME NEW h \in [buried : Nat, silent : Nat, retired : Nat,
                              unsized : SUBSET (Worker \X Nat)]
            PROVE  [h EXCEPT !.silent = @ + 1]
                       \in [buried : Nat, silent : Nat, retired : Nat,
                            unsized : SUBSET (Worker \X Nat)]
        BY ONLY <4>3
      <4>4. QED
        BY ONLY <4>1, <4>2, <4>3
    <3>6. QED
      BY <1>7, <3>5 DEF Kill, CountersOK
  <2>2. LocalOK'
    BY <1>7 DEF Kill, Goto, LocalOK, PC
  <2>3. QED
    BY <1>7, <2>1, <2>2 DEF Kill, DiskOK, disk
<1>8. CASE StatFails(w)
  <2>1. CountersOK'
    <3>1. <<w, appends[w]>> \in Worker \X Nat
      BY DEF CountersOK
    <3>2. QED
      BY <1>8, <3>1 DEF StatFails, CountersOK, counters
  <2>2. LocalOK'
    BY <1>8 DEF StatFails, Goto, LocalOK, PC, local
  <2>3. QED
    BY <1>8, <2>1, <2>2 DEF StatFails, DiskOK, disk
<1>9. QED
  BY <1>1, <1>2, <1>3, <1>4, <1>5, <1>6, <1>7, <1>8 DEF Failure

\* The agent's cursor and deletions leave every variable its type.
LEMMA AgentTypes == TypeOK /\ Agent => TypeOK'
<1> SUFFICES ASSUME TypeOK, Agent PROVE TypeOK'
  OBVIOUS
<1>1. DiskOK'
  <2>1. ASSUME NEW i \in Inode, AgentShip(i)
        PROVE  DiskOK'
    BY <2>1 DEF AgentShip, TypeOK, DiskOK
  <2>2. ASSUME NEW i \in Inode, AgentRetire(i)
        PROVE  DiskOK'
    BY <2>2 DEF AgentRetire, Unlink, TypeOK, DiskOK
  <2>3. QED
    BY <2>1, <2>2 DEF Agent
<1>2. UNCHANGED <<pc, local, appends, counters, faults>>
  BY DEF Agent, AgentShip, AgentRetire
<1>3. history' \in [buried : Nat, silent : Nat, retired : Nat, unsized : SUBSET (Worker \X Nat)]
  BY DEF Agent, AgentShip, AgentRetire, TypeOK, CountersOK
<1>4. QED
  BY <1>1, <1>2, <1>3 DEF TypeOK, LocalOK, CountersOK, local, counters

\* The variables keep their types in every reachable state.
THEOREM TypeCorrect == Spec => []TypeOK
<1>1. Init => TypeOK
  BY ConstantsAssumption DEF Init, TypeOK, DiskOK, LocalOK, CountersOK, PC, Entry
<1>2. TypeOK /\ [Next]_vars => TypeOK'
  <2>1. TypeOK /\ UNCHANGED vars => TypeOK'
    BY DEF vars, TypeOK, DiskOK, LocalOK, CountersOK
  <2>2. QED
    BY <2>1, StepTypes, FailureTypes, AgentTypes DEF Next
<1>3. QED
  BY <1>1, <1>2, PTL DEF Spec
-----------------------------------------------------------------------------
(* The files: what a step does to the directory.                           *)

\* Every generation present is still matched by one at least as new.
Growth == \A g \in Segments : \E h \in Segments' : h >= g

FilesGood ==
    /\ FilesReached'
    /\ OneFilePerName'
    /\ Growth
    /\ \A i \in Inode : gen[i] # 0 => gen'[i] = gen[i]

\* A step that creates and removes no file moves no name.
LEMMA FilesUnchanged ==
  ASSUME TypeOK, FilesReached, OneFilePerName, UNCHANGED <<gen, linked>>,
         \A i \in Inode : gen[i] = 0 => entries'[i] = entries[i]
  PROVE  FilesGood
<1>1. Segments' = Segments /\ Segments \subseteq Nat
  BY SegmentsAreNat DEF Segments
<1>2. Growth
  BY <1>1 DEF Growth
<1>3. FilesReached'
  BY <1>1 DEF FilesReached, Reached
<1>4. QED
  BY <1>2, <1>3 DEF FilesGood, OneFilePerName

\* Removing a file that is not the newest keeps the newest and one file per name.
LEMMA FilesAfterUnlink ==
  ASSUME TypeOK, FilesReached, OneFilePerName, UNCHANGED <<gen, entries>>,
         NEW g \in Nat, Unlink(g), Beyond(g)
  PROVE  FilesGood
<1>1. Segments' = Segments \ {g}
  BY DEF Segments, Unlink
<1>2. Segments \subseteq Nat
  BY SegmentsAreNat
<1>3. \E k \in Segments' : k > g
  BY <1>1, <1>2 DEF Beyond
<1>4. Growth
  BY <1>1, <1>2, <1>3 DEF Growth
<1>5. \A i \in Inode : gen[i] # 0 => Reached(gen[i])'
  <2>1. SUFFICES ASSUME NEW i \in Inode, gen[i] # 0
                 PROVE  \E h \in Segments' : h >= gen[i]
    BY DEF Reached
  <2>2. PICK h \in Segments : h >= gen[i]
    BY <2>1 DEF FilesReached, Reached
  <2>3. PICK k \in Segments' : k >= h
    BY <1>4 DEF Growth
  <2>4. gen[i] \in Nat /\ h \in Nat /\ k \in Nat
    BY <1>1, <1>2 DEF TypeOK, DiskOK
  <2>5. QED
    BY <2>2, <2>3, <2>4
<1>6. FilesReached'
  BY <1>5 DEF FilesReached, Unlink
<1>7. QED
  BY <1>4, <1>6 DEF FilesGood, OneFilePerName, Unlink

\* create_segment takes a name nobody holds (O_EXCL).
LEMMA FilesAfterCreate ==
  ASSUME TypeOK, FilesReached, OneFilePerName,
         NEW w \in Worker, NEW g \in Nat \ {0}, CreateSegment(w, g)
  PROVE  FilesGood /\ fd'[w] \in Inode /\ gen'[fd'[w]] # 0 /\ gen[fd'[w]] = 0
<1>1. PICK i \in Free : /\ gen' = [gen EXCEPT ![i] = g]
                        /\ linked' = linked \cup {i}
                        /\ fd' = [fd EXCEPT ![w] = i]
  BY DEF CreateSegment
<1>2. i \in Inode /\ gen[i] = 0 /\ i \notin linked /\ UNCHANGED entries
  BY DEF Free, FilesReached, CreateSegment
<1>3. gen'[i] = g /\ (\A j \in Inode : j # i => gen'[j] = gen[j]) /\ linked \subseteq Inode
  BY <1>1, <1>2 DEF TypeOK, DiskOK
<1>4. \A j \in linked : gen[j] # g
  BY DEF CreateSegment, Segments
<1>5. Segments' = Segments \cup {g}
  BY <1>1, <1>2 DEF Segments, TypeOK, DiskOK
<1>6. Segments \subseteq Nat
  BY SegmentsAreNat
<1>7. Growth
  BY <1>5, <1>6 DEF Growth
<1>8. \A j \in Inode : gen'[j] # 0 => Reached(gen[j])'
  <2>1. SUFFICES ASSUME NEW j \in Inode, gen'[j] # 0
                 PROVE  \E h \in Segments' : h >= gen'[j]
    BY DEF Reached
  <2>2. CASE j = i
    BY <1>3, <1>5, <2>2
  <2>3. CASE j # i
    <3>1. gen'[j] = gen[j]
      BY <1>3, <2>3
    <3>2. PICK h \in Segments : h >= gen[j]
      BY <2>1, <3>1 DEF FilesReached, Reached
    <3>3. QED
      BY <1>5, <3>1, <3>2
  <2>4. QED
    BY <2>2, <2>3
<1>9. FilesReached'
  BY <1>1, <1>2, <1>8 DEF FilesReached, TypeOK, DiskOK
<1>10. OneFilePerName'
  BY <1>1, <1>2, <1>3, <1>4 DEF OneFilePerName
<1>11. QED
  BY <1>1, <1>2, <1>7, <1>9, <1>10 DEF FilesGood, TypeOK, DiskOK, LocalOK

\* No step loses a file name twice, a file, or the newest generation.
LEMMA FilesStep ==
  ASSUME IInv, [Next]_vars
  PROVE  FilesGood
<1> USE DEF IInv
<1>1. ASSUME NEW w \in Worker, Put(w, TRUE) \/ Put(w, FALSE), pc[w] = "write",
             UNCHANGED <<gen, linked>>
      PROVE  FilesGood
  <2>1. \A i \in Inode : gen[i] = 0 => entries'[i] = entries[i]
    BY <1>1 DEF Put, WorkersHold, Holding, TypeOK, DiskOK
  <2>2. QED
    BY <1>1, <2>1, FilesUnchanged
<1>2. ASSUME NEW w \in Worker, RemoveVictim(w)
      PROVE  FilesGood
  <2>1. PICK g \in victims[w] : \/ Unlink(g)
                               \/ UNCHANGED linked
    BY <1>2 DEF RemoveVictim
  <2>2. g \in Nat /\ Beyond(g)
    BY DEF VictimsAreOld, TypeOK, LocalOK
  <2>3. UNCHANGED <<gen, entries>>
    BY <1>2 DEF RemoveVictim
  <2>4. QED
    BY <2>1, <2>2, <2>3, FilesAfterUnlink, FilesUnchanged
<1>3. ASSUME NEW i \in Inode, AgentRetire(i)
      PROVE  FilesGood
  <2>1. gen[i] \in Nat /\ Beyond(gen[i])
    BY <1>3 DEF AgentRetire, Beyond, Segments, TypeOK, DiskOK
  <2>2. QED
    BY <1>3, <2>1, FilesAfterUnlink DEF AgentRetire
<1>4. ASSUME NEW w \in Worker, CreateFirst(w)
      PROVE  FilesGood
  BY <1>4, FilesAfterCreate, FilesUnchanged DEF CreateFirst, disk
<1>5. ASSUME NEW w \in Worker, Rotate(w)
      PROVE  FilesGood
  <2>1. active[w] + 1 \in Nat \ {0}
    BY DEF TypeOK, LocalOK
  <2>2. QED
    BY <1>5, <2>1, FilesAfterCreate, FilesUnchanged DEF Rotate, disk
<1>6. CASE UNCHANGED <<gen, entries, linked>>
  BY <1>6, FilesUnchanged
<1>7. ASSUME NEW w \in Worker, Begin(w) \/ Step(w) \/ Failure(w)
      PROVE  FilesGood
  <2>1. \/ UNCHANGED <<gen, entries, linked>>
        \/ CreateFirst(w) \/ Rotate(w) \/ RemoveVictim(w) \/ Write(w) \/ WriteShort(w)
    BY <1>7 DEF Step, Failure, Begin, RefuseDocument, DirectoryFails, ScanActive,
         OpenActive, Stat, StatFails, OpenFails, BudgetScan, Measure, RemoveFails, WriteFails,
         Kill, disk
  <2>2. QED
    BY <2>1, <1>1, <1>2, <1>4, <1>5, <1>6 DEF Write, WriteShort
<1>8. QED
  BY <1>3, <1>6, <1>7 DEF Next, Agent, AgentShip, vars
-----------------------------------------------------------------------------
(* The workers: what a step does to the one that takes it, and to the rest. *)

Same(v) ==
    /\ pc'[v] = pc[v]
    /\ active'[v] = active[v]
    /\ fd'[v] = fd[v]
    /\ rotating'[v] = rotating[v]
    /\ victims'[v] = victims[v]

\* What a worker does leaves the descriptor and the place of the others alone.
LEMMA OthersKeep ==
  ASSUME TypeOK, NEW w \in Worker, Begin(w) \/ Step(w) \/ Failure(w),
         NEW v \in Worker, v # w
  PROVE  Same(v)
<1> USE DEF TypeOK, LocalOK, Same, Goto
<1>1. CASE Begin(w) \/ RefuseDocument(w) \/ DirectoryFails(w) \/ Stat(w) \/ StatFails(w)
  BY <1>1 DEF Begin, RefuseDocument, DirectoryFails, Stat, StatFails, local
<1>2. CASE ScanActive(w)
  BY <1>2 DEF ScanActive
<1>3. CASE OpenActive(w)
  BY <1>3 DEF OpenActive, Opened
<1>4. CASE CreateFirst(w)
  BY <1>4 DEF CreateFirst, CreateSegment, Opened
<1>5. CASE Rotate(w)
  BY <1>5 DEF Rotate, CreateSegment
<1>6. CASE BudgetScan(w) \/ Measure(w)
  BY <1>6 DEF BudgetScan, Measure
<1>7. CASE RemoveVictim(w) \/ RemoveFails(w)
  BY <1>7 DEF RemoveVictim, RemoveFails, Strike
<1>8. CASE Write(w) \/ WriteFails(w) \/ WriteShort(w) \/ OpenFails(w)
  BY <1>8 DEF Write, WriteFails, WriteShort, OpenFails, Return
<1>9. CASE Kill(w)
  BY <1>9 DEF Kill
<1>10. QED
  BY <1>1, <1>2, <1>3, <1>4, <1>5, <1>6, <1>7, <1>8, <1>9 DEF Step, Failure

\* A step belongs to one worker, or to none.
LEMMA WhoMoves ==
  ASSUME TypeOK, [Next]_vars, NEW v \in Worker
  PROVE  Same(v) \/ Begin(v) \/ Step(v) \/ Failure(v)
<1>1. CASE UNCHANGED vars \/ Agent
  BY <1>1 DEF Agent, AgentShip, AgentRetire, vars, local, Same
<1>2. ASSUME NEW w \in Worker, Begin(w) \/ Step(w) \/ Failure(w)
      PROVE  Same(v) \/ Begin(v) \/ Step(v) \/ Failure(v)
  BY <1>2, OthersKeep
<1>3. QED
  BY <1>1, <1>2 DEF Next

\* A worker that returns holds nothing any more.
LEMMA ReturnHolds ==
  ASSUME TypeOK, NEW w \in Worker, Return(w)
  PROVE  Holding(w)' /\ pc'[w] = "idle"
  BY DEF TypeOK, LocalOK, Return, Goto, Holding

\* Every worker keeps a descriptor that fits the place it is at.
LEMMA WorkersStep ==
  ASSUME IInv, [Next]_vars
  PROVE  WorkersHold'
<1> SUFFICES ASSUME NEW w \in Worker
             PROVE  Holding(w)'
  BY DEF WorkersHold
<1> USE DEF IInv
<1>1. Holding(w) /\ (\A i \in Inode : gen[i] # 0 => gen'[i] = gen[i])
  BY FilesStep DEF WorkersHold, FilesGood
<1> USE DEF TypeOK, LocalOK, Goto
<1>2. CASE Same(w)
  BY <1>1, <1>2 DEF Same, Holding
<1>3. CASE Begin(w)
  BY <1>1, <1>3 DEF Begin, Holding, local, disk
<1>4. CASE RefuseDocument(w) \/ DirectoryFails(w)
  BY <1>1, <1>4 DEF RefuseDocument, DirectoryFails, Holding, local, disk
<1>5. CASE ScanActive(w)
  BY <1>1, <1>5 DEF ScanActive, Seen, Holding
<1>6. CASE OpenActive(w)
  BY <1>1, <1>6 DEF OpenActive, Opened, Holding, FilesReached, DiskOK, disk
<1>7. CASE CreateFirst(w)
  <2>1. CASE CreateSegment(w, 1)
    BY <1>7, <2>1, FilesAfterCreate DEF CreateFirst, Opened, Holding
  <2>2. CASE Goto(w, "scan")
    BY <1>1, <1>7, <2>2 DEF CreateFirst, Holding
  <2>3. QED
    BY <1>7, <2>1, <2>2 DEF CreateFirst
<1>8. CASE Stat(w) \/ StatFails(w)
  BY <1>1, <1>8 DEF Stat, StatFails, Holding, local, disk
<1>9. CASE Rotate(w)
  <2>1. CASE CreateSegment(w, active[w] + 1)
    <3>1. active[w] + 1 \in Nat \ {0}
      OBVIOUS
    <3>2. fd'[w] \in Inode /\ gen'[fd'[w]] # 0
      BY <2>1, <3>1, FilesAfterCreate
    <3>3. QED
      BY <1>9, <3>2 DEF Rotate, Holding
  <2>2. CASE Goto(w, "scan")
    BY <1>1, <1>9, <2>2 DEF Rotate, Holding
  <2>3. QED
    BY <1>9, <2>1, <2>2 DEF Rotate
<1>10. CASE BudgetScan(w) \/ Measure(w)
  BY <1>1, <1>10 DEF BudgetScan, Measure, Holding, disk
<1>11. CASE RemoveVictim(w) \/ RemoveFails(w)
  BY <1>1, <1>11 DEF RemoveVictim, RemoveFails, Strike, Holding, disk
<1>12. CASE Write(w) \/ WriteFails(w) \/ WriteShort(w) \/ OpenFails(w)
  BY <1>12, ReturnHolds DEF Write, WriteFails, WriteShort, OpenFails
<1>13. CASE Kill(w)
  BY <1>13 DEF Kill, Holding
<1>14. QED
  BY <1>2, <1>3, <1>4, <1>5, <1>6, <1>7, <1>8, <1>9, <1>10, <1>11, <1>12, <1>13, WhoMoves
     DEF Step, Failure
-----------------------------------------------------------------------------
(* The budget: what is about to be removed is never the newest.            *)

\* A generation that was overtaken stays overtaken.
LEMMA BeyondStays ==
  ASSUME TypeOK, TypeOK', Growth, NEW g \in Nat, Beyond(g)
  PROVE  Beyond(g)'
<1>1. PICK h \in Segments : h > g
  BY DEF Beyond
<1>2. PICK k \in Segments' : k >= h
  BY DEF Growth
<1>3. Segments \subseteq Nat /\ Segments' \subseteq Nat
  BY SegmentsAreNat DEF TypeOK, DiskOK, Segments
<1>4. QED
  BY <1>1, <1>2, <1>3 DEF Beyond

\* A generation over budget has newer ones in the same listing.
LEMMA OverBudgetIsOld ==
  ASSUME NEW S, NEW g \in OverBudget(S)
  PROVE  \E h \in S : h > g
<1>1. Cardinality({h \in S : h > g}) >= MaxSegments
  BY DEF OverBudget
<1>2. {h \in S : h > g} # {}
  BY <1>1, FS_EmptySet, ConstantsAssumption
<1>3. QED
  BY <1>2

\* Only a new scan adds to the segments a worker is about to remove.
LEMMA VictimsShrink ==
  ASSUME TypeOK, NEW w \in Worker, Begin(w) \/ Step(w) \/ Failure(w), ~BudgetScan(w)
  PROVE  victims'[w] \subseteq victims[w]
<1> USE DEF TypeOK, LocalOK
<1>1. CASE Begin(w) \/ RefuseDocument(w) \/ DirectoryFails(w) \/ Stat(w) \/ StatFails(w)
  BY <1>1 DEF Begin, RefuseDocument, DirectoryFails, Stat, StatFails, local
<1>2. CASE ScanActive(w) \/ OpenActive(w) \/ CreateFirst(w) \/ Rotate(w) \/ Measure(w)
  BY <1>2 DEF ScanActive, OpenActive, CreateFirst, Rotate, Measure
<1>3. CASE RemoveVictim(w) \/ RemoveFails(w)
  BY <1>3 DEF RemoveVictim, RemoveFails, Strike
<1>4. CASE Write(w) \/ WriteFails(w) \/ WriteShort(w) \/ OpenFails(w)
  BY <1>4 DEF Write, WriteFails, WriteShort, OpenFails, Return
<1>5. CASE Kill(w)
  BY <1>5 DEF Kill
<1>6. QED
  BY <1>1, <1>2, <1>3, <1>4, <1>5 DEF Step, Failure

\* What a worker is about to remove is never the newest generation.
LEMMA VictimsStep ==
  ASSUME IInv, [Next]_vars, TypeOK'
  PROVE  VictimsAreOld'
<1> SUFFICES ASSUME NEW w \in Worker, NEW g \in victims'[w]
             PROVE  Beyond(g)'
  BY DEF VictimsAreOld
<1>1. TypeOK /\ Growth
  BY FilesStep DEF IInv, FilesGood
<1>2. CASE victims'[w] \subseteq victims[w]
  <2>1. g \in Nat /\ Beyond(g)
    BY <1>1, <1>2 DEF IInv, VictimsAreOld, TypeOK, LocalOK
  <2>2. QED
    BY <1>1, <2>1, BeyondStays
<1>3. CASE BudgetScan(w)
  <2>1. g \in OverBudget(Seen(w))
    BY <1>1, <1>3 DEF BudgetScan, TypeOK, LocalOK
  <2>2. \E h \in Segments : h > g
    BY <2>1, OverBudgetIsOld DEF Seen
  <2>3. Segments' = Segments
    BY <1>3 DEF BudgetScan, Segments, disk
  <2>4. QED
    BY <2>2, <2>3 DEF Beyond
<1>4. QED
  BY <1>1, <1>2, <1>3, WhoMoves, VictimsShrink DEF Same
-----------------------------------------------------------------------------
(* The writes: nobody writes twice to a file that was full the first time. *)

\* Only the write of append changes what is in a file.
LEMMA EntriesStep ==
  ASSUME [Next]_vars
  PROVE  \/ UNCHANGED entries
         \/ \E w \in Worker :
               /\ pc[w] = "write" /\ pc'  = [pc EXCEPT ![w] = "idle"]
               /\ Put(w, TRUE) \/ Put(w, FALSE)
               /\ UNCHANGED history
<1>1. CASE UNCHANGED vars \/ Agent
  BY <1>1 DEF vars, Agent, AgentShip, AgentRetire
<1>2. ASSUME NEW w \in Worker, Write(w) \/ WriteShort(w)
      PROVE  pc[w] = "write" /\ pc' = [pc EXCEPT ![w] = "idle"]
             /\ (Put(w, TRUE) \/ Put(w, FALSE)) /\ UNCHANGED history
  BY <1>2 DEF Write, WriteShort, Return, Goto
<1>3. ASSUME NEW w \in Worker, Begin(w) \/ Step(w) \/ Failure(w)
      PROVE  UNCHANGED entries \/ Write(w) \/ WriteShort(w)
  BY <1>3 DEF Step, Failure, Begin, RefuseDocument, DirectoryFails, ScanActive, OpenActive,
       CreateFirst, CreateSegment, Rotate, RemoveVictim, Stat, StatFails, OpenFails, BudgetScan,
       Measure, RemoveFails, WriteFails, Kill, disk
<1>4. QED
  BY <1>1, <1>2, <1>3 DEF Next

\* An append that was not told a length stays one that was not.
LEMMA UnsizedGrows ==
  ASSUME TypeOK, [Next]_vars
  PROVE  history.unsized \subseteq history'.unsized
<1>1. history \in [buried : Nat, silent : Nat, retired : Nat, unsized : SUBSET (Worker \X Nat)]
  BY DEF TypeOK, CountersOK
<1>2. history' = [history EXCEPT !.silent = @ + 1] => history.unsized \subseteq history'.unsized
  BY ONLY <1>1
<1>3. history' = [history EXCEPT !.retired = @ + 1] => history.unsized \subseteq history'.unsized
  BY ONLY <1>1
<1>4. ASSUME NEW n, history' = [history EXCEPT !.buried = @ + n, !.silent = @ + 1]
      PROVE  history.unsized \subseteq history'.unsized
  BY ONLY <1>1, <1>4
<1>5. ASSUME NEW d, history' = [history EXCEPT !.unsized = @ \cup {d}]
      PROVE  history.unsized \subseteq history'.unsized
  BY ONLY <1>1, <1>5
<1>6. CASE UNCHANGED vars \/ Agent
  BY <1>3, <1>6 DEF vars, Agent, AgentShip, AgentRetire
<1>7. ASSUME NEW w \in Worker, Begin(w) \/ Step(w)
      PROVE  history' = history
  BY <1>7 DEF Step, Begin, ScanActive, OpenActive, CreateFirst, Stat, Rotate, BudgetScan, Measure,
       RemoveVictim, Write
<1>8. ASSUME NEW w \in Worker, Failure(w)
      PROVE  history.unsized \subseteq history'.unsized
  <2>1. CASE \/ RefuseDocument(w) \/ RemoveFails(w) \/ WriteFails(w) \/ WriteShort(w)
    BY <2>1 DEF RefuseDocument, RemoveFails, WriteFails, WriteShort
  <2>2. CASE DirectoryFails(w) \/ OpenFails(w)
    BY <1>2, <2>2 DEF DirectoryFails, OpenFails
  <2>3. CASE StatFails(w)
    BY <1>5, <2>3 DEF StatFails
  <2>4. CASE Kill(w)
    BY <1>4, <2>4 DEF Kill
  <2>5. QED
    BY <1>8, <2>1, <2>2, <2>3, <2>4 DEF Failure
<1>9. QED
  BY <1>6, <1>7, <1>8 DEF Next

\* What Put leaves in the file it writes to, and in the others.
LEMMA PutAppends ==
  ASSUME TypeOK, NEW w \in Worker, Put(w, TRUE) \/ Put(w, FALSE), fd[w] \in Inode,
         NEW i \in Inode
  PROVE  /\ i # fd[w] => entries'[i] = entries[i]
         /\ i = fd[w] =>
               /\ Len(entries'[i]) = Len(entries[i]) + 1
               /\ entries'[i][Len(entries[i]) + 1].by = w
               /\ \A p \in 1..Len(entries[i]) : entries'[i][p] = entries[i][p]
<1>1. PICK whole \in BOOLEAN : Put(w, whole)
  OBVIOUS
<1> DEFINE e == [by |-> w, seq |-> appends[w], whole |-> whole]
<1>2. e \in Entry /\ e.by = w
  BY DEF TypeOK, CountersOK, Entry
<1>3. entries' = [entries EXCEPT ![fd[w]] = Append(@, e)]
  BY <1>1 DEF Put
<1> HIDE DEF e
<1>4. entries[i] \in Seq(Entry)
  BY DEF TypeOK, DiskOK
<1>5. CASE i # fd[w]
  BY <1>3, <1>5 DEF TypeOK, DiskOK
<1>6. CASE i = fd[w]
  <2>1. entries'[i] = Append(entries[i], e)
    BY <1>3, <1>6 DEF TypeOK, DiskOK
  <2>2. QED
    BY <1>2, <1>4, <1>6, <2>1
<1>7. QED
  BY <1>5, <1>6

\* Where an entry of the next state comes from when w writes.
LEMMA EntryOldOrNew ==
  ASSUME TypeOK, NEW w \in Worker, NEW whole \in BOOLEAN, Put(w, whole), fd[w] \in Inode,
         NEW i \in Inode
  PROVE  /\ \A p \in 1..Len(entries[i]) :
               p \in 1..Len(entries'[i]) /\ entries'[i][p] = entries[i][p]
         /\ \A p \in 1..Len(entries'[i]) :
               \/ p \in 1..Len(entries[i])
               \/ /\ i = fd[w] /\ p = Len(entries[i]) + 1
                  /\ entries'[i][p] = [by |-> w, seq |-> appends[w], whole |-> whole]
<1> DEFINE e == [by |-> w, seq |-> appends[w], whole |-> whole]
<1>1. e \in Entry
  BY DEF TypeOK, CountersOK, Entry
<1>2. entries' = [entries EXCEPT ![fd[w]] = Append(@, e)]
  BY DEF Put
<1> HIDE DEF e
<1>3. entries[i] \in Seq(Entry)
  BY DEF TypeOK, DiskOK
<1>4. CASE i # fd[w]
  BY <1>2, <1>4 DEF TypeOK, DiskOK
<1>5. CASE i = fd[w]
  <2>1. entries'[i] = Append(entries[i], e)
    BY <1>2, <1>5 DEF TypeOK, DiskOK
  <2>2. /\ Len(entries'[i]) = Len(entries[i]) + 1
        /\ entries'[i][Len(entries[i]) + 1] = e
        /\ \A p \in 1..Len(entries[i]) : entries'[i][p] = entries[i][p]
    BY <1>1, <1>3, <2>1
  <2>3. Len(entries[i]) \in Nat
    BY <1>3
  <2>4. QED
    BY SMTT(60), <1>5, <2>2, <2>3 DEF e
<1>6. QED
  BY <1>4, <1>5

\* Writes of others do not make w overshoot.
LEMMA OvershotBefore ==
  ASSUME IInv, [Next]_vars, NEW w \in Worker, NEW i \in Inode, Overshot(w, i)',
         pc[w] # "write" \/ pc'[w] # "idle"
  PROVE  Overshot(w, i)
<1> USE ConstantsAssumption DEF IInv
<1>1. CASE UNCHANGED entries
  BY <1>1, UnsizedGrows DEF Overshot, Sized
<1>2. ASSUME NEW v \in Worker, pc[v] = "write", pc' = [pc EXCEPT ![v] = "idle"],
             Put(v, TRUE) \/ Put(v, FALSE), UNCHANGED history
      PROVE  Overshot(w, i)
  <2>1. v # w /\ fd[v] \in Inode
    BY <1>2 DEF WorkersHold, Holding, TypeOK, LocalOK
  <2>2. CASE i # fd[v]
    BY <1>2, <2>1, <2>2, PutAppends DEF Overshot, Sized
  <2>3. CASE i = fd[v]
    <3>1. /\ Len(entries'[i]) = Len(entries[i]) + 1
          /\ entries'[i][Len(entries[i]) + 1].by = v
          /\ \A p \in 1..Len(entries[i]) : entries'[i][p] = entries[i][p]
      BY <1>2, <2>1, <2>3, PutAppends
    <3>2. PICK p \in SegmentMax..Len(entries'[i]) : entries'[i][p].by = w /\ Sized(i, p)'
      BY DEF Overshot
    <3>3. Len(entries[i]) \in Nat
      BY DEF TypeOK, DiskOK
    <3>4. p \in SegmentMax..Len(entries[i]) /\ p \in 1..Len(entries[i])
      BY <2>1, <3>1, <3>2, <3>3
    <3>5. entries'[i][p] = entries[i][p] /\ Sized(i, p)
      BY <1>2, <3>1, <3>2, <3>4 DEF Sized
    <3>6. QED
      BY <3>2, <3>4, <3>5 DEF Overshot
  <2>4. QED
    BY <2>2, <2>3
<1>3. QED
  BY <1>1, <1>2, EntriesStep

\* A file somebody overshot is there, and so is something as new.
LEMMA OvershotReached ==
  ASSUME TypeOK, FilesReached, NEW w \in Worker, NEW i \in Inode, Overshot(w, i)
  PROVE  /\ gen[i] \in Nat \ {0}
         /\ Len(entries[i]) >= SegmentMax
         /\ Reached(gen[i])
<1>1. Len(entries[i]) \in Nat /\ Len(entries[i]) >= SegmentMax
  BY ConstantsAssumption DEF Overshot, TypeOK, DiskOK
<1>2. entries[i] # <<>>
  BY <1>1, ConstantsAssumption
<1>3. QED
  BY <1>1, <1>2 DEF FilesReached, TypeOK, DiskOK

\* Only a worker outside append is handed a document.
LEMMA AppendsKept ==
  ASSUME TypeOK, [Next]_vars, NEW w \in Worker, pc[w] # "idle"
  PROVE  appends'[w] = appends[w]
<1> USE DEF TypeOK, CountersOK
<1>1. CASE UNCHANGED vars \/ Agent
  BY <1>1 DEF vars, Agent, AgentShip, AgentRetire
<1>2. ASSUME NEW v \in Worker, Begin(v) \/ RefuseDocument(v) \/ DirectoryFails(v)
      PROVE  appends'[w] = appends[w]
  BY <1>2 DEF Begin, RefuseDocument, DirectoryFails
<1>3. ASSUME NEW v \in Worker, Step(v) \/ Failure(v), ~RefuseDocument(v), ~DirectoryFails(v)
      PROVE  appends' = appends
  BY <1>3 DEF Step, Failure, ScanActive, OpenActive, CreateFirst, Rotate, RemoveVictim, Stat,
       StatFails, OpenFails, BudgetScan, Measure, RemoveFails, Write, WriteFails, WriteShort, Kill
<1>4. QED
  BY <1>1, <1>2, <1>3 DEF Next

\* A worker that overshot a segment never holds it again with room to write, unless it was
\* not told the length.
LEMMA NeverTwiceStep ==
  ASSUME IInv, [Next]_vars, TypeOK'
  PROVE  NeverTwice'
<1> SUFFICES ASSUME NEW w \in Worker, NEW i \in Inode, Overshot(w, i)'
             PROVE  Settled(w, i)'
  BY DEF NeverTwice
<1>1. CASE pc'[w] = "idle"
  BY <1>1 DEF Settled
<1>2. CASE pc'[w] # "idle"
  <2> USE DEF IInv
  <2>1. Overshot(w, i) /\ Settled(w, i)
    BY <1>2, OvershotBefore DEF NeverTwice
  <2>2. gen[i] \in Nat \ {0} /\ Len(entries[i]) >= SegmentMax /\ Reached(gen[i])
    BY <2>1, OvershotReached
  <2>3. gen'[i] = gen[i] /\ (Beyond(gen[i]) => Beyond(gen[i])')
    BY <2>2, FilesStep, BeyondStays DEF FilesGood, Beyond
  <2>4. Segments \subseteq Nat
    BY SegmentsAreNat
  <2> USE DEF TypeOK, LocalOK, Goto
  <2>5. CASE Same(w)
    <3>1. pc[w] = "write" => appends'[w] = appends[w]
      BY <2>5, AppendsKept DEF Same
    <3>2. QED
      BY <2>1, <2>3, <2>5, <3>1, UnsizedGrows DEF Same, Settled
  <2>6. CASE Begin(w)
    BY <2>1, <2>6 DEF Begin, Settled, WorkersHold, Holding, local
  <2>7. CASE RefuseDocument(w) \/ DirectoryFails(w)
    BY <1>2, <2>7 DEF RefuseDocument, DirectoryFails
  <2>8. CASE ScanActive(w)
    BY <2>1, <2>2, <2>3, <2>4, <2>8 DEF ScanActive, Seen, Newest, Settled, Reached, Beyond
  <2>9. CASE OpenActive(w)
    BY <2>1, <2>2, <2>3, <2>9
       DEF OpenActive, Opened, Settled, WorkersHold, Holding, DiskOK
  <2>10. CASE CreateFirst(w)
    <3>1. CASE CreateSegment(w, 1)
      <4>1. fd'[w] # i
        BY <2>2, <3>1, FilesAfterCreate
      <4>2. QED
        BY <2>1, <2>10, <4>1 DEF CreateFirst, Opened, Settled
    <3>2. CASE Goto(w, "scan")
      BY <2>1, <2>10, <3>2 DEF CreateFirst, Settled
    <3>3. QED
      BY <2>10, <3>1, <3>2 DEF CreateFirst
  <2>11. CASE Stat(w) \/ StatFails(w)
    <3>1. CASE Stat(w)
      BY <2>1, <2>2, <2>3, <3>1 DEF Stat, Settled, local
    <3>2. CASE StatFails(w)
      <4>1. pc'[w] = "write" /\ appends'[w] = appends[w]
        BY <3>2 DEF StatFails
      <4>2. <<w, appends[w]>> \in history'.unsized
        BY <3>2 DEF StatFails, CountersOK
      <4>3. w \notin Blind => pc'[w] # "create"
        BY <4>1
      <4>4. QED
        BY <4>1, <4>2 DEF Settled
    <3>3. QED
      BY <2>11, <3>1, <3>2
  <2>12. CASE Rotate(w)
    <3>1. CASE CreateSegment(w, active[w] + 1) /\ Goto(w, "budget")
      <4>1. active[w] + 1 \in Nat \ {0}
        OBVIOUS
      <4>2. fd'[w] # i
        BY <2>2, <3>1, <4>1, FilesAfterCreate
      <4>3. QED
        BY <3>1, <4>2 DEF Settled
    <3>2. CASE Goto(w, "scan") /\ active[w] + 1 \in Segments
      <4>1. w \notin Blind => Beyond(gen[i])
        BY <2>1, <2>2, <2>12, <3>2 DEF Rotate, Settled, Beyond
      <4>2. QED
        BY <2>1, <2>3, <2>12, <3>2, <4>1 DEF Rotate, Settled
    <3>3. QED
      BY <2>12, <3>1, <3>2 DEF Rotate
  <2>13. CASE BudgetScan(w) \/ Measure(w)
    BY <2>1, <2>13 DEF BudgetScan, Measure, Settled
  <2>14. CASE RemoveVictim(w) \/ RemoveFails(w)
    BY <2>1, <2>14 DEF RemoveVictim, RemoveFails, Strike, Settled
  <2>15. CASE Write(w) \/ WriteFails(w) \/ WriteShort(w) \/ OpenFails(w) \/ Kill(w)
    BY <1>2, <2>15 DEF Write, WriteFails, WriteShort, OpenFails, Return, Kill
  <2>16. QED
    BY <2>5, <2>6, <2>7, <2>8, <2>9, <2>10, <2>11, <2>12, <2>13, <2>14, <2>15, WhoMoves
       DEF Step, Failure
<1>3. QED
  BY <1>1, <1>2

\* Every step keeps a segment to one overshoot of each worker.
LEMMA OneOvershootStep ==
  ASSUME IInv, [Next]_vars
  PROVE  OneOvershootPerWorker'
<1> USE ConstantsAssumption DEF IInv
<1>1. CASE UNCHANGED entries
  BY <1>1, UnsizedGrows DEF OneOvershootPerWorker, Sized
<1>2. ASSUME NEW v \in Worker, pc[v] = "write", NEW whole \in BOOLEAN, Put(v, whole),
             UNCHANGED history
      PROVE  OneOvershootPerWorker'
  <2>1. fd[v] \in Inode
    BY <1>2 DEF WorkersHold, Holding
  <2>2. Overshot(v, fd[v]) => <<v, appends[v]>> \in history.unsized
    BY <1>2, <2>1 DEF NeverTwice, Settled
  <2>3. SUFFICES ASSUME NEW i \in Inode,
                        NEW p \in SegmentMax..Len(entries'[i]),
                        NEW q \in SegmentMax..Len(entries'[i]),
                        entries'[i][p].by = entries'[i][q].by, Sized(i, p)', Sized(i, q)'
                 PROVE  p = q
    BY DEF OneOvershootPerWorker
  <2>4. CASE i # fd[v]
    <3>1. entries'[i] = entries[i]
      BY <1>2, <2>1, <2>4, PutAppends
    <3>2. QED
      BY <1>2, <2>3, <3>1 DEF OneOvershootPerWorker, Sized
  <2>5. CASE i = fd[v]
    <3>1. Len(entries[i]) \in Nat
      BY DEF TypeOK, DiskOK
    <3>2. Len(entries'[i]) = Len(entries[i]) + 1
      BY <1>2, <2>1, <2>5, PutAppends
    <3>3. PICK new : new = [by |-> v, seq |-> appends[v], whole |-> whole]
      OBVIOUS
    <3>4. new.by = v /\ new.seq = appends[v]
      BY <3>3
    <3>5. ASSUME NEW r \in SegmentMax..Len(entries'[i])
          PROVE  \/ r \in 1..Len(entries[i]) /\ entries'[i][r] = entries[i][r]
                 \/ r = Len(entries[i]) + 1 /\ entries'[i][r] = new
      <4>1. r \in 1..Len(entries'[i])
        BY <3>1, <3>2
      <4>2. /\ \A p0 \in 1..Len(entries[i]) : entries'[i][p0] = entries[i][p0]
            /\ \A p0 \in 1..Len(entries'[i]) :
                   \/ p0 \in 1..Len(entries[i])
                   \/ p0 = Len(entries[i]) + 1 /\ entries'[i][p0] = new
        BY <1>2, <2>1, <3>3, EntryOldOrNew
      <4>3. QED
        BY ONLY <4>1, <4>2
    <3>6. ASSUME NEW r \in SegmentMax..Len(entries'[i]), Sized(i, r)'
          PROVE  \/ /\ r = Len(entries[i]) + 1 /\ entries'[i][r].by = v
                    /\ <<v, appends[v]>> \notin history.unsized
                 \/ /\ r \in SegmentMax..Len(entries[i])
                    /\ entries'[i][r] = entries[i][r] /\ Sized(i, r)
      <4>1. <<entries'[i][r].by, entries'[i][r].seq>> \notin history.unsized
        BY <1>2, <3>6 DEF Sized
      <4>2. CASE r \in 1..Len(entries[i]) /\ entries'[i][r] = entries[i][r]
        BY <3>1, <4>1, <4>2 DEF Sized
      <4>3. CASE r = Len(entries[i]) + 1 /\ entries'[i][r] = new
        BY <3>4, <4>1, <4>3
      <4>4. QED
        BY <3>5, <4>2, <4>3
    <3>7. ASSUME NEW r \in SegmentMax..Len(entries'[i]), NEW u \in SegmentMax..Len(entries'[i]),
                 Sized(i, r)', Sized(i, u)', entries'[i][r].by = entries'[i][u].by,
                 r = Len(entries[i]) + 1
          PROVE  r = u
      <4>1. r \notin SegmentMax..Len(entries[i])
        BY <3>1, <3>7
      <4>2. entries'[i][r].by = v /\ <<v, appends[v]>> \notin history.unsized
        BY <3>6, <3>7, <4>1
      <4>3. ~Overshot(v, i)
        BY <2>2, <2>5, <4>2
      <4>4. \/ u = Len(entries[i]) + 1
            \/ u \in SegmentMax..Len(entries[i]) /\ entries[i][u].by = v /\ Sized(i, u)
        BY <3>6, <3>7, <4>2
      <4>5. QED
        BY <3>7, <4>3, <4>4 DEF Overshot
    <3>8. CASE p = Len(entries[i]) + 1 \/ q = Len(entries[i]) + 1
      BY <2>3, <3>7, <3>8
    <3>9. CASE p # Len(entries[i]) + 1 /\ q # Len(entries[i]) + 1
      <4>1. /\ p \in SegmentMax..Len(entries[i]) /\ entries'[i][p] = entries[i][p] /\ Sized(i, p)
            /\ q \in SegmentMax..Len(entries[i]) /\ entries'[i][q] = entries[i][q] /\ Sized(i, q)
        BY <2>3, <3>6, <3>9
      <4>2. QED
        BY <2>3, <4>1 DEF OneOvershootPerWorker
    <3>10. QED
      BY <3>8, <3>9
  <2>6. QED
    BY <2>4, <2>5
<1>3. QED
  BY <1>1, <1>2, EntriesStep
-----------------------------------------------------------------------------
(* The theorems.                                                           *)

\* The invariant behind the bound on segments holds in every reachable state.
THEOREM Invariance == Spec => []IInv
<1>1. Init => IInv
  <2> SUFFICES ASSUME Init PROVE IInv
    OBVIOUS
  <2>1. TypeOK
    BY ConstantsAssumption DEF Init, TypeOK, DiskOK, LocalOK, CountersOK, PC, Entry
  <2>2. \A i \in Inode : Len(entries[i]) = 0
    BY DEF Init
  <2>3. NeverTwice /\ OneOvershootPerWorker
    BY <2>2, ConstantsAssumption DEF NeverTwice, OneOvershootPerWorker, Overshot
  <2>4. QED
    BY <2>1, <2>3 DEF Init, IInv, FilesReached, WorkersHold, Holding, VictimsAreOld,
       OneFilePerName
<1>2. IInv /\ [Next]_vars => IInv'
  <2> SUFFICES ASSUME IInv, [Next]_vars PROVE IInv'
    OBVIOUS
  <2>1. TypeOK'
    <3>1. CASE UNCHANGED vars
      BY <3>1 DEF IInv, vars, TypeOK, DiskOK, LocalOK, CountersOK
    <3>2. QED
      BY <3>1, StepTypes, FailureTypes, AgentTypes DEF IInv, Next
  <2>2. QED
    BY <2>1, FilesStep, WorkersStep, VictimsStep, NeverTwiceStep, OneOvershootStep
       DEF IInv, FilesGood
<1>3. QED
  BY <1>1, <1>2, PTL DEF Spec

\* A worker that is told the length writes at most once to a segment that is full, however
\* many workers race for the rotation and whatever fails.
THEOREM OvershootOnce == Spec => []OneOvershootPerWorker
  BY Invariance, PTL DEF IInv

\* create_new gives each name to one file at a time.
THEOREM ExclusiveNames == Spec => []OneFilePerName
  BY Invariance, PTL DEF IInv

\* Neither the budget nor the agent takes away the newest generation.
THEOREM NewestStays == Spec => NewestNeverRetreats
<1>1. IInv /\ [Next]_vars => [\A g \in Segments : \E h \in Segments' : h >= g]_vars
  BY FilesStep DEF FilesGood, Growth
<1>2. QED
  BY <1>1, Invariance, PTL DEF Spec, NewestNeverRetreats

\* Distinct authors of the frames from the limit on that could see it: no more of them than
\* workers.
LEMMA OvershootCounts == TypeOK /\ OneOvershootPerWorker => SegmentStaysNearLimit
<1> SUFFICES ASSUME TypeOK, OneOvershootPerWorker, NEW i \in Inode
             PROVE  Len(entries[i]) <=
                        SegmentMax - 1 + Cardinality(Worker) + Cardinality(Unsized(i))
  BY DEF SegmentStaysNearLimit
<1> USE ConstantsAssumption
<1> DEFINE tail == SegmentMax..Len(entries[i])
           told == {p \in tail : Sized(i, p)}
           author == [p \in told |-> entries[i][p].by]
<1>1. Len(entries[i]) \in Nat /\ Cardinality(Worker) \in Nat
  BY FS_CardinalityType DEF TypeOK, DiskOK
<1>2. author \in Injection(told, Worker)
  <2>1. \A p \in tail : entries[i][p] \in Entry
    BY <1>1 DEF TypeOK, DiskOK
  <2>2. author \in [told -> Worker]
    BY <2>1 DEF Entry
  <2>3. \A p, q \in told : author[p] = author[q] => p = q
    BY DEF OneOvershootPerWorker
  <2>4. QED
    BY <2>2, <2>3, Fun_IsInj
<1>3. IsFiniteSet(told) /\ Cardinality(told) <= Cardinality(Worker)
  BY <1>2, FS_Injection
<1>4. /\ IsFiniteSet(tail)
      /\ Cardinality(tail) =
             IF SegmentMax > Len(entries[i]) THEN 0 ELSE Len(entries[i]) - SegmentMax + 1
  <2>1. SegmentMax \in Int /\ Len(entries[i]) \in Int
    BY <1>1
  <2>2. QED
    BY <2>1, FS_Interval, Zenon
<1>5. Unsized(i) \subseteq tail /\ tail = told \cup Unsized(i) /\ told \cap Unsized(i) = {}
  BY DEF Unsized
<1> HIDE DEF tail, told
<1>6. IsFiniteSet(Unsized(i)) /\ Cardinality(Unsized(i)) \in Nat /\ Cardinality(told) \in Nat
  BY <1>3, <1>4, <1>5, FS_Subset, FS_CardinalityType
<1>7. Cardinality(tail) = Cardinality(told) + Cardinality(Unsized(i))
  <2>1. Cardinality(told \cup Unsized(i)) =
            Cardinality(told) + Cardinality(Unsized(i)) - Cardinality(told \cap Unsized(i))
    BY <1>3, <1>6, FS_Union
  <2>2. Cardinality(told \cap Unsized(i)) = 0
    BY <1>5, FS_EmptySet
  <2>3. QED
    BY <1>5, <1>6, <2>1, <2>2
<1>8. Len(entries[i]) <= SegmentMax - 1 + Cardinality(tail)
  BY <1>1, <1>4
<1>9. QED
  BY <1>1, <1>3, <1>6, <1>7, <1>8

\* A segment exceeds SEGMENT_MAX_BYTES by less than one frame per worker, and by one for each
\* append that was not told its length.
THEOREM BoundedSegments == Spec => []SegmentStaysNearLimit
  BY Invariance, OvershootCounts, PTL DEF IInv
-----------------------------------------------------------------------------
(* The frames: why append keeps the contract of FrameLog when every worker *)
(* can list the directory.                                                 *)

\* Worker w has a document in file i.
WroteTo(w, i) == \E p \in 1..Len(entries[i]) : entries[i][p].by = w

\* A document is in the log only once append was entered for it, and while append
\* runs, its own is not there yet.
Numbered ==
    \A w \in Worker :
        /\ appends[w] <= MaxAppends
        /\ pc[w] # "idle" => appends[w] >= 1
        /\ \A i \in Inode : \A p \in 1..Len(entries[i]) :
               entries[i][p].by = w =>
                   /\ 1 <= entries[i][p].seq /\ entries[i][p].seq <= appends[w]
                   /\ pc[w] # "idle" => entries[i][p].seq < appends[w]

\* A worker's documents follow each other in its files, and its files in generations.
Ordered ==
    \A i, j \in Inode : \A p \in 1..Len(entries[i]), q \in 1..Len(entries[j]) :
        entries[i][p].by = entries[j][q].by =>
            /\ entries[i][p].seq = entries[j][q].seq => i = j /\ p = q
            /\ entries[i][p].seq < entries[j][q].seq =>
                   gen[i] <= gen[j] /\ (i = j => p < q)

\* What w is about to write to is no older than i.
Ahead(w, i) ==
    /\ pc[w] # "create"
    /\ pc[w] \in {"open", "stat", "rotate"} => active[w] >= gen[i]
    /\ pc[w] \in {"stat", "budget", "measure", "remove", "write"} => gen[fd[w]] >= gen[i]

\* A worker never turns back to a file older than the one it wrote to last.
NeverBack == \A w \in Worker, i \in Inode : WroteTo(w, i) => Ahead(w, i)

\* The agent has shipped no more of a file than there is.
ShippedWithin == \A i \in Inode : shipped[i] <= Len(entries[i])

\* What keeps the documents of a worker in order, beside IInv.
FramesInv == Numbered /\ Ordered /\ NeverBack /\ ShippedWithin

\* What an entry of a segment is.
LEMMA EntryIs ==
  ASSUME TypeOK, NEW i \in Inode, NEW p \in 1..Len(entries[i])
  PROVE  /\ entries[i][p] \in Entry
         /\ entries[i][p].by \in Worker /\ entries[i][p].seq \in Nat
<1>1. entries[i][p] \in Entry
  BY DEF TypeOK, DiskOK
<1>2. QED
  BY <1>1 DEF Entry

\* A file that somebody wrote to was created, and it is still the file it was.
LEMMA WrittenIsCreated ==
  ASSUME IInv, [Next]_vars, NEW i \in Inode, Len(entries[i]) > 0
  PROVE  gen[i] \in Nat \ {0} /\ gen'[i] = gen[i]
<1>1. entries[i] # <<>>
  BY DEF IInv, TypeOK, DiskOK
<1>2. gen[i] # 0 /\ gen[i] \in Nat
  BY <1>1 DEF IInv, FilesReached, TypeOK, DiskOK
<1>3. QED
  BY <1>2, FilesStep DEF FilesGood

\* A step enters append for one more document, or for none.
LEMMA AppendsStep ==
  ASSUME TypeOK, [Next]_vars, NEW v \in Worker
  PROVE  \/ appends'[v] = appends[v] /\ (pc'[v] # "idle" => pc[v] # "idle")
         \/ pc[v] = "idle" /\ appends[v] < MaxAppends /\ appends'[v] = appends[v] + 1
<1> USE DEF TypeOK, LocalOK, CountersOK, Goto
<1>1. CASE UNCHANGED vars \/ Agent
  BY <1>1 DEF vars, Agent, AgentShip, AgentRetire
<1>2. ASSUME NEW w \in Worker, Begin(w) \/ RefuseDocument(w) \/ DirectoryFails(w)
      PROVE  \/ appends'[v] = appends[v] /\ pc'[v] = pc[v]
             \/ pc[v] = "idle" /\ appends[v] < MaxAppends /\ appends'[v] = appends[v] + 1
  BY <1>2 DEF Begin, RefuseDocument, DirectoryFails
<1>3. ASSUME NEW w \in Worker, Step(w) \/ Failure(w),
             ~RefuseDocument(w), ~DirectoryFails(w)
      PROVE  appends' = appends /\ pc[w] # "idle"
  BY <1>3 DEF Step, Failure, ScanActive, OpenActive, CreateFirst, Rotate, RemoveVictim, Stat,
       StatFails, OpenFails, BudgetScan, Measure, RemoveFails, Write, WriteFails, WriteShort, Kill
<1>4. ASSUME NEW w \in Worker, Begin(w) \/ Step(w) \/ Failure(w)
      PROVE  v = w \/ pc'[v] = pc[v]
  BY <1>4, OthersKeep DEF Same
<1>5. QED
  BY <1>1, <1>2, <1>3, <1>4 DEF Next

\* Numbers grow with the calls of append.
LEMMA NumberedStep ==
  ASSUME IInv, Numbered, [Next]_vars, TypeOK'
  PROVE  Numbered'
<1> SUFFICES ASSUME NEW v \in Worker
             PROVE  /\ appends'[v] <= MaxAppends
                    /\ pc'[v] # "idle" => appends'[v] >= 1
                    /\ \A i \in Inode : \A p \in 1..Len(entries'[i]) :
                           entries'[i][p].by = v =>
                               /\ 1 <= entries'[i][p].seq /\ entries'[i][p].seq <= appends'[v]
                               /\ pc'[v] # "idle" => entries'[i][p].seq < appends'[v]
  BY DEF Numbered
<1> USE ConstantsAssumption
<1>1. appends[v] \in Nat /\ TypeOK
  BY DEF IInv, TypeOK, CountersOK
<1>2. appends'[v] <= MaxAppends /\ (pc'[v] # "idle" => appends'[v] >= 1)
  BY <1>1, AppendsStep DEF Numbered
<1>3. ASSUME NEW i \in Inode, NEW p \in 1..Len(entries[i]), entries[i][p].by = v
      PROVE  /\ 1 <= entries[i][p].seq /\ entries[i][p].seq <= appends'[v]
             /\ pc'[v] # "idle" => entries[i][p].seq < appends'[v]
  <2>1. entries[i][p].seq \in Nat
    BY <1>1, EntryIs
  <2>2. /\ 1 <= entries[i][p].seq /\ entries[i][p].seq <= appends[v]
        /\ pc[v] # "idle" => entries[i][p].seq < appends[v]
    BY <1>3 DEF Numbered
  <2>3. \/ appends'[v] = appends[v] /\ (pc'[v] # "idle" => pc[v] # "idle")
        \/ appends'[v] = appends[v] + 1
    BY <1>1, AppendsStep
  <2>4. QED
    BY <1>1, <2>1, <2>2, <2>3
<1>4. CASE UNCHANGED entries
  BY <1>2, <1>3, <1>4
<1>5. ASSUME NEW w \in Worker, pc[w] = "write", pc' = [pc EXCEPT ![w] = "idle"],
             NEW whole \in BOOLEAN, Put(w, whole),
             NEW i \in Inode, NEW p \in 1..Len(entries'[i]), entries'[i][p].by = v
      PROVE  /\ 1 <= entries'[i][p].seq /\ entries'[i][p].seq <= appends'[v]
             /\ pc'[v] # "idle" => entries'[i][p].seq < appends'[v]
  <2>1. fd[w] \in Inode /\ pc \in [Worker -> PC]
    BY <1>5 DEF IInv, WorkersHold, Holding, TypeOK, LocalOK
  <2>2. CASE p \in 1..Len(entries[i])
    <3>1. entries'[i][p] = entries[i][p]
      BY ZenonT(60), <1>1, <1>5, <2>1, <2>2, EntryOldOrNew
    <3>2. QED
      BY <1>3, <1>5, <2>2, <3>1
  <2>3. CASE entries'[i][p] = [by |-> w, seq |-> appends[w], whole |-> whole]
    <3>1. v = w /\ pc'[v] = "idle" /\ entries'[i][p].seq = appends[v]
      BY <1>5, <2>1, <2>3
    <3>2. appends[v] >= 1 /\ appends'[v] >= appends[v]
      BY <1>1, <1>5, <3>1, AppendsStep DEF Numbered
    <3>3. QED
      BY <3>1, <3>2
  <2>4. QED
    BY <1>1, <1>5, <2>1, <2>2, <2>3, EntryOldOrNew
<1>6. QED
  BY <1>2, <1>4, <1>5, EntriesStep

\* The order of a worker's documents is that of its writes.
LEMMA OrderedStep ==
  ASSUME IInv, FramesInv, [Next]_vars, TypeOK'
  PROVE  Ordered'
<1>1. TypeOK
  BY DEF IInv
<1>2. \A i \in Inode : Len(entries[i]) \in Nat /\ gen[i] \in Nat
  BY <1>1 DEF TypeOK, DiskOK
<1>3. \A i \in Inode : \A p \in 1..Len(entries[i]) : gen'[i] = gen[i]
  BY <1>2, WrittenIsCreated
<1>4. CASE UNCHANGED entries
  BY <1>3, <1>4 DEF FramesInv, Ordered
<1>5. ASSUME NEW w \in Worker, pc[w] = "write", NEW whole \in BOOLEAN, Put(w, whole)
      PROVE  Ordered'
  <2> DEFINE e == [by |-> w, seq |-> appends[w], whole |-> whole]
             n == Len(entries[fd[w]]) + 1
  <2>1. fd[w] \in Inode /\ gen[fd[w]] # 0
    BY <1>5 DEF IInv, WorkersHold, Holding
  <2>2. gen'[fd[w]] = gen[fd[w]]
    BY <2>1, FilesStep DEF FilesGood
  <2>3. ASSUME NEW i \in Inode, NEW p \in 1..Len(entries'[i])
        PROVE  \/ p \in 1..Len(entries[i]) /\ entries'[i][p] = entries[i][p]
               \/ i = fd[w] /\ p = n /\ entries'[i][p] = e
    BY <1>1, <1>5, <2>1, EntryOldOrNew
  <2>4. e.by = w /\ e.seq = appends[w]
    OBVIOUS
  <2> HIDE DEF e
  <2>5. ASSUME NEW i \in Inode, NEW p \in 1..Len(entries[i]), entries[i][p].by = w
        PROVE  entries[i][p].seq < appends[w] /\ gen[i] <= gen[fd[w]]
    <3>1. entries[i][p].seq < appends[w]
      BY <1>5, <2>5 DEF FramesInv, Numbered
    <3>2. gen[i] <= gen[fd[w]]
      BY <1>2, <1>5, <2>1, <2>5 DEF FramesInv, NeverBack, WroteTo, Ahead
    <3>3. QED
      BY <3>1, <3>2
  <2>6. SUFFICES ASSUME NEW i \in Inode, NEW j \in Inode,
                        NEW p \in 1..Len(entries'[i]), NEW q \in 1..Len(entries'[j]),
                        entries'[i][p].by = entries'[j][q].by
                 PROVE  /\ entries'[i][p].seq = entries'[j][q].seq => i = j /\ p = q
                        /\ entries'[i][p].seq < entries'[j][q].seq =>
                               gen'[i] <= gen'[j] /\ (i = j => p < q)
    BY DEF Ordered
  <2>7. appends[w] \in Nat
    BY <1>1 DEF TypeOK, CountersOK
  <2>8. CASE /\ p \in 1..Len(entries[i]) /\ entries'[i][p] = entries[i][p]
             /\ q \in 1..Len(entries[j]) /\ entries'[j][q] = entries[j][q]
    <3>1. gen'[i] = gen[i] /\ gen'[j] = gen[j]
      BY <1>3, <2>8
    <3>2. QED
      BY <2>6, <2>8, <3>1 DEF FramesInv, Ordered
  <2>9. CASE /\ p \in 1..Len(entries[i]) /\ entries'[i][p] = entries[i][p]
             /\ j = fd[w] /\ q = n /\ entries'[j][q] = e
    <3>1. entries[i][p].seq < appends[w] /\ gen[i] <= gen[fd[w]] /\ entries[i][p].seq \in Nat
      BY <1>1, <2>4, <2>5, <2>6, <2>9, EntryIs
    <3>2. gen'[i] = gen[i]
      BY <1>3, <2>9
    <3>3. i = j => p < q
      BY <1>2, <2>1, <2>9
    <3>4. QED
      BY <2>2, <2>4, <2>7, <2>9, <3>1, <3>2, <3>3
  <2>10. CASE /\ i = fd[w] /\ p = n /\ entries'[i][p] = e
              /\ q \in 1..Len(entries[j]) /\ entries'[j][q] = entries[j][q]
    <3>1. entries[j][q].seq < appends[w] /\ entries[j][q].seq \in Nat
      BY <1>1, <2>4, <2>5, <2>6, <2>10, EntryIs
    <3>2. QED
      BY <2>4, <2>7, <2>10, <3>1
  <2>11. CASE /\ i = fd[w] /\ p = n /\ entries'[i][p] = e
              /\ j = fd[w] /\ q = n /\ entries'[j][q] = e
    BY <2>4, <2>7, <2>11
  <2>12. QED
    BY <2>3, <2>8, <2>9, <2>10, <2>11
<1>6. QED
  BY <1>4, <1>5, EntriesStep

\* A worker that can list the directory writes to no file older than its last one.
LEMMA NeverBackStep ==
  ASSUME Blind = {}, IInv, FramesInv, [Next]_vars, TypeOK'
  PROVE  NeverBack'
<1> SUFFICES ASSUME NEW w \in Worker, NEW i \in Inode, WroteTo(w, i)'
             PROVE  Ahead(w, i)'
  BY DEF NeverBack
<1>1. CASE pc'[w] = "idle"
  BY <1>1 DEF Ahead
<1>2. CASE pc'[w] # "idle"
  <2> USE DEF IInv
  <2>1. WroteTo(w, i)
    <3>1. CASE UNCHANGED entries
      BY <3>1 DEF WroteTo
    <3>2. ASSUME NEW v \in Worker, pc[v] = "write", pc' = [pc EXCEPT ![v] = "idle"],
                 NEW whole \in BOOLEAN, Put(v, whole)
          PROVE  WroteTo(w, i)
      <4>1. v # w /\ fd[v] \in Inode
        BY <1>2, <3>2 DEF WorkersHold, Holding, TypeOK, LocalOK
      <4>2. PICK p \in 1..Len(entries'[i]) : entries'[i][p].by = w
        BY DEF WroteTo
      <4>3. \/ p \in 1..Len(entries[i]) /\ entries'[i][p] = entries[i][p]
            \/ entries'[i][p] = [by |-> v, seq |-> appends[v], whole |-> whole]
        BY <3>2, <4>1, EntryOldOrNew
      <4>4. QED
        BY <4>1, <4>2, <4>3 DEF WroteTo
    <3>3. QED
      BY <3>1, <3>2, EntriesStep
  <2>2. Ahead(w, i) /\ Len(entries[i]) > 0
    BY <2>1 DEF FramesInv, NeverBack, WroteTo, TypeOK, DiskOK
  <2>3. gen[i] \in Nat \ {0} /\ gen'[i] = gen[i] /\ Reached(gen[i])
    BY <2>2, WrittenIsCreated DEF FilesReached
  <2>4. \A j \in Inode : gen[j] # 0 => gen'[j] = gen[j]
    BY FilesStep DEF FilesGood
  <2>5. Segments \subseteq Nat
    BY SegmentsAreNat
  <2> USE DEF TypeOK, LocalOK, Goto
  <2>6. CASE Same(w)
    BY <2>2, <2>3, <2>4, <2>6 DEF Same, Ahead, WorkersHold, Holding
  <2>7. CASE Begin(w)
    BY <2>7 DEF Begin, Ahead
  <2>8. CASE RefuseDocument(w) \/ DirectoryFails(w)
    BY <1>2, <2>8 DEF RefuseDocument, DirectoryFails
  <2>9. CASE ScanActive(w)
    <3>1. \A g : Newest(g, Segments) => g >= gen[i]
      BY <2>3, <2>5 DEF Newest, Reached
    <3>2. Segments # {} /\ Seen(w) = Segments
      BY <2>3 DEF Seen, Reached
    <3>3. PICK g \in Segments : /\ Newest(g, Segments)
                                /\ active' = [active EXCEPT ![w] = g]
                                /\ Goto(w, "open")
      BY <2>9, <3>2 DEF ScanActive
    <3>4. QED
      BY <2>3, <3>1, <3>3 DEF Ahead
  <2>10. CASE OpenActive(w)
    <3>1. CASE UNCHANGED fd /\ pc'[w] = "scan"
      BY <3>1 DEF Ahead
    <3>2. ASSUME NEW j \in linked, gen[j] = active[w], fd' = [fd EXCEPT ![w] = j], Opened(w)
          PROVE  Ahead(w, i)'
      <4>1. fd'[w] = j /\ active'[w] = active[w] /\ pc'[w] \in {"write", "stat"}
        BY <2>10, <3>2 DEF OpenActive, Opened
      <4>2. gen'[j] = gen[j] /\ active[w] >= gen[i]
        BY <2>2, <2>4, <2>10, <3>2 DEF OpenActive, Ahead, FilesReached, DiskOK
      <4>3. QED
        BY <2>3, <3>2, <4>1, <4>2 DEF Ahead
    <3>3. QED
      BY <2>10, <3>1, <3>2 DEF OpenActive
  <2>11. CASE CreateFirst(w)
    BY <2>2, <2>11 DEF CreateFirst, Ahead
  <2>12. CASE Stat(w) \/ StatFails(w)
    BY <2>2, <2>3, <2>4, <2>12 DEF Stat, StatFails, Ahead, WorkersHold, Holding, local, disk
  <2>13. CASE Rotate(w)
    <3>1. CASE CreateSegment(w, active[w] + 1) /\ Goto(w, "budget")
      <4>1. active[w] >= gen[i] /\ active[w] \in Nat
        BY <2>2, <2>13 DEF Rotate, Ahead
      <4>2. gen'[fd'[w]] = active[w] + 1
        BY <3>1 DEF CreateSegment, Free, DiskOK
      <4>3. QED
        BY <2>3, <3>1, <4>1, <4>2 DEF Ahead
    <3>2. CASE Goto(w, "scan")
      BY <2>13, <3>2 DEF Rotate, Ahead
    <3>3. QED
      BY <2>13, <3>1, <3>2 DEF Rotate
  <2>14. CASE BudgetScan(w) \/ Measure(w)
    BY <2>2, <2>3, <2>4, <2>14 DEF BudgetScan, Measure, Ahead, WorkersHold, Holding
  <2>15. CASE RemoveVictim(w) \/ RemoveFails(w)
    BY <2>2, <2>3, <2>4, <2>15
       DEF RemoveVictim, RemoveFails, Strike, Ahead, WorkersHold, Holding
  <2>16. CASE Write(w) \/ WriteFails(w) \/ WriteShort(w) \/ OpenFails(w) \/ Kill(w)
    BY <1>2, <2>16 DEF Write, WriteFails, WriteShort, OpenFails, Return, Kill
  <2>17. QED
    BY <2>6, <2>7, <2>8, <2>9, <2>10, <2>11, <2>12, <2>13, <2>14, <2>15, <2>16, WhoMoves
       DEF Step, Failure
<1>3. QED
  BY <1>1, <1>2

\* The agent's cursor never passes the end of a file.
LEMMA ShippedStep ==
  ASSUME IInv, ShippedWithin, [Next]_vars
  PROVE  ShippedWithin'
<1> SUFFICES ASSUME NEW i \in Inode PROVE shipped'[i] <= Len(entries'[i])
  BY DEF ShippedWithin
<1> USE DEF IInv
<1>1. /\ shipped[i] <= Len(entries[i])
      /\ shipped[i] \in Nat /\ Len(entries[i]) \in Nat
  BY DEF ShippedWithin, TypeOK, DiskOK
<1>2. Len(entries'[i]) \in Nat /\ Len(entries'[i]) >= Len(entries[i])
  <2>1. ASSUME NEW w \in Worker, pc[w] = "write", Put(w, TRUE) \/ Put(w, FALSE)
        PROVE  Len(entries'[i]) = Len(entries[i]) \/ Len(entries'[i]) = Len(entries[i]) + 1
    <3>1. fd[w] \in Inode
      BY <2>1 DEF WorkersHold, Holding
    <3>2. QED
      BY <2>1, <3>1, PutAppends
  <2>2. Len(entries'[i]) = Len(entries[i]) \/ Len(entries'[i]) = Len(entries[i]) + 1
    <3>1. CASE UNCHANGED entries
      BY <3>1
    <3>2. QED
      BY <2>1, <3>1, EntriesStep
  <2>3. QED
    BY <1>1, <2>2
<1>3. CASE UNCHANGED shipped
  BY <1>1, <1>2, <1>3
<1>4. ASSUME NEW j \in Inode, AgentShip(j)
      PROVE  shipped'[i] <= Len(entries'[i])
  BY <1>1, <1>4 DEF AgentShip, Unread, TypeOK, DiskOK
<1>5. ASSUME NEW w \in Worker, Begin(w) \/ Step(w) \/ Failure(w)
      PROVE  UNCHANGED shipped
  BY <1>5 DEF Step, Failure, Begin, RefuseDocument, DirectoryFails, ScanActive, OpenActive,
       CreateFirst, CreateSegment, Rotate, RemoveVictim, Stat, StatFails, OpenFails, BudgetScan,
       Measure, RemoveFails, Write, WriteFails, WriteShort, Kill, disk
<1>6. QED
  BY <1>3, <1>4, <1>5 DEF Next, Agent, AgentRetire, vars

\* The order of the frames is kept in every reachable state, when nobody is blind.
LEMMA FramesHold == ASSUME Blind = {} PROVE Spec => [](IInv /\ FramesInv)
<1>1. Init => FramesInv
  <2> SUFFICES ASSUME Init PROVE FramesInv
    OBVIOUS
  <2>1. \A i \in Inode : Len(entries[i]) = 0 /\ shipped[i] = 0
    BY DEF Init
  <2>2. \A i \in Inode : 1..Len(entries[i]) = {}
    BY <2>1
  <2>3. QED
    BY <2>1, <2>2, ConstantsAssumption
       DEF Init, FramesInv, Numbered, Ordered, NeverBack, WroteTo, ShippedWithin
<1>2. IInv /\ FramesInv /\ IInv' /\ [Next]_vars => FramesInv'
  BY NumberedStep, OrderedStep, NeverBackStep, ShippedStep DEF IInv, FramesInv
<1>3. QED
  BY <1>1, <1>2, Invariance, PTL DEF Spec
-----------------------------------------------------------------------------
(* The contract: every step is a step of FrameLog, or leaves the fates.    *)

\* The agent has shipped document k of worker w.
IsShipped(w, k) == \E i \in Inode : Holds(i, w, k, 1..shipped[i])
IsLinked(w, k)  == \E i \in linked : Holds(i, w, k, DOMAIN entries[i])
\* Document k of worker w is in some file, linked or not.
IsWritten(w, k) == \E i \in Inode : Holds(i, w, k, DOMAIN entries[i])

\* When a document has which fate.
LEMMA FateIs ==
  ASSUME NEW w, NEW k
  PROVE  FateOf(w, k) = IF k > appends[w] THEN "unborn"
                        ELSE IF k = appends[w] /\ pc[w] # "idle" THEN "open"
                        ELSE IF IsShipped(w, k) THEN "shipped"
                        ELSE IF IsLinked(w, k) THEN "stored"
                        ELSE IF IsWritten(w, k) THEN "lost"
                        ELSE "failed"
  BY DEF FateOf, IsShipped, IsLinked, IsWritten

\* The same of the next state.
LEMMA NextFateIs ==
  ASSUME NEW w, NEW k
  PROVE  FateOf(w, k)' = IF k > appends'[w] THEN "unborn"
                         ELSE IF k = appends'[w] /\ pc'[w] # "idle" THEN "open"
                         ELSE IF IsShipped(w, k)' THEN "shipped"
                         ELSE IF IsLinked(w, k)' THEN "stored"
                         ELSE IF IsWritten(w, k)' THEN "lost"
                         ELSE "failed"
  BY DEF FateOf, IsShipped, IsLinked, IsWritten

\* The places a document is held at.
LEMMA PlacesAre ==
  ASSUME TypeOK, NEW i \in Inode
  PROVE  DOMAIN entries[i] = 1..Len(entries[i]) /\ Len(entries[i]) \in Nat
  BY DEF TypeOK, DiskOK

\* A fate that a step does not touch.
LEMMA FateSame ==
  ASSUME NEW w, NEW k,
         k > appends'[w] <=> k > appends[w],
         k = appends'[w] /\ pc'[w] # "idle" <=> k = appends[w] /\ pc[w] # "idle",
         IsShipped(w, k)' <=> IsShipped(w, k),
         IsLinked(w, k)' <=> IsLinked(w, k),
         IsWritten(w, k)' <=> IsWritten(w, k)
  PROVE  FateOf(w, k)' = FateOf(w, k)
  BY DEF FateOf, IsShipped, IsLinked, IsWritten

\* A step that settles one document and touches no other fate.
LEMMA OneFateChanges ==
  ASSUME NEW w \in Worker, NEW k \in 1..MaxAppends, NEW f, FateOf(w, k)' = f,
         \A v \in Worker, j \in 1..MaxAppends :
             v # w \/ j # k => FateOf(v, j)' = FateOf(v, j)
  PROVE  Contract!Becomes(w, k, f)
  BY DEF Contract!Becomes, Fates

\* Names that go away only bury frames that were waiting.
LEMMA UnlinkEvicts ==
  ASSUME UNCHANGED <<entries, shipped, appends>>, linked' \subseteq linked,
         linked \subseteq Inode,
         \A v \in Worker : pc'[v] # "idle" <=> pc[v] # "idle"
  PROVE  Contract!Evict
<1>1. ASSUME NEW w \in Worker, NEW k \in 1..MaxAppends
      PROVE  /\ FateOf(w, k)' \in Contract!Fate
             /\ FateOf(w, k)' # FateOf(w, k) =>
                    FateOf(w, k) = "stored" /\ FateOf(w, k)' = "lost"
  <2>1. /\ IsShipped(w, k)' <=> IsShipped(w, k)
        /\ IsWritten(w, k)' <=> IsWritten(w, k)
        /\ IsLinked(w, k)' => IsLinked(w, k)
        /\ IsLinked(w, k) => IsWritten(w, k)
    BY DEF IsShipped, IsWritten, IsLinked, Holds
  <2>2. QED
    BY <2>1, FateIs, NextFateIs DEF Contract!Fate
<1>2. QED
  BY <1>1 DEF Contract!Evict, Contract!Number, Fates

\* A creation hides and shows no frame.
LEMMA CreateShowsNothing ==
  ASSUME UNCHANGED <<entries, shipped, appends>>, NEW i \in Inode, entries[i] = <<>>,
         linked' = linked \cup {i},
         \A v \in Worker : pc'[v] # "idle" <=> pc[v] # "idle"
  PROVE  UNCHANGED Fates
<1>1. ASSUME NEW w \in Worker, NEW k \in 1..MaxAppends
      PROVE  FateOf(w, k)' = FateOf(w, k)
  <2>1. DOMAIN entries[i] = {}
    OBVIOUS
  <2>2. /\ IsShipped(w, k)' <=> IsShipped(w, k)
        /\ IsWritten(w, k)' <=> IsWritten(w, k)
        /\ IsLinked(w, k)' <=> IsLinked(w, k)
    BY <2>1 DEF IsShipped, IsWritten, IsLinked, Holds
  <2>3. QED
    BY <2>2, FateSame
<1>2. QED
  BY <1>1 DEF Fates

\* Entering append is the birth of the next document, refused at once or open.
LEMMA EnteringOpens ==
  ASSUME IInv, FramesInv, NEW w \in Worker, pc[w] = "idle", appends[w] < MaxAppends,
         appends' = [appends EXCEPT ![w] = @ + 1], UNCHANGED <<entries, shipped, linked>>,
         \A v \in Worker : v # w => (pc'[v] # "idle" <=> pc[v] # "idle")
  PROVE  \E k \in 1..MaxAppends : Contract!Open(w, k) \/ Contract!Refuse(w, k)
<1> USE ConstantsAssumption
<1>1. appends[w] \in Nat /\ appends \in [Worker -> Nat]
  BY DEF IInv, TypeOK, CountersOK
<1> PICK k \in 1..MaxAppends : k = appends[w] + 1
  BY <1>1
<1>2. appends'[w] = k /\ \A v \in Worker : v # w => appends'[v] = appends[v]
  BY <1>1
<1>3. ASSUME NEW v \in Worker, NEW j
      PROVE  /\ IsShipped(v, j)' <=> IsShipped(v, j)
             /\ IsWritten(v, j)' <=> IsWritten(v, j)
             /\ IsLinked(v, j)' <=> IsLinked(v, j)
  BY DEF IsShipped, IsWritten, IsLinked, Holds
<1>4. FateOf(w, k) = "unborn"
  BY <1>1, FateIs
<1>5. \A j \in 1..MaxAppends : j < k => FateOf(w, j) \notin {"unborn", "open"}
  BY <1>1, FateIs
<1>6. ASSUME NEW v \in Worker, NEW j \in 1..MaxAppends, v # w \/ j # k
      PROVE  FateOf(v, j)' = FateOf(v, j)
  <2>1. /\ j > appends'[v] <=> j > appends[v]
        /\ j = appends'[v] /\ pc'[v] # "idle" <=> j = appends[v] /\ pc[v] # "idle"
    BY <1>1, <1>2, <1>6
  <2>2. QED
    BY <1>3, <2>1, FateSame
<1>7. ~IsWritten(w, k) /\ ~IsLinked(w, k) /\ ~IsShipped(w, k)
  <2>1. ASSUME NEW i \in Inode, NEW p \in 1..Len(entries[i])
        PROVE  entries[i][p] # Frame(w, k)
    <3>1. entries[i][p].by = w => entries[i][p].seq <= appends[w]
      BY DEF FramesInv, Numbered
    <3>2. Frame(w, k).by = w /\ Frame(w, k).seq = k
      BY DEF Frame
    <3>3. QED
      BY <1>1, <3>1, <3>2
  <2>2. \A i \in Inode : /\ DOMAIN entries[i] = 1..Len(entries[i])
                         /\ Len(entries[i]) \in Nat /\ shipped[i] \in Nat
                         /\ shipped[i] <= Len(entries[i])
    BY PlacesAre DEF IInv, FramesInv, ShippedWithin, TypeOK, DiskOK
  <2>3. linked \subseteq Inode
    BY DEF IInv, TypeOK, DiskOK
  <2>4. QED
    BY <2>1, <2>2, <2>3 DEF IsWritten, IsLinked, IsShipped, Holds
<1>8. FateOf(w, k)' \in {"open", "failed"}
  <2>1. ~IsWritten(w, k)' /\ ~IsLinked(w, k)' /\ ~IsShipped(w, k)'
    BY <1>3, <1>7
  <2>2. appends'[w] = k /\ ~(k > k)
    BY <1>1, <1>2
  <2>3. QED
    BY <2>1, <2>2, NextFateIs
<1>9. \E f \in {"open", "failed"} : Contract!Becomes(w, k, f)
  BY <1>6, <1>8, OneFateChanges
<1>10. /\ Fates[w][k] = "unborn"
       /\ \A j \in 1..MaxAppends : j < k => Fates[w][j] \notin {"unborn", "open"}
  BY <1>1, <1>4, <1>5 DEF Fates
<1>11. QED
  BY <1>1, <1>9, <1>10 DEF Contract!Open, Contract!Refuse, Contract!Number

\* Its one write adds the frame of the document, and no other.
LEMMA PutShowsItsFrame ==
  ASSUME TypeOK, TypeOK', ShippedWithin, NEW w \in Worker, NEW whole \in BOOLEAN,
         Put(w, whole), fd[w] \in Inode, UNCHANGED <<shipped, linked>>,
         NEW v \in Worker, NEW j
  PROVE  /\ IsShipped(v, j)' <=> IsShipped(v, j)
         /\ v # w \/ j # appends[w] => /\ IsLinked(v, j)' <=> IsLinked(v, j)
                                       /\ IsWritten(v, j)' <=> IsWritten(v, j)
<1>1. linked \subseteq Inode
  BY DEF TypeOK, DiskOK
<1>2. ASSUME NEW i \in Inode
      PROVE  Holds(i, v, j, 1..shipped[i])' <=> Holds(i, v, j, 1..shipped[i])
  <2>1. \A p \in 1..shipped[i] : p \in 1..Len(entries[i])
    BY DEF ShippedWithin, TypeOK, DiskOK
  <2>2. \A p \in 1..shipped[i] : entries'[i][p] = entries[i][p]
    BY ZenonT(60), <2>1, EntryOldOrNew
  <2>3. QED
    BY <2>2 DEF Holds
<1>3. ASSUME NEW i \in Inode, v # w \/ j # appends[w]
      PROVE  Holds(i, v, j, DOMAIN entries[i])' <=> Holds(i, v, j, DOMAIN entries[i])
  <2>1. DOMAIN entries[i] = 1..Len(entries[i]) /\ DOMAIN entries'[i] = 1..Len(entries'[i])
    BY PlacesAre DEF TypeOK, DiskOK
  <2>2. [by |-> w, seq |-> appends[w], whole |-> whole] # Frame(v, j)
    BY <1>3 DEF Frame
  <2>3. ASSUME NEW p \in 1..Len(entries[i]), entries[i][p] = Frame(v, j)
        PROVE  \E q \in 1..Len(entries'[i]) : entries'[i][q] = Frame(v, j)
    BY <2>3, EntryOldOrNew
  <2>4. ASSUME NEW p \in 1..Len(entries'[i]), entries'[i][p] = Frame(v, j)
        PROVE  \E q \in 1..Len(entries[i]) : entries[i][q] = Frame(v, j)
    <3>1. \/ p \in 1..Len(entries[i])
          \/ entries'[i][p] = [by |-> w, seq |-> appends[w], whole |-> whole]
      BY EntryOldOrNew
    <3>2. p \in 1..Len(entries[i])
      BY <2>2, <2>4, <3>1
    <3>3. entries'[i][p] = entries[i][p]
      BY ZenonT(60), <3>2, EntryOldOrNew
    <3>4. QED
      BY <2>4, <3>2, <3>3
  <2>5. QED
    BY <2>1, <2>3, <2>4 DEF Holds
<1>4. QED
  BY <1>1, <1>2, <1>3 DEF IsShipped, IsLinked, IsWritten

\* Leaving append closes the document it was entered for.
LEMMA LeavingCloses ==
  ASSUME IInv, FramesInv, TypeOK', NEW w \in Worker, pc[w] # "idle",
         pc' = [pc EXCEPT ![w] = "idle"], UNCHANGED <<appends, shipped, linked>>,
         \/ UNCHANGED entries
         \/ pc[w] = "write" /\ \E whole \in BOOLEAN : Put(w, whole)
  PROVE  \E k \in 1..MaxAppends : Contract!Close(w, k)
<1> DEFINE k == appends[w]
<1>1. appends[w] \in Nat /\ k \in 1..MaxAppends /\ pc'[w] = "idle"
  BY ConstantsAssumption DEF IInv, TypeOK, CountersOK, LocalOK, FramesInv, Numbered
<1>2. \A v \in Worker : v # w => pc'[v] = pc[v]
  BY DEF IInv, TypeOK, LocalOK
<1>3. ASSUME NEW v \in Worker, NEW j
      PROVE  /\ IsShipped(v, j)' <=> IsShipped(v, j)
             /\ v # w \/ j # k => /\ IsLinked(v, j)' <=> IsLinked(v, j)
                                  /\ IsWritten(v, j)' <=> IsWritten(v, j)
  <2>1. CASE UNCHANGED entries
    BY <2>1 DEF IsShipped, IsLinked, IsWritten, Holds
  <2>2. ASSUME NEW whole \in BOOLEAN, pc[w] = "write", Put(w, whole)
        PROVE  /\ IsShipped(v, j)' <=> IsShipped(v, j)
               /\ v # w \/ j # k => /\ IsLinked(v, j)' <=> IsLinked(v, j)
                                    /\ IsWritten(v, j)' <=> IsWritten(v, j)
    <3>1. TypeOK /\ ShippedWithin /\ fd[w] \in Inode
      BY <2>2 DEF IInv, FramesInv, WorkersHold, Holding
    <3>2. QED
      BY <2>2, <3>1, PutShowsItsFrame
  <2>3. QED
    BY <2>1, <2>2
<1>4. ~IsShipped(w, k)
  <2>1. ASSUME NEW i \in Inode, NEW p \in 1..shipped[i]
        PROVE  entries[i][p] # Frame(w, k)
    <3>1. p \in 1..Len(entries[i])
      BY DEF IInv, FramesInv, ShippedWithin, TypeOK, DiskOK
    <3>2. entries[i][p].by = w => entries[i][p].seq < k
      BY <3>1 DEF FramesInv, Numbered
    <3>3. Frame(w, k).by = w /\ Frame(w, k).seq = k
      BY DEF Frame
    <3>4. QED
      BY <1>1, <3>2, <3>3
  <2>2. QED
    BY <2>1 DEF IsShipped, Holds
<1>5. FateOf(w, k) = "open"
  BY <1>1, FateIs
<1>6. FateOf(w, k)' \in {"stored", "failed", "lost"}
  BY <1>1, <1>3, <1>4, NextFateIs
<1>7. ASSUME NEW v \in Worker, NEW j \in 1..MaxAppends, v # w \/ j # k
      PROVE  FateOf(v, j)' = FateOf(v, j)
  BY <1>2, <1>3, <1>7, FateSame
<1>8. \E f \in {"stored", "failed", "lost"} : Contract!Becomes(w, k, f)
  BY <1>1, <1>6, <1>7, OneFateChanges
<1>9. Fates[w][k] = "open"
  BY <1>1, <1>5 DEF Fates
<1>10. QED
  BY <1>1, <1>8, <1>9 DEF Contract!Close

\* The agent takes the oldest waiting frame of its author, or torn bytes.
LEMMA ShippingShips ==
  ASSUME IInv, FramesInv, NEW i \in Inode, AgentShip(i)
  PROVE  \/ UNCHANGED Fates
         \/ \E w \in Worker, k \in 1..MaxAppends : Contract!Ship(w, k)
<1> DEFINE p == shipped[i] + 1
           e == entries[i][p]
<1>1. TypeOK /\ linked \subseteq Inode /\ i \in linked
  BY DEF IInv, TypeOK, DiskOK, AgentShip
<1>2. p \in 1..Len(entries[i]) /\ shipped[i] \in Nat
  BY <1>1 DEF AgentShip, Unread, TypeOK, DiskOK
<1>3. /\ shipped'[i] = p
      /\ \A j \in Inode : j # i => shipped'[j] = shipped[j]
      /\ UNCHANGED <<gen, entries, linked, pc, appends>>
  BY <1>1 DEF AgentShip, TypeOK, DiskOK
<1>4. e.by \in Worker /\ e.seq \in Nat /\ e \in Entry
  BY <1>1, <1>2, EntryIs
<1>5. ASSUME NEW v, NEW k
      PROVE  /\ IsLinked(v, k)' <=> IsLinked(v, k)
             /\ IsWritten(v, k)' <=> IsWritten(v, k)
             /\ IsShipped(v, k)' <=> IsShipped(v, k) \/ e = Frame(v, k)
  <2>1. \A j \in Inode : j # i =>
           (Holds(j, v, k, 1..shipped[j])' <=> Holds(j, v, k, 1..shipped[j]))
    BY <1>3 DEF Holds
  <2>2. 1..shipped'[i] = 1..shipped[i] \cup {p}
    BY <1>2, <1>3
  <2>3. Holds(i, v, k, 1..shipped[i])' <=> Holds(i, v, k, 1..shipped[i]) \/ e = Frame(v, k)
    BY <1>3, <2>2 DEF Holds
  <2>4. QED
    BY <1>3, <2>1, <2>3 DEF IsShipped, IsLinked, IsWritten, Holds
<1> HIDE DEF e
<1>6. ASSUME NEW v \in Worker, NEW k \in 1..MaxAppends, e # Frame(v, k)
      PROVE  FateOf(v, k)' = FateOf(v, k)
  BY <1>3, <1>5, <1>6, FateSame
<1>7. CASE \A v \in Worker, k \in 1..MaxAppends : e # Frame(v, k)
  BY <1>6, <1>7 DEF Fates
<1>8. ASSUME NEW w \in Worker, NEW k \in 1..MaxAppends, e = Frame(w, k)
      PROVE  Contract!Ship(w, k)
  <2>1. e.by = w /\ e.seq = k
    BY <1>8 DEF Frame
  <2>2. k <= appends[w] /\ (pc[w] # "idle" => k < appends[w])
    BY <1>2, <2>1 DEF FramesInv, Numbered, e
  <2>3. ~(k > appends[w]) /\ ~(k = appends[w] /\ pc[w] # "idle")
    BY <1>1, <2>2 DEF TypeOK, CountersOK
  <2>4. ~IsShipped(w, k)
    <3>1. ASSUME NEW j \in Inode, NEW q \in 1..shipped[j], entries[j][q] = Frame(w, k)
          PROVE  FALSE
      <4>1. q \in 1..Len(entries[j])
        BY <1>1 DEF FramesInv, ShippedWithin, TypeOK, DiskOK
      <4>2. i = j /\ p = q
        BY SMTT(60), <1>2, <1>8, <3>1, <4>1 DEF FramesInv, Ordered, e
      <4>3. QED
        BY <1>2, <4>2
    <3>2. QED
      BY <3>1 DEF IsShipped, Holds
  <2>5. IsLinked(w, k)
    BY <1>1, <1>2, <1>8, PlacesAre DEF IsLinked, Holds, e
  <2>6. FateOf(w, k) = "stored"
    BY <2>3, <2>4, <2>5, FateIs
  <2>7. FateOf(w, k)' = "shipped"
    BY <1>3, <1>5, <1>8, <2>3, NextFateIs
  <2>8. ASSUME NEW j \in 1..MaxAppends, j < k
        PROVE  FateOf(w, j) # "stored"
    <3>1. SUFFICES ASSUME ~IsShipped(w, j), IsLinked(w, j) PROVE FALSE
      BY FateIs
    <3>2. PICK h \in linked : \E q \in 1..Len(entries[h]) : entries[h][q] = Frame(w, j)
      BY <1>1, <3>1, PlacesAre DEF IsLinked, Holds
    <3> PICK q \in 1..Len(entries[h]) : entries[h][q] = Frame(w, j)
      BY <3>2
    <3>3. h \in Inode /\ shipped[h] \in Nat /\ Len(entries[h]) \in Nat
      BY <1>1 DEF TypeOK, DiskOK
    <3>4. q > shipped[h]
      BY <3>1, <3>2, <3>3 DEF IsShipped, Holds
    <3>5. gen[i] <= gen[h]
      BY <3>2, <3>3, <3>4 DEF AgentShip, Unread
    <3>6. /\ entries[h][q].by = entries[i][p].by
          /\ entries[h][q].seq < entries[i][p].seq
      <4>1. Frame(w, j).by = w /\ Frame(w, j).seq = j
        BY DEF Frame
      <4>2. QED
        BY <2>1, <2>8, <4>1 DEF e
    <3>7. gen[h] <= gen[i] /\ (h = i => q < p)
      BY SMTT(60), <1>2, <3>3, <3>6 DEF FramesInv, Ordered
    <3>8. gen[h] = gen[i]
      BY <1>1, <3>3, <3>5, <3>7 DEF TypeOK, DiskOK
    <3>9. h = i
      BY <1>1, <3>2, <3>8 DEF IInv, OneFilePerName
    <3>10. QED
      BY <1>2, <3>2, <3>4, <3>7, <3>9
  <2>9. ASSUME NEW v \in Worker, NEW j \in 1..MaxAppends, v # w \/ j # k
        PROVE  FateOf(v, j)' = FateOf(v, j)
    <3>1. e # Frame(v, j)
      BY <1>8, <2>9 DEF Frame
    <3>2. QED
      BY <1>6, <3>1
  <2>10. Contract!Becomes(w, k, "shipped")
    BY <2>7, <2>9, OneFateChanges
  <2>11. Fates[w][k] = "stored" /\ \A j \in 1..MaxAppends : j < k => Fates[w][j] # "stored"
    BY <2>6, <2>8 DEF Fates
  <2>12. QED
    BY <2>10, <2>11 DEF Contract!Ship, Contract!Number
<1>9. QED
  BY <1>7, <1>8

\* A worker's step is one of these.
LEMMA WorkerKeepsContract ==
  ASSUME IInv, FramesInv, TypeOK', NEW w \in Worker, Begin(w) \/ Step(w) \/ Failure(w)
  PROVE  Contract!Next \/ UNCHANGED Fates
<1> DEFINE SameAtWork == \A v \in Worker : pc'[v] # "idle" <=> pc[v] # "idle"
<1>1. TypeOK /\ linked \subseteq Inode /\ pc \in [Worker -> PC]
  BY DEF IInv, TypeOK, DiskOK, LocalOK
<1>2. ASSUME \E k \in 1..MaxAppends :
                 Contract!Open(w, k) \/ Contract!Refuse(w, k) \/ Contract!Close(w, k)
      PROVE  Contract!Next
  BY <1>2 DEF Contract!Next, Contract!Number
<1>3. CASE Begin(w) \/ RefuseDocument(w) \/ DirectoryFails(w)
  <2>1. /\ pc[w] = "idle" /\ appends[w] < MaxAppends
        /\ appends' = [appends EXCEPT ![w] = @ + 1]
        /\ UNCHANGED <<entries, shipped, linked>>
        /\ \A v \in Worker : v # w => (pc'[v] # "idle" <=> pc[v] # "idle")
    BY <1>1, <1>3 DEF Begin, RefuseDocument, DirectoryFails, Goto, disk
  <2>2. QED
    BY <1>2, <2>1, EnteringOpens
<1>4. CASE OpenFails(w) \/ Kill(w) \/ Write(w) \/ WriteFails(w) \/ WriteShort(w)
  <2>1. /\ pc[w] # "idle" /\ pc' = [pc EXCEPT ![w] = "idle"]
        /\ UNCHANGED <<appends, shipped, linked>>
        /\ \/ UNCHANGED entries
           \/ pc[w] = "write" /\ \E whole \in BOOLEAN : Put(w, whole)
    BY <1>4 DEF OpenFails, Kill, Write, WriteFails, WriteShort, Return, Goto, disk
  <2>2. QED
    BY <1>2, <2>1, LeavingCloses
<1>5. ASSUME SameAtWork, UNCHANGED <<entries, shipped, appends>>, linked' \subseteq linked
      PROVE  Contract!Next
  BY <1>1, <1>5, UnlinkEvicts DEF Contract!Next
<1>6. CASE \/ ScanActive(w) \/ OpenActive(w) \/ Stat(w) \/ StatFails(w) \/ BudgetScan(w)
           \/ Measure(w) \/ RemoveVictim(w) \/ RemoveFails(w)
  <2>1. SameAtWork
    BY <1>1, <1>6 DEF ScanActive, OpenActive, Opened, Stat, StatFails, BudgetScan, Measure, RemoveVictim,
       RemoveFails, Strike, Goto
  <2>2. UNCHANGED <<entries, shipped, appends>> /\ linked' \subseteq linked
    BY <1>6 DEF ScanActive, OpenActive, Stat, StatFails, BudgetScan, Measure, RemoveVictim,
       RemoveFails, Unlink, disk
  <2>3. QED
    BY <1>5, <2>1, <2>2
<1>7. CASE CreateFirst(w) \/ Rotate(w)
  <2>1. SameAtWork
    BY <1>1, <1>7 DEF CreateFirst, Rotate, Opened, Goto
  <2>2. CASE UNCHANGED disk
    BY <1>5, <1>7, <2>1, <2>2 DEF CreateFirst, Rotate, disk
  <2>3. ASSUME NEW g, CreateSegment(w, g)
        PROVE  UNCHANGED Fates
    <3>1. PICK i \in Free : linked' = linked \cup {i}
      BY <2>3 DEF CreateSegment
    <3>2. i \in Inode /\ entries[i] = <<>> /\ UNCHANGED <<entries, shipped, appends>>
      BY <1>7, <2>3 DEF IInv, FilesReached, Free, CreateSegment, CreateFirst, Rotate
    <3>3. QED
      BY <2>1, <3>1, <3>2, CreateShowsNothing
  <2>4. QED
    BY <1>7, <2>2, <2>3 DEF CreateFirst, Rotate
<1>8. QED
  BY <1>3, <1>4, <1>6, <1>7 DEF Step, Failure

\* append keeps the contract: a document's fate is decided once, a failed append never
\* surfaces, and a process's frames are shipped in order, when the workers can list the
\* directory.  (One that cannot starts again at generation 1 each time, behind its own frames.)
THEOREM ContractIsKept == ASSUME Blind = {} PROVE Spec => ImplementsFrameLog
<1>1. Init => Contract!Init
  BY ConstantsAssumption DEF Init, Contract!Init, Contract!Number, Fates, FateOf
<1>2. IInv /\ FramesInv /\ TypeOK' /\ [Next]_vars => [Contract!Next]_Fates
  <2> SUFFICES ASSUME IInv, FramesInv, TypeOK', [Next]_vars
               PROVE  Contract!Next \/ UNCHANGED Fates
    OBVIOUS
  <2>1. CASE UNCHANGED vars
    BY <2>1 DEF vars, Fates, FateOf, Holds
  <2>2. ASSUME NEW i \in Inode, AgentShip(i)
        PROVE  Contract!Next \/ UNCHANGED Fates
    BY <2>2, ShippingShips DEF Contract!Next, Contract!Number
  <2>3. ASSUME NEW i \in Inode, AgentRetire(i)
        PROVE  Contract!Next
    <3>1. UNCHANGED <<entries, shipped, appends, pc>> /\ linked' \subseteq linked
      BY <2>3 DEF AgentRetire, Unlink
    <3>2. QED
      BY <3>1, UnlinkEvicts DEF Contract!Next, IInv, TypeOK, DiskOK
  <2>4. QED
    BY <2>1, <2>2, <2>3, WorkerKeepsContract DEF Next, Agent
<1>3. IInv => TypeOK
  BY DEF IInv
<1>4. QED
  BY <1>1, <1>2, <1>3, FramesHold, PTL DEF Spec, ImplementsFrameLog, Contract!Spec
-----------------------------------------------------------------------------
(* The budget: an excess is always some worker's to remove.                *)

\* The excess over the budget, but for a second generation 1.
Over == OverBudget(Segments) \ (IF SecondFirst = {} THEN {} ELSE {1})

\* The workers that hold a listing of the directory.
Scanned == {w \in Worker : pc[w] \in {"measure", "remove"}}

\* The segments the workers of W are about to remove.
Claimed(W) == UNION {victims[w] : w \in W}

\* What some of the workers that have listed the directory leave of the excess
\* is that of the others.
Claims ==
    \A W \in SUBSET Scanned :
        Cardinality(Over \ Claimed(W)) <= Cardinality(Enforcing \ W) + faults

\* The first file of all was a generation 1.
FirstCreated == \A i \in Inode : gen[i] # 0 => \E j \in Inode : gen[j] = 1

\* What bounds the directory, beside IInv.
BudgetInv == IsFiniteSet(linked) /\ FirstCreated /\ Claims

\* A set of naturals has a least element.
LEMMA LeastNatural ==
  ASSUME NEW S, S \subseteq Nat, S # {}
  PROVE  \E m \in S : \A n \in S : m <= n
<1>1. PICK m \in S : \A n \in S : ~(<<n, m>> \in OpToRel(<, Nat))
  BY NatLessThanWellFounded, WFMin, Zenon
<1>2. \A n \in S : ~(n < m)
  BY <1>1 DEF OpToRel
<1>3. QED
  BY <1>2

\* Any subset of a finite set has no more elements.
LEMMA Fewer ==
  ASSUME NEW S, NEW T, IsFiniteSet(S), T \subseteq S
  PROVE  /\ IsFiniteSet(T)
         /\ Cardinality(T) \in Nat /\ Cardinality(S) \in Nat
         /\ Cardinality(T) <= Cardinality(S)
  BY FS_Subset, FS_CardinalityType

\* One element makes a difference of one at most.
LEMMA OneMore ==
  ASSUME NEW S, NEW T, NEW x, IsFiniteSet(S), T \subseteq S \cup {x}
  PROVE  /\ IsFiniteSet(T)
         /\ Cardinality(T) \in Nat /\ Cardinality(S) \in Nat
         /\ Cardinality(T) <= Cardinality(S) + 1
<1>1. /\ IsFiniteSet(S \cup {x})
      /\ Cardinality(S \cup {x}) = IF x \in S THEN Cardinality(S) ELSE Cardinality(S) + 1
  BY FS_AddElement
<1>2. Cardinality(S) \in Nat
  BY FS_CardinalityType
<1>3. /\ IsFiniteSet(T) /\ Cardinality(T) \in Nat
      /\ Cardinality(T) <= Cardinality(S \cup {x})
  BY <1>1, Fewer
<1>4. QED
  BY <1>1, <1>2, <1>3

\* A set within two others has no more elements than both.
LEMMA AtMostBoth ==
  ASSUME NEW A, NEW B, IsFiniteSet(A), IsFiniteSet(B), NEW S, S \subseteq A \cup B
  PROVE  /\ IsFiniteSet(S)
         /\ Cardinality(S) \in Nat /\ Cardinality(A) \in Nat /\ Cardinality(B) \in Nat
         /\ Cardinality(S) <= Cardinality(A) + Cardinality(B)
<1>1. /\ IsFiniteSet(A \cup B)
      /\ Cardinality(A \cup B) = Cardinality(A) + Cardinality(B) - Cardinality(A \cap B)
  BY FS_Union
<1>2. IsFiniteSet(A \cap B)
  BY FS_Intersection
<1>3. Cardinality(A \cap B) \in Nat /\ Cardinality(A) \in Nat /\ Cardinality(B) \in Nat
  BY <1>2, FS_CardinalityType
<1>4. /\ IsFiniteSet(S) /\ Cardinality(S) \in Nat
      /\ Cardinality(S) <= Cardinality(A \cup B)
  BY <1>1, Fewer
<1>5. QED
  BY <1>1, <1>3, <1>4

\* The members of S above x.
Newer(S, x) == {h \in S : h > x}

\* What is newer than x.
LEMMA NewerIs ==
  ASSUME NEW S, NEW x
  PROVE  Newer(S, x) \subseteq S /\ \A h : h \in Newer(S, x) <=> h \in S /\ h > x
  BY DEF Newer

\* Which segments are over the budget.
LEMMA OverBudgetIs ==
  ASSUME NEW S, NEW x
  PROVE  x \in OverBudget(S) <=> x \in S /\ Cardinality(Newer(S, x)) >= MaxSegments
  BY DEF Newer, OverBudget

\* Of a listing, no more than MaxSegments are within the budget.
LEMMA WithinBudget ==
  ASSUME NEW S, S \subseteq Nat, IsFiniteSet(S)
  PROVE  /\ Cardinality(S) <= MaxSegments + Cardinality(OverBudget(S))
         /\ Cardinality(S) \in Nat /\ Cardinality(OverBudget(S)) \in Nat
<1> USE ConstantsAssumption
<1> DEFINE O == OverBudget(S)
           K == S \ O
<1>1. O \subseteq S
  BY OverBudgetIs
<1>2. /\ IsFiniteSet(O) /\ IsFiniteSet(K)
      /\ Cardinality(O) \in Nat /\ Cardinality(K) \in Nat /\ Cardinality(S) \in Nat
  BY <1>1, Fewer
<1>3. Cardinality(K) <= MaxSegments
  <2>1. CASE K = {}
    BY <2>1, FS_EmptySet
  <2>2. CASE K # {}
    <3>1. PICK m \in K : \A n \in K : m <= n
      BY <2>2, LeastNatural
    <3>2. IsFiniteSet(Newer(S, m)) /\ Cardinality(Newer(S, m)) \in Nat
      BY NewerIs, Fewer
    <3>3. Cardinality(Newer(S, m)) < MaxSegments
      BY <3>2, OverBudgetIs
    <3>4. K \subseteq Newer(S, m) \cup {m}
      <4>1. ASSUME NEW n \in K, n # m PROVE n \in Newer(S, m)
        <5>1. n \in S /\ n \in Nat /\ m \in Nat /\ m <= n
          BY <3>1
        <5>2. n > m
          BY <4>1, <5>1
        <5>3. QED
          BY <5>1, <5>2, NewerIs
      <4>2. QED
        BY <4>1
    <3>5. Cardinality(K) <= Cardinality(Newer(S, m)) + 1
      BY <3>2, <3>4, OneMore
    <3>6. QED
      BY <1>2, <3>2, <3>3, <3>5
  <2>3. QED
    BY <2>1, <2>2
<1>4. S \subseteq O \cup K
  OBVIOUS
<1> HIDE DEF K, O
<1>5. Cardinality(S) <= Cardinality(O) + Cardinality(K)
  BY <1>2, <1>4, AtMostBoth
<1>6. QED
  BY <1>2, <1>3, <1>5 DEF O

\* With one segment less, nothing more is over the budget.
LEMMA RemovalRelieves ==
  ASSUME NEW S, NEW g, S \subseteq Nat, IsFiniteSet(S)
  PROVE  OverBudget(S \ {g}) \subseteq OverBudget(S) \ {g}
<1> DEFINE T == S \ {g}
<1>1. T \subseteq S /\ g \notin T
  OBVIOUS
<1> HIDE DEF T
<1>2. ASSUME NEW x \in OverBudget(T)
      PROVE  x \in OverBudget(S) /\ x # g
  <2>1. x \in T /\ Cardinality(Newer(T, x)) >= MaxSegments
    BY OverBudgetIs
  <2>2. Newer(T, x) \subseteq Newer(S, x) /\ IsFiniteSet(Newer(S, x))
    BY <1>1, NewerIs, Fewer
  <2>3. /\ Cardinality(Newer(T, x)) \in Nat /\ Cardinality(Newer(S, x)) \in Nat
        /\ Cardinality(Newer(T, x)) <= Cardinality(Newer(S, x))
    BY <2>2, Fewer
  <2>4. Cardinality(Newer(S, x)) >= MaxSegments
    BY <2>1, <2>3, ConstantsAssumption
  <2>5. QED
    BY <1>1, <2>1, <2>4, OverBudgetIs
<1>3. QED
  BY <1>2 DEF T

\* With one segment more, one more at most is over the budget.
LEMMA CreationPushesOne ==
  ASSUME NEW S, NEW g \in Nat, S \subseteq Nat, IsFiniteSet(S), g \notin S
  PROVE  \E x : OverBudget(S \cup {g}) \subseteq OverBudget(S) \cup {x}
<1> USE ConstantsAssumption
<1> DEFINE N == S \cup {g}
           X == OverBudget(N) \ OverBudget(S)
<1>1. IsFiniteSet(N) /\ N \subseteq Nat /\ S \subseteq N /\ \A h \in N : h \in S \/ h = g
  BY FS_AddElement
<1> HIDE DEF N
<1>2. ASSUME NEW x
      PROVE  /\ IsFiniteSet(Newer(S, x)) /\ IsFiniteSet(Newer(N, x))
             /\ Cardinality(Newer(S, x)) \in Nat /\ Cardinality(Newer(N, x)) \in Nat
  BY <1>1, NewerIs, Fewer
<1>3. ASSUME NEW x \in X
      PROVE  /\ x \in N /\ x \in Nat
             /\ Cardinality(Newer(N, x)) >= MaxSegments
             /\ x \in S => ~(Cardinality(Newer(S, x)) >= MaxSegments)
  <2>1. x \in OverBudget(N) /\ x \notin OverBudget(S)
    OBVIOUS
  <2>2. QED
    BY <1>1, <2>1, OverBudgetIs
<1> HIDE DEF X
<1>4. ASSUME NEW x \in X, x \in S, ~(g > x)
      PROVE  FALSE
  <2>1. \A h : h \in Newer(N, x) <=> h \in Newer(S, x)
    BY ZenonT(60), <1>1, <1>4, NewerIs
  <2>2. Newer(N, x) = Newer(S, x)
    BY <2>1
  <2>3. QED
    BY <1>3, <1>4, <2>2
<1>5. ASSUME NEW x \in X, NEW y \in X, x < y
      PROVE  FALSE
  <2>1. x \in Nat /\ y \in Nat
    BY <1>3
  <2>2. CASE y = g
    <3>1. x \in S
      BY <1>1, <1>3, <1>5, <2>1, <2>2
    <3>2. Newer(N, y) \subseteq Newer(S, x)
      <4>1. ASSUME NEW h \in Newer(N, y) PROVE h \in Newer(S, x)
        <5>1. h \in N /\ h > y /\ h \in Nat
          BY <1>1, NewerIs
        <5>2. h \in S /\ h > x
          BY <1>1, <1>5, <2>1, <2>2, <5>1
        <5>3. QED
          BY <5>2, NewerIs
      <4>2. QED
        BY <4>1
    <3>3. Cardinality(Newer(N, y)) <= Cardinality(Newer(S, x))
      BY <1>2, <3>2, Fewer
    <3>4. QED
      BY <1>2, <1>3, <3>1, <3>3
  <2>3. CASE y # g
    <3>1. y \in S /\ g > y
      BY <1>1, <1>3, <1>4, <2>3
    <3>2. x \in S
      BY <1>1, <1>3, <1>5, <2>1, <3>1
    <3>3. Newer(N, y) \subseteq Newer(S, y) \cup {g}
      BY <1>1, NewerIs
    <3>4. Newer(S, y) \cup {y} \subseteq Newer(S, x) /\ y \notin Newer(S, y)
      <4>1. ASSUME NEW h \in Newer(S, y) PROVE h \in Newer(S, x)
        <5>1. h \in S /\ h > y /\ h \in Nat
          BY NewerIs
        <5>2. h > x
          BY <1>5, <2>1, <5>1
        <5>3. QED
          BY <5>1, <5>2, NewerIs
      <4>2. y > x /\ ~(y > y)
        BY <1>5, <2>1
      <4>3. QED
        BY <3>1, <4>1, <4>2, NewerIs
    <3>5. Cardinality(Newer(N, y)) <= Cardinality(Newer(S, y)) + 1
      BY <1>2, <3>3, OneMore
    <3>6. Cardinality(Newer(S, y) \cup {y}) = Cardinality(Newer(S, y)) + 1
      BY <1>2, <3>4, FS_AddElement
    <3>7. Cardinality(Newer(S, y) \cup {y}) <= Cardinality(Newer(S, x))
      BY <1>2, <3>4, Fewer
    <3>8. QED
      BY <1>2, <1>3, <3>2, <3>5, <3>6, <3>7
  <2>4. QED
    BY <2>2, <2>3
<1>6. \A x, y \in X : x = y
  BY <1>3, <1>5
<1>7. QED
  BY <1>6 DEF X, N

\* What a step does to the names in the directory.
LEMMA NamesStep ==
  ASSUME [Next]_vars
  PROVE  \/ UNCHANGED <<gen, linked>>
         \/ \E w \in Worker : CreateFirst(w) /\ CreateSegment(w, 1)
         \/ \E w \in Worker : Rotate(w) /\ CreateSegment(w, active[w] + 1)
         \/ UNCHANGED gen /\ \E g : Unlink(g)
<1>1. CASE UNCHANGED vars
  BY <1>1 DEF vars
<1>2. CASE Agent
  BY <1>2 DEF Agent, AgentShip, AgentRetire
<1>3. ASSUME NEW w \in Worker, Begin(w) \/ Step(w) \/ Failure(w)
      PROVE  \/ UNCHANGED <<gen, linked>>
             \/ CreateFirst(w) /\ CreateSegment(w, 1)
             \/ Rotate(w) /\ CreateSegment(w, active[w] + 1)
             \/ UNCHANGED gen /\ \E g : Unlink(g)
  BY <1>3 DEF Step, Failure, Begin, RefuseDocument, DirectoryFails, ScanActive, OpenActive,
       CreateFirst, Rotate, RemoveVictim, Stat, StatFails, OpenFails, BudgetScan, Measure,
       RemoveFails, Write, WriteFails, WriteShort, Kill, disk
<1>4. QED
  BY <1>1, <1>2, <1>3 DEF Next

\* Each step keeps FirstCreated.
LEMMA FirstCreatedStep ==
  ASSUME IInv, FirstCreated, [Next]_vars
  PROVE  FirstCreated'
<1> USE DEF IInv
<1>1. \A i \in Inode : gen[i] # 0 => gen'[i] = gen[i]
  BY FilesStep DEF FilesGood
<1>2. ASSUME NEW w \in Worker, CreateSegment(w, 1)
      PROVE  FirstCreated'
  BY <1>2 DEF FirstCreated, CreateSegment, Free, TypeOK, DiskOK
<1>3. ASSUME NEW w \in Worker, Rotate(w)
      PROVE  FirstCreated'
  <2>1. fd[w] \in Inode /\ gen[fd[w]] # 0
    BY <1>3 DEF Rotate, WorkersHold, Holding
  <2>2. PICK j \in Inode : gen[j] = 1
    BY <2>1 DEF FirstCreated
  <2>3. QED
    BY <1>1, <2>2 DEF FirstCreated
<1>4. CASE UNCHANGED gen
  BY <1>4 DEF FirstCreated
<1>5. QED
  BY <1>2, <1>3, <1>4, NamesStep

\* The directory stays finite.
LEMMA FiniteStep ==
  ASSUME IsFiniteSet(linked), [Next]_vars
  PROVE  IsFiniteSet(linked')
<1>1. ASSUME NEW w \in Worker, NEW g, CreateSegment(w, g)
      PROVE  IsFiniteSet(linked')
  <2>1. PICK i : linked' = linked \cup {i}
    BY <1>1 DEF CreateSegment
  <2>2. QED
    BY <2>1, FS_AddElement
<1>2. ASSUME NEW g, Unlink(g)
      PROVE  IsFiniteSet(linked')
  <2>1. linked' \subseteq linked
    BY <1>2 DEF Unlink
  <2>2. QED
    BY <2>1, Fewer
<1>3. QED
  BY <1>1, <1>2, NamesStep

\* The sets the budget counts are finite.
LEMMA SegmentsAreFinite ==
  ASSUME TypeOK, IsFiniteSet(linked)
  PROVE  /\ IsFiniteSet(Segments) /\ Segments \subseteq Nat
         /\ IsFiniteSet(Over) /\ IsFiniteSet(Enforcing) /\ Enforcing \subseteq Worker
<1> DEFINE f == [i \in linked |-> gen[i]]
<1>1. f \in [linked -> Segments] /\ \A g \in Segments : \E i \in linked : f[i] = g
  BY DEF Segments
<1>2. f \in Surjection(linked, Segments)
  BY <1>1, Fun_IsSurj
<1>3. IsFiniteSet(Segments)
  BY <1>2, FS_Surjection
<1>4. Over \subseteq Segments
  BY OverBudgetIs DEF Over
<1>5. Enforcing \subseteq Worker
  BY DEF Enforcing
<1>6. QED
  BY <1>3, <1>4, <1>5, SegmentsAreNat, ConstantsAssumption, Fewer

\* A name that goes away is no excess any more, and nothing becomes one.
LEMMA UnlinkLowersOver ==
  ASSUME TypeOK, IsFiniteSet(linked), UNCHANGED gen, NEW g, Unlink(g)
  PROVE  Over' \subseteq Over \ {g}
<1>1. Segments' = Segments \ {g}
  BY DEF Segments, Unlink
<1>2. OverBudget(Segments') \subseteq OverBudget(Segments) \ {g}
  BY <1>1, SegmentsAreFinite, RemovalRelieves
<1>3. (OverBudget(Segments))' = OverBudget(Segments')
  BY DEF OverBudget
<1>4. g # 1 /\ SecondFirst # {} => SecondFirst' # {}
  BY DEF SecondFirst, Unlink, TypeOK, DiskOK
<1>5. QED
  BY <1>2, <1>3, <1>4 DEF Over

\* What creating a generation does to the names.
LEMMA CreatedIs ==
  ASSUME TypeOK, FilesReached, NEW w \in Worker, NEW g \in Nat \ {0}, CreateSegment(w, g)
  PROVE  \E i \in Inode \ linked :
            /\ gen[i] = 0 /\ gen'[i] = g /\ linked' = linked \cup {i}
            /\ \A j \in Inode : j # i => gen'[j] = gen[j]
            /\ Segments' = Segments \cup {g} /\ g \notin Segments
<1>1. PICK i \in Free : gen' = [gen EXCEPT ![i] = g] /\ linked' = linked \cup {i}
  BY DEF CreateSegment
<1>2. i \in Inode \ linked /\ gen[i] = 0 /\ gen'[i] = g
  BY <1>1 DEF Free, FilesReached, TypeOK, DiskOK
<1>3. \A j \in Inode : j # i => gen'[j] = gen[j]
  BY <1>1 DEF TypeOK, DiskOK
<1>4. Segments' = Segments \cup {g}
  BY <1>1, <1>2, <1>3 DEF Segments, TypeOK, DiskOK
<1>5. QED
  BY <1>1, <1>2, <1>3, <1>4 DEF CreateSegment

\* A creation makes one more segment an excess at most.
LEMMA CreateRaisesOver ==
  ASSUME TypeOK, FilesReached, IsFiniteSet(linked),
         NEW w \in Worker, NEW g \in Nat \ {0}, CreateSegment(w, g)
  PROVE  \E x : Over' \subseteq Over \cup {x}
<1>1. PICK i \in Inode \ linked :
         /\ gen[i] = 0 /\ gen'[i] = g /\ linked' = linked \cup {i}
         /\ \A j \in Inode : j # i => gen'[j] = gen[j]
         /\ Segments' = Segments \cup {g} /\ g \notin Segments
  BY CreatedIs
<1>2. PICK x : OverBudget(Segments') \subseteq OverBudget(Segments) \cup {x}
  BY <1>1, SegmentsAreFinite, CreationPushesOne
<1>3. (OverBudget(Segments))' = OverBudget(Segments')
  BY DEF OverBudget
<1>4. SecondFirst # {} => SecondFirst' # {}
  <2>1. SUFFICES ASSUME NEW a \in linked, gen[a] = 1,
                        NEW b \in Inode \ linked, gen[b] = 1
                 PROVE  SecondFirst' # {}
    BY DEF SecondFirst
  <2>2. a # i /\ b # i /\ a \in Inode
    BY <1>1, <2>1 DEF TypeOK, DiskOK
  <2>3. a \in linked' /\ gen'[a] = 1 /\ b \notin linked' /\ gen'[b] = 1
    BY <1>1, <2>1, <2>2
  <2>4. a \in SecondFirst'
    BY <2>3 DEF SecondFirst
  <2>5. QED
    BY <2>4
<1>5. QED
  BY <1>2, <1>3, <1>4 DEF Over

\* A generation 1 is the only segment, or a second one, which is counted apart.
LEMMA FirstKeepsOver ==
  ASSUME TypeOK, FilesReached, FirstCreated, IsFiniteSet(linked),
         NEW w \in Worker, CreateSegment(w, 1)
  PROVE  Over' \subseteq Over
<1>1. PICK i \in Inode \ linked :
         /\ gen[i] = 0 /\ gen'[i] = 1 /\ linked' = linked \cup {i}
         /\ \A j \in Inode : j # i => gen'[j] = gen[j]
         /\ Segments' = Segments \cup {1} /\ 1 \notin Segments
  BY CreatedIs
<1>2. (OverBudget(Segments))' = OverBudget(Segments')
  BY DEF OverBudget
<1>3. CASE Segments = {}
  <2>1. Segments' = {1}
    BY <1>1, <1>3
  <2>2. \A h : h \notin Newer(Segments', 1)
    BY <2>1, NewerIs
  <2>3. Cardinality(Newer(Segments', 1)) = 0
    BY <2>2, FS_EmptySet
  <2>4. OverBudget(Segments') = {}
    BY <2>1, <2>3, OverBudgetIs, ConstantsAssumption
  <2>5. QED
    BY <1>2, <2>4 DEF Over
<1>4. CASE Segments # {}
  <2>1. PICK j \in Inode : gen[j] = 1
    BY <1>4 DEF FirstCreated, FilesReached, Segments, TypeOK, DiskOK
  <2>2. j # i /\ j \notin linked'
    BY <1>1, <2>1 DEF Segments
  <2>3. i \in SecondFirst'
    BY <1>1, <2>1, <2>2 DEF SecondFirst
  <2>4. SecondFirst = {}
    BY <1>1 DEF SecondFirst, Segments
  <2>5. ASSUME NEW x \in OverBudget(Segments'), x # 1
        PROVE  x \in OverBudget(Segments)
    <3>1. x \in Segments /\ Cardinality(Newer(Segments', x)) >= MaxSegments
      BY <1>1, <2>5, OverBudgetIs
    <3>2. x \in Nat /\ x # 0
      BY <3>1 DEF FilesReached, Segments, TypeOK, DiskOK
    <3>3. \A h : h \in Newer(Segments', x) <=> h \in Newer(Segments, x)
      BY <1>1, <3>2, NewerIs
    <3>4. Newer(Segments', x) = Newer(Segments, x)
      BY <3>3
    <3>5. QED
      BY <3>1, <3>4, OverBudgetIs
  <2>6. QED
    BY <1>2, <2>3, <2>4, <2>5 DEF Over
<1>5. QED
  BY <1>3, <1>4

\* The claims are kept as long as the excess does not grow and nobody who has
\* listed the directory gives up.
LEMMA ClaimsStay ==
  ASSUME TypeOK, IsFiniteSet(linked), Claims, Over' \subseteq Over, UNCHANGED faults,
         Enforcing' = Enforcing, Scanned' \subseteq Scanned,
         \A v \in Scanned' : victims'[v] = victims[v]
  PROVE  Claims'
<1> SUFFICES ASSUME NEW W \in SUBSET Scanned'
             PROVE  Cardinality(Over' \ Claimed(W)') <= Cardinality(Enforcing' \ W) + faults'
  BY DEF Claims
<1>1. Claimed(W)' = Claimed(W)
  BY DEF Claimed
<1>2. Over' \ Claimed(W)' \subseteq Over \ Claimed(W)
  BY <1>1
<1>3. Cardinality(Over \ Claimed(W)) <= Cardinality(Enforcing \ W) + faults
  BY DEF Claims
<1>4. IsFiniteSet(Over \ Claimed(W)) /\ IsFiniteSet(Enforcing \ W)
  BY SegmentsAreFinite, Fewer
<1>5. /\ Cardinality(Over' \ Claimed(W)') \in Nat /\ Cardinality(Over \ Claimed(W)) \in Nat
      /\ Cardinality(Over' \ Claimed(W)') <= Cardinality(Over \ Claimed(W))
  BY <1>2, <1>4, Fewer
<1>6. Cardinality(Enforcing \ W) \in Nat /\ faults \in Nat
  BY <1>4, FS_CardinalityType DEF TypeOK, CountersOK
<1>7. QED
  BY <1>3, <1>5, <1>6

\* One who creates a segment has it to make room for.
LEMMA ClaimsOfCreator ==
  ASSUME TypeOK, IsFiniteSet(linked), Claims, NEW w \in Worker, NEW x,
         Over' \subseteq Over \cup {x}, UNCHANGED <<faults, victims>>,
         w \notin Enforcing, Enforcing' = Enforcing \cup {w}, Scanned' = Scanned
  PROVE  Claims'
<1> SUFFICES ASSUME NEW W \in SUBSET Scanned'
             PROVE  Cardinality(Over' \ Claimed(W)') <= Cardinality(Enforcing' \ W) + faults'
  BY DEF Claims
<1>1. Claimed(W)' = Claimed(W)
  BY DEF Claimed
<1>2. Over' \ Claimed(W)' \subseteq (Over \ Claimed(W)) \cup {x}
  BY <1>1
<1>3. Cardinality(Over \ Claimed(W)) <= Cardinality(Enforcing \ W) + faults
  BY DEF Claims
<1>4. IsFiniteSet(Over \ Claimed(W)) /\ IsFiniteSet(Enforcing \ W)
  BY SegmentsAreFinite, Fewer
<1>5. /\ Cardinality(Over' \ Claimed(W)') \in Nat /\ Cardinality(Over \ Claimed(W)) \in Nat
      /\ Cardinality(Over' \ Claimed(W)') <= Cardinality(Over \ Claimed(W)) + 1
  BY <1>2, <1>4, OneMore
<1>6. Enforcing' \ W = (Enforcing \ W) \cup {w} /\ w \notin Enforcing \ W
  BY DEF Scanned, Enforcing
<1>7. Cardinality(Enforcing' \ W) = Cardinality(Enforcing \ W) + 1
  BY <1>4, <1>6, FS_AddElement
<1>8. Cardinality(Enforcing \ W) \in Nat /\ faults \in Nat
  BY <1>4, FS_CardinalityType DEF TypeOK, CountersOK
<1>9. QED
  BY <1>3, <1>5, <1>7, <1>8

\* One who lists the directory claims the whole excess.
LEMMA ClaimsOfLister ==
  ASSUME TypeOK, IsFiniteSet(linked), Claims, NEW w \in Worker, Over' = Over,
         UNCHANGED faults, Over \subseteq victims'[w],
         \A v \in Worker : v # w => victims'[v] = victims[v],
         \/ Enforcing' = Enforcing /\ Scanned' \subseteq Scanned \cup {w}
         \/ Over = {}
  PROVE  Claims'
<1> SUFFICES ASSUME NEW W \in SUBSET Scanned'
             PROVE  Cardinality(Over' \ Claimed(W)') <= Cardinality(Enforcing' \ W) + faults'
  BY DEF Claims
<1>1. faults \in Nat /\ IsFiniteSet(Enforcing')
  <2>1. Enforcing' \subseteq Worker
    BY DEF Enforcing
  <2>2. QED
    BY <2>1, ConstantsAssumption, Fewer DEF TypeOK, CountersOK
<1>2. Cardinality(Enforcing' \ W) \in Nat
  BY <1>1, Fewer
<1>3. CASE w \in W \/ Over = {}
  <2>1. Over' \ Claimed(W)' = {}
    BY <1>3 DEF Claimed
  <2>2. Cardinality(Over' \ Claimed(W)') = 0
    BY <2>1, FS_EmptySet
  <2>3. QED
    BY <1>1, <1>2, <2>2
<1>4. CASE w \notin W /\ Over # {}
  <2>1. W \subseteq Scanned /\ Enforcing' = Enforcing /\ W \subseteq Worker
    BY <1>4 DEF Scanned
  <2>2. Claimed(W)' = Claimed(W)
    BY <1>4, <2>1 DEF Claimed
  <2>3. QED
    BY <2>1, <2>2 DEF Claims
<1>5. QED
  BY <1>3, <1>4

\* One who removes a segment, or fails to, has that claim no longer, and is done with the last.
LEMMA ClaimsOfRemover ==
  ASSUME TypeOK, IsFiniteSet(linked), Claims, NEW w \in Scanned, NEW g \in victims[w],
         victims' = [victims EXCEPT ![w] = @ \ {g}],
         \/ Over' \subseteq Over \ {g} /\ faults' = faults
         \/ Over' \subseteq Over /\ faults' = faults + 1,
         IF victims[w] = {g} THEN Enforcing' = Enforcing \ {w} /\ Scanned' = Scanned \ {w}
                             ELSE Enforcing' = Enforcing /\ Scanned' = Scanned
  PROVE  Claims'
<1> SUFFICES ASSUME NEW W \in SUBSET Scanned'
             PROVE  Cardinality(Over' \ Claimed(W)') <= Cardinality(Enforcing' \ W) + faults'
  BY DEF Claims
<1> DEFINE V == IF victims[w] = {g} THEN W \cup {w} ELSE W
<1>1. w \in Worker /\ Scanned \subseteq Worker /\ victims \in [Worker -> SUBSET Nat]
  BY DEF Scanned, TypeOK, LocalOK
<1>2. V \in SUBSET Scanned /\ Enforcing' \ W = Enforcing \ V
  OBVIOUS
<1>3. Claimed(V) \subseteq Claimed(W)' \cup {g}
  BY <1>1, <1>2 DEF Claimed
<1> HIDE DEF V
<1>4. Cardinality(Over \ Claimed(V)) <= Cardinality(Enforcing \ V) + faults
  BY <1>2 DEF Claims
<1>5. IsFiniteSet(Over \ Claimed(V)) /\ IsFiniteSet(Enforcing \ V)
  BY SegmentsAreFinite, Fewer
<1>6. Cardinality(Enforcing \ V) \in Nat /\ faults \in Nat
  BY <1>5, FS_CardinalityType DEF TypeOK, CountersOK
<1>7. CASE Over' \subseteq Over \ {g} /\ faults' = faults
  <2>1. Over' \ Claimed(W)' \subseteq Over \ Claimed(V)
    BY <1>3, <1>7
  <2>2. /\ Cardinality(Over' \ Claimed(W)') \in Nat /\ Cardinality(Over \ Claimed(V)) \in Nat
        /\ Cardinality(Over' \ Claimed(W)') <= Cardinality(Over \ Claimed(V))
    BY <1>5, <2>1, Fewer
  <2>3. QED
    BY <1>2, <1>4, <1>6, <1>7, <2>2
<1>8. CASE Over' \subseteq Over /\ faults' = faults + 1
  <2>1. Over' \ Claimed(W)' \subseteq (Over \ Claimed(V)) \cup {g}
    BY <1>3, <1>8
  <2>2. PICK before : before = Over \ Claimed(V)
    OBVIOUS
  <2>3. PICK left : left = Over' \ Claimed(W)'
    OBVIOUS
  <2>4. IsFiniteSet(before) /\ left \subseteq before \cup {g}
    BY <1>5, <2>1, <2>2, <2>3
  <2>5. /\ Cardinality(left) \in Nat /\ Cardinality(before) \in Nat
        /\ Cardinality(left) <= Cardinality(before) + 1
    BY <2>4, OneMore
  <2>6. Cardinality(before) <= Cardinality(Enforcing \ V) + faults
    BY <1>4, <2>2
  <2>7. Cardinality(left) <= Cardinality(Enforcing \ V) + (faults + 1)
    BY <1>6, <2>5, <2>6
  <2>8. Cardinality(Enforcing' \ W) = Cardinality(Enforcing \ V)
    BY <1>2
  <2>9. QED
    BY <1>8, <2>3, <2>7, <2>8
<1>9. QED
  BY <1>7, <1>8

\* One who dies is one of the failures.
LEMMA ClaimsOfTheDead ==
  ASSUME TypeOK, IsFiniteSet(linked), Claims, NEW w \in Worker, Over' = Over,
         faults' = faults + 1, \A v \in Worker : v # w => victims'[v] = victims[v],
         Enforcing' = Enforcing \ {w}, Scanned' = Scanned \ {w}
  PROVE  Claims'
<1> SUFFICES ASSUME NEW W \in SUBSET Scanned'
             PROVE  Cardinality(Over' \ Claimed(W)') <= Cardinality(Enforcing' \ W) + faults'
  BY DEF Claims
<1>1. W \in SUBSET Scanned /\ w \notin W /\ W \subseteq Worker
  BY DEF Scanned
<1>2. Claimed(W)' = Claimed(W)
  BY <1>1 DEF Claimed
<1>3. Cardinality(Over \ Claimed(W)) <= Cardinality(Enforcing \ W) + faults
  BY <1>1 DEF Claims
<1>4. IsFiniteSet(Over \ Claimed(W)) /\ IsFiniteSet(Enforcing' \ W)
  BY SegmentsAreFinite, Fewer
<1>5. /\ Cardinality(Enforcing \ W) \in Nat /\ Cardinality(Enforcing' \ W) \in Nat
      /\ Cardinality(Enforcing \ W) <= Cardinality(Enforcing' \ W) + 1
  <2>1. Enforcing \ W \subseteq (Enforcing' \ W) \cup {w}
    OBVIOUS
  <2>2. QED
    BY <1>4, <2>1, OneMore
<1>6. Cardinality(Over \ Claimed(W)) \in Nat /\ faults \in Nat
  BY <1>4, FS_CardinalityType DEF TypeOK, CountersOK
<1>7. QED
  BY <1>2, <1>3, <1>5, <1>6

\* A set that differs from another at one element.
LEMMA ButForOne ==
  ASSUME NEW A, NEW B, NEW w, A \ {w} = B \ {w}
  PROVE  /\ (w \in A <=> w \in B) => B = A
         /\ w \in B => B = A \cup {w}
         /\ w \notin B => B = A \ {w}
<1>1. \A v : v # w => (v \in A <=> v \in B)
  OBVIOUS
<1>2. QED
  BY <1>1

\* Where a worker is about to enforce the budget, and where it has its list.
AtBudget == {"budget", "measure", "remove"}
WithList == {"measure", "remove"}

\* Where a step of one worker leaves the sets of those at work.
LEMMA MovesOf ==
  ASSUME TypeOK, NEW w \in Worker, Begin(w) \/ Step(w) \/ Failure(w)
  PROVE  /\ \A v \in Worker : v # w => victims'[v] = victims[v]
         /\ (pc[w] \in AtBudget <=> pc'[w] \in AtBudget) => Enforcing' = Enforcing
         /\ pc[w] \notin AtBudget => w \notin Enforcing
         /\ pc'[w] \in AtBudget => Enforcing' = Enforcing \cup {w}
         /\ pc'[w] \notin AtBudget => Enforcing' = Enforcing \ {w}
         /\ w \in Scanned <=> pc[w] \in WithList
         /\ (pc[w] \in WithList <=> pc'[w] \in WithList) => Scanned' = Scanned
         /\ pc'[w] \in WithList => Scanned' = Scanned \cup {w}
         /\ pc'[w] \notin WithList => Scanned' = Scanned \ {w}
<1>1. \A v \in Worker : v # w => victims'[v] = victims[v] /\ pc'[v] = pc[v]
  BY OthersKeep DEF Same
<1>2. /\ Enforcing \ {w} = Enforcing' \ {w}
      /\ w \in Enforcing <=> pc[w] \in AtBudget
      /\ w \in Enforcing' <=> pc'[w] \in AtBudget
  BY <1>1 DEF Enforcing, AtBudget
<1>3. /\ Scanned \ {w} = Scanned' \ {w}
      /\ w \in Scanned <=> pc[w] \in WithList
      /\ w \in Scanned' <=> pc'[w] \in WithList
  BY <1>1 DEF Scanned, WithList
<1>4. QED
  BY <1>1, <1>2, <1>3, ButForOne

\* Each step keeps the claims.
LEMMA ClaimsStep ==
  ASSUME Blind = {}, IInv, BudgetInv, [Next]_vars
  PROVE  Claims'
<1> USE DEF IInv, BudgetInv
<1>1. Scanned' \subseteq Worker
  BY DEF Scanned
<1>2. UNCHANGED <<gen, linked>> => Over' = Over
  BY DEF Over, OverBudget, Segments, SecondFirst
<1>3. CASE UNCHANGED <<gen, linked, pc, victims, faults>>
  BY <1>1, <1>2, <1>3, ClaimsStay DEF Scanned, Enforcing
<1>4. ASSUME NEW i \in Inode, AgentRetire(i)
      PROVE  Claims'
  <2>1. UNCHANGED gen /\ Unlink(gen[i]) /\ UNCHANGED <<pc, victims, faults>>
    BY <1>4 DEF AgentRetire, local
  <2>2. Over' \subseteq Over
    BY <2>1, UnlinkLowersOver
  <2>3. QED
    BY <2>1, <2>2, ClaimsStay DEF Scanned, Enforcing
<1>5. ASSUME NEW w \in Worker, Begin(w) \/ Step(w) \/ Failure(w)
      PROVE  Claims'
  <2>1. /\ \A v \in Worker : v # w => victims'[v] = victims[v]
        /\ (pc[w] \in AtBudget <=> pc'[w] \in AtBudget) => Enforcing' = Enforcing
        /\ pc[w] \notin AtBudget => w \notin Enforcing
        /\ pc'[w] \in AtBudget => Enforcing' = Enforcing \cup {w}
        /\ pc'[w] \notin AtBudget => Enforcing' = Enforcing \ {w}
        /\ w \in Scanned <=> pc[w] \in WithList
        /\ (pc[w] \in WithList <=> pc'[w] \in WithList) => Scanned' = Scanned
        /\ pc'[w] \in WithList => Scanned' = Scanned \cup {w}
        /\ pc'[w] \notin WithList => Scanned' = Scanned \ {w}
    BY <1>5, MovesOf
  <2> USE DEF TypeOK, LocalOK, Goto, AtBudget, WithList
  <2>2. ASSUME Over' \subseteq Over, UNCHANGED faults,
               pc[w] \notin AtBudget, pc'[w] \notin AtBudget
        PROVE  Claims'
    <3>1. Enforcing' = Enforcing /\ Scanned' = Scanned /\ w \notin Scanned
      BY <2>1, <2>2
    <3>2. \A v \in Scanned' : victims'[v] = victims[v]
      BY <1>1, <2>1, <3>1
    <3>3. QED
      BY <2>2, <3>1, <3>2, ClaimsStay
  <2>3. CASE Begin(w) \/ ScanActive(w) \/ OpenActive(w) \/ Stat(w) \/ Write(w)
    <3>1. UNCHANGED <<gen, linked, faults>>
      BY <2>3 DEF Begin, ScanActive, OpenActive, Stat, Write, disk
    <3>2. pc[w] \notin AtBudget /\ pc'[w] \notin AtBudget
      BY <2>3 DEF Begin, ScanActive, OpenActive, Opened, Stat, Write, Return
    <3>3. QED
      BY <1>2, <2>2, <3>1, <3>2
  <2>4. CASE RefuseDocument(w) \/ DirectoryFails(w) \/ StatFails(w) \/ OpenFails(w)
             \/ WriteFails(w) \/ WriteShort(w)
    <3>1. UNCHANGED <<gen, linked>> /\ faults' = faults + 1
      BY <2>4 DEF RefuseDocument, DirectoryFails, StatFails, OpenFails, WriteFails, WriteShort,
         Fault, disk
    <3>2. pc'[w] \notin AtBudget
      BY <2>4 DEF RefuseDocument, DirectoryFails, StatFails, OpenFails, WriteFails, WriteShort,
         Return
    <3>3. Enforcing' = Enforcing \ {w} /\ Scanned' = Scanned \ {w}
      BY <2>1, <3>2
    <3>4. QED
      BY <1>2, <2>1, <3>1, <3>3, ClaimsOfTheDead
  <2>5. CASE Kill(w)
    <3>1. UNCHANGED <<gen, linked>> /\ faults' = faults + 1 /\ pc'[w] = "idle"
      BY <2>5 DEF Kill, Fault, disk
    <3>2. Enforcing' = Enforcing \ {w} /\ Scanned' = Scanned \ {w}
      BY <2>1, <3>1
    <3>3. QED
      BY <1>2, <2>1, <3>1, <3>2, ClaimsOfTheDead
  <2>6. CASE CreateFirst(w)
    <3>1. Over' \subseteq Over /\ UNCHANGED faults
      BY <1>2, <2>6, FirstKeepsOver DEF CreateFirst, disk
    <3>2. pc[w] \notin AtBudget /\ pc'[w] \notin AtBudget
      BY <2>6 DEF CreateFirst, Opened
    <3>3. QED
      BY <2>2, <3>1, <3>2
  <2>7. CASE Rotate(w)
    <3>1. CASE CreateSegment(w, active[w] + 1) /\ Goto(w, "budget")
      <4>1. active[w] + 1 \in Nat \ {0}
        OBVIOUS
      <4>2. PICK x : Over' \subseteq Over \cup {x}
        BY <3>1, <4>1, CreateRaisesOver
      <4>3. pc[w] = "rotate" /\ pc'[w] = "budget" /\ UNCHANGED <<faults, victims>>
        BY <2>7, <3>1 DEF Rotate
      <4>4. w \notin Enforcing /\ Enforcing' = Enforcing \cup {w} /\ Scanned' = Scanned
        BY <2>1, <4>3
      <4>5. QED
        BY <4>2, <4>3, <4>4, ClaimsOfCreator
    <3>2. CASE Goto(w, "scan") /\ UNCHANGED disk
      BY <1>2, <2>2, <2>7, <3>2 DEF Rotate, disk
    <3>3. QED
      BY <2>7, <3>1, <3>2 DEF Rotate
  <2>8. CASE BudgetScan(w)
    <3>1. UNCHANGED <<gen, linked, faults>> /\ victims'[w] = OverBudget(Segments)
      BY <2>8 DEF BudgetScan, Seen, disk
    <3>2. Over \subseteq victims'[w]
      BY <3>1 DEF Over
    <3>3. \/ Enforcing' = Enforcing /\ Scanned' \subseteq Scanned \cup {w}
          \/ Over = {}
      <4>1. CASE OverBudget(Seen(w)) = {}
        BY <4>1 DEF Over, Seen
      <4>2. CASE OverBudget(Seen(w)) # {}
        <5>1. pc[w] = "budget" /\ pc'[w] = "measure"
          BY <2>8, <4>2 DEF BudgetScan
        <5>2. QED
          BY <2>1, <5>1
      <4>3. QED
        BY <4>1, <4>2
    <3>4. QED
      BY <1>2, <2>1, <3>1, <3>2, <3>3, ClaimsOfLister
  <2>9. CASE Measure(w)
    <3>1. UNCHANGED <<gen, linked, faults, victims>> /\ pc[w] = "measure" /\ pc'[w] = "remove"
      BY <2>9 DEF Measure, disk
    <3>2. Enforcing' = Enforcing /\ Scanned' = Scanned
      BY <2>1, <3>1
    <3>3. QED
      BY <1>2, <3>1, <3>2, ClaimsStay
  <2>10. ASSUME NEW g \in victims[w], pc[w] = "remove", Strike(w, g),
                \/ Over' \subseteq Over \ {g} /\ faults' = faults
                \/ Over' \subseteq Over /\ faults' = faults + 1
         PROVE  Claims'
    <3>1. victims' = [victims EXCEPT ![w] = @ \ {g}] /\ w \in Scanned
      BY <2>1, <2>10 DEF Strike
    <3>2. IF victims[w] = {g} THEN pc'[w] = "write" ELSE pc'[w] = "measure"
      BY <2>10 DEF Strike
    <3>3. IF victims[w] = {g} THEN Enforcing' = Enforcing \ {w} /\ Scanned' = Scanned \ {w}
                              ELSE Enforcing' = Enforcing /\ Scanned' = Scanned
      BY <2>1, <2>10, <3>2
    <3>4. QED
      BY <2>10, <3>1, <3>3, ClaimsOfRemover
  <2>11. CASE RemoveVictim(w)
    <3>1. PICK g \in victims[w] : /\ Strike(w, g)
                                  /\ \/ Unlink(g)
                                     \/ g \notin Segments /\ UNCHANGED linked
      BY <2>11 DEF RemoveVictim
    <3>2. UNCHANGED <<gen, faults>> /\ pc[w] = "remove"
      BY <2>11 DEF RemoveVictim
    <3>3. Over' \subseteq Over \ {g}
      <4>1. CASE Unlink(g)
        BY <3>2, <4>1, UnlinkLowersOver
      <4>2. CASE g \notin Segments /\ UNCHANGED linked
        BY <1>2, <3>2, <4>2, OverBudgetIs DEF Over
      <4>3. QED
        BY <3>1, <4>1, <4>2
    <3>4. QED
      BY <2>10, <3>1, <3>2, <3>3
  <2>12. CASE RemoveFails(w)
    <3>1. PICK g \in victims[w] : Strike(w, g)
      BY <2>12 DEF RemoveFails
    <3>2. UNCHANGED <<gen, linked>> /\ faults' = faults + 1 /\ pc[w] = "remove"
      BY <2>12 DEF RemoveFails, Fault, disk
    <3>3. QED
      BY <1>2, <2>10, <3>1, <3>2
  <2>13. QED
    BY <1>5, <2>3, <2>4, <2>5, <2>6, <2>7, <2>8, <2>9, <2>11, <2>12 DEF Step, Failure
<1>6. QED
  BY <1>3, <1>4, <1>5 DEF Next, Agent, AgentShip, vars, local

\* What the claims say of the number of segments.
LEMMA ClaimsBound ==
  ASSUME TypeOK, BudgetInv
  PROVE  SegmentBudget
<1> USE DEF BudgetInv
<1> DEFINE O == OverBudget(Segments)
<1>1. /\ IsFiniteSet(Segments) /\ Segments \subseteq Nat
      /\ IsFiniteSet(Over) /\ IsFiniteSet(Enforcing)
  BY SegmentsAreFinite
<1>2. /\ Cardinality(Segments) <= MaxSegments + Cardinality(O)
      /\ Cardinality(Segments) \in Nat /\ Cardinality(O) \in Nat
  BY <1>1, WithinBudget
<1>3. Cardinality(Over) <= Cardinality(Enforcing) + faults
  <2>1. Cardinality(Over \ Claimed({})) <= Cardinality(Enforcing \ {}) + faults
    BY DEF Claims
  <2>2. Over \ Claimed({}) = Over /\ Enforcing \ {} = Enforcing
    BY DEF Claimed
  <2>3. QED
    BY <2>1, <2>2
<1>4. IsFiniteSet(SecondFirst) /\ Cardinality(SecondFirst) \in Nat
  <2>1. SecondFirst \subseteq linked
    BY DEF SecondFirst
  <2>2. QED
    BY <2>1, Fewer
<1>5. Cardinality(O) <= Cardinality(Over) + Cardinality(SecondFirst)
  <2>1. CASE SecondFirst = {}
    BY <1>2, <1>4, <2>1 DEF Over
  <2>2. CASE SecondFirst # {}
    <3>1. Cardinality(SecondFirst) # 0
      BY <1>4, <2>2, FS_EmptySet
    <3>2. O \subseteq Over \cup {1}
      BY DEF Over
    <3> HIDE DEF O
    <3>3. Cardinality(O) <= Cardinality(Over) + 1 /\ Cardinality(Over) \in Nat
      BY <1>1, <3>2, OneMore
    <3>4. QED
      BY <1>2, <1>4, <3>1, <3>3
  <2>3. QED
    BY <2>1, <2>2
<1>6. Cardinality(Over) \in Nat /\ Cardinality(Enforcing) \in Nat /\ faults \in Nat
  BY <1>1, FS_CardinalityType DEF TypeOK, CountersOK
<1> HIDE DEF O
<1>7. QED
  BY <1>2, <1>3, <1>4, <1>5, <1>6, ConstantsAssumption DEF SegmentBudget

\* The directory exceeds MAX_SEGMENTS only by what somebody is about to remove, by a
\* removal that failed or whose process died, and by one second generation 1, when
\* the workers can list the directory.
THEOREM BudgetHolds == ASSUME Blind = {} PROVE Spec => []SegmentBudget
<1>1. Init => BudgetInv
  <2> SUFFICES ASSUME Init PROVE BudgetInv
    OBVIOUS
  <2>1. linked = {} /\ Scanned = {} /\ Enforcing = {} /\ Segments = {} /\ faults = 0
    BY DEF Init, Scanned, Enforcing, Segments
  <2>2. Over = {}
    BY <2>1 DEF Over, OverBudget
  <2>3. ASSUME NEW W \in SUBSET Scanned
        PROVE  Cardinality(Over \ Claimed(W)) <= Cardinality(Enforcing \ W) + faults
    <3>1. Over \ Claimed(W) = {} /\ Enforcing \ W = {}
      BY <2>1, <2>2
    <3>2. Cardinality(Over \ Claimed(W)) = 0 /\ Cardinality(Enforcing \ W) = 0
      BY <3>1, FS_EmptySet
    <3>3. QED
      BY <2>1, <3>2
  <2>4. QED
    BY <2>1, <2>3, FS_EmptySet DEF Init, BudgetInv, FirstCreated, Claims
<1>2. IInv /\ BudgetInv /\ [Next]_vars => BudgetInv'
  BY ClaimsStep, FirstCreatedStep, FiniteStep DEF BudgetInv
<1>3. IInv /\ BudgetInv => SegmentBudget
  BY ClaimsBound DEF IInv
<1>4. QED
  BY <1>1, <1>2, <1>3, Invariance, PTL DEF Spec
-----------------------------------------------------------------------------
(* The losses and who counted them.                                        *)

\* Which squares there are.
LEMMA SquaresAre ==
    ASSUME NEW S, NEW f
    PROVE  \A x : x \in Squares(S, f) <=> \E s \in S : x \in {s} \X (1 .. f[s])
  BY DEF Squares

\* A column of k squares.
LEMMA ColumnIs ==
    ASSUME NEW s, NEW k \in Nat
    PROVE  IsFiniteSet({s} \X (1 .. k)) /\ Cardinality({s} \X (1 .. k)) = k
<1>1. IsFiniteSet({s}) /\ Cardinality({s}) = 1
  BY FS_Singleton
<1>2. IsFiniteSet(1 .. k) /\ Cardinality(1 .. k) = k
  BY FS_Interval
<1>3. /\ IsFiniteSet({s} \X (1 .. k))
      /\ Cardinality({s} \X (1 .. k)) = Cardinality({s}) * Cardinality(1 .. k)
  BY <1>1, <1>2, FS_Product
<1>4. QED
  BY <1>1, <1>2, <1>3

\* Finitely many columns have finitely many squares.
LEMMA SumIsNat ==
    ASSUME NEW S, IsFiniteSet(S), NEW f, \A s \in S : f[s] \in Nat
    PROVE  IsFiniteSet(Squares(S, f)) /\ SumOver(S, f) \in Nat
<1> DEFINE Columns == {{s} \X (1 .. f[s]) : s \in S}
<1>1. IsFiniteSet(Columns)
  <2> DEFINE column == [s \in S |-> {s} \X (1 .. f[s])]
  <2>1. column \in Surjection(S, Columns)
    BY DEF Surjection
  <2>2. QED
    BY <2>1, FS_Surjection
<1>2. \A C \in Columns : IsFiniteSet(C)
  <2>1. \A s \in S : IsFiniteSet({s} \X (1 .. f[s]))
    BY ColumnIs
  <2>2. QED
    BY <2>1
<1> HIDE DEF Columns
<1>3. IsFiniteSet(UNION Columns)
  BY <1>1, <1>2, FS_UNION
<1>4. QED
  BY <1>3, FS_CardinalityType DEF Columns, Squares, SumOver

\* Sets with nothing in common.
LEMMA Apart ==
    ASSUME NEW A, NEW B, IsFiniteSet(A), IsFiniteSet(B), \A y \in A : y \notin B
    PROVE  Cardinality(A \cup B) = Cardinality(A) + Cardinality(B)
<1>1. A \cap B = {}
  OBVIOUS
<1>2. Cardinality(A \cap B) = 0
  BY <1>1, FS_EmptySet
<1>3. Cardinality(A) \in Nat /\ Cardinality(B) \in Nat
  BY FS_CardinalityType
<1>4. Cardinality(A \cup B) = Cardinality(A) + Cardinality(B) - Cardinality(A \cap B)
  BY FS_Union
<1>5. QED
  BY <1>2, <1>3, <1>4

\* One column more.
LEMMA SumMore ==
    ASSUME NEW S, IsFiniteSet(S), NEW x, x \notin S, NEW f, \A s \in S \cup {x} : f[s] \in Nat
    PROVE  SumOver(S \cup {x}, f) = SumOver(S, f) + f[x]
<1>1. IsFiniteSet(Squares(S, f)) /\ SumOver(S, f) \in Nat
  BY SumIsNat
<1>2. f[x] \in Nat /\ IsFiniteSet({x} \X (1 .. f[x])) /\ Cardinality({x} \X (1 .. f[x])) = f[x]
  BY ColumnIs
<1>3. \A y : y \in Squares(S \cup {x}, f) <=> y \in Squares(S, f) \/ y \in {x} \X (1 .. f[x])
  BY SquaresAre
<1>4. Squares(S \cup {x}, f) = Squares(S, f) \cup ({x} \X (1 .. f[x]))
  BY <1>3
<1>5. \A y \in Squares(S, f) : y \notin {x} \X (1 .. f[x])
  BY SquaresAre
<1>6. Cardinality(Squares(S, f) \cup ({x} \X (1 .. f[x])))
        = Cardinality(Squares(S, f)) + Cardinality({x} \X (1 .. f[x]))
  BY <1>1, <1>2, <1>5, Apart
<1>7. QED
  BY <1>2, <1>4, <1>6 DEF SumOver

\* The sum looks at f in S only.
LEMMA SumSame ==
    ASSUME NEW S, NEW f, NEW g, \A s \in S : f[s] = g[s]
    PROVE  SumOver(S, f) = SumOver(S, g)
<1>1. \A y : y \in Squares(S, f) <=> y \in Squares(S, g)
  BY SquaresAre
<1>2. Squares(S, f) = Squares(S, g)
  BY <1>1
<1>3. QED
  BY <1>2 DEF SumOver

\* An element apart.
LEMMA SumSplit ==
    ASSUME NEW S, IsFiniteSet(S), NEW x \in S, NEW f, \A s \in S : f[s] \in Nat
    PROVE  /\ SumOver(S, f) = SumOver(S \ {x}, f) + f[x]
           /\ SumOver(S \ {x}, f) \in Nat /\ f[x] \in Nat
<1>1. IsFiniteSet(S \ {x}) /\ S = (S \ {x}) \cup {x}
  BY FS_RemoveElement
<1>2. QED
  BY <1>1, SumMore, SumIsNat

\* f and g differ at one element.
LEMMA SumChanges ==
    ASSUME NEW S, IsFiniteSet(S), NEW x \in S, NEW f, NEW g,
           \A s \in S : f[s] \in Nat /\ g[s] \in Nat,
           \A s \in S : s # x => f[s] = g[s]
    PROVE  /\ SumOver(S, g) + f[x] = SumOver(S, f) + g[x]
           /\ SumOver(S, f) \in Nat /\ SumOver(S, g) \in Nat
<1>1. SumOver(S \ {x}, f) = SumOver(S \ {x}, g)
  BY SumSame
<1>2. SumOver(S, f) = SumOver(S \ {x}, f) + f[x] /\ SumOver(S \ {x}, f) \in Nat /\ f[x] \in Nat
  BY SumSplit
<1>3. SumOver(S, g) = SumOver(S \ {x}, g) + g[x] /\ g[x] \in Nat
  BY SumSplit
<1>4. QED
  BY <1>1, <1>2, <1>3, SumIsNat

\* Columns of no squares.
LEMMA SumOfZeros ==
    ASSUME NEW S, NEW f, \A s \in S : f[s] = 0
    PROVE  SumOver(S, f) = 0
<1>1. \A y : y \notin Squares(S, f)
  BY SquaresAre
<1>2. Squares(S, f) = {}
  BY <1>1
<1>3. QED
  BY <1>2, FS_EmptySet DEF SumOver

\* One process counts one drop more, whatever was dropped.
LEMMA DropCounted ==
    ASSUME TypeOK, NEW w \in Worker, NEW frames, CountDrop(w, frames)
    PROVE  Total(dropped') = Total(dropped) + 1 /\ Total(dropped) \in Nat
<1>1. dropped \in [Worker -> Nat] /\ dropped' = [dropped EXCEPT ![w] = @ + 1]
  BY DEF TypeOK, CountersOK, CountDrop
<1>2. PICK g : g = dropped'
  OBVIOUS
<1>3. /\ \A s \in Worker : dropped[s] \in Nat /\ g[s] \in Nat
      /\ \A s \in Worker : s # w => dropped[s] = g[s]
      /\ g[w] = dropped[w] + 1 /\ dropped[w] \in Nat
  BY <1>1, <1>2
<1>4. /\ SumOver(Worker, g) + dropped[w] = SumOver(Worker, dropped) + g[w]
      /\ SumOver(Worker, dropped) \in Nat /\ SumOver(Worker, g) \in Nat
  BY <1>3, SumChanges, ConstantsAssumption
<1>5. SumOver(Worker, g) = SumOver(Worker, dropped) + 1
  BY <1>3, <1>4
<1>6. QED
  BY <1>2, <1>4, <1>5 DEF Total

\* A process that dies takes its count with it.
LEMMA DropsBuried ==
    ASSUME TypeOK, NEW w \in Worker, dropped' = [dropped EXCEPT ![w] = 0]
    PROVE  /\ Total(dropped') + dropped[w] = Total(dropped)
           /\ Total(dropped) \in Nat /\ Total(dropped') \in Nat /\ dropped[w] \in Nat
<1>1. dropped \in [Worker -> Nat]
  BY DEF TypeOK, CountersOK
<1>2. PICK g : g = dropped'
  OBVIOUS
<1>3. /\ \A s \in Worker : dropped[s] \in Nat /\ g[s] \in Nat
      /\ \A s \in Worker : s # w => dropped[s] = g[s]
      /\ g[w] = 0 /\ dropped[w] \in Nat
  BY <1>1, <1>2
<1>4. /\ SumOver(Worker, g) + dropped[w] = SumOver(Worker, dropped) + g[w]
      /\ SumOver(Worker, dropped) \in Nat /\ SumOver(Worker, g) \in Nat
  BY <1>3, SumChanges, ConstantsAssumption
<1>5. SumOver(Worker, g) + dropped[w] = SumOver(Worker, dropped)
  BY <1>3, <1>4
<1>6. QED
  BY <1>2, <1>3, <1>4, <1>5 DEF Total

\* A document has failed once append is over and no file has its frame.
LEMMA FailedIs ==
    ASSUME TypeOK, ShippedWithin, NEW w, NEW k
    PROVE  FateOf(w, k) = "failed" <=>
               ~(k > appends[w]) /\ ~(k = appends[w] /\ pc[w] # "idle") /\ ~IsWritten(w, k)
<1>1. \A i \in Inode : \A p \in 1..shipped[i] : p \in DOMAIN entries[i]
  BY PlacesAre DEF ShippedWithin, TypeOK, DiskOK
<1>2. linked \subseteq Inode
  BY DEF TypeOK, DiskOK
<1>3. (IsShipped(w, k) => IsWritten(w, k)) /\ (IsLinked(w, k) => IsWritten(w, k))
  BY <1>1, <1>2 DEF IsShipped, IsLinked, IsWritten, Holds
<1>4. QED
  BY <1>3, FateIs

\* The same of the next state.
LEMMA NextFailedIs ==
    ASSUME TypeOK', ShippedWithin', NEW w, NEW k
    PROVE  FateOf(w, k)' = "failed" <=>
               ~(k > appends'[w]) /\ ~(k = appends'[w] /\ pc'[w] # "idle") /\ ~IsWritten(w, k)'
<1>1. \A i \in Inode : \A p \in 1..shipped'[i] : p \in DOMAIN entries'[i]
  BY DEF ShippedWithin, TypeOK, DiskOK
<1>2. linked' \subseteq Inode
  BY DEF TypeOK, DiskOK
<1>3. (IsShipped(w, k)' => IsWritten(w, k)') /\ (IsLinked(w, k)' => IsWritten(w, k)')
  BY <1>1, <1>2 DEF IsShipped, IsLinked, IsWritten, Holds
<1>4. QED
  BY <1>3, NextFateIs

\* There are finitely many documents.
LEMMA RefusedFinite == IsFiniteSet(Refused) /\ Cardinality(Refused) \in Nat
<1>1. IsFiniteSet(1..MaxAppends)
  BY FS_Interval, ConstantsAssumption
<1>2. IsFiniteSet(Worker \X (1..MaxAppends))
  BY <1>1, FS_Product, ConstantsAssumption
<1>3. Refused \subseteq Worker \X (1..MaxAppends)
  BY DEF Refused
<1>4. QED
  BY <1>2, <1>3, Fewer

\* A step that fails no document.
LEMMA RefusedSame ==
    ASSUME \A v \in Worker, j \in 1..MaxAppends :
               FateOf(v, j)' = "failed" <=> FateOf(v, j) = "failed"
    PROVE  Refused' = Refused
  BY DEF Refused

\* A step that fails one.
LEMMA RefusedMore ==
    ASSUME NEW w \in Worker, NEW k \in 1..MaxAppends,
           FateOf(w, k) # "failed", FateOf(w, k)' = "failed",
           \A v \in Worker, j \in 1..MaxAppends :
               v # w \/ j # k => (FateOf(v, j)' = "failed" <=> FateOf(v, j) = "failed")
    PROVE  Cardinality(Refused') = Cardinality(Refused) + 1
<1>1. <<w, k>> \notin Refused
  BY DEF Refused
<1>2. Refused' = Refused \cup {<<w, k>>}
  BY DEF Refused
<1>3. QED
  BY <1>1, <1>2, RefusedFinite, FS_AddElement

\* No file has the frame of a document before append is over.
LEMMA NotYetWritten ==
    ASSUME TypeOK, Numbered, NEW w \in Worker, NEW k \in Nat,
           k > appends[w] \/ (k = appends[w] /\ pc[w] # "idle")
    PROVE  ~IsWritten(w, k)
<1>1. ASSUME NEW i \in Inode, NEW p \in 1..Len(entries[i])
      PROVE  entries[i][p] # Frame(w, k)
  <2>1. entries[i][p].by = w =>
            /\ entries[i][p].seq <= appends[w]
            /\ pc[w] # "idle" => entries[i][p].seq < appends[w]
    BY DEF Numbered
  <2>2. Frame(w, k).by = w /\ Frame(w, k).seq = k
    BY DEF Frame
  <2>3. appends[w] \in Nat
    BY DEF TypeOK, CountersOK
  <2>4. QED
    BY <2>1, <2>2, <2>3
<1>2. QED
  BY <1>1, PlacesAre DEF IsWritten, Holds

\* While files stay as they are, so does what is written.
LEMMA WrittenSame ==
    ASSUME UNCHANGED entries, NEW v, NEW j
    PROVE  IsWritten(v, j)' <=> IsWritten(v, j)
  BY DEF IsWritten, Holds

\* A call that neither enters append nor leaves it, and writes nothing.
LEMMA NobodyRefused ==
    ASSUME TypeOK, TypeOK', ShippedWithin, ShippedWithin', UNCHANGED <<entries, appends>>,
           \A v \in Worker : pc'[v] # "idle" <=> pc[v] # "idle"
    PROVE  Refused' = Refused
<1>1. ASSUME NEW v \in Worker, NEW j \in 1..MaxAppends
      PROVE  FateOf(v, j)' = "failed" <=> FateOf(v, j) = "failed"
  BY FailedIs, NextFailedIs, WrittenSame
<1>2. QED
  BY <1>1, RefusedSame

\* A worker enters append with one more document, or is refused at the door.
LEMMA EnteringRefuses ==
    ASSUME TypeOK, TypeOK', Numbered, ShippedWithin, ShippedWithin', NEW w \in Worker,
           pc[w] = "idle", appends[w] < MaxAppends, appends' = [appends EXCEPT ![w] = @ + 1],
           UNCHANGED entries, \A v \in Worker : v # w => pc'[v] = pc[v]
    PROVE  IF pc'[w] = "idle" THEN Cardinality(Refused') = Cardinality(Refused) + 1
                              ELSE Refused' = Refused
<1>1. appends \in [Worker -> Nat] /\ appends[w] \in Nat /\ MaxAppends \in Nat
  BY ConstantsAssumption DEF TypeOK, CountersOK
<1> PICK k \in 1..MaxAppends : k = appends[w] + 1
  BY <1>1
<1>2. appends'[w] = k /\ (\A v \in Worker : v # w => appends'[v] = appends[v]) /\ k > appends[w]
  BY <1>1
<1>3. ASSUME NEW v \in Worker, NEW j \in 1..MaxAppends, v # w \/ j # k
      PROVE  FateOf(v, j)' = "failed" <=> FateOf(v, j) = "failed"
  <2>1. IsWritten(v, j)' <=> IsWritten(v, j)
    BY WrittenSame
  <2>2. /\ j > appends'[v] <=> j > appends[v]
        /\ j = appends'[v] /\ pc'[v] # "idle" <=> j = appends[v] /\ pc[v] # "idle"
    BY <1>1, <1>2, <1>3
  <2>3. QED
    BY <2>1, <2>2, FailedIs, NextFailedIs
<1>4. FateOf(w, k) # "failed" /\ ~IsWritten(w, k)'
  <2>1. ~IsWritten(w, k)
    BY <1>2, NotYetWritten
  <2>2. QED
    BY <1>2, <2>1, WrittenSame, FailedIs
<1>5. FateOf(w, k)' = "failed" <=> pc'[w] = "idle"
  <2>1. ~(k > k)
    OBVIOUS
  <2>2. QED
    BY <1>2, <1>4, <2>1, NextFailedIs
<1>6. CASE pc'[w] = "idle"
  BY <1>3, <1>4, <1>5, <1>6, RefusedMore
<1>7. CASE pc'[w] # "idle"
  <2>1. \A v \in Worker, j \in 1..MaxAppends :
            FateOf(v, j)' = "failed" <=> FateOf(v, j) = "failed"
    BY <1>3, <1>4, <1>5, <1>7
  <2>2. QED
    BY <1>7, <2>1, RefusedSame
<1>8. QED
  BY <1>6, <1>7

\* A worker leaves append: its document has failed unless its frame is whole in the file.
LEMMA LeavingRefuses ==
    ASSUME TypeOK, TypeOK', Numbered, ShippedWithin, ShippedWithin', NEW w \in Worker,
           pc[w] # "idle", pc' = [pc EXCEPT ![w] = "idle"], UNCHANGED appends,
           NEW k \in 1..MaxAppends, k = appends[w],
           \A v \in Worker, j \in 1..MaxAppends :
               v # w \/ j # k => (IsWritten(v, j)' <=> IsWritten(v, j))
    PROVE  IF IsWritten(w, k)' THEN Refused' = Refused
                               ELSE Cardinality(Refused') = Cardinality(Refused) + 1
<1>1. appends[w] \in Nat /\ pc'[w] = "idle" /\ (\A v \in Worker : v # w => pc'[v] = pc[v])
  BY DEF TypeOK, CountersOK, LocalOK
<1>2. ASSUME NEW v \in Worker, NEW j \in 1..MaxAppends, v # w \/ j # k
      PROVE  FateOf(v, j)' = "failed" <=> FateOf(v, j) = "failed"
  <2>1. IsWritten(v, j)' <=> IsWritten(v, j)
    BY <1>2
  <2>2. j = appends'[v] /\ pc'[v] # "idle" <=> j = appends[v] /\ pc[v] # "idle"
    BY <1>1, <1>2
  <2>3. QED
    BY <2>1, <2>2, FailedIs, NextFailedIs
<1>3. FateOf(w, k) # "failed"
  BY FailedIs
<1>4. FateOf(w, k)' = "failed" <=> ~IsWritten(w, k)'
  <2>1. ~(k > k)
    OBVIOUS
  <2>2. QED
    BY <1>1, <2>1, NextFailedIs
<1>5. CASE ~IsWritten(w, k)'
  BY <1>2, <1>3, <1>4, <1>5, RefusedMore
<1>6. CASE IsWritten(w, k)'
  <2>1. \A v \in Worker, j \in 1..MaxAppends :
            FateOf(v, j)' = "failed" <=> FateOf(v, j) = "failed"
    BY <1>2, <1>3, <1>4, <1>6
  <2>2. QED
    BY <1>6, <2>1, RefusedSame
<1>7. QED
  BY <1>5, <1>6

\* A torn frame is no document's.
LEMMA TornShowsNothing ==
    ASSUME TypeOK, TypeOK', NEW w \in Worker, Put(w, FALSE), fd[w] \in Inode, NEW v \in Worker, NEW j
    PROVE  IsWritten(v, j)' <=> IsWritten(v, j)
<1> PICK whole \in BOOLEAN : whole = FALSE
  OBVIOUS
<1>1. PICK torn : torn = [by |-> w, seq |-> appends[w], whole |-> whole]
  OBVIOUS
<1>2. torn # Frame(v, j)
  <2>1. Frame(v, j).whole = TRUE
    BY DEF Frame
  <2>2. torn.whole = FALSE
    BY <1>1
  <2>3. QED
    BY <2>1, <2>2, Zenon
<1>3. ASSUME NEW i \in Inode
      PROVE  Holds(i, v, j, DOMAIN entries[i])' <=> Holds(i, v, j, DOMAIN entries[i])
  <2>1. DOMAIN entries[i] = 1..Len(entries[i]) /\ DOMAIN entries'[i] = 1..Len(entries'[i])
    BY PlacesAre DEF TypeOK, DiskOK
  <2>2. Put(w, whole)
    OBVIOUS
  <2>3. \A p \in 1..Len(entries[i]) :
            p \in 1..Len(entries'[i]) /\ entries'[i][p] = entries[i][p]
    BY ZenonT(60), <2>2, EntryOldOrNew
  <2>4. \A p \in 1..Len(entries'[i]) : p \in 1..Len(entries[i]) \/ entries'[i][p] = torn
    BY <1>1, <2>2, EntryOldOrNew
  <2>5. QED
    BY <1>2, <2>1, <2>3, <2>4 DEF Holds
<1>4. QED
  BY <1>3 DEF IsWritten

\* The whole frame is the document's.
LEMMA WholeIsWritten ==
    ASSUME TypeOK, NEW w \in Worker, Put(w, TRUE), fd[w] \in Inode, NEW k, k = appends[w]
    PROVE  IsWritten(w, k)'
<1>1. PICK e : e = Frame(w, k)
  OBVIOUS
<1>2. e \in Entry
  BY <1>1 DEF Frame, Entry, TypeOK, CountersOK
<1>3. entries'[fd[w]] = Append(entries[fd[w]], e) /\ entries[fd[w]] \in Seq(Entry)
  BY <1>1 DEF Put, Frame, TypeOK, DiskOK
<1>4. PICK i \in Inode : i = fd[w]
  OBVIOUS
<1>5. Len(entries[i]) + 1 \in DOMAIN entries'[i] /\ entries'[i][Len(entries[i]) + 1] = e
  BY <1>2, <1>3, <1>4
<1>6. Holds(i, w, k, DOMAIN entries[i])'
  BY <1>1, <1>5 DEF Holds
<1>7. QED
  BY <1>6 DEF IsWritten

\* A creation takes away no name.
LEMMA CreateRemovesNone ==
    ASSUME TypeOK, FilesReached, NEW w, NEW g \in Nat \ {0}, CreateSegment(w, g)
    PROVE  Removed' = Removed
<1>1. PICK i \in Free : gen' = [gen EXCEPT ![i] = g] /\ linked' = linked \cup {i}
  BY DEF CreateSegment
<1>2. i \in Inode /\ gen[i] = 0 /\ gen \in [Inode -> Nat]
  BY DEF Free, TypeOK, DiskOK
<1>3. QED
  BY <1>1, <1>2 DEF Removed

\* A removal takes one: create_new gives a name to one file.
LEMMA UnlinkRemovesOne ==
    ASSUME TypeOK, FilesReached, OneFilePerName, UNCHANGED gen, NEW g \in Segments, Unlink(g),
           IsFiniteSet(Removed)
    PROVE  IsFiniteSet(Removed') /\ Cardinality(Removed') = Cardinality(Removed) + 1
<1>1. PICK i \in linked : gen[i] = g
  BY DEF Segments
<1>2. linked' = linked \ {i} /\ i \in Inode /\ gen[i] # 0
  BY <1>1 DEF Unlink, OneFilePerName, FilesReached, TypeOK, DiskOK
<1>3. i \notin Removed /\ Removed' = Removed \cup {i}
  BY <1>1, <1>2 DEF Removed
<1>4. QED
  BY <1>3, FS_AddElement

Uncounted == history.buried + history.silent + history.retired

\* What a step adds to it.
LEMMA UncountedMoves ==
    ASSUME TypeOK
    PROVE  /\ UNCHANGED history => Uncounted' = Uncounted
           /\ history' = [history EXCEPT !.silent = @ + 1] => Uncounted' = Uncounted + 1
           /\ history' = [history EXCEPT !.retired = @ + 1] => Uncounted' = Uncounted + 1
           /\ \A d : history' = [history EXCEPT !.unsized = @ \cup {d}] => Uncounted' = Uncounted
           /\ \A n \in Nat : history' = [history EXCEPT !.buried = @ + n, !.silent = @ + 1] =>
                  Uncounted' = Uncounted + n + 1
<1>1. history \in [buried : Nat, silent : Nat, retired : Nat, unsized : SUBSET (Worker \X Nat)]
  BY DEF TypeOK, CountersOK
<1>2. history.buried \in Nat /\ history.silent \in Nat /\ history.retired \in Nat
  BY <1>1
<1>3. UNCHANGED history => Uncounted' = Uncounted
  BY DEF Uncounted
<1>4. ASSUME history' = [history EXCEPT !.silent = @ + 1]
      PROVE  Uncounted' = Uncounted + 1
  <2>1. /\ history'.buried = history.buried /\ history'.silent = history.silent + 1
        /\ history'.retired = history.retired
    BY ONLY <1>1, <1>4
  <2>2. QED
    BY <1>2, <2>1 DEF Uncounted
<1>5. ASSUME history' = [history EXCEPT !.retired = @ + 1]
      PROVE  Uncounted' = Uncounted + 1
  <2>1. /\ history'.buried = history.buried /\ history'.silent = history.silent
        /\ history'.retired = history.retired + 1
    BY ONLY <1>1, <1>5
  <2>2. QED
    BY <1>2, <2>1 DEF Uncounted
<1>6. ASSUME NEW d, history' = [history EXCEPT !.unsized = @ \cup {d}]
      PROVE  Uncounted' = Uncounted
  <2>1. /\ history'.buried = history.buried /\ history'.silent = history.silent
        /\ history'.retired = history.retired
    BY ONLY <1>1, <1>6
  <2>2. QED
    BY <2>1 DEF Uncounted
<1>7. ASSUME NEW n \in Nat, history' = [history EXCEPT !.buried = @ + n, !.silent = @ + 1]
      PROVE  Uncounted' = Uncounted + n + 1
  <2>1. /\ history'.buried = history.buried + n /\ history'.silent = history.silent + 1
        /\ history'.retired = history.retired
    BY ONLY <1>1, <1>7
  <2>2. QED
    BY <1>2, <2>1 DEF Uncounted
<1>8. QED
  BY <1>3, <1>4, <1>5, <1>6, <1>7

\* What stands behind LossesAddUp.
Accounted == IsFiniteSet(Removed) /\ LossesAddUp

\* What is lost in a step is counted in it.
LEMMA AccountedStep ==
    ASSUME IInv, TypeOK', Numbered, ShippedWithin, ShippedWithin', Accounted, [Next]_vars
    PROVE  Accounted'
<1> DEFINE OneRefused == Cardinality(Refused') = Cardinality(Refused) + 1
           OneRemoved == IsFiniteSet(Removed') /\ Cardinality(Removed') = Cardinality(Removed) + 1
           OneCounted == Total(dropped') = Total(dropped) + 1
<1>1. TypeOK /\ FilesReached /\ OneFilePerName /\ WorkersHold
  BY DEF IInv
<1>2. history \in [buried : Nat, silent : Nat, retired : Nat, unsized : SUBSET (Worker \X Nat)]
  BY <1>1 DEF TypeOK, CountersOK
<1>3. /\ Uncounted \in Nat /\ Total(dropped) \in Nat
      /\ IsFiniteSet(Removed) /\ Cardinality(Removed) \in Nat /\ Cardinality(Refused) \in Nat
      /\ Total(dropped) + Uncounted = Cardinality(Refused) + Cardinality(Removed)
  <2>1. Total(dropped) \in Nat
    BY <1>1, SumIsNat, ConstantsAssumption DEF TypeOK, CountersOK, Total
  <2>2. Uncounted \in Nat /\ history.buried \in Nat /\ history.silent \in Nat /\ history.retired \in Nat
    BY <1>2 DEF Uncounted
  <2>3. Total(dropped) + history.buried + history.silent + history.retired
            = Cardinality(Refused) + Cardinality(Removed)
    BY DEF Accounted, LossesAddUp
  <2>4. QED
    BY <2>1, <2>2, <2>3, RefusedFinite, FS_CardinalityType DEF Accounted, Uncounted
<1>4. SUFFICES /\ IsFiniteSet(Removed')
               /\ Total(dropped') + Uncounted' = Cardinality(Refused') + Cardinality(Removed')
  <2>1. Total(dropped') \in Nat
    BY SumIsNat, ConstantsAssumption DEF TypeOK, CountersOK, Total
  <2>2. history'.buried \in Nat /\ history'.silent \in Nat /\ history'.retired \in Nat
    BY DEF TypeOK, CountersOK
  <2>3. Total(dropped)' = Total(dropped')
    BY DEF Total
  <2>4. QED
    BY <1>4, <2>1, <2>2, <2>3 DEF Accounted, LossesAddUp, Uncounted
<1>5. /\ UNCHANGED history => Uncounted' = Uncounted
      /\ history' = [history EXCEPT !.silent = @ + 1] => Uncounted' = Uncounted + 1
      /\ history' = [history EXCEPT !.retired = @ + 1] => Uncounted' = Uncounted + 1
      /\ \A d : history' = [history EXCEPT !.unsized = @ \cup {d}] => Uncounted' = Uncounted
      /\ \A n \in Nat : history' = [history EXCEPT !.buried = @ + n, !.silent = @ + 1] =>
             Uncounted' = Uncounted + n + 1
  BY <1>1, UncountedMoves, Zenon
<1>6. UNCHANGED <<gen, linked>> => Removed' = Removed
  BY DEF Removed
<1>7. ASSUME UNCHANGED <<entries, appends>>, \A v \in Worker : pc'[v] # "idle" <=> pc[v] # "idle"
      PROVE  Refused' = Refused
  BY <1>1, <1>7, NobodyRefused
<1>8. CASE UNCHANGED vars
  <2>1. Uncounted' = Uncounted
    BY <1>5, <1>8 DEF vars
  <2>2. UNCHANGED dropped /\ Removed' = Removed /\ Refused' = Refused
    BY <1>6, <1>7, <1>8 DEF vars
  <2>3. QED
    BY <1>3, <2>1, <2>2
<1>9. ASSUME NEW i \in Inode, AgentShip(i)
      PROVE  /\ IsFiniteSet(Removed')
             /\ Total(dropped') + Uncounted' = Cardinality(Refused') + Cardinality(Removed')
  <2>1. Uncounted' = Uncounted
    BY <1>5, <1>9 DEF AgentShip
  <2>2. UNCHANGED dropped /\ Removed' = Removed /\ Refused' = Refused
    BY <1>6, <1>7, <1>9 DEF AgentShip, counters
  <2>3. QED
    BY <1>3, <2>1, <2>2
<1>10. ASSUME NEW i \in Inode, AgentRetire(i)
       PROVE  /\ IsFiniteSet(Removed')
              /\ Total(dropped') + Uncounted' = Cardinality(Refused') + Cardinality(Removed')
  <2>1. Refused' = Refused /\ Uncounted' = Uncounted + 1 /\ UNCHANGED dropped
    <3>1. Uncounted' = Uncounted + 1
      BY <1>5, <1>10 DEF AgentRetire
    <3>2. QED
      BY <1>7, <1>10, <3>1 DEF AgentRetire, counters
  <2>2. OneRemoved
    <3>1. gen[i] \in Segments /\ Unlink(gen[i]) /\ UNCHANGED gen
      BY <1>10 DEF AgentRetire, Segments
    <3>2. QED
      BY <1>1, <1>3, <3>1, UnlinkRemovesOne
  <2>3. QED
    BY <1>3, <2>1, <2>2
<1>11. ASSUME NEW w \in Worker, Begin(w) \/ Step(w) \/ Failure(w)
       PROVE  /\ IsFiniteSet(Removed')
              /\ Total(dropped') + Uncounted' = Cardinality(Refused') + Cardinality(Removed')
  <2>1. \A v \in Worker : v # w => pc'[v] = pc[v]
    BY <1>1, <1>11, OthersKeep DEF Same
  <2>2. CASE Begin(w) \/ RefuseDocument(w) \/ DirectoryFails(w)
    <3>1. /\ pc[w] = "idle" /\ appends[w] < MaxAppends
          /\ appends' = [appends EXCEPT ![w] = @ + 1] /\ UNCHANGED <<gen, linked, entries>>
      BY <2>2 DEF Begin, RefuseDocument, DirectoryFails, disk
    <3>2. IF pc'[w] = "idle" THEN OneRefused ELSE Refused' = Refused
      BY <1>1, <2>1, <3>1, EnteringRefuses
    <3>3. CASE Begin(w)
      <4>1. pc'[w] = "scan" /\ UNCHANGED dropped
        BY <1>1, <3>3 DEF Begin, Goto, TypeOK, LocalOK, counters
      <4>2. Uncounted' = Uncounted
        BY <1>5, <3>3 DEF Begin
      <4>3. QED
        BY <1>3, <1>6, <3>1, <3>2, <4>1, <4>2
    <3>4. CASE RefuseDocument(w)
      <4>1. pc'[w] = "idle" /\ OneCounted
        BY <1>1, <3>1, <3>4, DropCounted DEF RefuseDocument
      <4>2. Uncounted' = Uncounted
        BY <1>5, <3>4 DEF RefuseDocument
      <4>3. QED
        BY <1>3, <1>6, <3>1, <3>2, <4>1, <4>2
    <3>5. CASE DirectoryFails(w)
      <4>1. pc'[w] = "idle" /\ UNCHANGED dropped
        BY <3>1, <3>5 DEF DirectoryFails, counters
      <4>2. Uncounted' = Uncounted + 1
        BY <1>5, <3>5 DEF DirectoryFails
      <4>3. QED
        BY <1>3, <1>6, <3>1, <3>2, <4>1, <4>2
    <3>6. QED
      BY <2>2, <3>3, <3>4, <3>5
  <2>3. CASE OpenFails(w) \/ Kill(w) \/ Write(w) \/ WriteFails(w) \/ WriteShort(w)
    <3>1. /\ pc[w] # "idle" /\ pc' = [pc EXCEPT ![w] = "idle"]
          /\ UNCHANGED <<appends, gen, linked>>
      BY <2>3 DEF OpenFails, Kill, Write, WriteFails, WriteShort, Return, Goto, disk
    <3> PICK k \in 1..MaxAppends : k = appends[w]
      BY <1>1, <3>1, ConstantsAssumption DEF Numbered, TypeOK, CountersOK
    <3>2. ASSUME \A v \in Worker, j \in 1..MaxAppends : IsWritten(v, j)' <=> IsWritten(v, j)
          PROVE  OneRefused
      <4>1. ~IsWritten(w, k)
        BY <1>1, <3>1, NotYetWritten
      <4>2. ~IsWritten(w, k)'
        BY <3>2, <4>1
      <4>3. QED
        BY <1>1, <3>1, <3>2, <4>2, LeavingRefuses
    <3>3. CASE OpenFails(w)
      <4>1. OneRefused
        BY <3>2, <3>3, WrittenSame DEF OpenFails, disk
      <4>2. Uncounted' = Uncounted + 1
        BY <1>5, <3>3 DEF OpenFails
      <4>3. UNCHANGED dropped
        BY <3>3 DEF OpenFails, counters
      <4>4. QED
        BY <1>3, <1>6, <3>1, <4>1, <4>2, <4>3
    <3>4. CASE Kill(w)
      <4>1. OneRefused
        BY <3>2, <3>4, WrittenSame DEF Kill, disk
      <4>2. /\ Total(dropped') + dropped[w] = Total(dropped)
            /\ Total(dropped) \in Nat /\ Total(dropped') \in Nat /\ dropped[w] \in Nat
        BY <1>1, <3>4, DropsBuried DEF Kill
      <4>3. Uncounted' = Uncounted + dropped[w] + 1
        BY <1>5, <3>4, <4>2 DEF Kill
      <4>4. QED
        BY <1>3, <1>6, <3>1, <4>1, <4>2, <4>3
    <3>5. CASE WriteFails(w)
      <4>1. OneRefused
        BY <3>2, <3>5, WrittenSame DEF WriteFails, disk
      <4>2. OneCounted
        BY <1>1, <3>5, DropCounted DEF WriteFails
      <4>3. Uncounted' = Uncounted
        BY <1>5, <3>5 DEF WriteFails
      <4>4. QED
        BY <1>3, <1>6, <3>1, <4>1, <4>2, <4>3
    <3>6. CASE WriteShort(w)
      <4>1. Put(w, FALSE) /\ fd[w] \in Inode
        BY <1>1, <3>6 DEF WriteShort, WorkersHold, Holding
      <4>2. OneRefused
        BY <1>1, <3>2, <4>1, TornShowsNothing
      <4>3. OneCounted
        BY <1>1, <3>6, DropCounted DEF WriteShort
      <4>4. Uncounted' = Uncounted
        BY <1>5, <3>6 DEF WriteShort
      <4>5. QED
        BY <1>3, <1>6, <3>1, <4>2, <4>3, <4>4
    <3>7. CASE Write(w)
      <4>1. Put(w, TRUE) /\ fd[w] \in Inode /\ UNCHANGED <<shipped, linked>>
        BY <1>1, <3>7 DEF Write, WorkersHold, Holding
      <4>2. IsWritten(w, k)'
        BY <1>1, <4>1, WholeIsWritten
      <4>3. \A v \in Worker, j \in 1..MaxAppends :
                v # w \/ j # k => (IsWritten(v, j)' <=> IsWritten(v, j))
        BY <1>1, <4>1, PutShowsItsFrame
      <4>4. Refused' = Refused
        BY <1>1, <3>1, <4>2, <4>3, LeavingRefuses
      <4>5. UNCHANGED dropped
        BY <3>7 DEF Write, counters
      <4>6. Uncounted' = Uncounted
        BY <1>5, <3>7 DEF Write
      <4>7. QED
        BY <1>3, <1>6, <3>1, <4>4, <4>5, <4>6
    <3>8. QED
      BY <2>3, <3>3, <3>4, <3>5, <3>6, <3>7
  <2>4. CASE \/ ScanActive(w) \/ OpenActive(w) \/ CreateFirst(w) \/ Stat(w) \/ StatFails(w)
             \/ Rotate(w) \/ BudgetScan(w) \/ Measure(w) \/ RemoveVictim(w) \/ RemoveFails(w)
    <3>1. Refused' = Refused
      <4>1. UNCHANGED <<entries, appends>>
        BY <2>4 DEF ScanActive, OpenActive, CreateFirst, CreateSegment, Stat, StatFails, Rotate,
           BudgetScan, Measure, RemoveVictim, RemoveFails, disk
      <4>2. pc[w] # "idle" /\ pc'[w] # "idle"
        BY <1>1, <2>4 DEF ScanActive, OpenActive, CreateFirst, Opened, Stat, StatFails, Rotate,
           BudgetScan, Measure, RemoveVictim, RemoveFails, Strike, Goto, TypeOK, LocalOK
      <4>3. QED
        BY <1>7, <2>1, <4>1, <4>2
    <3>2. CASE RemoveVictim(w) /\ UNCHANGED <<linked, counters>>
      <4>1. Uncounted' = Uncounted
        BY <1>5, <3>2 DEF RemoveVictim
      <4>2. UNCHANGED <<dropped, gen>>
        BY <3>2 DEF RemoveVictim, counters
      <4>3. QED
        BY <1>3, <1>6, <3>1, <3>2, <4>1, <4>2
    <3>3. ASSUME NEW g \in Segments, Unlink(g), CountDrop(w, measured[w]), RemoveVictim(w)
          PROVE  /\ IsFiniteSet(Removed')
                 /\ Total(dropped') + Uncounted' = Cardinality(Refused') + Cardinality(Removed')
      <4>1. OneCounted
        BY <1>1, <3>3, DropCounted
      <4>2. Uncounted' = Uncounted
        BY <1>5, <3>3 DEF RemoveVictim
      <4>3. OneRemoved
        BY <1>1, <1>3, <3>3, UnlinkRemovesOne DEF RemoveVictim
      <4>4. QED
        BY <1>3, <3>1, <4>1, <4>2, <4>3
    <3>4. ASSUME UNCHANGED dropped, Removed' = Removed, Uncounted' = Uncounted
          PROVE  /\ IsFiniteSet(Removed')
                 /\ Total(dropped') + Uncounted' = Cardinality(Refused') + Cardinality(Removed')
      BY <1>3, <3>1, <3>4
    <3>5. CASE \/ ScanActive(w) \/ OpenActive(w) \/ Stat(w) \/ StatFails(w) \/ BudgetScan(w)
               \/ Measure(w) \/ RemoveFails(w)
      <4>1. UNCHANGED <<dropped, gen, linked>>
        BY <3>5 DEF ScanActive, OpenActive, Stat, StatFails, BudgetScan, Measure, RemoveFails,
           counters, disk
      <4>2. Uncounted' = Uncounted
        BY <1>5, <3>5 DEF ScanActive, OpenActive, Stat, StatFails, BudgetScan, Measure, RemoveFails
      <4>3. QED
        BY <1>6, <3>4, <4>1, <4>2
    <3>6. CASE CreateFirst(w) \/ Rotate(w)
      <4>1. Uncounted' = Uncounted
        BY <1>5, <3>6 DEF CreateFirst, Rotate
      <4>2. active[w] + 1 \in Nat \ {0}
        BY <1>1 DEF TypeOK, LocalOK
      <4>3. Removed' = Removed
        BY <1>1, <1>6, <3>6, <4>2, CreateRemovesNone DEF CreateFirst, Rotate, disk
      <4>4. UNCHANGED dropped
        BY <3>6 DEF CreateFirst, Rotate, counters
      <4>5. QED
        BY <3>4, <4>1, <4>3, <4>4
    <3>7. QED
      BY <2>4, <3>2, <3>3, <3>5, <3>6 DEF RemoveVictim
  <2>5. QED
    BY <1>11, <2>2, <2>3, <2>4 DEF Step, Failure
<1>12. QED
  BY <1>8, <1>9, <1>10, <1>11 DEF Next, Agent

\* However workers race for the same victims, and whichever of them die, what is lost adds up:
\* the documents without a frame in any file and the files without a name are those in the
\* counts, and those that append loses silently or the agent removes.
THEOREM LossesAreAccounted == Spec => []LossesAddUp
<1>1. Init => Numbered /\ ShippedWithin /\ Accounted
  <2> SUFFICES ASSUME Init PROVE Numbered /\ ShippedWithin /\ Accounted
    OBVIOUS
  <2>1. Numbered /\ ShippedWithin
    <3>1. \A i \in Inode : Len(entries[i]) = 0 /\ shipped[i] = 0
      BY DEF Init
    <3>2. \A i \in Inode : 1..Len(entries[i]) = {}
      BY <3>1
    <3>3. QED
      BY <3>1, <3>2, ConstantsAssumption DEF Init, Numbered, ShippedWithin
  <2>2. Total(dropped) = 0
    <3>1. \A w \in Worker : dropped[w] = 0
      BY DEF Init
    <3>2. QED
      BY <3>1, SumOfZeros DEF Total
  <2>3. Refused = {}
    <3>1. ASSUME NEW w \in Worker, NEW k \in 1..MaxAppends
          PROVE  FateOf(w, k) = "unborn"
      BY ConstantsAssumption DEF Init, FateOf
    <3>2. QED
      BY <3>1 DEF Refused
  <2>4. Removed = {}
    BY DEF Init, Removed
  <2>5. Cardinality(Refused) = 0 /\ Cardinality(Removed) = 0 /\ IsFiniteSet(Removed)
    BY <2>3, <2>4, FS_EmptySet
  <2>6. QED
    BY <2>1, <2>2, <2>5 DEF Init, Accounted, LossesAddUp
<1>2. IInv /\ IInv' /\ Numbered /\ ShippedWithin /\ Accounted /\ [Next]_vars
          => Numbered' /\ ShippedWithin' /\ Accounted'
  <2>1. IInv' => TypeOK'
    BY DEF IInv
  <2>2. QED
    BY <2>1, NumberedStep, ShippedStep, AccountedStep
<1>3. Accounted => LossesAddUp
  BY DEF Accounted
<1>4. QED
  BY <1>1, <1>2, <1>3, Invariance, PTL DEF Spec

---------------------------------------------------------------------------
(* Sequences, and functions defined step by step                           *)

\* What holds of 0 and passes from each number to the next holds up to n.
LEMMA UpTo ==
  ASSUME NEW n \in Nat, NEW S, 0 \in S, \A i \in 1..n : i - 1 \in S => i \in S
  PROVE  0..n \subseteq S
<1> DEFINE Left == {i \in 0..n : i \notin S}
<1>1. SUFFICES ASSUME Left # {} PROVE FALSE
  OBVIOUS
<1>2. PICK i \in Left : \A j \in Left : i <= j
  <2>1. Left \subseteq Nat
    OBVIOUS
  <2> HIDE DEF Left
  <2> QED
    BY <1>1, <2>1, LeastNatural
<1>3. i \in 1..n /\ i - 1 \in 0..n
  OBVIOUS
<1>4. i - 1 \notin Left
  BY <1>2, <1>3
<1> QED
  BY <1>3, <1>4

\* f begins with base, and g leads from each of its values to the next, up to n.
Grows(f, base, g, n) == f = [i \in 0..n |-> IF i = 0 THEN base ELSE g[<<f[i - 1], i>>]]

\* There is such an f, and its values stay where g stays.
LEMMA Recursion ==
  ASSUME NEW n \in Nat, NEW B, NEW base \in B, NEW g \in [B \X (1..n) -> B]
  PROVE  \E f \in [0..n -> B] : Grows(f, base, g, n)
<1> DEFINE S == {m \in 0..n : \E f \in [0..m -> B] : Grows(f, base, g, m)}
<1>1. 0 \in S
  <2>1. PICK f : f = [i \in 0..0 |-> base]
    OBVIOUS
  <2>2. f = [i \in 0..0 |-> IF i = 0 THEN base ELSE g[<<f[i - 1], i>>]] /\ f \in [0..0 -> B]
    BY <2>1
  <2> QED
    BY <2>2 DEF Grows
<1>2. ASSUME NEW m \in 1..n, m - 1 \in S PROVE m \in S
  <2>1. PICK f \in [0..(m - 1) -> B] : Grows(f, base, g, m - 1)
    BY <1>2
  <2>2. f[m - 1] \in B /\ g[<<f[m - 1], m>>] \in B
    BY <2>1
  <2>3. PICK h : h = [i \in 0..m |-> IF i = m THEN g[<<f[m - 1], m>>] ELSE f[i]]
    OBVIOUS
  <2>4. \A i \in 0..(m - 1) : f[i] = IF i = 0 THEN base ELSE g[<<f[i - 1], i>>]
    BY <2>1 DEF Grows
  <2>5. \A i \in 0..m : h[i] \in B /\ h[i] = IF i = 0 THEN base ELSE g[<<h[i - 1], i>>]
    <3> SUFFICES ASSUME NEW i \in 0..m
                 PROVE  h[i] \in B /\ h[i] = IF i = 0 THEN base ELSE g[<<h[i - 1], i>>]
      OBVIOUS
    <3>1. CASE i = m
      BY <2>2, <2>3, <3>1
    <3>2. CASE i # m
      <4>1. i \in 0..(m - 1) /\ h[i] = f[i] /\ (i # 0 => h[i - 1] = f[i - 1])
        BY <2>3, <3>2
      <4> QED
        BY <2>1, <2>4, <4>1
    <3> QED
      BY <3>1, <3>2
  <2>6. h \in [0..m -> B] /\ Grows(h, base, g, m)
    BY <2>3, <2>5 DEF Grows
  <2> QED
    BY <2>6
<1>3. 0..n \subseteq S
  BY <1>1, <1>2, UpTo
<1> QED
  BY <1>3

\* A sequence is what its length and elements say.
LEMMA SeqIs ==
  ASSUME NEW S, NEW s \in Seq(S)
  PROVE  /\ Len(s) \in Nat /\ DOMAIN s = 1..Len(s) /\ s = [i \in 1..Len(s) |-> s[i]]
         /\ \A i \in 1..Len(s) : s[i] \in S
         /\ (s = <<>> <=> Len(s) = 0)
  OBVIOUS

\* A function on 1..n is a sequence.
LEMMA SeqFrom ==
  ASSUME NEW S, NEW n \in Nat, NEW s, DOMAIN s = 1..n, s = [i \in 1..n |-> s[i]],
         \A i \in 1..n : s[i] \in S
  PROVE  s \in Seq(S) /\ Len(s) = n
<1>1. s \in [1..n -> S]
  OBVIOUS
<1> QED
  BY <1>1

\* What two sequences hold, joined.
LEMMA JoinHolds ==
  ASSUME NEW S, NEW s \in Seq(S), NEW t \in Seq(S)
  PROVE  /\ s \o t \in Seq(S) /\ Len(s \o t) = Len(s) + Len(t)
         /\ \A x : x \in ToSet(s \o t) <=> x \in ToSet(s) \/ x \in ToSet(t)
<1>1. /\ s \o t \in Seq(S) /\ Len(s \o t) = Len(s) + Len(t)
      /\ Len(s) \in Nat /\ Len(t) \in Nat
      /\ DOMAIN s = 1..Len(s) /\ DOMAIN t = 1..Len(t) /\ DOMAIN (s \o t) = 1..Len(s \o t)
  OBVIOUS
<1>2. \A i \in 1..Len(s) : (s \o t)[i] = s[i]
  OBVIOUS
<1>3. \A i \in 1..Len(t) : (s \o t)[Len(s) + i] = t[i]
  OBVIOUS
<1>4. ASSUME NEW x \in ToSet(s) \cup ToSet(t) PROVE x \in ToSet(s \o t)
  <2>1. CASE x \in ToSet(s)
    <3>1. PICK i \in 1..Len(s) : x = s[i]
      BY <1>1, <2>1 DEF ToSet
    <3>2. i \in 1..Len(s \o t) /\ x = (s \o t)[i]
      BY <1>1, <1>2, <3>1
    <3> QED
      BY <1>1, <3>2 DEF ToSet
  <2>2. CASE x \in ToSet(t)
    <3>1. PICK i \in 1..Len(t) : x = t[i]
      BY <1>1, <2>2 DEF ToSet
    <3>2. Len(s) + i \in 1..Len(s \o t) /\ x = (s \o t)[Len(s) + i]
      BY <1>1, <1>3, <3>1
    <3> QED
      BY <1>1, <3>2 DEF ToSet
  <2> QED
    BY <2>1, <2>2
<1>5. ASSUME NEW x \in ToSet(s \o t) PROVE x \in ToSet(s) \/ x \in ToSet(t)
  <2>1. PICK i \in 1..(Len(s) + Len(t)) : x = (s \o t)[i]
    BY <1>1 DEF ToSet
  <2>2. CASE i <= Len(s)
    <3>1. i \in DOMAIN s /\ x = s[i]
      BY <1>1, <1>2, <2>1, <2>2
    <3> QED
      BY <3>1 DEF ToSet
  <2>3. CASE i > Len(s)
    <3>1. PICK j : j = i - Len(s)
      OBVIOUS
    <3>2. j \in 1..Len(t) /\ i = Len(s) + j
      BY <1>1, <2>3, <3>1
    <3>3. j \in DOMAIN t /\ x = t[j]
      BY <1>1, <1>3, <2>1, <3>2
    <3> QED
      BY <3>3 DEF ToSet
  <2> QED
    BY <1>1, <2>2, <2>3
<1> QED
  BY <1>1, <1>4, <1>5

---------------------------------------------------------------------------
(* Sequences of sequences, joined                                          *)

\* f joins the first sequences of ss, for each number of them.
Joins(f, ss) == f = [i \in 1..Len(ss) |-> IF i = 1 THEN ss[i] ELSE f[i - 1] \o ss[i]]

\* FlattenSeq, as the choice of such an f.
LEMMA FlattenAs ==
  ASSUME NEW ss, Len(ss) # 0
  PROVE  FlattenSeq(ss) = (CHOOSE f : Joins(f, ss))[Len(ss)]
BY DEF FlattenSeq, Joins

\* It joins one sequence after the other.
LEMMA FlattenSteps ==
  ASSUME NEW S, NEW ss \in Seq(Seq(S))
  PROVE  \E f \in [0..Len(ss) -> Seq(S)] :
            /\ f[0] = <<>>
            /\ \A i \in 1..Len(ss) : f[i] = f[i - 1] \o ss[i]
            /\ FlattenSeq(ss) = f[Len(ss)]
<1> DEFINE n == Len(ss)
<1>1. n \in Nat /\ \A i \in 1..n : ss[i] \in Seq(S)
  OBVIOUS
<1>2. CASE n = 0
  <2>1. ss = <<>> /\ FlattenSeq(ss) = <<>>
    BY <1>2 DEF FlattenSeq
  <2>2. [i \in 0..0 |-> <<>>] \in [0..n -> Seq(S)]
    BY <1>2
  <2>3. PICK f : f = [i \in 0..0 |-> <<>>]
    OBVIOUS
  <2>4. f \in [0..n -> Seq(S)] /\ f[0] = <<>> /\ f[n] = <<>>
    BY <1>2, <2>2, <2>3
  <2>5. \A i \in 1..n : FALSE
    BY <1>2
  <2> QED
    BY <2>1, <2>4, <2>5
<1>3. CASE n # 0
  <2>1. PICK g : g = [x \in Seq(S) \X (1..n) |-> x[1] \o ss[x[2]]]
    OBVIOUS
  <2>2. /\ g \in [Seq(S) \X (1..n) -> Seq(S)]
        /\ \A x \in Seq(S), i \in 1..n : g[<<x, i>>] = x \o ss[i]
    <3>1. \A x \in Seq(S), i \in 1..n : x \o ss[i] \in Seq(S)
      BY <1>1, ConcatProperties
    <3> QED
      BY <2>1, <3>1
  <2>3. <<>> \in Seq(S)
    OBVIOUS
  <2> HIDE DEF n
  <2>4. PICK f \in [0..n -> Seq(S)] : Grows(f, <<>>, g, n)
    BY <1>1, <2>2, <2>3, Recursion
  <2>5. f[0] = <<>> /\ \A i \in 1..n : f[i] = f[i - 1] \o ss[i]
    <3>1. \A i \in 0..n : f[i] = IF i = 0 THEN <<>> ELSE g[<<f[i - 1], i>>]
      BY <2>4 DEF Grows
    <3>2. \A i \in 1..n : i \in 0..n /\ i # 0 /\ i - 1 \in 0..n
      BY <1>1
    <3>3. 0 \in 0..n
      BY <1>1
    <3> QED
      BY <2>2, <2>4, <3>1, <3>2, <3>3
  <2>6. PICK h : h = [i \in 1..n |-> f[i]]
    OBVIOUS
  <2>7. \A i \in 1..n : h[i] = IF i = 1 THEN ss[i] ELSE h[i - 1] \o ss[i]
    <3> SUFFICES ASSUME NEW i \in 1..n
                 PROVE  h[i] = IF i = 1 THEN ss[i] ELSE h[i - 1] \o ss[i]
      OBVIOUS
    <3>1. CASE i = 1
      <4>1. i - 1 = 0
        BY <3>1
      <4>2. h[i] = <<>> \o ss[i]
        BY <2>5, <2>6, <4>1
      <4>3. ss[i] \in Seq(S)
        BY <1>1
      <4> QED
        BY <3>1, <4>2, <4>3, ConcatEmptySeq
    <3>2. CASE i # 1
      <4>1. i - 1 \in 1..n
        BY <1>1, <3>2
      <4>2. h[i - 1] = f[i - 1] /\ h[i] = f[i]
        BY <2>6, <4>1
      <4>3. f[i] = f[i - 1] \o ss[i]
        BY <2>5
      <4> QED
        BY <3>2, <4>2, <4>3
    <3> QED
      BY <3>1, <3>2
  <2>8. Joins(h, ss)
    BY <2>6, <2>7 DEF Joins, n
  <2>9. PICK k : k = CHOOSE j : Joins(j, ss)
    OBVIOUS
  <2>10. Joins(k, ss) /\ FlattenSeq(ss) = k[n]
    BY <1>3, <2>8, <2>9, FlattenAs DEF n
  <2>11. \A i \in 1..n : k[i] = IF i = 1 THEN ss[i] ELSE k[i - 1] \o ss[i]
    BY <2>10 DEF Joins, n
  <2> DEFINE A == {i \in 0..n : i # 0 => k[i] = f[i]}
  <2>12. 0 \in A
    BY <1>1
  <2>13. ASSUME NEW i \in 1..n, i - 1 \in A PROVE i \in A
    <3>1. CASE i = 1
      <4>1. i - 1 = 0
        BY <3>1
      <4>2. f[i] = <<>> \o ss[i] /\ k[i] = ss[i]
        BY <2>5, <2>11, <3>1, <4>1
      <4>3. ss[i] \in Seq(S)
        BY <1>1
      <4>4. k[i] = f[i]
        BY <4>2, <4>3, ConcatEmptySeq
      <4> QED
        BY <1>1, <4>4
    <3>2. CASE i # 1
      <4>1. k[i - 1] = f[i - 1]
        BY <1>1, <2>13, <3>2
      <4>2. f[i] = f[i - 1] \o ss[i] /\ k[i] = k[i - 1] \o ss[i]
        BY <2>5, <2>11, <3>2
      <4>3. k[i] = f[i]
        BY <4>1, <4>2
      <4> QED
        BY <1>1, <4>3
    <3> QED
      BY <3>1, <3>2
  <2>14. 0..n \subseteq A
    <3> HIDE DEF A
    <3> QED
      BY <1>1, <2>12, <2>13, UpTo
  <2>15. k[n] = f[n]
    BY <1>1, <1>3, <2>14
  <2> QED
    BY <2>5, <2>10, <2>15 DEF n
<1> QED
  BY <1>2, <1>3

\* What joined sequences hold.
LEMMA FlattenHolds ==
  ASSUME NEW S, NEW ss \in Seq(Seq(S))
  PROVE  /\ FlattenSeq(ss) \in Seq(S)
         /\ \A x : x \in ToSet(FlattenSeq(ss)) <=> \E i \in 1..Len(ss) : x \in ToSet(ss[i])
<1> DEFINE n == Len(ss)
<1>1. n \in Nat /\ \A i \in 1..n : ss[i] \in Seq(S)
  OBVIOUS
<1>2. PICK f \in [0..n -> Seq(S)] :
        /\ f[0] = <<>>
        /\ \A i \in 1..n : f[i] = f[i - 1] \o ss[i]
        /\ FlattenSeq(ss) = f[n]
  BY FlattenSteps
<1> DEFINE A == {m \in 0..n : \A x : x \in ToSet(f[m]) <=> \E i \in 1..m : x \in ToSet(ss[i])}
<1>3. 0 \in A
  BY <1>1, <1>2 DEF ToSet
<1>4. ASSUME NEW m \in 1..n, m - 1 \in A PROVE m \in A
  <2>1. f[m - 1] \in Seq(S) /\ ss[m] \in Seq(S) /\ f[m] = f[m - 1] \o ss[m]
    <3>1. m - 1 \in 0..n
      BY <1>1
    <3> QED
      BY <1>1, <1>2, <3>1
  <2>2. \A x : x \in ToSet(f[m]) <=> x \in ToSet(f[m - 1]) \/ x \in ToSet(ss[m])
    BY <2>1, JoinHolds
  <2>3. \A i : i \in 1..m <=> i \in 1..(m - 1) \/ i = m
    OBVIOUS
  <2> QED
    BY <1>4, <2>2, <2>3
<1>5. 0..n \subseteq A
  <2> HIDE DEF A, n
  <2> QED
    BY <1>1, <1>3, <1>4, UpTo
<1>6. n \in A /\ f[n] \in Seq(S)
  BY <1>1, <1>2, <1>5
<1> QED
  BY <1>2, <1>6

\* Pieces of t that follow one another, joined, are t.
LEMMA FlattenPieces ==
  ASSUME NEW S, NEW t \in Seq(S), NEW n \in Nat, NEW e \in [0..n -> 0..Len(t)],
         e[0] = 0, e[n] = Len(t), \A i \in 1..n : e[i - 1] <= e[i],
         NEW ss \in Seq(Seq(S)), Len(ss) = n,
         \A i \in 1..n : ss[i] = SubSeq(t, e[i - 1] + 1, e[i])
  PROVE  FlattenSeq(ss) = t
<1>1. PICK f \in [0..n -> Seq(S)] :
        /\ f[0] = <<>>
        /\ \A i \in 1..n : f[i] = f[i - 1] \o ss[i]
        /\ FlattenSeq(ss) = f[n]
  BY FlattenSteps
<1> DEFINE A == {m \in 0..n : f[m] = SubSeq(t, 1, e[m])}
<1>2. 0 \in A
  <2>1. SubSeq(t, 1, 0) = <<>>
    BY SubSeqEmpty
  <2> QED
    BY SMTT(60), <1>1, <2>1
<1>3. ASSUME NEW m \in 1..n, m - 1 \in A PROVE m \in A
  <2>1. e[m - 1] \in 0..Len(t) /\ e[m] \in 0..Len(t) /\ e[m - 1] <= e[m] /\ Len(t) \in Nat
    OBVIOUS
  <2>2. f[m] = SubSeq(t, 1, e[m - 1]) \o SubSeq(t, e[m - 1] + 1, e[m])
    BY <1>1, <1>3
  <2>3. PICK a, b : a = e[m - 1] /\ b = e[m]
    OBVIOUS
  <2>4. SubSeq(t, 1, a) \o SubSeq(t, a + 1, b) = SubSeq(t, 1, b)
    <3>1. 1 \in 1..(Len(t) + 1) /\ a \in (1 - 1)..Len(t) /\ b \in a..Len(t)
      BY <2>1, <2>3
    <3> QED
      BY <3>1, ConcatAdjacentSubSeq
  <2>5. f[m] = SubSeq(t, 1, e[m])
    BY <2>2, <2>3, <2>4
  <2> QED
    BY <2>5
<1>4. 0..n \subseteq A
  <2> HIDE DEF A
  <2> QED
    BY <1>2, <1>3, UpTo
<1>5. f[n] = SubSeq(t, 1, Len(t))
  BY <1>4
<1> QED
  BY <1>1, <1>5, SubSeqFull

---------------------------------------------------------------------------
(* Texts: their bytes, and where they are cut                              *)

\* The sum of a function on 1..n + 1 is that on 1..n and the last value.
LEMMA SumSteps ==
  ASSUME NEW n \in Nat, NEW f, DOMAIN f = 1..(n + 1), \A i \in 1..(n + 1) : f[i] \in Nat,
         NEW h, DOMAIN h = 1..n, \A i \in 1..n : h[i] = f[i]
  PROVE  SumOf(f) = SumOf(h) + f[n + 1] /\ SumOf(h) \in Nat /\ SumOf(f) \in Nat
<1>1. IsFiniteSet(1..n) /\ IsFiniteSet(1..(n + 1)) /\ n + 1 \notin 1..n
  BY FS_Interval
<1>2. 1..(n + 1) = 1..n \cup {n + 1}
  OBVIOUS
<1>3. SumOver(1..n \cup {n + 1}, f) = SumOver(1..n, f) + f[n + 1]
  <2>1. \A s \in 1..n \cup {n + 1} : f[s] \in Nat
    BY <1>2
  <2> QED
    BY <1>1, <2>1, SumMore
<1>4. SumOver(1..n, f) = SumOver(1..n, h)
  BY SumSame
<1>5. SumOver(1..n, h) \in Nat
  BY <1>1, SumIsNat
<1>6. SumOver(1..(n + 1), f) \in Nat
  BY <1>1, SumIsNat
<1> QED
  BY <1>2, <1>3, <1>4, <1>5, <1>6 DEF SumOf

\* The sum of the values of a function on 1..n.
LEMMA SumOfNats ==
  ASSUME NEW n \in Nat, NEW f, DOMAIN f = 1..n, \A i \in 1..n : f[i] \in Nat
  PROVE  SumOf(f) \in Nat /\ (n = 0 => SumOf(f) = 0)
<1>1. IsFiniteSet(1..n)
  BY FS_Interval
<1>2. SumOver(1..n, f) \in Nat
  BY <1>1, SumIsNat
<1>3. n = 0 => SumOver(1..n, f) = 0
  <2>1. \A y : y \notin Squares({}, f)
    BY SquaresAre
  <2>2. Squares({}, f) = {}
    BY <2>1
  <2>3. SumOver({}, f) = 0
    BY <2>2, FS_EmptySet DEF SumOver
  <2>4. n = 0 => 1..n = {}
    OBVIOUS
  <2> QED
    BY <2>3, <2>4
<1> QED
  BY <1>2, <1>3 DEF SumOf

\* Texts have bytes, the empty one none.
LEMMA BytesAre ==
  ASSUME NEW S, NEW t \in Seq(S)
  PROVE  Bytes(t) \in Nat /\ (t = <<>> => Bytes(t) = 0)
<1>1. Len(t) \in Nat /\ DOMAIN t = 1..Len(t) /\ (t = <<>> => Len(t) = 0)
  OBVIOUS
<1>2. PICK f : f = [i \in DOMAIN t |-> IF t[i] \in Wide THEN 2 ELSE 1]
  OBVIOUS
<1>3. DOMAIN f = 1..Len(t) /\ \A i \in 1..Len(t) : f[i] \in Nat
  BY <1>1, <1>2
<1>4. SumOf(f) \in Nat /\ (Len(t) = 0 => SumOf(f) = 0)
  BY <1>1, <1>3, SumOfNats
<1> QED
  BY <1>1, <1>2, <1>4 DEF Bytes

\* The first characters of a text.
LEMMA PrefixIs ==
  ASSUME NEW S, NEW t \in Seq(S), NEW n \in 0..Len(t)
  PROVE  /\ SubSeq(t, 1, n) \in Seq(S) /\ Len(SubSeq(t, 1, n)) = n
         /\ DOMAIN SubSeq(t, 1, n) = 1..n
         /\ \A i \in 1..n : SubSeq(t, 1, n)[i] = t[i]
<1>1. n \in Nat /\ 1 \in Int /\ n \in Int /\ \A i \in 1..n : t[i] \in S
  OBVIOUS
<1>2. /\ SubSeq(t, 1, n) \in Seq(S)
      /\ Len(SubSeq(t, 1, n)) = IF 1 <= n THEN n - 1 + 1 ELSE 0
      /\ \A i \in 1..(n - 1 + 1) : SubSeq(t, 1, n)[i] = t[1 + i - 1]
  BY <1>1, SubSeqProperties
<1>3. n - 1 + 1 = n /\ (IF 1 <= n THEN n - 1 + 1 ELSE 0) = n /\ \A i \in 1..n : 1 + i - 1 = i
  BY <1>1
<1> QED
  BY <1>2, <1>3

\* One more character is one or two bytes more.
LEMMA BytesMore ==
  ASSUME NEW S, NEW t \in Seq(S), NEW n \in Nat, n + 1 <= Len(t)
  PROVE  /\ Bytes(SubSeq(t, 1, n)) \in Nat
         /\ \E w \in {1, 2} : Bytes(SubSeq(t, 1, n + 1)) = Bytes(SubSeq(t, 1, n)) + w
<1>1. n \in 0..Len(t) /\ n + 1 \in 0..Len(t) /\ Len(t) \in Nat
  OBVIOUS
<1>2. PICK a, b : a = SubSeq(t, 1, n) /\ b = SubSeq(t, 1, n + 1)
  OBVIOUS
<1>3. /\ DOMAIN a = 1..n /\ DOMAIN b = 1..(n + 1)
      /\ \A i \in 1..n : a[i] = t[i]
      /\ \A i \in 1..(n + 1) : b[i] = t[i]
  BY <1>1, <1>2, PrefixIs
<1>4. PICK f, h : /\ f = [i \in DOMAIN b |-> IF b[i] \in Wide THEN 2 ELSE 1]
                  /\ h = [i \in DOMAIN a |-> IF a[i] \in Wide THEN 2 ELSE 1]
  OBVIOUS
<1>5. /\ DOMAIN f = 1..(n + 1) /\ \A i \in 1..(n + 1) : f[i] \in {1, 2}
      /\ DOMAIN h = 1..n /\ \A i \in 1..n : h[i] = f[i]
  BY <1>3, <1>4
<1>6. \A i \in 1..(n + 1) : f[i] \in Nat
  BY <1>5
<1>7. SumOf(f) = SumOf(h) + f[n + 1] /\ SumOf(h) \in Nat
  BY <1>5, <1>6, SumSteps
<1>8. Bytes(a) = SumOf(h) /\ Bytes(b) = SumOf(f)
  BY <1>4 DEF Bytes
<1>9. f[n + 1] \in {1, 2}
  BY <1>5
<1> QED
  BY <1>2, <1>7, <1>8, <1>9

\* A bounded set of naturals has a greatest element.
LEMMA Greatest ==
  ASSUME NEW n \in Nat, NEW T, T \subseteq 0..n, T # {}
  PROVE  Max(T) \in T /\ \A y \in T : y <= Max(T)
<1> DEFINE R == {n - y : y \in T}
<1>1. R \subseteq Nat /\ R # {}
  OBVIOUS
<1>2. PICK m \in R : \A r \in R : m <= r
  <2> HIDE DEF R
  <2> QED
    BY <1>1, LeastNatural
<1>3. PICK x \in T : m = n - x
  BY <1>2
<1>4. \A y \in T : n - x <= n - y
  BY <1>2, <1>3
<1>5. \A y \in T : x >= y
  <2> SUFFICES ASSUME NEW y \in T PROVE x >= y
    OBVIOUS
  <2>1. n - x <= n - y /\ x \in 0..n /\ y \in 0..n
    BY <1>4
  <2> QED
    BY <2>1
<1>6. Max(T) = CHOOSE z \in T : \A y \in T : z >= y
  BY DEF Max
<1>7. Max(T) \in T /\ \A y \in T : Max(T) >= y
  BY <1>5, <1>6
<1>8. \A y \in T : y \in 0..n
  OBVIOUS
<1> QED
  BY <1>7, <1>8

\* Cut takes the most that fits.
LEMMA CutIs ==
  ASSUME NEW S, NEW t \in Seq(S), NEW limit \in Nat
  PROVE  \E m \in 0..Len(t) :
            /\ Cut(t, limit) = SubSeq(t, 1, m)
            /\ Bytes(SubSeq(t, 1, m)) <= limit
            /\ \A k \in 0..Len(t) : Bytes(SubSeq(t, 1, k)) <= limit => k <= m
<1> DEFINE T == {n \in 0..Len(t) : Bytes(SubSeq(t, 1, n)) <= limit}
<1>1. Len(t) \in Nat /\ T \subseteq 0..Len(t)
  OBVIOUS
<1>2. 0 \in T
  <2>1. SubSeq(t, 1, 0) = <<>> /\ <<>> \in Seq(S)
    BY SubSeqEmpty
  <2>2. Bytes(SubSeq(t, 1, 0)) = 0
    BY <2>1, BytesAre
  <2> QED
    BY <1>1, <2>2
<1>3. Max(T) \in T /\ \A y \in T : y <= Max(T)
  <2> HIDE DEF T
  <2> QED
    BY <1>1, <1>2, Greatest
<1>4. Cut(t, limit) = SubSeq(t, 1, Max(T))
  BY DEF Cut
<1>5. PICK m : m = Max(T)
  OBVIOUS
<1>6. m \in 0..Len(t) /\ Bytes(SubSeq(t, 1, m)) <= limit /\ \A y \in T : y <= m
  BY <1>3, <1>5
<1>7. \A k \in 0..Len(t) : Bytes(SubSeq(t, 1, k)) <= limit => k <= m
  BY <1>6
<1> QED
  BY <1>4, <1>5, <1>6, <1>7

\* What a cut text tells of the text.
LEMMA CutTells ==
  ASSUME NEW S, NEW t \in Seq(S), NEW limit \in Nat
  PROVE  /\ Cut(t, limit) \in Seq(S) /\ Len(Cut(t, limit)) <= Len(t)
         /\ Cut(t, limit) = SubSeq(t, 1, Len(Cut(t, limit)))
         /\ IsPrefix(Cut(t, limit), t)
         /\ Bytes(Cut(t, limit)) <= limit
         /\ Bytes(t) <= limit => Cut(t, limit) = t
         /\ Cut(t, limit) # t => Bytes(Cut(t, limit)) >= limit - 1
         /\ t # <<>> /\ limit >= 2 => Len(Cut(t, limit)) >= 1
<1>1. PICK m \in 0..Len(t) :
        /\ Cut(t, limit) = SubSeq(t, 1, m)
        /\ Bytes(SubSeq(t, 1, m)) <= limit
        /\ \A k \in 0..Len(t) : Bytes(SubSeq(t, 1, k)) <= limit => k <= m
  BY CutIs
<1>2. PICK c : c = Cut(t, limit)
  OBVIOUS
<1>3. c = SubSeq(t, 1, m) /\ c \in Seq(S) /\ Len(c) = m
  BY <1>1, <1>2, PrefixIs
<1>4. Len(t) \in Nat /\ Len(t) \in 0..Len(t) /\ SubSeq(t, 1, Len(t)) = t
  BY SubSeqFull
<1>0. m \in Nat /\ m <= Len(t) /\ Len(t) \in Nat
  OBVIOUS
<1>5. IsPrefix(c, t)
  <2>1. SubSeq(c, 1, Len(c)) = c
    BY <1>3, SubSeqFull
  <2> QED
    BY <1>3, <2>1 DEF IsPrefix
<1>6. Bytes(t) <= limit => c = t
  <2>1. Bytes(t) <= limit => Len(t) <= m
    BY <1>1, <1>4
  <2>2. Len(t) <= m => m = Len(t)
    BY <1>0
  <2> QED
    BY <1>3, <1>4, <2>1, <2>2
<1>7. c # t => Bytes(c) >= limit - 1
  <2> SUFFICES ASSUME c # t PROVE Bytes(c) >= limit - 1
    OBVIOUS
  <2>1. m # Len(t)
    BY <1>3, <1>4
  <2>2. m \in Nat /\ m + 1 <= Len(t) /\ m + 1 \in 0..Len(t)
    BY <1>0, <2>1
  <2>3. PICK w \in {1, 2} : Bytes(SubSeq(t, 1, m + 1)) = Bytes(SubSeq(t, 1, m)) + w
    BY <2>2, BytesMore
  <2>4. Bytes(SubSeq(t, 1, m)) \in Nat
    BY <2>2, BytesMore
  <2>5. ~(Bytes(SubSeq(t, 1, m + 1)) <= limit)
    BY <1>1, <2>2
  <2> QED
    BY <1>3, <2>3, <2>4, <2>5
<1>8. t # <<>> /\ limit >= 2 => m >= 1
  <2> SUFFICES ASSUME t # <<>>, limit >= 2 PROVE m >= 1
    OBVIOUS
  <2>1. 0 + 1 <= Len(t) /\ 1 \in 0..Len(t)
    OBVIOUS
  <2>2. PICK w \in {1, 2} : Bytes(SubSeq(t, 1, 0 + 1)) = Bytes(SubSeq(t, 1, 0)) + w
    BY <2>1, BytesMore
  <2>3. SubSeq(t, 1, 0) = <<>> /\ <<>> \in Seq(S)
    BY SubSeqEmpty
  <2>4. Bytes(SubSeq(t, 1, 0)) = 0
    BY <2>3, BytesAre
  <2>5. Bytes(SubSeq(t, 1, 1)) <= limit
    BY <2>2, <2>4
  <2> QED
    BY <1>1, <2>1, <2>5
<1>9. /\ c \in Seq(S) /\ Len(c) <= Len(t) /\ c = SubSeq(t, 1, Len(c)) /\ Bytes(c) <= limit
      /\ t # <<>> /\ limit >= 2 => Len(c) >= 1
  BY <1>0, <1>1, <1>3, <1>8
<1> QED
  BY <1>2, <1>5, <1>6, <1>7, <1>9

---------------------------------------------------------------------------
(* The parts of a split text                                               *)

\* Where the next part ends, after one that ends at x.
NextEnd(t, x) == x + Len(Cut(SubSeq(t, x + 1, Len(t)), ChunkBytes))

\* e has the ends of the first parts.
Ends(e, t) == e = [k \in 0..Len(t) |-> IF k = 0 THEN 0 ELSE NextEnd(t, e[k - 1])]

\* Such an e, chosen.
TheEnds(t) == CHOOSE e : Ends(e, t)

\* Split goes from one end to the next.
LEMMA SplitAs ==
  ASSUME NEW t
  PROVE  Split(t) = [k \in 1..Min({j \in 0..Len(t) : TheEnds(t)[j] = Len(t)}) |->
                        SubSeq(t, TheEnds(t)[k - 1] + 1, TheEnds(t)[k])]
BY DEF Split, Ends, NextEnd, TheEnds

\* The next part is a piece of the text that is left, within the budget of a chunk.
LEMMA NextPart ==
  ASSUME NEW S, NEW t \in Seq(S), NEW x \in 0..Len(t)
  PROVE  /\ NextEnd(t, x) \in x..Len(t)
         /\ x # Len(t) => NextEnd(t, x) # x
         /\ Bytes(SubSeq(t, x + 1, NextEnd(t, x))) <= ChunkBytes
<1>1. Len(t) \in Nat /\ x \in Nat /\ x <= Len(t)
  OBVIOUS
<1>2. PICK r : r = SubSeq(t, x + 1, Len(t))
  OBVIOUS
<1>3. r \in Seq(S) /\ Len(r) = Len(t) - x /\ \A i \in 1..Len(r) : r[i] = t[x + i]
  <2>1. x + 1 \in Int /\ Len(t) \in Int /\ \A i \in (x + 1)..Len(t) : t[i] \in S
    BY <1>1
  <2>2. /\ r \in Seq(S)
        /\ Len(r) = IF x + 1 <= Len(t) THEN Len(t) - (x + 1) + 1 ELSE 0
        /\ \A i \in 1..(Len(t) - (x + 1) + 1) : r[i] = t[x + 1 + i - 1]
    BY <1>2, <2>1, SubSeqProperties
  <2>3. Len(r) = Len(t) - x /\ Len(t) - (x + 1) + 1 = Len(t) - x
    BY <1>1, <2>2
  <2>4. \A i \in 1..Len(r) : x + 1 + i - 1 = x + i
    BY <1>1
  <2> QED
    BY <2>2, <2>3, <2>4
<1>4. ChunkBytes \in Nat /\ ChunkBytes >= 2
  BY DocumentsConstants
<1>5. PICK c : c = Cut(r, ChunkBytes)
  OBVIOUS
<1>6. /\ c \in Seq(S) /\ Len(c) <= Len(r) /\ c = SubSeq(r, 1, Len(c)) /\ Bytes(c) <= ChunkBytes
      /\ r # <<>> => Len(c) >= 1
  BY <1>3, <1>4, <1>5, CutTells
<1>7. NextEnd(t, x) = x + Len(c)
  BY <1>2, <1>5 DEF NextEnd
<1>8. Len(c) \in Nat /\ Len(c) \in 0..Len(r)
  BY <1>3, <1>6
<1>9. x # Len(t) => r # <<>>
  BY <1>1, <1>3
<1>10. SubSeq(t, x + 1, x + Len(c)) = c
  <2>1. PICK b : b = SubSeq(t, x + 1, x + Len(c))
    OBVIOUS
  <2>2. /\ x + 1 \in Int /\ x + Len(c) \in Int
        /\ \A i \in (x + 1)..(x + Len(c)) : t[i] \in S
    BY <1>1, <1>3, <1>8
  <2>3. /\ b \in Seq(S)
        /\ Len(b) = IF x + 1 <= x + Len(c) THEN x + Len(c) - (x + 1) + 1 ELSE 0
        /\ \A i \in 1..(x + Len(c) - (x + 1) + 1) : b[i] = t[x + 1 + i - 1]
    BY <2>1, <2>2, SubSeqProperties
  <2>4. x + Len(c) - (x + 1) + 1 = Len(c)
    BY <1>1, <1>8
  <2>5. \A i \in 1..Len(c) : x + 1 + i - 1 = x + i
    BY <1>1, <1>8
  <2>6. Len(b) = Len(c) /\ \A i \in 1..Len(c) : b[i] = t[x + i]
    <3>1. PICK l : l = Len(c)
      OBVIOUS
    <3>2. x + 1 <= x + l <=> l >= 1
      BY <1>1, <1>8, <3>1
    <3>3. Len(b) = l
      BY <1>8, <2>3, <2>4, <3>1, <3>2
    <3>4. \A i \in 1..l : b[i] = t[x + 1 + i - 1]
      BY <2>3, <2>4, <3>1
    <3> QED
      BY <2>5, <3>1, <3>3, <3>4
  <2>7. \A i \in 1..Len(c) : c[i] = r[i]
    BY <1>3, <1>6, <1>8, PrefixIs
  <2>8. \A i \in 1..Len(c) : i \in 1..Len(r)
    BY <1>3, <1>8
  <2>9. \A i \in 1..Len(c) : b[i] = c[i]
    BY <1>3, <2>6, <2>7, <2>8
  <2> QED
    BY <1>6, <2>1, <2>3, <2>6, <2>9, SeqEqual
<1>11. x + Len(c) \in x..Len(t) /\ (x # Len(t) => x + Len(c) # x)
  BY <1>1, <1>3, <1>6, <1>8, <1>9
<1> QED
  BY <1>6, <1>7, <1>10, <1>11

\* The ends of the parts reach the end of the text.
LEMMA EndsAre ==
  ASSUME NEW S, NEW t \in Seq(S), NEW e, e = TheEnds(t)
  PROVE  /\ e \in [0..Len(t) -> 0..Len(t)] /\ e[0] = 0 /\ e[Len(t)] = Len(t)
         /\ \A k \in 1..Len(t) : e[k] = NextEnd(t, e[k - 1])
<1>1. PICK n : n = Len(t)
  OBVIOUS
<1>2. n \in Nat /\ 0 \in 0..n
  BY <1>1
<1>3. PICK g : g = [x \in (0..n) \X (1..n) |-> NextEnd(t, x[1])]
  OBVIOUS
<1>4. \A x \in 0..n : NextEnd(t, x) \in x..n /\ (x # n => NextEnd(t, x) # x)
  BY <1>1, NextPart
<1>5. \A x \in 0..n : NextEnd(t, x) \in 0..n
  BY <1>2, <1>4
<1>6. g \in [(0..n) \X (1..n) -> 0..n] /\ \A x \in 0..n, k \in 1..n : g[<<x, k>>] = NextEnd(t, x)
  BY <1>3, <1>5
<1>7. PICK f \in [0..n -> 0..n] : Grows(f, 0, g, n)
  BY <1>2, <1>6, Recursion
<1>8. \A k \in 0..n : f[k] = IF k = 0 THEN 0 ELSE NextEnd(t, f[k - 1])
  <2> SUFFICES ASSUME NEW k \in 0..n PROVE f[k] = IF k = 0 THEN 0 ELSE NextEnd(t, f[k - 1])
    OBVIOUS
  <2>1. f[k] = IF k = 0 THEN 0 ELSE g[<<f[k - 1], k>>]
    BY <1>7 DEF Grows
  <2>2. k # 0 => k - 1 \in 0..n /\ k \in 1..n
    BY <1>2
  <2> QED
    BY <1>6, <1>7, <2>1, <2>2
<1>9. Ends(f, t)
  BY <1>1, <1>7, <1>8 DEF Ends
<1>10. Ends(e, t)
  BY <1>9 DEF TheEnds
<1>11. e = [k \in 0..n |-> IF k = 0 THEN 0 ELSE NextEnd(t, e[k - 1])]
  BY <1>1, <1>10 DEF Ends
<1>12. DOMAIN e = 0..n /\ e[0] = 0 /\ \A k \in 1..n : e[k] = NextEnd(t, e[k - 1])
  <2>1. \A k \in 0..n : e[k] = IF k = 0 THEN 0 ELSE NextEnd(t, e[k - 1])
    BY <1>11
  <2>2. \A k \in 1..n : k \in 0..n /\ k # 0
    BY <1>2
  <2> QED
    BY <1>2, <1>11, <2>1, <2>2
<1> DEFINE A == {k \in 0..n : e[k] \in 0..n /\ (e[k] = n \/ e[k] >= k)}
<1>13. 0 \in A
  BY <1>2, <1>12
<1>14. ASSUME NEW k \in 1..n, k - 1 \in A PROVE k \in A
  <2>1. PICK x : x = e[k - 1]
    OBVIOUS
  <2>2. x \in 0..n /\ (x = n \/ x >= k - 1) /\ e[k] = NextEnd(t, x)
    BY <1>12, <1>14, <2>1
  <2>3. e[k] \in x..n /\ (x # n => e[k] # x)
    BY <1>4, <2>2
  <2>4. e[k] \in 0..n /\ (e[k] = n \/ e[k] >= k)
    <3>1. PICK y : y = e[k]
      OBVIOUS
    <3>2. y \in x..n /\ (x # n => y # x)
      BY <2>3, <3>1
    <3>3. y \in 0..n /\ (y = n \/ y >= k)
      BY <1>2, <2>2, <3>2
    <3> QED
      BY <3>1, <3>3
  <2> QED
    BY <1>2, <2>4
<1>15. 0..n \subseteq A
  <2> HIDE DEF A
  <2> QED
    BY <1>2, <1>13, <1>14, UpTo
<1>16. e[n] = n
  <2>1. n \in A
    BY <1>2, <1>15
  <2> QED
    BY <1>2, <2>1
<1>17. e \in [0..n -> 0..n]
  <2>1. \A k \in 0..n : e[k] \in 0..n
    BY <1>15
  <2> QED
    BY <1>11, <2>1
<1> QED
  BY <1>1, <1>12, <1>16, <1>17

\* The least of a set of naturals.
LEMMA Smallest ==
  ASSUME NEW T, T \subseteq Nat, T # {}
  PROVE  Min(T) \in T /\ \A y \in T : Min(T) <= y
<1>1. \E m \in T : \A y \in T : m <= y
  BY LeastNatural
<1> QED
  BY <1>1 DEF Min

\* The parts of a text are small, none is empty, and together they are the text.
LEMMA SplitIs ==
  ASSUME NEW S, NEW t \in Seq(S)
  PROVE  /\ Split(t) \in Seq(Seq(S))
         /\ \A i \in 1..Len(Split(t)) : Split(t)[i] # <<>> /\ Bytes(Split(t)[i]) <= ChunkBytes
         /\ FlattenSeq(Split(t)) = t
         /\ t # <<>> => Len(Split(t)) >= 1
<1>0. PICK e, n : n = Len(t) /\ e = TheEnds(t)
  OBVIOUS
<1>1. /\ n = Len(t) /\ e = TheEnds(t)
      /\ Split(t) = [k \in 1..Min({j \in 0..n : e[j] = n}) |-> SubSeq(t, e[k - 1] + 1, e[k])]
  BY <1>0, SplitAs
<1>2. /\ e \in [0..n -> 0..n] /\ e[0] = 0 /\ e[n] = n /\ n \in Nat
      /\ \A k \in 1..n : e[k] = NextEnd(t, e[k - 1])
  BY <1>1, EndsAre
<1> DEFINE T == {j \in 0..n : e[j] = n}
<1>3. PICK c : c = Min(T)
  OBVIOUS
<1>4. c \in 0..n /\ e[c] = n /\ \A j \in 0..n : e[j] = n => c <= j
  <2>1. T \subseteq Nat /\ n \in T
    BY <1>2
  <2>2. Min(T) \in T /\ \A y \in T : Min(T) <= y
    <3> HIDE DEF T
    <3> QED
      BY <2>1, Smallest
  <2> QED
    BY <1>3, <2>2
<1>5. PICK p : p = Split(t)
  OBVIOUS
<1>6. p = [k \in 1..c |-> SubSeq(t, e[k - 1] + 1, e[k])]
  BY <1>1, <1>3, <1>5
<1>7. \A k \in 1..c : /\ k \in 1..n /\ k - 1 \in 0..n /\ e[k - 1] \in 0..n /\ e[k - 1] # n
                      /\ e[k] \in 0..n /\ e[k - 1] < e[k]
                      /\ Bytes(SubSeq(t, e[k - 1] + 1, e[k])) <= ChunkBytes
  <2> SUFFICES ASSUME NEW k \in 1..c
               PROVE  /\ k \in 1..n /\ k - 1 \in 0..n /\ e[k - 1] \in 0..n /\ e[k - 1] # n
                      /\ e[k] \in 0..n /\ e[k - 1] < e[k]
                      /\ Bytes(SubSeq(t, e[k - 1] + 1, e[k])) <= ChunkBytes
    OBVIOUS
  <2>1. k \in 1..n /\ k \in 0..n /\ k - 1 \in 0..n /\ ~(c <= k - 1)
    BY <1>2, <1>4
  <2>2. PICK x, y : x = e[k - 1] /\ y = e[k]
    OBVIOUS
  <2>3. x \in 0..n /\ x # n /\ y \in 0..n /\ y = NextEnd(t, x)
    BY <1>2, <1>4, <2>1, <2>2
  <2>4. y \in x..n /\ y # x /\ Bytes(SubSeq(t, x + 1, y)) <= ChunkBytes
    BY <1>1, <2>3, NextPart
  <2>5. x < y
    BY <1>2, <2>3, <2>4
  <2> QED
    BY <2>1, <2>2, <2>3, <2>4, <2>5
<1>8. \A k \in 1..c : /\ SubSeq(t, e[k - 1] + 1, e[k]) \in Seq(S)
                      /\ SubSeq(t, e[k - 1] + 1, e[k]) # <<>>
  <2> SUFFICES ASSUME NEW k \in 1..c
               PROVE  /\ SubSeq(t, e[k - 1] + 1, e[k]) \in Seq(S)
                      /\ SubSeq(t, e[k - 1] + 1, e[k]) # <<>>
    OBVIOUS
  <2>1. PICK x, y : x = e[k - 1] /\ y = e[k]
    OBVIOUS
  <2>2. x \in 0..n /\ y \in 0..n /\ x < y
    BY <1>7, <2>1
  <2>3. x + 1 \in Int /\ y \in Int /\ \A i \in (x + 1)..y : i \in 1..n
    BY <1>2, <2>2
  <2>4. \A i \in (x + 1)..y : t[i] \in S
    BY <1>1, <2>3
  <2>5. /\ SubSeq(t, x + 1, y) \in Seq(S)
        /\ Len(SubSeq(t, x + 1, y)) = IF x + 1 <= y THEN y - (x + 1) + 1 ELSE 0
    BY <2>3, <2>4, SubSeqProperties
  <2>6. (IF x + 1 <= y THEN y - (x + 1) + 1 ELSE 0) >= 1
    BY <1>2, <2>2
  <2>7. PICK z : z = SubSeq(t, x + 1, y)
    OBVIOUS
  <2>8. z \in Seq(S) /\ Len(z) >= 1
    BY <2>5, <2>6, <2>7
  <2>9. z # <<>>
    BY <2>8
  <2> QED
    BY <2>1, <2>5, <2>7, <2>9
<1>9. c \in Nat /\ DOMAIN p = 1..c /\ \A k \in 1..c : p[k] = SubSeq(t, e[k - 1] + 1, e[k])
  <2>1. c \in Nat
    BY <1>2, <1>4
  <2> QED
    BY <1>6, <2>1
<1>10. p \in Seq(Seq(S)) /\ Len(p) = c
  <2>1. \A k \in 1..c : p[k] \in Seq(S)
    BY <1>8, <1>9
  <2>2. p = [k \in 1..c |-> p[k]]
    BY <1>6, <1>9
  <2> QED
    BY <1>9, <2>1, <2>2, SeqFrom
<1>11. FlattenSeq(p) = t
  <2>1. PICK d : d = [k \in 0..c |-> e[k]]
    OBVIOUS
  <2>2. \A k \in 0..c : k \in 0..n
    BY <1>2, <1>4
  <2>3. d \in [0..c -> 0..Len(t)]
    BY <1>1, <1>2, <2>1, <2>2
  <2>4. d[0] = 0 /\ d[c] = Len(t)
    BY <1>1, <1>2, <1>4, <1>9, <2>1
  <2>5. \A k \in 1..c : k - 1 \in 0..c /\ k \in 0..c
    BY <1>9
  <2>6. \A k \in 1..c : d[k - 1] = e[k - 1] /\ d[k] = e[k]
    BY <2>1, <2>5
  <2>7. \A k \in 1..c : d[k - 1] <= d[k]
    <3> SUFFICES ASSUME NEW k \in 1..c PROVE d[k - 1] <= d[k]
      OBVIOUS
    <3>1. PICK x, y : x = e[k - 1] /\ y = e[k]
      OBVIOUS
    <3>2. x \in 0..n /\ y \in 0..n /\ x < y
      BY <1>7, <3>1
    <3> QED
      BY <1>2, <2>6, <3>1, <3>2
  <2>8. \A k \in 1..c : p[k] = SubSeq(t, d[k - 1] + 1, d[k])
    BY <1>9, <2>6
  <2> QED
    BY ZenonT(60), <1>9, <1>10, <2>3, <2>4, <2>7, <2>8, FlattenPieces
<1>12. t # <<>> => c >= 1
  <2>1. t # <<>> => n # 0
    BY <1>1
  <2>2. n # 0 => c # 0
    BY <1>2, <1>4
  <2> QED
    BY <1>9, <2>1, <2>2
<1>13. \A i \in 1..c : p[i] # <<>> /\ Bytes(p[i]) <= ChunkBytes
  BY <1>7, <1>8, <1>9
<1> QED
  BY <1>5, <1>10, <1>11, <1>12, <1>13

---------------------------------------------------------------------------
(* The documents a list is packed into                                     *)

\* A piece of t, and the same with one element more.
LEMMA PieceIs ==
  ASSUME NEW S, NEW t \in Seq(S), NEW a \in Nat, NEW b \in Nat, a <= b, b <= Len(t)
  PROVE  /\ SubSeq(t, a + 1, b) \in Seq(S) /\ Len(SubSeq(t, a + 1, b)) = b - a
         /\ \A i \in 1..(b - a) : SubSeq(t, a + 1, b)[i] = t[a + i]
         /\ b + 1 <= Len(t) => SubSeq(t, a + 1, b + 1) = Append(SubSeq(t, a + 1, b), t[b + 1])
<1>1. Len(t) \in Nat /\ \A i \in 1..Len(t) : t[i] \in S
  OBVIOUS
<1>2. ASSUME NEW n \in Nat, a <= n, n <= Len(t)
      PROVE  /\ SubSeq(t, a + 1, n) \in Seq(S) /\ Len(SubSeq(t, a + 1, n)) = n - a
             /\ \A i \in 1..(n - a) : SubSeq(t, a + 1, n)[i] = t[a + i]
  <2>1. a + 1 \in Int /\ n \in Int /\ \A i \in (a + 1)..n : i \in 1..Len(t)
    BY <1>1, <1>2
  <2>2. \A i \in (a + 1)..n : t[i] \in S
    BY <1>1, <2>1
  <2>3. PICK p : p = SubSeq(t, a + 1, n)
    OBVIOUS
  <2>4. /\ p \in Seq(S)
        /\ Len(p) = IF a + 1 <= n THEN n - (a + 1) + 1 ELSE 0
        /\ \A i \in 1..(n - (a + 1) + 1) : p[i] = t[a + 1 + i - 1]
    BY <2>1, <2>2, <2>3, SubSeqProperties
  <2>5. Len(p) = n - a /\ n - (a + 1) + 1 = n - a
    BY <1>2, <2>4
  <2>6. \A i \in 1..(n - a) : a + 1 + i - 1 = a + i
    BY <1>2
  <2> QED
    BY <2>3, <2>4, <2>5, <2>6
<1>3. b + 1 <= Len(t) => SubSeq(t, a + 1, b + 1) = Append(SubSeq(t, a + 1, b), t[b + 1])
  <2> SUFFICES ASSUME b + 1 <= Len(t)
               PROVE  SubSeq(t, a + 1, b + 1) = Append(SubSeq(t, a + 1, b), t[b + 1])
    OBVIOUS
  <2>1. PICK p, q, x : p = SubSeq(t, a + 1, b) /\ q = SubSeq(t, a + 1, b + 1) /\ x = t[b + 1]
    OBVIOUS
  <2>2. p \in Seq(S) /\ Len(p) = b - a /\ \A i \in 1..(b - a) : p[i] = t[a + i]
    BY <1>2, <2>1
  <2>3. q \in Seq(S) /\ Len(q) = b + 1 - a /\ \A i \in 1..(b + 1 - a) : q[i] = t[a + i]
    <3>1. b + 1 \in Nat /\ a <= b + 1
      OBVIOUS
    <3> QED
      BY <1>2, <2>1, <3>1
  <2>4. x \in S
    BY <1>1, <2>1
  <2>5. PICK r : r = Append(p, x)
    OBVIOUS
  <2>6. /\ r \in Seq(S) /\ Len(r) = Len(p) + 1 /\ r[Len(p) + 1] = x
        /\ \A i \in 1..Len(p) : r[i] = p[i]
    BY <2>2, <2>4, <2>5, AppendProperties
  <2>7. Len(r) = Len(q) /\ Len(p) + 1 = b - a + 1 /\ b - a \in Nat
    BY <2>2, <2>3, <2>6
  <2>8. \A i \in 1..Len(r) : r[i] = q[i]
    <3> SUFFICES ASSUME NEW i \in 1..Len(r) PROVE r[i] = q[i]
      OBVIOUS
    <3>1. CASE i = b - a + 1
      <4>1. a + i = b + 1 /\ i \in 1..(b + 1 - a)
        BY <2>7, <3>1
      <4> QED
        BY <2>1, <2>3, <2>6, <2>7, <3>1, <4>1
    <3>2. CASE i # b - a + 1
      <4>1. i \in 1..(b - a) /\ i \in 1..(b + 1 - a) /\ i \in 1..Len(p)
        BY <2>2, <2>6, <2>7, <3>2
      <4> QED
        BY <2>2, <2>3, <2>6, <4>1
    <3> QED
      BY <3>1, <3>2
  <2>9. r = q
    BY <2>3, <2>6, <2>7, <2>8, SeqEqual
  <2> QED
    BY <2>1, <2>5, <2>9
<1> QED
  BY <1>2, <1>3

\* The sequences of c are pieces of the first m elements of t, cut at e.
Pieces(c, e, t, m) ==
  /\ e \in [0..Len(c) -> 0..m] /\ e[0] = 0 /\ e[Len(c)] = m
  /\ \A i \in 1..Len(c) : e[i - 1] < e[i] /\ c[i] = SubSeq(t, e[i - 1] + 1, e[i])

\* The next element alone.
LEMMA PutAlone ==
  ASSUME NEW S, NEW t \in Seq(S), NEW m \in 1..Len(t),
         NEW c \in Seq(Seq(S)), NEW e, Pieces(c, e, t, m - 1)
  PROVE  /\ Append(c, <<t[m]>>) \in Seq(Seq(S))
         /\ \E d : Pieces(Append(c, <<t[m]>>), d, t, m)
<1>1. m \in Nat /\ m - 1 \in Nat /\ m <= Len(t) /\ t[m] \in S /\ Len(c) \in Nat
  OBVIOUS
<1>2. PICK n, k : n = Len(c) + 1 /\ k = Append(c, <<t[m]>>)
  OBVIOUS
<1>3. <<t[m]>> \in Seq(S)
  BY <1>1
<1>4. /\ k \in Seq(Seq(S)) /\ Len(k) = n /\ k[n] = <<t[m]>>
      /\ \A i \in 1..Len(c) : k[i] = c[i]
  BY <1>2, <1>3, AppendProperties
<1>5. PICK d : d = [i \in 0..n |-> IF i = n THEN m ELSE e[i]]
  OBVIOUS
<1>6. /\ e \in [0..Len(c) -> 0..(m - 1)] /\ e[0] = 0 /\ e[Len(c)] = m - 1
      /\ \A i \in 1..Len(c) : e[i - 1] < e[i] /\ c[i] = SubSeq(t, e[i - 1] + 1, e[i])
  BY DEF Pieces
<1>7. \A i \in 0..Len(c) : i \in 0..n /\ i # n /\ d[i] = e[i] /\ d[i] \in 0..(m - 1)
  <2>1. \A i \in 0..Len(c) : i \in 0..n /\ i # n
    BY <1>1, <1>2
  <2>2. \A i \in 0..Len(c) : e[i] \in 0..(m - 1)
    BY <1>6
  <2> QED
    BY <1>5, <2>1, <2>2
<1>8. d[n] = m /\ n \in Nat
  BY <1>1, <1>2, <1>5
<1>9. \A i \in 0..n : i = n \/ i \in 0..Len(c)
  BY <1>1, <1>2
<1>10. \A i \in 0..n : d[i] \in 0..m
  <2>1. \A x \in 0..(m - 1) : x \in 0..m
    BY <1>1
  <2>2. m \in 0..m
    BY <1>1
  <2> QED
    BY <1>7, <1>8, <1>9, <2>1, <2>2
<1>11. d \in [0..n -> 0..m] /\ d[0] = 0
  BY <1>1, <1>2, <1>5, <1>6, <1>7, <1>10
<1>12. SubSeq(t, m, m) = <<t[m]>>
  <2>1. PICK a : a = m - 1
    OBVIOUS
  <2>2. a \in Nat /\ a + 1 = m /\ a <= a /\ a <= Len(t) /\ a + 1 <= Len(t)
    BY <1>1, <2>1
  <2>3. SubSeq(t, a + 1, a + 1) = Append(SubSeq(t, a + 1, a), t[a + 1])
    BY <2>2, PieceIs
  <2>4. SubSeq(t, a + 1, a) = <<>>
    BY <2>2, SubSeqEmpty
  <2>5. Append(<<>>, t[m]) = <<t[m]>>
    OBVIOUS
  <2> QED
    BY <2>2, <2>3, <2>4, <2>5
<1>13. ASSUME NEW i \in 1..n
       PROVE  d[i - 1] < d[i] /\ k[i] = SubSeq(t, d[i - 1] + 1, d[i])
  <2>1. CASE i = n
    <3>1. i - 1 = Len(c) /\ Len(c) \in 0..Len(c)
      BY <1>1, <1>2, <2>1
    <3>2. d[i - 1] = m - 1 /\ m - 1 + 1 = m
      BY <1>1, <1>6, <1>7, <3>1
    <3>3. m - 1 < m
      BY <1>1
    <3> QED
      BY <1>4, <1>8, <1>12, <2>1, <3>2, <3>3
  <2>2. CASE i # n
    <3>1. i \in 1..Len(c) /\ i \in 0..Len(c) /\ i - 1 \in 0..Len(c)
      BY <1>1, <1>2, <2>2
    <3>2. d[i - 1] = e[i - 1] /\ d[i] = e[i] /\ k[i] = c[i]
      BY <1>4, <1>7, <3>1
    <3> QED
      BY <1>6, <3>1, <3>2
  <2> QED
    BY <2>1, <2>2
<1>14. Pieces(k, d, t, m)
  BY <1>4, <1>8, <1>11, <1>13 DEF Pieces
<1> QED
  BY <1>2, <1>4, <1>14

\* The next element with the ones before it.
LEMMA PutLast ==
  ASSUME NEW S, NEW t \in Seq(S), NEW m \in 1..Len(t),
         NEW c \in Seq(Seq(S)), c # <<>>, NEW e, Pieces(c, e, t, m - 1)
  PROVE  /\ [c EXCEPT ![Len(c)] = Append(@, t[m])] \in Seq(Seq(S))
         /\ \E d : Pieces([c EXCEPT ![Len(c)] = Append(@, t[m])], d, t, m)
<1>1. m \in Nat /\ m - 1 \in Nat /\ m <= Len(t) /\ t[m] \in S
  OBVIOUS
<1>2. PICK n, k : n = Len(c) /\ k = [c EXCEPT ![n] = Append(@, t[m])]
  OBVIOUS
<1>3. n \in Nat /\ n >= 1 /\ n \in 1..n /\ DOMAIN c = 1..n /\ c[n] \in Seq(S)
  BY <1>2
<1>4. Append(c[n], t[m]) \in Seq(S)
  BY <1>1, <1>3, AppendProperties
<1>5. /\ k \in Seq(Seq(S)) /\ Len(k) = n
      /\ \A i \in 1..n : k[i] = IF i = n THEN Append(c[n], t[m]) ELSE c[i]
  <2>1. k = [c EXCEPT ![n] = Append(c[n], t[m])]
    BY <1>2
  <2> QED
    BY <1>2, <1>3, <1>4, <2>1, ExceptSeq
<1>6. PICK d : d = [i \in 0..n |-> IF i = n THEN m ELSE e[i]]
  OBVIOUS
<1>7. /\ e \in [0..n -> 0..(m - 1)] /\ e[0] = 0 /\ e[n] = m - 1
      /\ \A i \in 1..n : e[i - 1] < e[i] /\ c[i] = SubSeq(t, e[i - 1] + 1, e[i])
  BY <1>2 DEF Pieces
<1>8. d[n] = m /\ d[0] = 0 /\ \A i \in 0..n : i # n => d[i] = e[i]
  BY <1>3, <1>6, <1>7
<1>9. d \in [0..n -> 0..m]
  <2>1. \A i \in 0..n : e[i] \in 0..(m - 1)
    BY <1>7
  <2>2. \A x \in 0..(m - 1) : x \in 0..m
    BY <1>1
  <2>3. m \in 0..m
    BY <1>1
  <2> QED
    BY <1>6, <2>1, <2>2, <2>3
<1>10. ASSUME NEW i \in 1..n
       PROVE  d[i - 1] < d[i] /\ k[i] = SubSeq(t, d[i - 1] + 1, d[i])
  <2>1. i - 1 \in 0..n /\ i - 1 # n /\ i \in 0..n
    BY <1>3
  <2>2. PICK x, y : x = e[i - 1] /\ y = e[i]
    OBVIOUS
  <2>3. x \in 0..(m - 1) /\ y \in 0..(m - 1) /\ x < y /\ c[i] = SubSeq(t, x + 1, y)
    BY <1>7, <2>1, <2>2
  <2>4. d[i - 1] = x
    BY <1>8, <2>1, <2>2
  <2>5. CASE i = n
    <3>1. y = m - 1 /\ y \in Nat /\ x \in Nat /\ x <= y /\ y <= Len(t) /\ y + 1 <= Len(t) /\ y + 1 = m
      <4>1. y = m - 1
        BY <1>7, <2>2, <2>5
      <4> QED
        BY <1>1, <2>3, <4>1
    <3>2. SubSeq(t, x + 1, y + 1) = Append(SubSeq(t, x + 1, y), t[y + 1])
      BY <3>1, PieceIs
    <3>3. k[i] = SubSeq(t, x + 1, m)
      BY <1>5, <2>3, <2>5, <3>1, <3>2
    <3>4. x < m
      BY <1>1, <2>3
    <3> QED
      BY <1>8, <2>4, <2>5, <3>3, <3>4
  <2>6. CASE i # n
    <3>1. d[i] = y /\ k[i] = c[i]
      BY <1>5, <1>8, <2>1, <2>2, <2>6
    <3> QED
      BY <2>3, <2>4, <3>1
  <2> QED
    BY <2>5, <2>6
<1>11. Pieces(k, d, t, m)
  BY <1>5, <1>8, <1>9, <1>10 DEF Pieces
<1> QED
  BY <1>2, <1>5, <1>11

\* What an item weighs is added to the ones before it.
LEMMA WeightMore ==
  ASSUME NEW S, NEW p \in Seq(S), NEW x \in S, \A s \in S : s.size \in Nat \ {0}
  PROVE  /\ Weight(p) \in Nat /\ Weight(Append(p, x)) = Weight(p) + x.size
         /\ Weight(p) >= Len(p)
<1>1. Len(p) \in Nat /\ DOMAIN p = 1..Len(p)
  OBVIOUS
<1>2. PICK n, q : n = Len(p) /\ q = Append(p, x)
  OBVIOUS
<1>3. DOMAIN q = 1..(n + 1) /\ q[n + 1] = x /\ \A i \in 1..n : q[i] = p[i] /\ p[i] \in S
  BY <1>1, <1>2
<1>4. PICK f, h : /\ f = [i \in DOMAIN q |-> q[i].size]
                  /\ h = [i \in DOMAIN p |-> p[i].size]
  OBVIOUS
<1>5. /\ n \in Nat /\ DOMAIN f = 1..(n + 1) /\ DOMAIN h = 1..n
      /\ f[n + 1] = x.size /\ \A i \in 1..n : h[i] = f[i] /\ h[i] \in Nat \ {0}
  BY <1>1, <1>2, <1>3, <1>4
<1>6. \A i \in 1..(n + 1) : f[i] \in Nat
  <2>1. \A i \in 1..(n + 1) : i = n + 1 \/ i \in 1..n
    BY <1>5
  <2> QED
    BY <1>5, <2>1
<1>7. SumOf(f) = SumOf(h) + f[n + 1] /\ SumOf(h) \in Nat
  BY <1>5, <1>6, SumSteps
<1>8. Weight(p) = SumOf(h) /\ Weight(q) = SumOf(f)
  BY <1>4 DEF Weight
<1>9. SumOf(h) >= n
  <2> DEFINE Part(m) == [i \in 1..m |-> h[i]]
             A == {m \in 0..n : SumOf(Part(m)) \in Nat /\ SumOf(Part(m)) >= m}
  <2>1. 0 \in A
    <3>1. DOMAIN Part(0) = 1..0 /\ \A i \in 1..0 : Part(0)[i] \in Nat
      OBVIOUS
    <3>2. SumOf(Part(0)) \in Nat
      <4> HIDE DEF Part
      <4> QED
        BY <3>1, SumOfNats
    <3> QED
      BY <1>5, <3>2
  <2>2. ASSUME NEW m \in 1..n, m - 1 \in A PROVE m \in A
    <3>1. PICK k : k = m - 1
      OBVIOUS
    <3>2. k \in Nat /\ k + 1 = m /\ \A i \in 1..m : i \in 1..n
      BY <1>5, <3>1
    <3>3. /\ DOMAIN Part(m) = 1..(k + 1) /\ DOMAIN Part(k) = 1..k
          /\ \A i \in 1..(k + 1) : Part(m)[i] \in Nat \ {0}
          /\ \A i \in 1..k : Part(k)[i] = Part(m)[i]
      BY <1>5, <3>2
    <3>4. \A i \in 1..(k + 1) : Part(m)[i] \in Nat
      BY <3>3
    <3>5. Part(m)[k + 1] \in Nat \ {0}
      <4>1. k + 1 \in 1..(k + 1)
        BY <3>2
      <4> HIDE DEF Part
      <4> QED
        BY <3>3, <4>1
    <3>6. SumOf(Part(m)) = SumOf(Part(k)) + Part(m)[k + 1] /\ SumOf(Part(m)) \in Nat
      <4> HIDE DEF Part
      <4> QED
        BY <3>2, <3>3, <3>4, SumSteps
    <3>7. SumOf(Part(k)) \in Nat /\ SumOf(Part(k)) >= k
      BY <2>2, <3>1
    <3> HIDE DEF Part
    <3> QED
      BY <3>2, <3>5, <3>6, <3>7
  <2>3. 0..n \subseteq A
    <3> HIDE DEF A
    <3> QED
      BY <1>5, <2>1, <2>2, UpTo
  <2>4. Part(n) = h
    BY <1>4, <1>5
  <2>5. n \in A
    BY <1>5, <2>3
  <2> QED
    BY <2>4, <2>5
<1> QED
  BY <1>2, <1>5, <1>7, <1>8, <1>9

\* A chunk is within its budget, or holds one item only.
Fits(c, budget) == \A i \in 1..Len(c) : Weight(c[i]) <= budget \/ Len(c[i]) = 1

\* PutIn keeps the pieces and the budget.
LEMMA PutInIs ==
  ASSUME NEW S, NEW t \in Seq(S), NEW m \in 1..Len(t), NEW budget,
         NEW c \in Seq(Seq(S)), NEW e, Pieces(c, e, t, m - 1)
  PROVE  /\ PutIn(c, t[m], budget) \in Seq(Seq(S))
         /\ \E d : Pieces(PutIn(c, t[m], budget), d, t, m)
         /\ (\A s \in S : s.size \in Nat \ {0}) /\ Fits(c, budget)
               => Fits(PutIn(c, t[m], budget), budget)
<1>1. PICK x : x = t[m]
  OBVIOUS
<1>2. x \in S /\ Len(c) \in Nat
  BY <1>1
<1>3. CASE c # <<>> /\ Weight(Last(c)) + x.size <= budget
  <2>1. PutIn(c, x, budget) = [c EXCEPT ![Len(c)] = Append(@, x)]
    BY <1>3 DEF PutIn
  <2>2. Len(c) \in 1..Len(c) /\ c[Len(c)] \in Seq(S)
    BY <1>2, <1>3
  <2>3. PICK l : l = Append(c[Len(c)], x)
    OBVIOUS
  <2>4. l \in Seq(S)
    BY <1>2, <2>2, <2>3, AppendProperties
  <2>5. PICK k : k = [c EXCEPT ![Len(c)] = Append(@, x)]
    OBVIOUS
  <2>6. Len(k) = Len(c) /\ \A i \in 1..Len(c) : k[i] = IF i = Len(c) THEN l ELSE c[i]
    <3>1. k = [c EXCEPT ![Len(c)] = l]
      BY <2>3, <2>5
    <3> QED
      BY <2>2, <2>4, <3>1, ExceptSeq
  <2>7. ASSUME \A s \in S : s.size \in Nat \ {0}, Fits(c, budget)
        PROVE  Fits(k, budget)
    <3>1. Weight(l) = Weight(c[Len(c)]) + x.size
      BY <1>2, <2>2, <2>3, <2>7, WeightMore
    <3>2. Weight(l) <= budget
      BY <1>3, <3>1 DEF Last
    <3> QED
      BY <2>6, <2>7, <3>2 DEF Fits
  <2>8. k \in Seq(Seq(S)) /\ \E d : Pieces(k, d, t, m)
    <3>1. k = [c EXCEPT ![Len(c)] = Append(@, t[m])]
      BY <1>1, <2>5
    <3> QED
      BY <1>3, <3>1, PutLast
  <2>9. PutIn(c, t[m], budget) = k
    BY <1>1, <2>1, <2>5
  <2> QED
    BY <2>7, <2>8, <2>9
<1>4. CASE ~(c # <<>> /\ Weight(Last(c)) + x.size <= budget)
  <2>1. PutIn(c, x, budget) = Append(c, <<x>>)
    BY <1>4 DEF PutIn
  <2>2. PICK k : k = Append(c, <<x>>)
    OBVIOUS
  <2>3. <<x>> \in Seq(S) /\ Len(<<x>>) = 1
    BY <1>2
  <2>4. Len(k) = Len(c) + 1 /\ k[Len(c) + 1] = <<x>> /\ \A i \in 1..Len(c) : k[i] = c[i]
    BY <2>2, <2>3, AppendProperties
  <2>5. ASSUME Fits(c, budget) PROVE Fits(k, budget)
    <3> SUFFICES ASSUME NEW i \in 1..Len(k)
                 PROVE  Weight(k[i]) <= budget \/ Len(k[i]) = 1
      BY DEF Fits
    <3>1. i = Len(c) + 1 \/ i \in 1..Len(c)
      BY <1>2, <2>4
    <3> QED
      BY <2>3, <2>4, <2>5, <3>1 DEF Fits
  <2> QED
    BY <1>1, <2>1, <2>2, <2>5, PutAlone
<1> QED
  BY <1>3, <1>4

\* c packs the first m items of t.
Packing(c, S, t, m, budget) ==
  /\ c \in Seq(Seq(S))
  /\ \E e : Pieces(c, e, t, m)
  /\ (\A s \in S : s.size \in Nat \ {0}) => Fits(c, budget)

\* Pieces of all of t, joined, are t.
LEMMA PiecesJoin ==
  ASSUME NEW S, NEW t \in Seq(S), NEW p \in Seq(Seq(S)), NEW e, Pieces(p, e, t, Len(t))
  PROVE  FlattenSeq(p) = t
<1>1. PICK k : k = Len(p)
  OBVIOUS
<1>2. k \in Nat /\ e \in [0..k -> 0..Len(t)]
  BY <1>1 DEF Pieces
<1>3. e[0] = 0 /\ e[k] = Len(t)
  BY <1>1 DEF Pieces
<1>4. \A i \in 1..k : i - 1 \in 0..k /\ i \in 0..k
  BY <1>2
<1>5. \A i \in 1..k : e[i - 1] < e[i] /\ p[i] = SubSeq(t, e[i - 1] + 1, e[i])
  BY <1>1 DEF Pieces
<1>6. \A i \in 1..k : e[i - 1] <= e[i]
  <2> SUFFICES ASSUME NEW i \in 1..k PROVE e[i - 1] <= e[i]
    OBVIOUS
  <2>1. PICK x, y : x = e[i - 1] /\ y = e[i]
    OBVIOUS
  <2>2. x \in 0..Len(t) /\ y \in 0..Len(t) /\ x < y
    BY <1>2, <1>4, <1>5, <2>1
  <2>3. x <= y
    BY <2>2
  <2> QED
    BY <2>1, <2>3
<1>7. \A i \in 1..k : p[i] = SubSeq(t, e[i - 1] + 1, e[i])
  BY <1>5
<1> QED
  BY ZenonT(60), <1>1, <1>2, <1>3, <1>6, <1>7, FlattenPieces

\* f packs the first items, for each number of them.
Packs(f, t, budget) ==
  f = [i \in 0..Len(t) |-> IF i = 0 THEN <<>> ELSE PutIn(f[i - 1], t[i], budget)]

\* Such an f, chosen.
ThePacks(t, budget) == CHOOSE f : Packs(f, t, budget)

\* Packed is the last of its values.
LEMMA PackedAs ==
  ASSUME NEW t, NEW budget
  PROVE  Packed(t, budget) = ThePacks(t, budget)[Len(t)]
BY DEF Packed, Packs, ThePacks

\* The packed items, joined, are the items.
LEMMA PackedIs ==
  ASSUME NEW S, NEW t \in Seq(S), NEW budget
  PROVE  /\ Packed(t, budget) \in Seq(Seq(S))
         /\ \A i \in 1..Len(Packed(t, budget)) : Packed(t, budget)[i] # <<>>
         /\ FlattenSeq(Packed(t, budget)) = t
         /\ (\A s \in S : s.size \in Nat \ {0}) => Fits(Packed(t, budget), budget)
<1>1. PICK n : n = Len(t)
  OBVIOUS
<1>2. n \in Nat /\ 0 \in 0..n /\ \A i \in 1..n : t[i] \in S
  BY <1>1
<1> DEFINE B == Seq(Seq(S))
<1>3. \A c \in B, i \in 1..n : PutIn(c, t[i], budget) \in B
  <2> SUFFICES ASSUME NEW c \in B, NEW i \in 1..n PROVE PutIn(c, t[i], budget) \in B
    OBVIOUS
  <2>1. t[i] \in S /\ <<t[i]>> \in Seq(S) /\ Len(c) \in Nat
    BY <1>2
  <2>2. Append(c, <<t[i]>>) \in B
    BY <2>1, AppendProperties
  <2>3. c # <<>> => [c EXCEPT ![Len(c)] = Append(@, t[i])] \in B
    <3> SUFFICES ASSUME c # <<>> PROVE [c EXCEPT ![Len(c)] = Append(@, t[i])] \in B
      OBVIOUS
    <3>1. Len(c) \in 1..Len(c) /\ c[Len(c)] \in Seq(S)
      BY <2>1
    <3>2. Append(c[Len(c)], t[i]) \in Seq(S)
      BY <2>1, <3>1, AppendProperties
    <3>3. [c EXCEPT ![Len(c)] = Append(@, t[i])] = [c EXCEPT ![Len(c)] = Append(c[Len(c)], t[i])]
      OBVIOUS
    <3> QED
      BY <3>1, <3>2, <3>3, ExceptSeq
  <2> QED
    BY <2>2, <2>3 DEF PutIn
<1>4. PICK g : g = [x \in B \X (1..n) |-> PutIn(x[1], t[x[2]], budget)]
  OBVIOUS
<1>5. g \in [B \X (1..n) -> B] /\ \A c \in B, i \in 1..n : g[<<c, i>>] = PutIn(c, t[i], budget)
  <2> HIDE DEF B
  <2> QED
    BY <1>3, <1>4
<1>6. <<>> \in B
  OBVIOUS
<1> HIDE DEF B
<1>7. PICK h \in [0..n -> B] : Grows(h, <<>>, g, n)
  BY <1>2, <1>5, <1>6, Recursion
<1>8. \A i \in 0..n : h[i] = IF i = 0 THEN <<>> ELSE PutIn(h[i - 1], t[i], budget)
  <2> SUFFICES ASSUME NEW i \in 0..n
               PROVE  h[i] = IF i = 0 THEN <<>> ELSE PutIn(h[i - 1], t[i], budget)
    OBVIOUS
  <2>1. h[i] = IF i = 0 THEN <<>> ELSE g[<<h[i - 1], i>>]
    BY <1>7 DEF Grows
  <2>2. i # 0 => i - 1 \in 0..n /\ i \in 1..n
    BY <1>2
  <2> QED
    BY <1>5, <1>7, <2>1, <2>2
<1>9. Packs(h, t, budget)
  BY <1>1, <1>7, <1>8 DEF Packs
<1>10. PICK f : f = ThePacks(t, budget)
  OBVIOUS
<1>11. Packs(f, t, budget) /\ Packed(t, budget) = f[n]
  BY <1>1, <1>9, <1>10, PackedAs DEF ThePacks
<1>12. f[0] = <<>> /\ \A i \in 1..n : f[i] = PutIn(f[i - 1], t[i], budget)
  <2>1. \A i \in 0..n : f[i] = IF i = 0 THEN <<>> ELSE PutIn(f[i - 1], t[i], budget)
    BY <1>1, <1>11 DEF Packs
  <2>2. \A i \in 1..n : i \in 0..n /\ i # 0
    BY <1>2
  <2> QED
    BY <1>2, <2>1, <2>2
<1> DEFINE A == {m \in 0..n : Packing(f[m], S, t, m, budget)}
<1>13. 0 \in A
  <2>1. PICK e : e = [i \in 0..0 |-> 0]
    OBVIOUS
  <2>2. Len(<<>>) = 0 /\ e \in [0..0 -> 0..0] /\ e[0] = 0
    BY <2>1
  <2>3. Pieces(<<>>, e, t, 0)
    BY <2>2 DEF Pieces
  <2>4. Fits(<<>>, budget)
    BY <2>2 DEF Fits
  <2>5. Packing(<<>>, S, t, 0, budget)
    BY <1>6, <2>3, <2>4 DEF Packing, B
  <2> QED
    BY <1>2, <1>12, <2>5
<1>14. ASSUME NEW m \in 1..n, m - 1 \in A PROVE m \in A
  <2>0. PICK c : c = f[m - 1]
    OBVIOUS
  <2>01. Packing(c, S, t, m - 1, budget)
    BY <1>14, <2>0
  <2>1. PICK e : /\ c = f[m - 1] /\ c \in B /\ Pieces(c, e, t, m - 1)
                 /\ (\A s \in S : s.size \in Nat \ {0}) => Fits(c, budget)
    BY <2>0, <2>01 DEF Packing, B
  <2>2. f[m] = PutIn(c, t[m], budget) /\ m \in 0..n
    BY <1>2, <1>12, <2>1
  <2>3. /\ PutIn(c, t[m], budget) \in B
        /\ \E d : Pieces(PutIn(c, t[m], budget), d, t, m)
        /\ (\A s \in S : s.size \in Nat \ {0}) /\ Fits(c, budget)
              => Fits(PutIn(c, t[m], budget), budget)
    BY <1>1, <2>1, PutInIs DEF B
  <2>4. Packing(PutIn(c, t[m], budget), S, t, m, budget)
    BY <2>1, <2>3 DEF Packing, B
  <2> QED
    BY <2>2, <2>4
<1>15. 0..n \subseteq A
  <2> HIDE DEF A
  <2> QED
    BY <1>2, <1>13, <1>14, UpTo
<1>20. PICK p : p = f[n]
  OBVIOUS
<1>16. PICK e : /\ p = f[n] /\ p \in B /\ Pieces(p, e, t, n)
                /\ (\A s \in S : s.size \in Nat \ {0}) => Fits(p, budget)
  <2>1. n \in A
    BY <1>2, <1>15
  <2> QED
    BY <1>20, <2>1 DEF Packing, B
<1>17. /\ p \in Seq(Seq(S)) /\ Len(p) \in Nat
       /\ e \in [0..Len(p) -> 0..Len(t)] /\ e[0] = 0 /\ e[Len(p)] = Len(t)
       /\ \A i \in 1..Len(p) : e[i - 1] < e[i] /\ p[i] = SubSeq(t, e[i - 1] + 1, e[i])
  BY <1>1, <1>16 DEF Pieces, B
<1>18. \A i \in 1..Len(p) : e[i - 1] <= e[i] /\ p[i] # <<>>
  <2> SUFFICES ASSUME NEW i \in 1..Len(p) PROVE e[i - 1] <= e[i] /\ p[i] # <<>>
    OBVIOUS
  <2>1. i - 1 \in 0..Len(p) /\ i \in 0..Len(p)
    BY <1>17
  <2>2. PICK x, y : x = e[i - 1] /\ y = e[i]
    OBVIOUS
  <2>3. x \in 0..n /\ y \in 0..n /\ x < y /\ p[i] = SubSeq(t, x + 1, y)
    BY <1>1, <1>17, <2>1, <2>2
  <2>4. x \in Nat /\ y \in Nat /\ x <= y /\ y <= Len(t) /\ y - x # 0
    BY <1>1, <1>2, <2>3
  <2>5. Len(p[i]) = y - x /\ p[i] \in Seq(S)
    BY <2>3, <2>4, PieceIs
  <2>6. p[i] # <<>> /\ x <= y
    BY <2>4, <2>5
  <2> QED
    BY <2>2, <2>6
<1>19. FlattenSeq(p) = t
  BY <1>1, <1>16, PiecesJoin DEF B
<1> QED
  BY <1>11, <1>16, <1>17, <1>18, <1>19

---------------------------------------------------------------------------
(* What a map admits of the pairs it was made from                         *)

\* What holds of a map that shows the first m pairs.
Showing(map, pairs, m, config) ==
  /\ map.bytes = Counted(pairs, m, config)
  /\ m > 0 => Counted(pairs, m - 1, config) < MaxMapBytes
  /\ \A name \in NamesIn(map) : \E k \in 1..m : pairs[k].name = name
  /\ \A k \in 1..m :
       (\A j \in (k + 1)..m : pairs[j].name # pairs[k].name) =>
          /\ pairs[k].name \in NamesIn(map)
          /\ StandsFor(map.held[pairs[k].name], pairs[k], config)

\* The maps there may be.
AMap == [held : [Names -> Text \cup {Absent}], bytes : Nat, dropped : Nat]

\* What a map is after the first i pairs: what it left out are the last of them.
MapOf(map, pairs, i, config) ==
  /\ map \in AMap
  /\ map.dropped <= i
  /\ map.dropped > 0 => IsFull(map)
  /\ IsFiniteSet(NamesIn(map)) /\ Cardinality(NamesIn(map)) <= MaxMapEntries
  /\ Showing(map, pairs, i - map.dropped, config)

\* The bounds of a map are naturals, and so are the bytes of a name.
LEMMA MapBounds ==
  /\ MaxMapEntries \in Nat /\ MaxMapBytes \in Nat /\ MaxValueBytes \in Nat
  /\ Mask \in Text /\ Absent \notin Text
  /\ \A name \in Names : NameBytes[name] \in Nat
<1>1. MaxMapEntries \in Nat /\ MaxMapBytes \in Nat /\ MaxValueBytes \in Nat
  BY HttpCaptureConstants
<1>2. Mask \in Text /\ Absent \notin Text
  BY HttpCaptureData
<1>3. \A name \in Names : NameBytes[name] \in Nat
  BY HttpCaptureConstants
<1> QED
  BY <1>1, <1>2, <1>3

\* Each of some pairs is one.
LEMMA PairIs ==
  ASSUME NEW pairs \in Pairs
  PROVE  /\ Len(pairs) \in Nat /\ DOMAIN pairs = 1..Len(pairs)
         /\ \A i \in 1..Len(pairs) : pairs[i] \in [name : Names, value : Text]
<1>1. PICK P : P = [name : Names, value : Text]
  OBVIOUS
<1>2. pairs \in Seq(P)
  BY <1>1 DEF Pairs
<1> QED
  BY <1>1, <1>2, SeqIs

\* What is kept of the value of a pair stands for it, and has some bytes.
LEMMA MaskedIs ==
  ASSUME NEW pair \in [name : Names, value : Text], NEW config
  PROVE  /\ Masked(pair, config) \in Text
         /\ NameBytes[pair.name] + Bytes(Masked(pair, config)) \in Nat
         /\ StandsFor(Masked(pair, config), pair, config)
<1>1. PICK c : c = Cut(pair.value, MaxValueBytes)
  OBVIOUS
<1>2. pair.value \in Seq(Characters) /\ pair.name \in Names
  BY DEF Text
<1>3. /\ c \in Text /\ IsPrefix(c, pair.value) /\ Bytes(c) <= MaxValueBytes
      /\ Bytes(pair.value) <= MaxValueBytes => c = pair.value
  BY <1>1, <1>2, MapBounds, CutTells DEF Text
<1>4. PICK v : v = Masked(pair, config)
  OBVIOUS
<1>5. v = IF config.redact /\ pair.name \in Sensitive THEN Mask ELSE c
  BY <1>1, <1>4 DEF Masked
<1>6. v \in Text
  BY <1>3, <1>5, MapBounds
<1>7. Bytes(v) \in Nat /\ NameBytes[pair.name] \in Nat
  BY <1>2, <1>6, BytesAre, MapBounds DEF Text
<1>8. StandsFor(v, pair, config)
  BY <1>3, <1>5 DEF StandsFor
<1> QED
  BY <1>4, <1>6, <1>7, <1>8

\* What the first pairs come to, one pair after the other.
LEMMA CountedIs ==
  ASSUME NEW pairs \in Pairs, NEW config
  PROVE  /\ Counted(pairs, 0, config) = 0
         /\ \A n \in 1..Len(pairs) :
              /\ Counted(pairs, n - 1, config) \in Nat
              /\ Counted(pairs, n, config) = Counted(pairs, n - 1, config)
                   + (NameBytes[pairs[n].name] + Bytes(Masked(pairs[n], config)))
<1>1. Counted(pairs, 0, config) = 0
  <2>1. PICK f : f = [k \in 1..0 |-> NameBytes[pairs[k].name] + Bytes(Masked(pairs[k], config))]
    OBVIOUS
  <2>2. DOMAIN f = 1..0 /\ \A k \in 1..0 : f[k] \in Nat
    BY <2>1
  <2>3. SumOf(f) = 0
    BY <2>2, SumOfNats
  <2> QED
    BY <2>1, <2>3 DEF Counted
<1>2. ASSUME NEW n \in 1..Len(pairs)
      PROVE  /\ Counted(pairs, n - 1, config) \in Nat
             /\ Counted(pairs, n, config) = Counted(pairs, n - 1, config)
                  + (NameBytes[pairs[n].name] + Bytes(Masked(pairs[n], config)))
  <2>1. PICK m : m = n - 1
    OBVIOUS
  <2>2. m \in Nat /\ n = m + 1 /\ \A k \in 1..n : k \in 1..Len(pairs)
    BY <2>1, PairIs
  <2>3. PICK f, h : /\ f = [k \in 1..n |-> NameBytes[pairs[k].name] + Bytes(Masked(pairs[k], config))]
                    /\ h = [k \in 1..m |-> NameBytes[pairs[k].name] + Bytes(Masked(pairs[k], config))]
    OBVIOUS
  <2>4. \A k \in 1..n : f[k] \in Nat
    <3> SUFFICES ASSUME NEW k \in 1..n PROVE f[k] \in Nat
      OBVIOUS
    <3>1. pairs[k] \in [name : Names, value : Text]
      BY <2>2, PairIs
    <3>2. NameBytes[pairs[k].name] + Bytes(Masked(pairs[k], config)) \in Nat
      BY <3>1, MaskedIs
    <3> QED
      BY <2>3, <3>2
  <2>5. \A k \in 1..m : k \in 1..n
    BY <2>2
  <2>6. DOMAIN f = 1..n /\ DOMAIN h = 1..m /\ \A k \in 1..m : h[k] = f[k]
    BY <2>3, <2>5
  <2>7. SumOf(f) = SumOf(h) + f[n] /\ SumOf(h) \in Nat
    <3>1. SumOf(f) = SumOf(h) + f[m + 1] /\ SumOf(h) \in Nat
      BY <2>2, <2>4, <2>6, SumSteps
    <3> QED
      BY <2>2, <3>1
  <2>8. Counted(pairs, n, config) = SumOf(f) /\ Counted(pairs, n - 1, config) = SumOf(h)
    BY <2>1, <2>3 DEF Counted
  <2>9. f[n] = NameBytes[pairs[n].name] + Bytes(Masked(pairs[n], config))
    BY <2>2, <2>3
  <2> QED
    BY <2>7, <2>8, <2>9
<1> QED
  BY <1>1, <1>2

\* A map that takes the pair after those it shows.
LEMMA TakeShows ==
  ASSUME NEW pairs \in Pairs, NEW i \in 1..Len(pairs), NEW config, NEW map \in AMap,
         IsFiniteSet(NamesIn(map)), ~IsFull(map), Showing(map, pairs, i - 1, config),
         NEW m, m = Take(map, pairs[i], config)
  PROVE  /\ m \in AMap /\ m.dropped = map.dropped
         /\ IsFiniteSet(NamesIn(m)) /\ Cardinality(NamesIn(m)) <= MaxMapEntries
         /\ Showing(m, pairs, i, config)
<1>1. PICK x, v, w : x = pairs[i].name /\ v = Masked(pairs[i], config) /\ w = NameBytes[x] + Bytes(v)
  OBVIOUS
<1>2. i \in Nat /\ pairs[i] \in [name : Names, value : Text] /\ Len(pairs) \in Nat
  BY PairIs
<1>3. v \in Text /\ w \in Nat /\ StandsFor(v, pairs[i], config) /\ x \in Names
  BY <1>1, <1>2, MaskedIs
<1>4. m = [map EXCEPT !.held[x] = v, !.bytes = @ + NameBytes[x] + Bytes(v)]
  BY <1>1 DEF Take
<1>5. map.held \in [Names -> Text \cup {Absent}] /\ map.bytes \in Nat /\ map.dropped \in Nat
  BY DEF AMap
<1>6. NameBytes[x] \in Nat /\ Bytes(v) \in Nat
  BY <1>3, MapBounds, BytesAre DEF Text
<1>7. m.held = [map.held EXCEPT ![x] = v] /\ m.bytes = map.bytes + w /\ m.dropped = map.dropped
  <2>1. m.bytes = map.bytes + NameBytes[x] + Bytes(v)
    BY <1>4 DEF AMap
  <2>2. m.held = [map.held EXCEPT ![x] = v] /\ m.dropped = map.dropped
    BY <1>4 DEF AMap
  <2> QED
    BY <1>1, <1>5, <1>6, <2>1, <2>2
<1>8. /\ m.held \in [Names -> Text \cup {Absent}] /\ m.held[x] = v
      /\ \A name \in Names \ {x} : m.held[name] = map.held[name]
  BY <1>3, <1>5, <1>7
<1>9. m \in AMap
  <2>1. m.bytes \in Nat /\ m.dropped \in Nat
    BY <1>3, <1>5, <1>7
  <2>2. m = [held |-> m.held, bytes |-> m.bytes, dropped |-> m.dropped]
    BY <1>4 DEF AMap
  <2> QED
    BY <1>8, <2>1, <2>2 DEF AMap
<1>10. NamesIn(m) = NamesIn(map) \cup {x}
  <2>1. v # Absent
    BY <1>3, MapBounds
  <2> QED
    BY <1>3, <1>8, <2>1 DEF NamesIn
<1>11. IsFiniteSet(NamesIn(m)) /\ Cardinality(NamesIn(m)) <= MaxMapEntries
  <2>1. Cardinality(NamesIn(map)) \in Nat
    BY FS_CardinalityType
  <2>2. Cardinality(NamesIn(map)) < MaxMapEntries
    BY <2>1, MapBounds DEF IsFull
  <2>3. /\ IsFiniteSet(NamesIn(map) \cup {x})
        /\ Cardinality(NamesIn(map) \cup {x})
             = IF x \in NamesIn(map) THEN Cardinality(NamesIn(map)) ELSE Cardinality(NamesIn(map)) + 1
    BY FS_AddElement
  <2> QED
    BY <1>10, <2>1, <2>2, <2>3, MapBounds
<1>12. m.bytes = Counted(pairs, i, config) /\ Counted(pairs, i - 1, config) < MaxMapBytes
  <2>1. map.bytes = Counted(pairs, i - 1, config)
    BY DEF Showing
  <2>2. Counted(pairs, i, config) = Counted(pairs, i - 1, config) + w
    BY <1>1, CountedIs
  <2>3. map.bytes < MaxMapBytes
    BY <1>5, MapBounds DEF IsFull
  <2> QED
    BY <1>7, <2>1, <2>2, <2>3
<1>13. \A name \in NamesIn(m) : \E k \in 1..i : pairs[k].name = name
  <2> SUFFICES ASSUME NEW name \in NamesIn(m) PROVE \E k \in 1..i : pairs[k].name = name
    OBVIOUS
  <2>1. CASE name = x
    <3>1. i \in 1..i
      BY <1>2
    <3> QED
      BY <1>1, <2>1, <3>1
  <2>2. CASE name \in NamesIn(map)
    <3>1. PICK k \in 1..(i - 1) : pairs[k].name = name
      BY <2>2 DEF Showing
    <3>2. k \in 1..i
      BY <1>2
    <3> QED
      BY <3>1, <3>2
  <2> QED
    BY <1>10, <2>1, <2>2
<1>14. ASSUME NEW k \in 1..i, \A j \in (k + 1)..i : pairs[j].name # pairs[k].name
       PROVE  pairs[k].name \in NamesIn(m) /\ StandsFor(m.held[pairs[k].name], pairs[k], config)
  <2>1. CASE k = i
    BY <1>1, <1>3, <1>8, <1>10, <2>1
  <2>2. CASE k # i
    <3>1. k \in 1..(i - 1) /\ i \in (k + 1)..i /\ \A j \in (k + 1)..(i - 1) : j \in (k + 1)..i
      BY <1>2, <2>2
    <3>2. PICK y : y = pairs[k].name
      OBVIOUS
    <3>3. y # x
      BY <1>1, <1>14, <3>1, <3>2
    <3>4. y \in NamesIn(map) /\ StandsFor(map.held[y], pairs[k], config)
      BY <1>14, <3>1, <3>2 DEF Showing
    <3>5. y \in Names
      BY <3>4 DEF NamesIn
    <3> QED
      BY <1>8, <1>10, <3>2, <3>3, <3>4, <3>5
  <2> QED
    BY <2>1, <2>2
<1>15. Showing(m, pairs, i, config)
  BY <1>12, <1>13, <1>14 DEF Showing
<1> QED
  BY <1>7, <1>9, <1>11, <1>15

\* A pair more makes a map of one pair more.
LEMMA OfferedIs ==
  ASSUME NEW pairs \in Pairs, NEW i \in 1..Len(pairs), NEW config, NEW map,
         MapOf(map, pairs, i - 1, config)
  PROVE  MapOf(Offered(map, pairs[i], config), pairs, i, config)
<1>1. /\ map \in AMap /\ map.dropped <= i - 1 /\ (map.dropped > 0 => IsFull(map))
      /\ IsFiniteSet(NamesIn(map)) /\ Cardinality(NamesIn(map)) <= MaxMapEntries
      /\ Showing(map, pairs, (i - 1) - map.dropped, config)
  BY DEF MapOf
<1>2. i \in Nat /\ map.dropped \in Nat
  BY <1>1, PairIs DEF AMap
<1>3. CASE IsFull(map)
  <2>1. PICK m : m = [map EXCEPT !.dropped = @ + 1]
    OBVIOUS
  <2>2. Offered(map, pairs[i], config) = m
    BY <1>3, <2>1 DEF Offered
  <2>3. m.held = map.held /\ m.bytes = map.bytes /\ m.dropped = map.dropped + 1 /\ m \in AMap
    BY <1>1, <1>2, <2>1 DEF AMap
  <2>4. NamesIn(m) = NamesIn(map)
    BY <2>3 DEF NamesIn
  <2>5. IsFull(m)
    BY <1>3, <2>3, <2>4 DEF IsFull
  <2>6. PICK n : n = (i - 1) - map.dropped
    OBVIOUS
  <2>7. i - m.dropped = n /\ m.dropped <= i
    BY <1>1, <1>2, <2>3, <2>6
  <2>8. Showing(m, pairs, n, config)
    BY <1>1, <2>3, <2>4, <2>6 DEF Showing
  <2> QED
    BY <1>1, <2>2, <2>3, <2>4, <2>5, <2>7, <2>8 DEF MapOf
<1>4. CASE ~IsFull(map)
  <2>1. PICK m : m = Take(map, pairs[i], config)
    OBVIOUS
  <2>2. Offered(map, pairs[i], config) = m
    BY <1>4, <2>1 DEF Offered
  <2>3. map.dropped = 0 /\ (i - 1) - map.dropped = i - 1
    BY <1>1, <1>2, <1>4
  <2>4. Showing(map, pairs, i - 1, config)
    BY <1>1, <2>3
  <2>5. /\ m \in AMap /\ m.dropped = 0
        /\ IsFiniteSet(NamesIn(m)) /\ Cardinality(NamesIn(m)) <= MaxMapEntries
        /\ Showing(m, pairs, i, config)
    BY <1>1, <1>4, <2>1, <2>3, <2>4, TakeShows
  <2>6. i - m.dropped = i /\ m.dropped <= i /\ ~(m.dropped > 0)
    BY <1>2, <2>5
  <2> QED
    BY <2>2, <2>5, <2>6 DEF MapOf
<1> QED
  BY <1>3, <1>4

\* f has the map of the first pairs, for each number of them.
MapSteps(f, pairs, config) ==
  f = [i \in 0..Len(pairs) |->
         IF i = 0 THEN EmptyMap ELSE Offered(f[i - 1], pairs[i], config)]

\* Such an f, chosen.
TheMaps(pairs, config) == CHOOSE f : MapSteps(f, pairs, config)

\* Encoded is the last of its values.
LEMMA EncodedAs ==
  ASSUME NEW pairs, NEW config
  PROVE  Encoded(pairs, config) = TheMaps(pairs, config)[Len(pairs)]
BY DEF Encoded, MapSteps, TheMaps

\* The map of no pair is one, and every pair leads from a map to a map.
LEMMA MapsStay ==
  ASSUME NEW pairs \in Pairs, NEW config
  PROVE  /\ EmptyMap \in AMap /\ MapOf(EmptyMap, pairs, 0, config)
         /\ \A map \in AMap, i \in 1..Len(pairs) : Offered(map, pairs[i], config) \in AMap
<1>1. EmptyMap \in AMap
  BY DEF EmptyMap, AMap
<1>2. MapOf(EmptyMap, pairs, 0, config)
  <2>1. EmptyMap.dropped = 0 /\ EmptyMap.bytes = 0 /\ NamesIn(EmptyMap) = {}
    BY DEF EmptyMap, NamesIn
  <2>2. IsFiniteSet({}) /\ Cardinality({}) = 0
    BY FS_EmptySet
  <2>3. Showing(EmptyMap, pairs, 0, config)
    BY <2>1, CountedIs DEF Showing
  <2>4. 0 - EmptyMap.dropped = 0 /\ ~(EmptyMap.dropped > 0) /\ EmptyMap.dropped <= 0
    BY <2>1
  <2> QED
    BY <1>1, <2>1, <2>2, <2>3, <2>4, MapBounds DEF MapOf
<1>3. ASSUME NEW map \in AMap, NEW i \in 1..Len(pairs)
      PROVE  Offered(map, pairs[i], config) \in AMap
  <2>1. [map EXCEPT !.dropped = @ + 1] \in AMap
    BY DEF AMap
  <2>2. PICK x, v : x = pairs[i].name /\ v = Masked(pairs[i], config)
    OBVIOUS
  <2>3. pairs[i] \in [name : Names, value : Text]
    BY PairIs
  <2>4. x \in Names /\ v \in Text
    BY <2>2, <2>3, MaskedIs
  <2>5. NameBytes[x] \in Nat /\ Bytes(v) \in Nat
    BY <2>4, MapBounds, BytesAre DEF Text
  <2>6. PICK h, n : h = [map.held EXCEPT ![x] = v] /\ n = map.bytes + NameBytes[x] + Bytes(v)
    OBVIOUS
  <2>7. h \in [Names -> Text \cup {Absent}] /\ n \in Nat
    BY <2>4, <2>5, <2>6 DEF AMap
  <2>8. Take(map, pairs[i], config) = [map EXCEPT !.held = h, !.bytes = n]
    BY <2>2, <2>6 DEF Take, AMap
  <2>9. [map EXCEPT !.held = h, !.bytes = n] \in AMap
    BY <2>7 DEF AMap
  <2> QED
    BY <2>1, <2>8, <2>9 DEF Offered
<1> QED
  BY <1>1, <1>2, <1>3

\* An encoded map admits what it leaves out.
LEMMA EncodedAdmits ==
  ASSUME NEW pairs \in Pairs, NEW config
  PROVE  Admits(Encoded(pairs, config), pairs, config)
<1>1. PICK n : n = Len(pairs)
  OBVIOUS
<1>2. n \in Nat /\ 0 \in 0..n
  BY <1>1, PairIs
<1>3. PICK g : g = [x \in AMap \X (1..n) |-> Offered(x[1], pairs[x[2]], config)]
  OBVIOUS
<1>4. /\ g \in [AMap \X (1..n) -> AMap]
      /\ \A m \in AMap, i \in 1..n : g[<<m, i>>] = Offered(m, pairs[i], config)
  BY <1>1, <1>3, MapsStay
<1>5. PICK h \in [0..n -> AMap] : Grows(h, EmptyMap, g, n)
  BY <1>2, <1>4, MapsStay, Recursion
<1>6. \A i \in 0..n : h[i] = IF i = 0 THEN EmptyMap ELSE Offered(h[i - 1], pairs[i], config)
  <2> SUFFICES ASSUME NEW i \in 0..n
               PROVE  h[i] = IF i = 0 THEN EmptyMap ELSE Offered(h[i - 1], pairs[i], config)
    OBVIOUS
  <2>1. h[i] = IF i = 0 THEN EmptyMap ELSE g[<<h[i - 1], i>>]
    BY <1>5 DEF Grows
  <2>2. i # 0 => i - 1 \in 0..n /\ i \in 1..n
    BY <1>2
  <2> QED
    BY <1>4, <1>5, <2>1, <2>2
<1>7. MapSteps(h, pairs, config)
  BY <1>1, <1>5, <1>6 DEF MapSteps
<1>8. PICK f : f = TheMaps(pairs, config)
  OBVIOUS
<1>9. MapSteps(f, pairs, config) /\ Encoded(pairs, config) = f[n]
  BY <1>1, <1>7, <1>8, EncodedAs DEF TheMaps
<1>10. f[0] = EmptyMap /\ \A i \in 1..n : f[i] = Offered(f[i - 1], pairs[i], config)
  <2>1. \A i \in 0..n : f[i] = IF i = 0 THEN EmptyMap ELSE Offered(f[i - 1], pairs[i], config)
    BY <1>1, <1>9 DEF MapSteps
  <2>2. \A i \in 1..n : i \in 0..n /\ i # 0
    BY <1>2
  <2> QED
    BY <1>2, <2>1, <2>2
<1> DEFINE A == {i \in 0..n : MapOf(f[i], pairs, i, config)}
<1>11. 0 \in A
  BY <1>2, <1>10, MapsStay
<1>12. ASSUME NEW i \in 1..n, i - 1 \in A PROVE i \in A
  <2>1. f[i] = Offered(f[i - 1], pairs[i], config) /\ i \in 0..n
    BY <1>2, <1>10
  <2>2. MapOf(f[i - 1], pairs, i - 1, config)
    BY <1>12
  <2>3. MapOf(Offered(f[i - 1], pairs[i], config), pairs, i, config)
    BY <1>1, <2>2, OfferedIs
  <2> QED
    BY <2>1, <2>3
<1>13. 0..n \subseteq A
  <2> HIDE DEF A
  <2> QED
    BY <1>2, <1>11, <1>12, UpTo
<1>14. PICK map : map = Encoded(pairs, config)
  OBVIOUS
<1>15. MapOf(map, pairs, n, config)
  <2>1. n \in A
    BY <1>2, <1>13
  <2> QED
    BY <1>9, <1>14, <2>1
<1>16. PICK m : m = n - map.dropped
  OBVIOUS
<1>17. /\ map.dropped \in Nat /\ map.dropped <= n /\ map.bytes \in Nat
       /\ map.dropped > 0 => IsFull(map)
       /\ IsFiniteSet(NamesIn(map)) /\ Cardinality(NamesIn(map)) <= MaxMapEntries
       /\ Showing(map, pairs, m, config)
  BY <1>15, <1>16 DEF MapOf, AMap
<1>18. m \in 0..n /\ m = Len(pairs) - map.dropped
  BY <1>1, <1>2, <1>16, <1>17
<1>19. map.dropped > 0 => \/ Cardinality(NamesIn(map)) = MaxMapEntries
                          \/ Counted(pairs, m, config) >= MaxMapBytes
  <2>1. Cardinality(NamesIn(map)) \in Nat /\ map.bytes = Counted(pairs, m, config)
    BY <1>17, FS_CardinalityType DEF Showing
  <2> QED
    BY <1>17, <2>1, MapBounds DEF IsFull
<1>20. Admits(map, pairs, config)
  BY <1>1, <1>17, <1>18, <1>19 DEF Admits, Showing
<1> QED
  BY <1>14, <1>20

---------------------------------------------------------------------------
(* The timeline of a request                                               *)

\* Marks are made in the order of time.
Ascending(marks) ==
  /\ marks \in Seq(Nat)
  /\ \A i, j \in 1..Len(marks) : i <= j => marks[i] <= marks[j]

\* What is kept of marks: each is named for its number.
Labelled(marks) == [i \in 1..Len(marks) |-> [name |-> i, at |-> marks[i]]]

\* The last mark by a time is the one before the first that is later.
LEMMA UnderIs ==
  ASSUME NEW marks, Ascending(marks), NEW at \in Nat, NEW j \in 0..Len(marks),
         \A i \in 1..Len(marks) : i <= j => marks[i] <= at,
         j # Len(marks) => marks[j + 1] > at
  PROVE  LastMarkBy(marks, at) = j
<1>1. PICK n : n = Len(marks)
  OBVIOUS
<1>2. /\ n \in Nat /\ DOMAIN marks = 1..n /\ \A i \in 1..n : marks[i] \in Nat
      /\ \A i, k \in 1..n : i <= k => marks[i] <= marks[k]
  BY <1>1 DEF Ascending
<1>3. /\ j \in Nat /\ j <= n /\ \A i \in 1..n : i <= j => marks[i] <= at
      /\ j # n => marks[j + 1] > at
  <2>1. j \in 0..n
    BY <1>1
  <2>2. j \in Nat /\ j <= n
    BY <1>2, <2>1
  <2> QED
    BY <1>1, <2>2
<1>4. PICK T : T = {i \in DOMAIN marks : marks[i] <= at}
  OBVIOUS
<1>5. LastMarkBy(marks, at) = IF T = {} THEN Bootstrap ELSE Max(T)
  BY <1>4 DEF LastMarkBy
<1>6. T \subseteq 1..n
  BY <1>2, <1>4
<1>7. ASSUME NEW i \in T PROVE i <= j
  <2>1. i \in 1..n /\ marks[i] <= at
    BY <1>2, <1>4
  <2>2. SUFFICES ASSUME i > j PROVE FALSE
    BY <1>3, <2>1
  <2>3. j # n /\ j + 1 \in 1..n /\ j + 1 <= i
    BY <1>2, <1>3, <2>1, <2>2
  <2>4. marks[j + 1] > at /\ marks[j + 1] <= marks[i] /\ marks[j + 1] \in Nat /\ marks[i] \in Nat
    BY <1>2, <1>3, <2>1, <2>3
  <2> QED
    BY <2>1, <2>4
<1>8. CASE j = 0
  <2>1. T = {}
    BY <1>6, <1>7, <1>8
  <2> QED
    BY <1>5, <1>8, <2>1 DEF Bootstrap
<1>9. CASE j # 0
  <2>1. j \in 1..n /\ j <= j
    BY <1>2, <1>3, <1>9
  <2>2. marks[j] <= at
    BY <1>3, <2>1
  <2>3. j \in T
    BY <1>2, <1>4, <2>1, <2>2
  <2>4. T \subseteq 0..n /\ T # {}
    BY <1>6, <2>3
  <2>5. Max(T) \in T /\ \A y \in T : y <= Max(T)
    BY <1>2, <2>4, Greatest
  <2>6. Max(T) <= j /\ j <= Max(T) /\ Max(T) \in 1..n
    BY <1>6, <1>7, <2>3, <2>5
  <2>7. Max(T) = j
    BY <1>3, <2>6
  <2> QED
    BY <1>5, <2>3, <2>7
<1> QED
  BY <1>8, <1>9

\* The marks of a timeline: those that were kept, after o of bootstrap.
Marked(m, kept, o) ==
  /\ o \in {0, 1} /\ Len(m) = Len(kept) + o
  /\ \A i \in 1..Len(m) :
       /\ m[i].name = i - o
       /\ m[i].at = IF i - o = 0 THEN 0 ELSE kept[i - o]
  /\ o = 1 => Len(kept) >= 1 /\ kept[1] > 0
  /\ o = 0 /\ Len(kept) >= 1 => kept[1] = 0

\* A timeline starts with bootstrap, or with a mark at zero.
LEMMA MarkedIs ==
  ASSUME NEW kept, Ascending(kept)
  PROVE  \E o : Marked(FromStart(Labelled(kept)), kept, o)
<1>1. PICK n, p : n = Len(kept) /\ p = Labelled(kept)
  OBVIOUS
<1>2. n \in Nat /\ \A i \in 1..n : kept[i] \in Nat
  BY <1>1 DEF Ascending
<1>3. PICK E : E = [name : Nat, at : Nat]
  OBVIOUS
<1>4. DOMAIN p = 1..n /\ \A i \in 1..n : p[i] = [name |-> i, at |-> kept[i]]
  BY <1>1 DEF Labelled
<1>5. \A i \in 1..n : p[i] \in E
  BY <1>2, <1>3, <1>4
<1>6. p = [i \in 1..n |-> p[i]]
  BY <1>1, <1>4 DEF Labelled
<1>7. p \in Seq(E) /\ Len(p) = n
  BY <1>2, <1>4, <1>5, <1>6, SeqFrom
<1>8. CASE n # 0 /\ kept[1] > 0
  <2>1. PICK b : b = [name |-> Bootstrap, at |-> 0]
    OBVIOUS
  <2>2. b.name = 0 /\ b.at = 0 /\ b \in E
    BY <1>3, <2>1 DEF Bootstrap
  <2>3. p # <<>> /\ Head(p) = p[1] /\ 1 \in 1..n
    BY <1>2, <1>7, <1>8
  <2>4. Head(p).at > 0
    BY <1>4, <1>8, <2>3
  <2>5. FromStart(p) = <<b>> \o p
    BY <2>1, <2>3, <2>4 DEF FromStart
  <2>6. PICK m : m = <<b>> \o p
    OBVIOUS
  <2>7. Len(m) = n + 1 /\ m[1] = b /\ \A i \in 1..n : m[i + 1] = p[i]
    <3>1. <<b>> \in Seq(E) /\ Len(<<b>>) = 1 /\ <<b>>[1] = b
      BY <2>2
    <3>2. Len(m) = 1 + n /\ \A i \in 1..(1 + n) : m[i] = IF i <= 1 THEN <<b>>[i] ELSE p[i - 1]
      BY <1>7, <2>6, <3>1, ConcatProperties
    <3>3. 1 \in 1..(1 + n) /\ \A i \in 1..n : i + 1 \in 1..(1 + n) /\ ~(i + 1 <= 1) /\ i + 1 - 1 = i
      BY <1>2
    <3> QED
      BY <1>2, <3>1, <3>2, <3>3
  <2>8. ASSUME NEW i \in 1..(n + 1)
        PROVE  m[i].name = i - 1 /\ m[i].at = IF i - 1 = 0 THEN 0 ELSE kept[i - 1]
    <3>1. CASE i = 1
      BY <2>2, <2>7, <3>1
    <3>2. CASE i # 1
      <4>1. i - 1 \in 1..n /\ i = (i - 1) + 1 /\ i - 1 # 0
        BY <1>2, <3>2
      <4>2. m[i] = p[i - 1]
        BY <2>7, <4>1
      <4>3. m[i] = [name |-> i - 1, at |-> kept[i - 1]]
        BY <1>4, <4>1, <4>2
      <4> QED
        BY <4>1, <4>3
    <3> QED
      BY <3>1, <3>2
  <2>9. Marked(m, kept, 1)
    BY <1>1, <1>2, <1>8, <2>7, <2>8 DEF Marked
  <2> QED
    BY <1>1, <2>5, <2>6, <2>9
<1>9. CASE ~(n # 0 /\ kept[1] > 0)
  <2>1. ~(p # <<>> /\ Head(p).at > 0)
    <3>1. CASE n = 0
      BY <1>7, <3>1
    <3>2. CASE n # 0
      <4>1. Head(p) = p[1] /\ 1 \in 1..n
        BY <1>2, <1>7, <3>2
      <4> QED
        BY <1>4, <1>9, <3>2, <4>1
    <3> QED
      BY <3>1, <3>2
  <2>2. FromStart(p) = <<>> \o p
    BY <2>1 DEF FromStart
  <2>3. FromStart(p) = p
    BY <1>7, <2>2, ConcatEmptySeq
  <2>4. ASSUME NEW i \in 1..n
        PROVE  p[i].name = i - 0 /\ p[i].at = IF i - 0 = 0 THEN 0 ELSE kept[i - 0]
    <3>1. i - 0 = i /\ i # 0
      OBVIOUS
    <3> QED
      BY <1>4, <3>1
  <2>5. n >= 1 => kept[1] = 0
    <3>1. n >= 1 => kept[1] \in Nat /\ ~(kept[1] > 0)
      BY <1>2, <1>9
    <3> QED
      BY <3>1
  <2>6. Len(p) = Len(kept) + 0
    BY <1>1, <1>2, <1>7
  <2>7. Marked(p, kept, 0)
    BY <1>1, <1>7, <2>4, <2>5, <2>6 DEF Marked
  <2> QED
    BY <1>1, <2>3, <2>7
<1> QED
  BY <1>8, <1>9

\* When the timeline stands after mark i.
TimeAt(m, i, duration) == IF i = 0 THEN 0 ELSE EndOf(m, i, duration)

\* A phase of a timeline.
Phase == [name : Nat, start : Nat, end : Nat]

\* What is drawn of a timeline by a time.
DrawnBy(line, kept, time) ==
  /\ line \in Seq(Phase)
  /\ line = <<>> => time = 0
  /\ line # <<>> => Tiles(line, kept, time)

\* A mark begins when the one before it ends, and names what is under way until it ends.
LEMMA MarkIs ==
  ASSUME NEW kept, Ascending(kept), NEW m, NEW o, Marked(m, kept, o),
         NEW d \in Nat, \A k \in 1..Len(kept) : kept[k] <= d, NEW i \in 1..Len(m)
  PROVE  /\ m[i].at \in Nat /\ m[i].name \in Nat /\ EndOf(m, i, d) \in Nat
         /\ m[i].at = TimeAt(m, i - 1, d) /\ m[i].at <= EndOf(m, i, d)
         /\ EndOf(m, i, d) > m[i].at => m[i].name = LastMarkBy(kept, m[i].at)
<1>1. PICK n : n = Len(kept)
  OBVIOUS
<1>2. /\ n \in Nat /\ \A k \in 1..n : kept[k] \in Nat /\ kept[k] <= d
      /\ \A k, l \in 1..n : k <= l => kept[k] <= kept[l]
  BY <1>1 DEF Ascending
<1>3. o \in {0, 1} /\ Len(m) = n + o
  BY <1>1 DEF Marked
<1>4. i \in Nat /\ 1 <= i /\ i <= n + o /\ i \in 1..(n + o)
  <2>1. i \in 1..(n + o)
    BY <1>3
  <2> QED
    BY <1>2, <1>3, <2>1
<1>5. PICK j : j = i - o
  OBVIOUS
<1>6. j \in 0..n /\ j \in Nat /\ j <= n /\ i = j + o
  BY <1>2, <1>3, <1>4, <1>5
<1>7. m[i].name = j /\ m[i].at = IF j = 0 THEN 0 ELSE kept[j]
  BY <1>5 DEF Marked
<1>8. i < n + o => j + 1 \in 1..n /\ m[i + 1].at = kept[j + 1]
  <2> SUFFICES ASSUME i < n + o PROVE j + 1 \in 1..n /\ m[i + 1].at = kept[j + 1]
    OBVIOUS
  <2>1. j + 1 \in 1..n /\ i + 1 \in 1..(n + o) /\ i + 1 - o = j + 1 /\ j + 1 # 0
    BY <1>2, <1>3, <1>4, <1>6
  <2>2. i + 1 \in 1..Len(m)
    BY <1>3, <2>1
  <2>3. PICK k : k = i + 1 - o
    OBVIOUS
  <2>4. m[i + 1].at = IF k = 0 THEN 0 ELSE kept[k]
    BY <2>2, <2>3 DEF Marked
  <2>5. k = j + 1 /\ k # 0
    BY <2>1, <2>3
  <2> QED
    BY <2>1, <2>4, <2>5
<1>9. PICK x, y : x = m[i].at /\ y = EndOf(m, i, d)
  OBVIOUS
<1>10. x = IF j = 0 THEN 0 ELSE kept[j]
  BY <1>7, <1>9
<1>11. y = IF j < n THEN kept[j + 1] ELSE d
  <2>1. y = IF i < n + o THEN m[i + 1].at ELSE d
    BY <1>3, <1>9 DEF EndOf
  <2>2. i < n + o <=> j < n
    BY <1>2, <1>3, <1>6
  <2> QED
    BY <1>8, <2>1, <2>2
<1>12. x \in Nat /\ y \in Nat /\ x <= y
  <2>1. CASE j = 0
    BY <1>2, <1>6, <1>10, <1>11, <2>1
  <2>2. CASE j # 0
    <3>1. j \in 1..n /\ x = kept[j] /\ (j < n => j + 1 \in 1..n /\ j <= j + 1)
      BY <1>2, <1>6, <1>10, <2>2
    <3>2. j < n => kept[j] <= kept[j + 1] /\ kept[j + 1] \in Nat
      BY <1>2, <3>1
    <3> QED
      BY <1>2, <1>11, <3>1, <3>2
  <2> QED
    BY <2>1, <2>2
<1>13. x = TimeAt(m, i - 1, d)
  <2>1. CASE i = 1
    <3>1. TimeAt(m, i - 1, d) = 0
      BY <2>1 DEF TimeAt
    <3>2. o = 1 => j = 0
      BY <1>6, <2>1
    <3>3. o = 0 => j = 1 /\ n >= 1
      BY <1>2, <1>6, <2>1
    <3>4. o = 0 /\ n >= 1 => kept[1] = 0
      BY <1>1 DEF Marked
    <3> QED
      BY <1>3, <1>10, <3>1, <3>2, <3>3, <3>4
  <2>2. CASE i # 1
    <3>1. i - 1 \in Nat /\ i - 1 # 0 /\ i - 1 < n + o /\ i - 1 + 1 = i
      BY <1>2, <1>3, <1>4, <2>2
    <3>2. EndOf(m, i - 1, d) = m[i].at
      BY <1>3, <3>1 DEF EndOf
    <3> QED
      BY <1>9, <3>1, <3>2 DEF TimeAt
  <2> QED
    BY <2>1, <2>2
<1>14. ASSUME y > x PROVE j = LastMarkBy(kept, x)
  <2>1. \A k \in 1..n : k <= j => kept[k] <= x
    <3> SUFFICES ASSUME NEW k \in 1..n, k <= j PROVE kept[k] <= x
      OBVIOUS
    <3>1. j \in 1..n
      BY <1>2, <1>6
    <3>2. x = kept[j]
      BY <1>10, <3>1
    <3> QED
      BY <1>2, <3>1, <3>2
  <2>2. j # n => kept[j + 1] > x
    <3>1. j # n => j < n
      BY <1>2, <1>6
    <3> QED
      BY <1>11, <1>14, <3>1
  <2> QED
    BY <1>1, <1>6, <1>12, <2>1, <2>2, UnderIs
<1> QED
  BY <1>6, <1>7, <1>9, <1>12, <1>13, <1>14

\* A mark more extends the timeline to where it ends.
LEMMA DrawnIs ==
  ASSUME NEW kept, Ascending(kept), NEW m, NEW o, Marked(m, kept, o),
         NEW d \in Nat, \A k \in 1..Len(kept) : kept[k] <= d, NEW i \in 1..Len(m),
         NEW line, DrawnBy(line, kept, TimeAt(m, i - 1, d))
  PROVE  DrawnBy(Drawn(line, m, i, d), kept, TimeAt(m, i, d))
<1>1. PICK x, y, j : x = m[i].at /\ y = EndOf(m, i, d) /\ j = m[i].name
  OBVIOUS
<1>2. /\ x \in Nat /\ j \in Nat /\ y \in Nat /\ x = TimeAt(m, i - 1, d) /\ x <= y
      /\ y > x => j = LastMarkBy(kept, x)
  BY <1>1, MarkIs
<1>3. y = TimeAt(m, i, d)
  <2>1. Len(m) \in Nat => i # 0
    OBVIOUS
  <2>2. Len(kept) \in Nat /\ Len(m) = Len(kept) + o /\ o \in {0, 1}
    BY DEF Marked, Ascending
  <2> QED
    BY <1>1, <2>1, <2>2 DEF TimeAt
<1>4. DrawnBy(line, kept, x)
  BY <1>2
<1>5. CASE ~(y > x)
  <2>1. Drawn(line, m, i, d) = line /\ x = y
    BY <1>1, <1>2, <1>5 DEF Drawn
  <2> QED
    BY <1>3, <1>4, <2>1
<1>6. CASE y > x
  <2>1. PICK e, q, n : e = [name |-> j, start |-> x, end |-> y] /\ q = Append(line, e) /\ n = Len(line)
    OBVIOUS
  <2>2. Drawn(line, m, i, d) = q
    BY <1>1, <1>6, <2>1 DEF Drawn
  <2>3. e \in Phase /\ e.name = j /\ e.start = x /\ e.end = y
    BY <1>2, <2>1 DEF Phase
  <2>4. line \in Seq(Phase)
    BY <1>4 DEF DrawnBy
  <2>5. /\ q \in Seq(Phase) /\ Len(q) = n + 1 /\ q[n + 1] = e /\ n \in Nat
        /\ \A k \in 1..n : q[k] = line[k]
    BY <2>1, <2>3, <2>4, AppendProperties
  <2>6. q # <<>> /\ Last(q) = e
    BY <2>5 DEF Last
  <2>7. CASE n = 0
    <3>1. line = <<>>
      <4>1. Len(line) = 0
        BY <2>1, <2>7
      <4> QED
        BY <2>4, <4>1, SeqIs
    <3>2. x = 0
      BY <1>4, <3>1 DEF DrawnBy
    <3>3. q[1] = e /\ Len(q) = 1
      BY <2>5, <2>7
    <3>4. Tiles(q, kept, y)
      BY <1>2, <1>6, <2>3, <2>6, <3>2, <3>3 DEF Tiles
    <3> QED
      BY <1>3, <2>2, <2>5, <2>6, <3>4 DEF DrawnBy
  <2>8. CASE n # 0
    <3>1. line # <<>> /\ 1 \in 1..n /\ n \in 1..n
      BY <2>1, <2>4, <2>5, <2>8
    <3>2. Tiles(line, kept, x)
      BY <1>4, <3>1 DEF DrawnBy
    <3>3. /\ line[1].start = 0 /\ line[n].end = x
          /\ \A k \in 2..n : line[k].start = line[k - 1].end
          /\ \A k \in 1..n : line[k].name = LastMarkBy(kept, line[k].start)
      BY <2>1, <3>2 DEF Tiles, Last
    <3>4. q[1].start = 0 /\ Last(q).end = y
      BY <2>3, <2>5, <2>6, <3>1, <3>3
    <3>5. ASSUME NEW k \in 2..(n + 1) PROVE q[k].start = q[k - 1].end
      <4>1. CASE k = n + 1
        <5>1. k - 1 = n /\ q[n] = line[n]
          BY <2>5, <3>1, <4>1
        <5> QED
          BY <2>3, <2>5, <3>3, <4>1, <5>1
      <4>2. CASE k # n + 1
        <5>1. k \in 2..n /\ k \in 1..n /\ k - 1 \in 1..n
          BY <2>5, <4>2
        <5> QED
          BY <2>5, <3>3, <5>1
      <4> QED
        BY <4>1, <4>2
    <3>6. ASSUME NEW k \in 1..(n + 1) PROVE q[k].name = LastMarkBy(kept, q[k].start)
      <4>1. CASE k = n + 1
        BY <1>2, <1>6, <2>3, <2>5, <4>1
      <4>2. CASE k # n + 1
        <5>1. k \in 1..n
          BY <2>5, <4>2
        <5> QED
          BY <2>5, <3>3, <5>1
      <4> QED
        BY <4>1, <4>2
    <3>7. Tiles(q, kept, y)
      BY <2>5, <3>4, <3>5, <3>6 DEF Tiles
    <3> QED
      BY <1>3, <2>2, <2>5, <2>6, <3>7 DEF DrawnBy
  <2> QED
    BY <2>7, <2>8
<1> QED
  BY <1>5, <1>6

\* f has what is drawn of a timeline after the first marks, for each number of them.
Lines(f, m, d) ==
  f = [i \in 0..Len(m) |-> IF i = 0 THEN <<>> ELSE Drawn(f[i - 1], m, i, d)]

\* Such an f, chosen.
TheLines(m, d) == CHOOSE f : Lines(f, m, d)

\* PhaseJson is the last of its values.
LEMMA PhaseJsonAs ==
  ASSUME NEW phases, NEW d
  PROVE  PhaseJson(phases, d) = TheLines(FromStart(phases), d)[Len(FromStart(phases))]
BY DEF PhaseJson, Lines, TheLines

\* A timeline tiles the request.
LEMMA PhasesTile ==
  ASSUME NEW kept, Ascending(kept), NEW d \in Nat, \A k \in 1..Len(kept) : kept[k] <= d
  PROVE  PhaseJson(Labelled(kept), d) # <<>> => Tiles(PhaseJson(Labelled(kept), d), kept, d)
<1>1. PICK m : m = FromStart(Labelled(kept))
  OBVIOUS
<1>2. PICK o : Marked(m, kept, o)
  BY <1>1, MarkedIs
<1>3. PICK n : n = Len(m)
  OBVIOUS
<1>4. n \in Nat /\ 0 \in 0..n
  <2>1. Len(kept) \in Nat /\ n = Len(kept) + o /\ o \in {0, 1}
    BY <1>2, <1>3 DEF Marked, Ascending
  <2> QED
    BY <2>1
<1> DEFINE B == Seq(Phase)
<1>5. <<>> \in B
  OBVIOUS
<1>6. \A line \in B, i \in 1..n : Drawn(line, m, i, d) \in B
  <2> SUFFICES ASSUME NEW line \in B, NEW i \in 1..n PROVE Drawn(line, m, i, d) \in B
    OBVIOUS
  <2>1. m[i].at \in Nat /\ m[i].name \in Nat /\ EndOf(m, i, d) \in Nat
    BY <1>2, <1>3, MarkIs
  <2>2. [name |-> m[i].name, start |-> m[i].at, end |-> EndOf(m, i, d)] \in Phase
    BY <2>1 DEF Phase
  <2>3. Append(line, [name |-> m[i].name, start |-> m[i].at, end |-> EndOf(m, i, d)]) \in B
    BY <2>2, AppendProperties
  <2> QED
    BY <2>3 DEF Drawn
<1>7. PICK g : g = [x \in B \X (1..n) |-> Drawn(x[1], m, x[2], d)]
  OBVIOUS
<1> HIDE DEF B
<1>8. /\ g \in [B \X (1..n) -> B]
      /\ \A line \in B, i \in 1..n : g[<<line, i>>] = Drawn(line, m, i, d)
  BY <1>6, <1>7
<1>9. PICK h \in [0..n -> B] : Grows(h, <<>>, g, n)
  BY <1>4, <1>5, <1>8, Recursion
<1>10. \A i \in 0..n : h[i] = IF i = 0 THEN <<>> ELSE Drawn(h[i - 1], m, i, d)
  <2> SUFFICES ASSUME NEW i \in 0..n
               PROVE  h[i] = IF i = 0 THEN <<>> ELSE Drawn(h[i - 1], m, i, d)
    OBVIOUS
  <2>1. h[i] = IF i = 0 THEN <<>> ELSE g[<<h[i - 1], i>>]
    BY <1>9 DEF Grows
  <2>2. i # 0 => i - 1 \in 0..n /\ i \in 1..n
    BY <1>4
  <2> QED
    BY <1>8, <1>9, <2>1, <2>2
<1>11. Lines(h, m, d)
  BY <1>3, <1>9, <1>10 DEF Lines
<1>12. PICK f : f = TheLines(m, d)
  OBVIOUS
<1>13. Lines(f, m, d)
  BY <1>11, <1>12 DEF TheLines
<1>14. PhaseJson(Labelled(kept), d) = f[n]
  BY <1>1, <1>3, <1>12, PhaseJsonAs
<1>15. f[0] = <<>> /\ \A i \in 1..n : f[i] = Drawn(f[i - 1], m, i, d)
  <2>1. \A i \in 0..n : f[i] = IF i = 0 THEN <<>> ELSE Drawn(f[i - 1], m, i, d)
    BY <1>3, <1>13 DEF Lines
  <2>2. \A i \in 1..n : i \in 0..n /\ i # 0
    BY <1>4
  <2> QED
    BY <1>4, <2>1, <2>2
<1> DEFINE A == {i \in 0..n : DrawnBy(f[i], kept, TimeAt(m, i, d))}
<1>16. 0 \in A
  <2>1. TimeAt(m, 0, d) = 0
    BY DEF TimeAt
  <2>2. DrawnBy(<<>>, kept, 0)
    BY <1>5 DEF DrawnBy, B
  <2> QED
    BY <1>4, <1>15, <2>1, <2>2
<1>17. ASSUME NEW i \in 1..n, i - 1 \in A PROVE i \in A
  <2>1. f[i] = Drawn(f[i - 1], m, i, d) /\ i \in 0..n
    BY <1>4, <1>15
  <2>2. DrawnBy(f[i - 1], kept, TimeAt(m, i - 1, d))
    BY <1>17
  <2>3. DrawnBy(Drawn(f[i - 1], m, i, d), kept, TimeAt(m, i, d))
    BY <1>2, <1>3, <2>2, DrawnIs
  <2> QED
    BY <2>1, <2>3
<1>18. 0..n \subseteq A
  <2> HIDE DEF A
  <2> QED
    BY <1>4, <1>16, <1>17, UpTo
<1>19. DrawnBy(f[n], kept, TimeAt(m, n, d))
  <2>1. n \in A
    BY <1>4, <1>18
  <2> QED
    BY <2>1
<1>20. CASE n = 0
  BY <1>14, <1>15, <1>20
<1>21. CASE n # 0
  <2>1. TimeAt(m, n, d) = d
    <3>1. ~(n < n)
      BY <1>4
    <3> QED
      BY <1>3, <1>21, <3>1 DEF TimeAt, EndOf
  <2> QED
    BY <1>14, <1>19, <2>1 DEF DrawnBy
<1> QED
  BY <1>20, <1>21
---------------------------------------------------------------------------
(* What a request ends in: its bodies, spans and documents                 *)

\* The signals and kinds that are told apart.
LEMMA SignalsDiffer ==
  /\ "body" # "trace" /\ "body" # "recording" /\ "trace" # "recording"
  /\ "publish" # "root" /\ "client" # "root" /\ "publish" # "client"
  /\ "request" # "response" /\ "message" # "request" /\ "message" # "response"
<1>1. "body" # "trace" /\ "body" # "recording" /\ "trace" # "recording"
  OBVIOUS
<1>2. "publish" # "root" /\ "client" # "root" /\ "publish" # "client"
  OBVIOUS
<1>3. "request" # "response" /\ "message" # "request" /\ "message" # "response"
  OBVIOUS
<1> QED
  BY <1>1, <1>2, <1>3

\* What the application had for a side of a span, by its history.
Meant(t, owner, side) ==
  IF owner # 0 THEN t.texts[owner]
  ELSE IF side = "request" THEN t.exchange.body ELSE t.response

\* The marks that were kept, by its history.
KeptOf(t) == SubSeq(t.marks, 1, Min({MaxPhases, Len(t.marks)}))

\* The settings of the request, by its history.
SettingsOf(t) == Resolve(t.exchange.settings)

\* The sides of a body.
Sides == {"request", "response", "message"}

\* A body that is kept is the beginning of what the application had, up to a limit.
KeptBody(b, t) ==
  /\ b.owner \in Nat /\ b.side \in Sides /\ b.text \in Text /\ b.text # <<>>
  /\ IsPrefix(b.text, Meant(t, b.owner, b.side))
  /\ b.text # Meant(t, b.owner, b.side) => Bytes(b.text) >= SettingsOf(t).total - 1

\* No two bodies are kept for one side of one span.
OnePerSide(K) == \A b, c \in K : b.owner = c.owner /\ b.side = c.side => b = c

\* An attribute says what it shows of the text.
Tells(a, s, t) ==
  /\ s.kind = "root" => a.side \in {"request", "response"}
  /\ IsPrefix(a.preview, Meant(t, s.id, a.side))
  /\ ~a.truncated => a.preview = Meant(t, s.id, a.side)
  /\ s.kind # "client" => a.size = Bytes(Meant(t, s.id, a.side))

\* An attribute says whether its body is kept.
Promised(a, s, K) ==
  /\ ~a.stored => \A b \in K : ~(b.owner = s.id /\ b.side = a.side)
  /\ a.stored /\ s.kind # "client" => \E b \in K : b.owner = s.id /\ b.side = a.side

\* The maps and the timeline of the root span.
RootTells(s, t) ==
  /\ s.timeline # <<>> => Tiles(s.timeline, KeptOf(t), t.end)
  /\ \A i \in DOMAIN s.maps :
        Admits(s.maps[i], IF i = 1 THEN t.exchange.maps ELSE t.headers, SettingsOf(t))

\* A span says what its attributes, maps and timeline say.
SpanTells(s, t, K) ==
  /\ s.kind = "root" <=> s.id = 0
  /\ s.kind = "root" => RootTells(s, t)
  /\ \A a \in ToSet(s.bodies) : Tells(a, s, t) /\ Promised(a, s, K)

\* d is one of the documents of kept bodies.
OfBodies(d, K) == \E b \in K : d \in ToSet(BodyDocuments(b.owner, b))

\* d is a document of spans of T.
OfSpans(d, T) == d.signal = "trace" /\ ToSet(d.part) \subseteq T

\* Q are the documents of bodies K, spans T and the recorded items, the bodies first.
EndsIn(Q, K, T, t) ==
  /\ Q \in Seq(ToSet(Q))
  /\ OnePerSide(K) /\ \A b \in K : KeptBody(b, t)
  /\ \A s \in T : SpanTells(s, t, K)
  /\ \A d : d \in ToSet(Q) =>
       OfBodies(d, K) \/ d \in ToSet(Recorded(t.exchange.items))
       \/ OfSpans(d, T)
  /\ \A d : OfBodies(d, K) \/ d \in ToSet(Recorded(t.exchange.items)) => d \in ToSet(Q)
  /\ \A i, j \in 1..Len(Q) : Q[i].signal = "trace" /\ Q[j].signal = "body" => j < i

\* A document is a part of the whole that it says it is.
WholeOf(d, parts, t) ==
  IF d.signal = "recording" THEN parts = t.exchange.items
  ELSE /\ d.total = Bytes(parts)
       /\ IsPrefix(parts, Meant(t, d.owner, d.side))
       /\ parts # Meant(t, d.owner, d.side) => d.total >= SettingsOf(t).total - 1

\* g are n documents that find each other and amount to the whole.
Series(g, n, t) ==
  /\ n \in Nat
  /\ \A i \in 1..n :
       /\ g[i].index = i /\ g[i].count = n /\ g[i].part # <<>>
       /\ WholeOf(g[i], FlattenSeq([j \in 1..n |-> g[j].part]), t)
       /\ g[i].signal = "body" => Bytes(g[i].part) <= ChunkBytes
       /\ g[i].signal = "recording" => g[i].total <= MaxDocument + ChunkBlock \/ Len(g[i].part) = 1

\* The set of the documents of bodies.
BodyDocument ==
  [signal : {"body"}, owner : Nat, side : Sides, total : Nat, index : Nat, count : Nat, part : Text]

\* A body is split into documents, and they are a series.
LEMMA BodyDocumentsAre ==
  ASSUME NEW t, NEW b, KeptBody(b, t), NEW g, g = BodyDocuments(b.owner, b)
  PROVE  /\ g \in Seq(BodyDocument) /\ Len(g) >= 1 /\ Series(g, Len(g), t)
         /\ \A i \in 1..Len(g) : g[i].signal = "body" /\ g[i].owner = b.owner /\ g[i].side = b.side
<1>1. PICK p, n : p = Split(b.text) /\ n = Len(p)
  OBVIOUS
<1>2. b.text \in Seq(Characters) /\ b.text # <<>> /\ b.owner \in Nat /\ b.side \in Sides
  BY DEF KeptBody, Text
<1>3. /\ p \in Seq(Seq(Characters)) /\ n >= 1 /\ FlattenSeq(p) = b.text
      /\ \A i \in 1..n : p[i] # <<>> /\ Bytes(p[i]) <= ChunkBytes
  BY <1>1, <1>2, SplitIs
<1>4. n \in Nat /\ DOMAIN p = 1..n /\ p = [i \in 1..n |-> p[i]] /\ \A i \in 1..n : p[i] \in Text
  <2>1. PICK S : S = Text
    OBVIOUS
  <2>2. p \in Seq(S)
    BY <1>3, <2>1 DEF Text
  <2>3. Len(p) \in Nat /\ DOMAIN p = 1..Len(p) /\ \A i \in 1..Len(p) : p[i] \in S
    BY <2>2, SeqIs
  <2>4. p = [i \in 1..Len(p) |-> p[i]]
    BY <2>2, SeqIs
  <2> QED
    BY <1>1, <2>1, <2>3, <2>4
<1>5. Bytes(b.text) \in Nat
  BY <1>2, BytesAre
<1>6. g = [i \in 1..n |-> [signal |-> "body", owner |-> b.owner, side |-> b.side,
             total |-> Bytes(b.text), index |-> i, count |-> n, part |-> p[i]]]
  BY <1>1, <1>4 DEF BodyDocuments
<1>7. ASSUME NEW i \in 1..n
      PROVE  /\ g[i] \in BodyDocument /\ g[i].signal = "body" /\ g[i].owner = b.owner
             /\ g[i].side = b.side /\ g[i].total = Bytes(b.text) /\ g[i].index = i
             /\ g[i].count = n /\ g[i].part = p[i]
  <2>1. g[i] = [signal |-> "body", owner |-> b.owner, side |-> b.side,
                total |-> Bytes(b.text), index |-> i, count |-> n, part |-> p[i]]
    BY <1>6
  <2>2. i \in Nat /\ p[i] \in Text
    BY <1>4
  <2> QED
    BY <1>2, <1>4, <1>5, <2>1, <2>2 DEF BodyDocument
<1>8. DOMAIN g = 1..n /\ g = [i \in 1..n |-> g[i]]
  BY <1>6
<1>9. g \in Seq(BodyDocument) /\ Len(g) = n
  BY <1>4, <1>7, <1>8, SeqFrom
<1>10. FlattenSeq([j \in 1..n |-> g[j].part]) = b.text
  <2>1. [j \in 1..n |-> g[j].part] = p
    BY <1>4, <1>7
  <2> QED
    BY <1>3, <2>1
<1>11. ASSUME NEW i \in 1..n
       PROVE  WholeOf(g[i], FlattenSeq([j \in 1..n |-> g[j].part]), t)
  <2>1. WholeOf(g[i], b.text, t)
    <3>1. g[i].signal # "recording"
      BY <1>7, SignalsDiffer
    <3>2. /\ IsPrefix(b.text, Meant(t, b.owner, b.side))
          /\ b.text # Meant(t, b.owner, b.side) => Bytes(b.text) >= SettingsOf(t).total - 1
      BY DEF KeptBody
    <3> QED
      BY <1>7, <3>1, <3>2 DEF WholeOf
  <2> QED
    BY <1>10, <2>1
<1>12. Series(g, n, t)
  <2>1. \A i \in 1..n : g[i].signal # "recording"
    BY <1>7, SignalsDiffer
  <2>2. \A i \in 1..n : g[i].part # <<>> /\ Bytes(g[i].part) <= ChunkBytes
    BY <1>3, <1>7
  <2> QED
    BY <1>4, <1>7, <1>11, <2>1, <2>2 DEF Series
<1> QED
  BY <1>3, <1>7, <1>9, <1>12

\* An item of a recording.
Item == [item : Nat, size : Nat \ {0}]

\* The set of the documents of recordings.
RecordingDocument ==
  [signal : {"recording"}, owner : {0}, side : {"items"}, total : Nat, index : Nat, count : Nat,
   part : Seq(Item)]

\* The bounds of documents are naturals.
LEMMA DocumentBounds ==
  /\ MaxDocument \in Nat /\ Envelope \in Nat /\ ChunkBlock \in Nat /\ ChunkBytes \in Nat
BY DocumentsConstants

\* The greater of two naturals, and the lesser.
LEMMA OfTwo ==
  ASSUME NEW a \in Nat, NEW b \in Nat
  PROVE  /\ Max({a, b}) = IF a >= b THEN a ELSE b
         /\ Min({a, b}) = IF a <= b THEN a ELSE b
<1>1. PICK T : T = {a, b}
  OBVIOUS
<1>2. a \in T /\ b \in T /\ T \subseteq Nat /\ T # {} /\ \A y \in T : y = a \/ y = b
  BY <1>1
<1>3. Min(T) \in T /\ \A y \in T : Min(T) <= y
  BY <1>2, Smallest
<1>4. PICK n \in {a, b} : a <= n /\ b <= n
  <2>1. a <= b \/ b <= a
    OBVIOUS
  <2> QED
    BY <2>1
<1>5. n \in Nat /\ T \subseteq 0..n
  BY <1>2, <1>4
<1>6. Max(T) \in T /\ \A y \in T : y <= Max(T)
  BY <1>2, <1>5, Greatest
<1>7. Max(T) = IF a >= b THEN a ELSE b
  <2>1. Max(T) = a \/ Max(T) = b
    BY <1>2, <1>6
  <2>2. a <= Max(T) /\ b <= Max(T)
    BY <1>2, <1>6
  <2> QED
    BY <2>1, <2>2
<1>8. Min(T) = IF a <= b THEN a ELSE b
  <2>1. Min(T) = a \/ Min(T) = b
    BY <1>2, <1>3
  <2>2. Min(T) <= a /\ Min(T) <= b
    BY <1>2, <1>3
  <2> QED
    BY <2>1, <2>2
<1> QED
  BY <1>1, <1>7, <1>8

\* Items of a byte at least: a batch within a budget of b has at most b of them.
LEMMA ItemsWeigh ==
  ASSUME NEW p \in Seq(Item), p # <<>>
  PROVE  Weight(p) \in Nat /\ Weight(p) >= Len(p)
<1>1. \A x \in Item : x.size \in Nat \ {0}
  BY DEF Item
<1>2. p[1] \in Item
  <2>1. Len(p) \in Nat /\ Len(p) # 0 /\ \A i \in 1..Len(p) : p[i] \in Item
    BY SeqIs
  <2> QED
    BY <2>1
<1> QED
  BY <1>1, <1>2, WeightMore

\* A recording is packed into documents, and they are a series.
LEMMA RecordedAre ==
  ASSUME NEW t, t.exchange.items \in Seq(Item), NEW g, g = Recorded(t.exchange.items)
  PROVE  /\ g \in Seq(RecordingDocument) /\ Series(g, Len(g), t)
         /\ \A i \in 1..Len(g) : g[i].signal = "recording" /\ g[i].owner = 0 /\ g[i].side = "items"
<1>1. PICK items, budget : items = t.exchange.items /\ budget = Max({MaxDocument - Envelope, 1})
  OBVIOUS
<1>2. budget \in Nat /\ (budget = 1 \/ budget + Envelope = MaxDocument)
  <2>1. CASE MaxDocument - Envelope \in Nat
    <3>1. budget = MaxDocument - Envelope \/ budget = 1
      BY <1>1, <2>1, OfTwo
    <3> QED
      BY <2>1, <3>1, DocumentBounds
  <2>2. CASE MaxDocument - Envelope \notin Nat
    <3>1. PICK z : z = MaxDocument - Envelope
      OBVIOUS
    <3>2. z \in Int /\ z <= 0
      BY <2>2, <3>1, DocumentBounds
    <3>3. budget = CHOOSE x \in {z, 1} : \A y \in {z, 1} : x >= y
      BY <1>1, <3>1 DEF Max
    <3>4. \E x \in {z, 1} : \A y \in {z, 1} : x >= y
      BY <3>2
    <3>5. budget \in {z, 1} /\ \A y \in {z, 1} : budget >= y
      BY <3>3, <3>4
    <3>6. budget = 1
      BY <3>2, <3>5
    <3> QED
      BY <3>6
  <2> QED
    BY <2>1, <2>2
<1>3. PICK p, n : p = Packed(items, budget) /\ n = Len(p)
  OBVIOUS
<1>4. /\ p \in Seq(Seq(Item)) /\ FlattenSeq(p) = items
      /\ \A i \in 1..n : p[i] # <<>>
      /\ Fits(p, budget)
  <2>1. \A x \in Item : x.size \in Nat \ {0}
    BY DEF Item
  <2>2. items \in Seq(Item)
    BY <1>1
  <2> QED
    BY <1>3, <2>1, <2>2, PackedIs
<1>5. n \in Nat /\ DOMAIN p = 1..n /\ p = [i \in 1..n |-> p[i]] /\ \A i \in 1..n : p[i] \in Seq(Item)
  <2>1. PICK S : S = Seq(Item)
    OBVIOUS
  <2>2. p \in Seq(S)
    BY <1>4, <2>1
  <2>3. Len(p) \in Nat /\ DOMAIN p = 1..Len(p) /\ \A i \in 1..Len(p) : p[i] \in S
    BY <2>2, SeqIs
  <2>4. p = [i \in 1..Len(p) |-> p[i]]
    BY <2>2, SeqIs
  <2> QED
    BY <1>3, <2>1, <2>3, <2>4
<1>6. PICK c : c = IF n > 1 THEN ChunkBlock ELSE 0
  OBVIOUS
<1>7. g = [i \in 1..n |-> [signal |-> "recording", owner |-> 0, side |-> "items",
             total |-> Envelope + Weight(p[i]) + c, index |-> i, count |-> n, part |-> p[i]]]
  BY <1>1, <1>3, <1>5, <1>6 DEF Recorded
<1>8. ASSUME NEW i \in 1..n
      PROVE  /\ g[i] \in RecordingDocument /\ g[i].signal = "recording" /\ g[i].owner = 0
             /\ g[i].side = "items" /\ g[i].total = Envelope + Weight(p[i]) + c /\ g[i].index = i
             /\ g[i].count = n /\ g[i].part = p[i]
  <2>1. g[i] = [signal |-> "recording", owner |-> 0, side |-> "items",
             total |-> Envelope + Weight(p[i]) + c, index |-> i, count |-> n, part |-> p[i]]
    BY <1>7
  <2>2. i \in Nat /\ p[i] \in Seq(Item) /\ Weight(p[i]) \in Nat
    BY <1>4, <1>5, ItemsWeigh
  <2>3. Envelope + Weight(p[i]) + c \in Nat
    BY <1>6, <2>2, DocumentBounds
  <2> QED
    BY <1>5, <2>1, <2>2, <2>3 DEF RecordingDocument
<1>9. DOMAIN g = 1..n /\ g = [i \in 1..n |-> g[i]]
  BY <1>7
<1>10. g \in Seq(RecordingDocument) /\ Len(g) = n
  BY <1>5, <1>8, <1>9, SeqFrom
<1>11. FlattenSeq([j \in 1..n |-> g[j].part]) = items
  <2>1. [j \in 1..n |-> g[j].part] = p
    BY <1>5, <1>8
  <2> QED
    BY <1>4, <2>1
<1>12. ASSUME NEW i \in 1..n
       PROVE  WholeOf(g[i], FlattenSeq([j \in 1..n |-> g[j].part]), t)
  <2>1. WholeOf(g[i], items, t)
    BY <1>1, <1>8 DEF WholeOf
  <2> QED
    BY <1>11, <2>1
<1>13. ASSUME NEW i \in 1..n
       PROVE  g[i].total <= MaxDocument + ChunkBlock \/ Len(g[i].part) = 1
  <2>1. PICK w, l : w = Weight(p[i]) /\ l = Len(p[i])
    OBVIOUS
  <2>2. w \in Nat /\ l \in Nat /\ w >= l /\ l # 0
    <3>1. p[i] \in Seq(Item) /\ p[i] # <<>>
      BY <1>4, <1>5
    <3> QED
      BY <2>1, <3>1, ItemsWeigh, SeqIs
  <2>3. w <= budget \/ l = 1
    BY <1>3, <1>4, <2>1 DEF Fits
  <2>4. CASE budget = 1
    <3>1. l = 1
      BY <2>2, <2>3, <2>4
    <3> QED
      BY <1>8, <2>1, <3>1
  <2>5. CASE budget + Envelope = MaxDocument
    <3>1. w <= budget => Envelope + w + c <= MaxDocument + ChunkBlock
      BY <1>2, <1>6, <2>2, <2>5, DocumentBounds
    <3> QED
      BY <1>8, <2>1, <2>3, <3>1
  <2> QED
    BY <1>2, <2>4, <2>5
<1>14. Series(g, n, t)
  <2>1. \A i \in 1..n : g[i].signal # "body"
    BY <1>8, SignalsDiffer
  <2>2. \A i \in 1..n : g[i].part # <<>>
    BY <1>4, <1>8
  <2> QED
    BY <1>5, <1>8, <1>12, <1>13, <2>1, <2>2 DEF Series
<1> QED
  BY <1>8, <1>10, <1>14

\* Which of the documents is which, by its signal.
LEMMA SignalsAre ==
  ASSUME NEW Q, NEW K, NEW T, NEW t, EndsIn(Q, K, T, t), t.exchange.items \in Seq(Item)
  PROVE  /\ \A e \in ToSet(Recorded(t.exchange.items)) :
              e.signal = "recording" /\ e.owner = 0 /\ e.side = "items"
         /\ \A b \in K : \A e \in ToSet(BodyDocuments(b.owner, b)) :
              e.signal = "body" /\ e.owner = b.owner /\ e.side = b.side
         /\ \A d \in ToSet(Q) :
              /\ d.signal = "body" => OfBodies(d, K)
              /\ d.signal = "recording" => d \in ToSet(Recorded(t.exchange.items))
              /\ d.signal = "trace" => ToSet(d.part) \subseteq T
<1>1. /\ \A d \in ToSet(Q) : OfBodies(d, K) \/ d \in ToSet(Recorded(t.exchange.items))
                               \/ OfSpans(d, T)
      /\ \A b \in K : KeptBody(b, t)
  BY DEF EndsIn
<1>2. ASSUME NEW e, e \in ToSet(Recorded(t.exchange.items))
      PROVE  e.signal = "recording" /\ e.owner = 0 /\ e.side = "items"
  <2>1. PICK g : g = Recorded(t.exchange.items)
    OBVIOUS
  <2>2. /\ g \in Seq(RecordingDocument)
        /\ \A i \in 1..Len(g) : g[i].signal = "recording" /\ g[i].owner = 0 /\ g[i].side = "items"
    BY <2>1, RecordedAre
  <2>3. DOMAIN g = 1..Len(g)
    BY <2>2
  <2> QED
    BY <1>2, <2>1, <2>2, <2>3 DEF ToSet
<1>3. ASSUME NEW b \in K, NEW e, e \in ToSet(BodyDocuments(b.owner, b))
      PROVE  e.signal = "body" /\ e.owner = b.owner /\ e.side = b.side
  <2>1. PICK g : g = BodyDocuments(b.owner, b)
    OBVIOUS
  <2>2. /\ g \in Seq(BodyDocument)
        /\ \A i \in 1..Len(g) : g[i].signal = "body" /\ g[i].owner = b.owner /\ g[i].side = b.side
    BY <1>1, <2>1, BodyDocumentsAre
  <2>3. DOMAIN g = 1..Len(g)
    BY <2>2
  <2> QED
    BY <1>3, <2>1, <2>2, <2>3 DEF ToSet
<1>4. ASSUME NEW e, OfBodies(e, K) PROVE e.signal = "body"
  BY <1>3, <1>4 DEF OfBodies
<1>5. ASSUME NEW d \in ToSet(Q)
      PROVE  /\ d.signal = "body" => OfBodies(d, K)
             /\ d.signal = "recording" => d \in ToSet(Recorded(t.exchange.items))
             /\ d.signal = "trace" => ToSet(d.part) \subseteq T
  <2>1. \/ OfBodies(d, K) /\ d.signal = "body"
        \/ d \in ToSet(Recorded(t.exchange.items)) /\ d.signal = "recording"
        \/ d.signal = "trace" /\ ToSet(d.part) \subseteq T
    BY <1>1, <1>2, <1>4 DEF OfSpans
  <2> QED
    BY <2>1, SignalsDiffer
<1> QED
  BY <1>2, <1>3, <1>5

\* The documents of one body or recording are a series.
LEMMA FamilyIs ==
  ASSUME NEW Q, NEW K, NEW T, NEW t, EndsIn(Q, K, T, t), t.exchange.items \in Seq(Item),
         NEW d \in ToSet(Q), d.signal = "body" \/ d.signal = "recording"
  PROVE  \E g, n :
           /\ Series(g, n, t)
           /\ \A i \in 1..n : /\ g[i] \in ToSet(Q) /\ g[i].signal = d.signal
                              /\ g[i].owner = d.owner /\ g[i].side = d.side
           /\ \A e \in ToSet(Q) : e.signal = d.signal /\ e.owner = d.owner /\ e.side = d.side
                                    => \E i \in 1..n : e = g[i]
<1>1. /\ OnePerSide(K) /\ \A b \in K : KeptBody(b, t)
      /\ \A e : OfBodies(e, K) \/ e \in ToSet(Recorded(t.exchange.items)) => e \in ToSet(Q)
  BY DEF EndsIn
<1>2. /\ \A b \in K : \A e \in ToSet(BodyDocuments(b.owner, b)) :
           e.signal = "body" /\ e.owner = b.owner /\ e.side = b.side
      /\ \A e \in ToSet(Recorded(t.exchange.items)) :
           e.signal = "recording" /\ e.owner = 0 /\ e.side = "items"
  BY SignalsAre
<1>3. \A e \in ToSet(Q) :
        /\ e.signal = "body" => OfBodies(e, K)
        /\ e.signal = "recording" => e \in ToSet(Recorded(t.exchange.items))
  BY SignalsAre
<1>5. CASE d.signal = "body"
  <2>1. OfBodies(d, K)
    BY <1>3, <1>5
  <2>2. PICK b \in K : d \in ToSet(BodyDocuments(b.owner, b))
    BY <2>1 DEF OfBodies
  <2>3. PICK g : g = BodyDocuments(b.owner, b)
    OBVIOUS
  <2>4. PICK n : n = Len(g)
    OBVIOUS
  <2>5. /\ g \in Seq(BodyDocument) /\ Series(g, n, t)
        /\ \A i \in 1..n : g[i].signal = "body" /\ g[i].owner = b.owner /\ g[i].side = b.side
    BY <1>1, <2>3, <2>4, BodyDocumentsAre
  <2>6. DOMAIN g = 1..n
    BY <2>4, <2>5
  <2>7. d.owner = b.owner /\ d.side = b.side
    BY <1>2, <2>2
  <2>8. \A i \in 1..n : g[i] \in ToSet(Q)
    <3> SUFFICES ASSUME NEW i \in 1..n PROVE g[i] \in ToSet(Q)
      OBVIOUS
    <3>1. g[i] \in ToSet(BodyDocuments(b.owner, b))
      BY <2>3, <2>6 DEF ToSet
    <3>2. OfBodies(g[i], K)
      BY <3>1 DEF OfBodies
    <3> QED
      BY <1>1, <3>2
  <2>9. ASSUME NEW e \in ToSet(Q), e.signal = d.signal, e.owner = d.owner, e.side = d.side
        PROVE  \E i \in 1..n : e = g[i]
    <3>1. OfBodies(e, K)
      BY <1>3, <1>5, <2>9
    <3>2. PICK c \in K : e \in ToSet(BodyDocuments(c.owner, c))
      BY <3>1 DEF OfBodies
    <3>3. e.owner = c.owner /\ e.side = c.side
      BY <1>2, <3>2
    <3>4. c = b
      BY <1>1, <2>7, <2>9, <3>3 DEF OnePerSide
    <3>5. e \in ToSet(g)
      BY <2>3, <3>2, <3>4
    <3> QED
      BY <2>6, <3>5 DEF ToSet
  <2>10. \A i \in 1..n : /\ g[i] \in ToSet(Q) /\ g[i].signal = d.signal
                         /\ g[i].owner = d.owner /\ g[i].side = d.side
    BY <1>5, <2>5, <2>7, <2>8
  <2> QED
    BY <2>5, <2>9, <2>10
<1>6. CASE d.signal = "recording"
  <2>1. d \in ToSet(Recorded(t.exchange.items))
    BY <1>3, <1>6
  <2>2. PICK g : g = Recorded(t.exchange.items)
    OBVIOUS
  <2>3. PICK n : n = Len(g)
    OBVIOUS
  <2>4. /\ g \in Seq(RecordingDocument) /\ Series(g, n, t)
        /\ \A i \in 1..n : g[i].signal = "recording" /\ g[i].owner = 0 /\ g[i].side = "items"
    BY <2>2, <2>3, RecordedAre
  <2>5. DOMAIN g = 1..n
    BY <2>3, <2>4
  <2>6. d.owner = 0 /\ d.side = "items"
    BY <1>2, <2>1
  <2>7. \A i \in 1..n : g[i] \in ToSet(Q)
    <3> SUFFICES ASSUME NEW i \in 1..n PROVE g[i] \in ToSet(Q)
      OBVIOUS
    <3>1. g[i] \in ToSet(Recorded(t.exchange.items))
      BY <2>2, <2>5 DEF ToSet
    <3> QED
      BY <1>1, <3>1
  <2>8. ASSUME NEW e \in ToSet(Q), e.signal = d.signal PROVE \E i \in 1..n : e = g[i]
    <3>1. e \in ToSet(g)
      BY <1>3, <1>6, <2>2, <2>8
    <3> QED
      BY <2>5, <3>1 DEF ToSet
  <2>9. \A i \in 1..n : /\ g[i] \in ToSet(Q) /\ g[i].signal = d.signal
                        /\ g[i].owner = d.owner /\ g[i].side = d.side
    BY <1>6, <2>4, <2>6, <2>7
  <2> QED
    BY <2>4, <2>8, <2>9
<1> QED
  BY <1>5, <1>6

---------------------------------------------------------------------------
(* The documents of an ended request, written one by one                   *)

\* The first k documents of Q are done, the rest is queued or was lost with the worker.
Progress(Q, k) ==
  /\ k \in 0..Len(Q)
  /\ written \cup failed = {Q[i] : i \in 1..k}
  /\ queue = IF killed THEN <<>> ELSE SubSeq(Q, k + 1, Len(Q))

\* The request has ended, and its documents are on the way.
Delivered ==
  /\ step = "writing" \/ step = "over"
  /\ killed \in BOOLEAN /\ (killed => step = "over") /\ (step = "over" => queue = <<>>)
  /\ truth.exchange.items \in Seq(Item)
  /\ \E Q, K, T : EndsIn(Q, K, T, truth) /\ \E k : Progress(Q, k)

\* What is done and what is not.
LEMMA ProgressIs ==
  ASSUME NEW Q, Q \in Seq(ToSet(Q)), NEW k, Progress(Q, k)
  PROVE  /\ Len(Q) \in Nat /\ k \in Nat /\ k <= Len(Q)
         /\ \A d \in written \cup failed : \E i \in 1..Len(Q) : i <= k /\ d = Q[i]
         /\ \A i \in 1..Len(Q) : i <= k => Q[i] \in written \cup failed
         /\ \A d \in ToSet(queue) : ~killed /\ \E i \in 1..Len(Q) : i > k /\ d = Q[i]
         /\ ~killed /\ queue = <<>> => k = Len(Q)
<1>1. PICK n : n = Len(Q)
  OBVIOUS
<1>2. /\ n \in Nat /\ k \in 0..n /\ written \cup failed = {Q[i] : i \in 1..k}
      /\ queue = IF killed THEN <<>> ELSE SubSeq(Q, k + 1, n)
  BY <1>1 DEF Progress
<1>3. k \in Nat /\ k <= n
  BY <1>2
<1>4. \A i : i \in 1..k <=> i \in 1..n /\ i <= k
  BY <1>2, <1>3
<1>5. PICK r : r = SubSeq(Q, k + 1, n)
  OBVIOUS
<1>6. /\ r \in Seq(ToSet(Q)) /\ Len(r) = n - k
      /\ \A i \in 1..(n - k) : r[i] = Q[k + i]
  BY <1>1, <1>2, <1>3, <1>5, PieceIs
<1>7. \A d \in ToSet(queue) : ~killed /\ \E i \in 1..n : i > k /\ d = Q[i]
  <2> SUFFICES ASSUME NEW d \in ToSet(queue)
               PROVE  ~killed /\ \E i \in 1..n : i > k /\ d = Q[i]
    OBVIOUS
  <2>1. ~killed
    <3>1. ToSet(<<>>) = {}
      BY DEF ToSet
    <3> QED
      BY <1>2, <3>1
  <2>2. d \in ToSet(r)
    BY <1>2, <1>5, <2>1
  <2>3. PICK j \in 1..(n - k) : d = r[j]
    BY <1>6, <2>2 DEF ToSet
  <2>4. k + j \in 1..n /\ k + j > k /\ d = Q[k + j]
    BY <1>2, <1>3, <1>6, <2>3
  <2> QED
    BY <2>1, <2>4
<1>8. ~killed /\ queue = <<>> => k = n
  <2> SUFFICES ASSUME ~killed, queue = <<>> PROVE k = n
    OBVIOUS
  <2>1. r = <<>>
    <3>1. queue = r
      BY <1>2, <1>5
    <3> QED
      BY <3>1
  <2>2. Len(r) = 0
    BY <2>1
  <2> QED
    BY <1>2, <1>3, <1>6, <2>2
<1>9. /\ \A d \in written \cup failed : \E i \in 1..n : i <= k /\ d = Q[i]
      /\ \A i \in 1..n : i <= k => Q[i] \in written \cup failed
  BY <1>2, <1>4
<1> QED
  BY <1>1, <1>2, <1>3, <1>7, <1>8, <1>9

\* What a span on disk says of its bodies.
LEMMA PreviewsTell ==
  ASSUME Delivered PROVE PreviewTells
<1>1. PICK Q, K, T : EndsIn(Q, K, T, truth) /\ \E k : Progress(Q, k)
  BY DEF Delivered
<1>2. PICK k : Progress(Q, k)
  BY <1>1
<1>3. /\ Q \in Seq(ToSet(Q)) /\ \A b \in K : KeptBody(b, truth)
      /\ \A s \in T : SpanTells(s, truth, K)
      /\ \A d : OfBodies(d, K) => d \in ToSet(Q)
      /\ \A i, j \in 1..Len(Q) : Q[i].signal = "trace" /\ Q[j].signal = "body" => j < i
  BY <1>1 DEF EndsIn
<1>4. DOMAIN Q = 1..Len(Q)
  BY <1>3
<1>5. /\ Len(Q) \in Nat /\ k \in Nat /\ k <= Len(Q)
      /\ \A d \in written \cup failed : \E i \in 1..Len(Q) : i <= k /\ d = Q[i]
      /\ \A i \in 1..Len(Q) : i <= k => Q[i] \in written \cup failed
      /\ \A d \in ToSet(queue) : \E i \in 1..Len(Q) : i > k /\ d = Q[i]
  BY <1>2, <1>3, ProgressIs
<1>6. \A d : d \in written \cup failed \cup ToSet(queue) => d \in ToSet(Q)
  BY <1>4, <1>5 DEF ToSet
<1>7. /\ \A d \in ToSet(Q) : d.signal = "body" => OfBodies(d, K)
      /\ \A d \in ToSet(Q) : d.signal = "trace" => ToSet(d.part) \subseteq T
      /\ \A b \in K : \A e \in ToSet(BodyDocuments(b.owner, b)) :
           e.owner = b.owner /\ e.side = b.side
  <2>1. truth.exchange.items \in Seq(Item)
    BY DEF Delivered
  <2> QED
    BY <1>1, <2>1, SignalsAre
<1>8. ASSUME NEW b \in K PROVE \E d \in ToSet(Q) : Shares(d, b.owner, b.side)
  <2>1. PICK g : g = BodyDocuments(b.owner, b)
    OBVIOUS
  <2>2. /\ g \in Seq(BodyDocument) /\ Len(g) >= 1
        /\ \A i \in 1..Len(g) : g[i].signal = "body" /\ g[i].owner = b.owner /\ g[i].side = b.side
    BY <1>3, <2>1, BodyDocumentsAre
  <2>3. 1 \in 1..Len(g) /\ DOMAIN g = 1..Len(g)
    BY <2>2
  <2>4. g[1] \in ToSet(BodyDocuments(b.owner, b))
    BY <2>1, <2>3 DEF ToSet
  <2>5. g[1] \in ToSet(Q)
    BY <1>3, <2>4 DEF OfBodies
  <2> QED
    BY <2>2, <2>3, <2>5 DEF Shares
<1>9. ASSUME NEW d \in ToSet(Q), NEW owner, NEW side, Shares(d, owner, side)
      PROVE  \E b \in K : b.owner = owner /\ b.side = side
  <2>1. d.signal = "body" /\ d.owner = owner /\ d.side = side
    BY <1>9 DEF Shares
  <2>2. PICK b \in K : d \in ToSet(BodyDocuments(b.owner, b))
    BY <1>7, <2>1 DEF OfBodies
  <2> QED
    BY <1>7, <2>1, <2>2
<1>10. ASSUME NEW s \in SpansOnDisk
       PROVE  \E i \in 1..Len(Q) : i <= k /\ Q[i].signal = "trace" /\ s \in ToSet(Q[i].part)
  <2>1. PICK d \in written : d.signal = "trace" /\ s \in ToSet(d.part)
    BY DEF SpansOnDisk
  <2> QED
    BY <1>5, <2>1
<1>11. SUFFICES ASSUME NEW s \in SpansOnDisk, NEW a \in ToSet(s.bodies),
                       NEW text, text = Original(s, a.side)
                PROVE  /\ IsPrefix(a.preview, text)
                       /\ ~a.truncated => a.preview = text
                       /\ s.kind # "client" => a.size = Bytes(text)
                       /\ ~a.stored => \A d \in written \cup failed \cup ToSet(queue) :
                                          ~Shares(d, s.id, a.side)
                       /\ a.stored /\ s.kind # "client" =>
                            /\ \E d \in written \cup failed : Shares(d, s.id, a.side)
                            /\ \A d \in ToSet(queue) : ~Shares(d, s.id, a.side)
  BY DEF PreviewTells
<1>12. PICK i \in 1..Len(Q) : i <= k /\ Q[i].signal = "trace" /\ s \in ToSet(Q[i].part)
  BY <1>10
<1>13. s \in T
  <2>1. Q[i] \in ToSet(Q)
    BY <1>4 DEF ToSet
  <2> QED
    BY <1>7, <1>12, <2>1
<1>14. Tells(a, s, truth) /\ Promised(a, s, K) /\ (s.kind = "root" <=> s.id = 0)
  BY <1>3, <1>13 DEF SpanTells
<1>15. text = Meant(truth, s.id, a.side)
  BY <1>11, <1>14 DEF Original, Meant
<1>16. /\ IsPrefix(a.preview, text)
       /\ ~a.truncated => a.preview = text
       /\ s.kind # "client" => a.size = Bytes(text)
  BY <1>14, <1>15 DEF Tells
<1>17. ASSUME ~a.stored, NEW d \in written \cup failed \cup ToSet(queue)
       PROVE  ~Shares(d, s.id, a.side)
  <2>1. \A b \in K : ~(b.owner = s.id /\ b.side = a.side)
    BY <1>14, <1>17 DEF Promised
  <2>2. d \in ToSet(Q)
    BY <1>6, <1>17
  <2> QED
    BY <1>9, <2>1, <2>2
<1>18. ASSUME NEW j \in 1..Len(Q), Shares(Q[j], s.id, a.side) PROVE j <= k
  <2>1. Q[j].signal = "body"
    BY <1>18 DEF Shares
  <2>2. j < i
    BY <1>3, <1>12, <2>1
  <2> QED
    BY <1>5, <1>12, <2>2
<1>19. ASSUME a.stored, s.kind # "client"
       PROVE  \E d \in written \cup failed : Shares(d, s.id, a.side)
  <2>1. PICK b \in K : b.owner = s.id /\ b.side = a.side
    BY <1>14, <1>19 DEF Promised
  <2>2. PICK d \in ToSet(Q) : Shares(d, s.id, a.side)
    BY <1>8, <2>1
  <2>3. PICK j \in 1..Len(Q) : d = Q[j]
    BY <1>4, <2>2 DEF ToSet
  <2>4. j <= k
    BY <1>18, <2>2, <2>3
  <2> QED
    BY <1>5, <2>2, <2>3, <2>4
<1>20. ASSUME NEW d \in ToSet(queue) PROVE ~Shares(d, s.id, a.side)
  <2>1. PICK j \in 1..Len(Q) : j > k /\ d = Q[j]
    BY <1>5
  <2>2. ~(j <= k)
    BY <1>5, <2>1
  <2> QED
    BY <1>18, <2>1, <2>2
<1> QED
  BY <1>16, <1>17, <1>19, <1>20

\* What the numbered documents amount to.
LEMMA PartsJoin ==
  ASSUME Delivered PROVE PartsReassemble
<1>1. PICK Q, K, T : EndsIn(Q, K, T, truth) /\ \E k : Progress(Q, k)
  BY DEF Delivered
<1>2. PICK k : Progress(Q, k)
  BY <1>1
<1>3. Q \in Seq(ToSet(Q)) /\ truth.exchange.items \in Seq(Item)
  BY <1>1 DEF EndsIn, Delivered
<1>4. DOMAIN Q = 1..Len(Q)
  BY <1>3
<1>5. /\ \A d \in written \cup failed : \E i \in 1..Len(Q) : i <= k /\ d = Q[i]
      /\ \A i \in 1..Len(Q) : i <= k => Q[i] \in written \cup failed
      /\ ~killed /\ queue = <<>> => k = Len(Q)
      /\ Len(Q) \in Nat /\ k \in Nat
  BY <1>2, <1>3, ProgressIs
<1>6. \A d : d \in written \cup failed => d \in ToSet(Q)
  BY <1>4, <1>5 DEF ToSet
<1>7. ASSUME step = "over", ~killed, NEW d \in ToSet(Q) PROVE d \in written \cup failed
  <2>1. k = Len(Q)
    BY <1>5, <1>7 DEF Delivered
  <2>2. PICK i \in 1..Len(Q) : d = Q[i]
    BY <1>4, <1>7 DEF ToSet
  <2> QED
    BY <1>5, <2>1, <2>2
<1>8. SUFFICES ASSUME NEW d \in NumberedDocuments,
                      NEW there, there = {e.index : e \in Siblings(d)}
               PROVE  /\ d.index \in 1..d.count /\ d.part # <<>>
                      /\ \A e \in Siblings(d) : e.count = d.count /\ (e.index = d.index => e = d)
                      /\ there = 1..d.count => Whole(d, Reassembled(d))
                      /\ step = "over" /\ ~killed =>
                           there \cup {e.index : e \in {f \in failed : f.signal = d.signal
                                        /\ f.owner = d.owner /\ f.side = d.side}} = 1..d.count
                      /\ d.signal = "body" => Bytes(d.part) <= ChunkBytes
                      /\ d.signal = "recording" =>
                           d.total <= MaxDocument + ChunkBlock \/ Len(d.part) = 1
  BY DEF PartsReassemble
<1>9. d \in written /\ (d.signal = "body" \/ d.signal = "recording") /\ d \in ToSet(Q)
  BY <1>6 DEF NumberedDocuments
<1>10. \E g, n :
           /\ Series(g, n, truth)
           /\ \A i \in 1..n : /\ g[i] \in ToSet(Q) /\ g[i].signal = d.signal
                              /\ g[i].owner = d.owner /\ g[i].side = d.side
           /\ \A e \in ToSet(Q) : e.signal = d.signal /\ e.owner = d.owner /\ e.side = d.side
                                    => \E i \in 1..n : e = g[i]
  BY SMTT(60), <1>1, <1>3, <1>9, FamilyIs
<1>11. PICK g, n :
           /\ Series(g, n, truth)
           /\ \A i \in 1..n : /\ g[i] \in ToSet(Q) /\ g[i].signal = d.signal
                              /\ g[i].owner = d.owner /\ g[i].side = d.side
           /\ \A e \in ToSet(Q) : e.signal = d.signal /\ e.owner = d.owner /\ e.side = d.side
                                    => \E i \in 1..n : e = g[i]
  BY <1>10
<1>12. n \in Nat /\ \A i \in 1..n :
         /\ g[i].index = i /\ g[i].count = n /\ g[i].part # <<>>
         /\ WholeOf(g[i], FlattenSeq([j \in 1..n |-> g[j].part]), truth)
         /\ g[i].signal = "body" => Bytes(g[i].part) <= ChunkBytes
         /\ g[i].signal = "recording" => g[i].total <= MaxDocument + ChunkBlock \/ Len(g[i].part) = 1
  BY <1>11 DEF Series
<1>13. PICK l \in 1..n : d = g[l]
  BY <1>9, <1>11
<1>14. d.index = l /\ d.count = n /\ d.part # <<>>
  BY <1>12, <1>13
<1>15. \A e : e \in Siblings(d) <=>
          e \in written /\ e.signal = d.signal /\ e.owner = d.owner /\ e.side = d.side
  BY <1>9 DEF Siblings, NumberedDocuments
<1>16. ASSUME NEW e \in Siblings(d) PROVE \E i \in 1..n : e = g[i]
  BY <1>6, <1>11, <1>15
<1>17. ASSUME NEW e \in Siblings(d) PROVE e.count = d.count /\ (e.index = d.index => e = d)
  <2>1. PICK i \in 1..n : e = g[i]
    BY <1>16
  <2>2. e.index = i /\ e.count = n
    BY <1>12, <2>1
  <2> QED
    BY <1>13, <1>14, <2>1, <2>2
<1>18. ASSUME there = 1..d.count PROVE Whole(d, Reassembled(d))
  <2>1. ASSUME NEW i \in 1..n PROVE (CHOOSE e \in Siblings(d) : e.index = i).part = g[i].part
    <3>1. \E e \in Siblings(d) : e.index = i
      BY <1>8, <1>14, <1>18
    <3>2. PICK e : e = CHOOSE x \in Siblings(d) : x.index = i
      OBVIOUS
    <3>3. e \in Siblings(d) /\ e.index = i
      BY <3>1, <3>2
    <3>4. PICK j \in 1..n : e = g[j]
      BY <1>16, <3>3
    <3>5. j = i
      BY <1>12, <3>3, <3>4
    <3> QED
      BY <3>2, <3>4, <3>5
  <2>2. [i \in 1..n |-> (CHOOSE e \in Siblings(d) : e.index = i).part] = [i \in 1..n |-> g[i].part]
    BY <2>1
  <2>3. Reassembled(d) = FlattenSeq([i \in 1..n |-> g[i].part])
    BY <1>14, <2>2 DEF Reassembled
  <2>4. WholeOf(d, FlattenSeq([i \in 1..n |-> g[i].part]), truth)
    BY <1>12, <1>13
  <2>5. WholeOf(d, Reassembled(d), truth)
    BY <2>3, <2>4
  <2> QED
    BY <2>5 DEF WholeOf, Whole, Meant, SettingsOf
<1>19. ASSUME step = "over", ~killed
       PROVE  there \cup {e.index : e \in {f \in failed : f.signal = d.signal
                     /\ f.owner = d.owner /\ f.side = d.side}} = 1..d.count
  <2>1. PICK F : F = {f \in failed : f.signal = d.signal /\ f.owner = d.owner /\ f.side = d.side}
    OBVIOUS
  <2>2. ASSUME NEW e \in Siblings(d) \cup F PROVE e.index \in 1..n
    <3>1. e \in ToSet(Q) /\ e.signal = d.signal /\ e.owner = d.owner /\ e.side = d.side
      BY <1>6, <1>15, <2>1
    <3>2. PICK i \in 1..n : e = g[i]
      BY <1>11, <3>1
    <3> QED
      BY <1>12, <3>2
  <2>3. ASSUME NEW i \in 1..n PROVE \E e \in Siblings(d) \cup F : e.index = i
    <3>1. g[i] \in written \cup failed
      BY <1>7, <1>11, <1>19
    <3>2. g[i].signal = d.signal /\ g[i].owner = d.owner /\ g[i].side = d.side /\ g[i].index = i
      BY <1>11, <1>12
    <3>3. g[i] \in Siblings(d) \cup F
      BY <1>15, <2>1, <3>1, <3>2
    <3> QED
      BY <3>2, <3>3
  <2>4. there \cup {e.index : e \in F} = 1..n
    BY <1>8, <2>2, <2>3
  <2> QED
    BY <1>14, <2>1, <2>4
<1>20. /\ d.signal = "body" => Bytes(d.part) <= ChunkBytes
       /\ d.signal = "recording" => d.total <= MaxDocument + ChunkBlock \/ Len(d.part) = 1
  BY <1>12, <1>13
<1>21. d.index \in 1..d.count
  BY <1>13, <1>14
<1> QED
  BY <1>14, <1>17, <1>18, <1>19, <1>20, <1>21

\* The root span on disk is what the request ended in.
LEMMA RootIs ==
  ASSUME Delivered, NEW s \in Root PROVE RootTells(s, truth)
<1>1. PICK Q, K, T : EndsIn(Q, K, T, truth) /\ \E k : Progress(Q, k)
  BY DEF Delivered
<1>2. PICK k : Progress(Q, k)
  BY <1>1
<1>3. Q \in Seq(ToSet(Q)) /\ \A x \in T : SpanTells(x, truth, K)
  BY <1>1 DEF EndsIn
<1>4. DOMAIN Q = 1..Len(Q)
  BY <1>3
<1>5. \A d \in written \cup failed : \E i \in 1..Len(Q) : d = Q[i]
  BY <1>2, <1>3, ProgressIs
<1>6. PICK d \in written : d.signal = "trace" /\ s \in ToSet(d.part)
  BY DEF Root, SpansOnDisk
<1>7. d \in ToSet(Q)
  BY <1>4, <1>5 DEF ToSet
<1>8. s \in T
  <2>1. truth.exchange.items \in Seq(Item)
    BY DEF Delivered
  <2>2. ToSet(d.part) \subseteq T
    BY <1>1, <1>6, <1>7, <2>1, SignalsAre
  <2> QED
    BY <1>6, <2>2
<1>9. s.kind = "root"
  BY DEF Root
<1> QED
  BY <1>3, <1>8, <1>9 DEF SpanTells

\* The timeline and the maps of the root span.
LEMMA RootIsTrue ==
  ASSUME Delivered PROVE TimelineTiles /\ LossIsAdmitted
<1>1. \A s \in Root : RootTells(s, truth)
  BY RootIs
<1>2. KeptMarks = KeptOf(truth)
  BY DEF KeptMarks, KeptOf
<1>3. TimelineTiles
  <2>1. \A s \in Root : s.timeline # <<>> => Tiles(s.timeline, KeptOf(truth), truth.end)
    BY <1>1 DEF RootTells
  <2> QED
    BY <1>2, <2>1 DEF TimelineTiles
<1>4. LossIsAdmitted
  <2>1. \A s \in Root : \A i \in DOMAIN s.maps :
          Admits(s.maps[i], IF i = 1 THEN truth.exchange.maps ELSE truth.headers, SettingsOf(truth))
    BY <1>1 DEF RootTells
  <2> QED
    BY <2>1 DEF LossIsAdmitted, SettingsOf
<1> QED
  BY <1>3, <1>4

---------------------------------------------------------------------------
(* What is drained from a capture                                          *)

\* The beginning of a beginning.
LEMMA PrefixOfPrefix ==
  ASSUME NEW S, NEW t \in Seq(S), NEW n \in 0..Len(t), NEW m \in 0..n
  PROVE  IsPrefix(SubSeq(SubSeq(t, 1, n), 1, m), t)
<1>1. PICK a, b : a = SubSeq(t, 1, n) /\ b = SubSeq(a, 1, m)
  OBVIOUS
<1>2. Len(t) \in Nat /\ n \in Nat /\ m \in Nat /\ m <= n /\ n <= Len(t)
  OBVIOUS
<1>3. a \in Seq(S) /\ Len(a) = n /\ \A i \in 1..n : a[i] = t[i]
  BY <1>1, PrefixIs
<1>4. m \in 0..Len(a)
  BY <1>2, <1>3
<1>5. b \in Seq(S) /\ Len(b) = m /\ DOMAIN b = 1..m /\ \A i \in 1..m : b[i] = a[i]
  BY <1>1, <1>3, <1>4, PrefixIs
<1>6. PICK c : c = SubSeq(t, 1, m)
  OBVIOUS
<1>7. m \in 0..Len(t)
  BY <1>2
<1>8. c \in Seq(S) /\ Len(c) = m /\ DOMAIN c = 1..m /\ \A i \in 1..m : c[i] = t[i]
  BY <1>6, <1>7, PrefixIs
<1>9. \A i \in 1..m : b[i] = c[i]
  <2>1. \A i \in 1..m : i \in 1..n
    BY <1>2
  <2> QED
    BY <1>3, <1>5, <1>8, <2>1
<1>10. b = c
  <2>1. b = [i \in 1..m |-> b[i]] /\ c = [i \in 1..m |-> c[i]]
    BY <1>5, <1>8
  <2> QED
    BY <1>9, <2>1
<1>11. SubSeq(b, 1, Len(b)) = b
  BY <1>5, SubSeqFull
<1> QED
  BY <1>1, <1>2, <1>5, <1>6, <1>10, <1>11 DEF IsPrefix

\* What is kept of a text is the beginning of it, and its size is that of the text.
LEMMA KeptIs ==
  ASSUME NEW text \in Text, NEW limit \in Nat
  PROVE  /\ Kept(text, limit) \in [text : Text, size : Nat]
         /\ Kept(text, limit).size = Bytes(text)
         /\ Kept(text, limit).text = Cut(text, limit)
<1>1. text \in Seq(Characters)
  BY DEF Text
<1>2. Cut(text, limit) \in Text /\ Bytes(text) \in Nat
  BY <1>1, CutTells, BytesAre DEF Text
<1> QED
  BY <1>2 DEF Kept

\* The attributes of what is kept of a text tell of the text.
LEMMA AttributesAre ==
  ASSUME NEW text \in Text, NEW limit \in Nat, NEW side, NEW config,
         config.inline \in Nat, config.total \in Nat,
         NEW body, body = Kept(text, limit),
         NEW a, a = BodyAttributes(side, body, config)
  PROVE  /\ a.side = side /\ IsPrefix(a.preview, text) /\ a.size = Bytes(text)
         /\ ~a.truncated => a.preview = text
         /\ a.stored => body.text # <<>>
         /\ body.text \in Text /\ IsPrefix(body.text, text)
         /\ body.text # text => Bytes(body.text) >= limit - 1
<1>1. PICK c : c = Cut(text, limit)
  OBVIOUS
<1>2. body.text = c /\ body.size = Bytes(text)
  BY <1>1, KeptIs
<1>3. text \in Seq(Characters)
  BY DEF Text
<1>4. /\ c \in Seq(Characters) /\ Len(c) <= Len(text) /\ c = SubSeq(text, 1, Len(c))
      /\ IsPrefix(c, text) /\ Bytes(c) <= limit
      /\ Bytes(text) <= limit => c = text
      /\ c # text => Bytes(c) >= limit - 1
  BY <1>1, <1>3, CutTells
<1>5. Bytes(c) \in Nat /\ Bytes(text) \in Nat /\ (c = <<>> => Bytes(c) = 0)
  BY <1>3, <1>4, BytesAre
<1>6. PICK p : p = Cut(c, config.inline)
  OBVIOUS
<1>7. /\ Len(p) <= Len(c) /\ p = SubSeq(c, 1, Len(p)) /\ p \in Seq(Characters)
      /\ Bytes(c) <= config.inline => p = c
  BY <1>4, <1>6, CutTells
<1>8. /\ a.side = side /\ a.preview = p /\ a.size = Bytes(text)
      /\ ~a.truncated => ~(Bytes(c) > config.inline) /\ ~(Bytes(text) > Bytes(c))
      /\ a.stored => Bytes(c) > config.inline
  BY <1>2, <1>6 DEF BodyAttributes, Overflows
<1>9. IsPrefix(p, text)
  <2>1. Len(c) \in 0..Len(text) /\ Len(p) \in 0..Len(c)
    BY <1>3, <1>4, <1>7
  <2>2. IsPrefix(SubSeq(SubSeq(text, 1, Len(c)), 1, Len(p)), text)
    BY <1>3, <2>1, PrefixOfPrefix
  <2> QED
    BY <1>4, <1>7, <2>2
<1>10. ~a.truncated => p = text
  <2> SUFFICES ASSUME ~a.truncated PROVE p = text
    OBVIOUS
  <2>1. Bytes(c) <= config.inline /\ Bytes(text) <= Bytes(c)
    BY <1>5, <1>8
  <2>2. Bytes(text) <= limit
    BY <1>4, <1>5, <2>1
  <2> QED
    BY <1>4, <1>7, <2>1, <2>2
<1>11. a.stored => c # <<>>
  <2> SUFFICES ASSUME a.stored PROVE c # <<>>
    OBVIOUS
  <2>1. Bytes(c) > config.inline
    BY <1>8
  <2> QED
    BY <1>5, <2>1
<1> QED
  BY <1>2, <1>4, <1>8, <1>9, <1>10, <1>11 DEF Text

\* Where the elements of two joined sequences are.
LEMMA JoinAt ==
  ASSUME NEW S, NEW s \in Seq(S), NEW t \in Seq(S), NEW i \in 1..Len(s \o t)
  PROVE  \/ i <= Len(s) /\ i \in 1..Len(s) /\ (s \o t)[i] = s[i]
         \/ i > Len(s) /\ i - Len(s) \in 1..Len(t) /\ (s \o t)[i] = t[i - Len(s)]
<1>1. Len(s) \in Nat /\ Len(t) \in Nat /\ Len(s \o t) = Len(s) + Len(t)
  OBVIOUS
<1>2. i \in 1..(Len(s) + Len(t))
  BY <1>1
<1>3. CASE i <= Len(s)
  <2>1. i \in 1..Len(s)
    BY <1>1, <1>2, <1>3
  <2>2. (s \o t)[i] = s[i]
    BY <1>1, <2>1
  <2> QED
    BY <1>3, <2>1, <2>2
<1>4. CASE i > Len(s)
  <2>1. PICK j : j = i - Len(s)
    OBVIOUS
  <2>2. j \in 1..Len(t) /\ i = Len(s) + j
    BY <1>1, <1>2, <1>4, <2>1
  <2>3. \A k \in 1..Len(t) : (s \o t)[Len(s) + k] = t[k]
    OBVIOUS
  <2>4. (s \o t)[i] = t[j]
    BY <2>2, <2>3
  <2> QED
    BY <1>4, <2>1, <2>2, <2>4
<1> QED
  BY <1>1, <1>2, <1>3, <1>4

\* The documents of some bodies, one body after the other.
LEMMA DocumentsOfBodies ==
  ASSUME NEW t, NEW K, \A b \in K : KeptBody(b, t),
         NEW n \in Nat, NEW g, g = [i \in 1..n |-> g[i]],
         \A i \in 1..n : \E b \in K : g[i] = BodyDocuments(b.owner, b),
         \A b \in K : \E i \in 1..n : g[i] = BodyDocuments(b.owner, b)
  PROVE  /\ FlattenSeq(g) \in Seq(BodyDocument)
         /\ \A d : d \in ToSet(FlattenSeq(g)) <=> OfBodies(d, K)
<1>1. PICK S : S = Seq(BodyDocument)
  OBVIOUS
<1>2. \A i \in 1..n : g[i] \in S
  BY <1>1, BodyDocumentsAre
<1>3. g \in Seq(S) /\ Len(g) = n
  <2>1. DOMAIN g = 1..n
    OBVIOUS
  <2> QED
    BY <1>2, <2>1, SeqFrom
<1>4. g \in Seq(Seq(BodyDocument))
  BY <1>1, <1>3
<1>5. /\ FlattenSeq(g) \in Seq(BodyDocument)
      /\ \A d : d \in ToSet(FlattenSeq(g)) <=> \E i \in 1..n : d \in ToSet(g[i])
  BY <1>3, <1>4, FlattenHolds
<1>6. ASSUME NEW d PROVE (\E i \in 1..n : d \in ToSet(g[i])) <=> OfBodies(d, K)
  BY DEF OfBodies
<1> QED
  BY <1>5, <1>6

\* The set of the documents of spans.
TraceDocument(T) == [signal : {"trace"}, part : Seq(T)]

\* The spans of a request, in batches.
LEMMA BatchesAre ==
  ASSUME NEW T, NEW s \in Seq(T), NEW g, g = Batches(s)
  PROVE  /\ g \in Seq(TraceDocument(T))
         /\ \A i \in 1..Len(g) : g[i].signal = "trace" /\ ToSet(g[i].part) \subseteq T
<1>1. PICK p, n : p = Packed(s, TargetBytes) /\ n = Len(p)
  OBVIOUS
<1>2. PICK S : S = Seq(T)
  OBVIOUS
<1>3. p \in Seq(S)
  BY <1>1, <1>2, PackedIs
<1>4. n \in Nat /\ DOMAIN p = 1..n /\ \A i \in 1..n : p[i] \in S
  BY <1>1, <1>3, SeqIs
<1>5. g = [i \in 1..n |-> [signal |-> "trace", part |-> p[i]]]
  BY <1>1, <1>4 DEF Batches
<1>6. ASSUME NEW i \in 1..n
      PROVE  /\ g[i] \in TraceDocument(T) /\ g[i].signal = "trace"
             /\ ToSet(g[i].part) \subseteq T
  <2>1. g[i] = [signal |-> "trace", part |-> p[i]] /\ p[i] \in Seq(T)
    BY <1>2, <1>4, <1>5
  <2>2. ToSet(p[i]) \subseteq T
    <3>1. DOMAIN p[i] = 1..Len(p[i]) /\ \A k \in 1..Len(p[i]) : p[i][k] \in T
      BY <2>1, SeqIs
    <3> QED
      BY <3>1 DEF ToSet
  <2> QED
    BY <2>1, <2>2 DEF TraceDocument
<1>7. DOMAIN g = 1..n /\ g = [i \in 1..n |-> g[i]]
  BY <1>5
<1>8. g \in Seq(TraceDocument(T)) /\ Len(g) = n
  BY SMTT(60), <1>4, <1>6, <1>7, SeqFrom
<1> QED
  BY <1>6, <1>8

\* Elements of fewer are elements of more.
LEMMA SeqWider ==
  ASSUME NEW A, NEW B, A \subseteq B, NEW s \in Seq(A)
  PROVE  s \in Seq(B)
<1>1. Len(s) \in Nat /\ DOMAIN s = 1..Len(s) /\ \A i \in 1..Len(s) : s[i] \in B
  BY SeqIs
<1>2. s = [i \in 1..Len(s) |-> s[i]]
  BY SeqIs
<1> QED
  BY <1>1, <1>2, SeqFrom

\* The documents of a request, put together: the bodies, the spans, the recording.
LEMMA Assembled ==
  ASSUME NEW t, NEW K, NEW T, OnePerSide(K), \A b \in K : KeptBody(b, t),
         \A s \in T : SpanTells(s, t, K), t.exchange.items \in Seq(Item),
         NEW F \in Seq(BodyDocument), NEW G \in Seq(BodyDocument),
         \A d : d \in ToSet(F) \/ d \in ToSet(G) <=> OfBodies(d, K),
         NEW H \in Seq(TraceDocument(T)),
         \A i \in 1..Len(H) : H[i].signal = "trace" /\ ToSet(H[i].part) \subseteq T,
         NEW R, R = Recorded(t.exchange.items)
  PROVE  EndsIn(F \o G \o H \o R, K, T, t)
<1>1. PICK X : X = BodyDocument \cup TraceDocument(T) \cup RecordingDocument
  OBVIOUS
<1>2. R \in Seq(RecordingDocument) /\ \A i \in 1..Len(R) : R[i].signal = "recording"
  BY RecordedAre
<1>3. F \in Seq(X) /\ G \in Seq(X) /\ H \in Seq(X) /\ R \in Seq(X)
  <2>1. /\ BodyDocument \subseteq X /\ TraceDocument(T) \subseteq X /\ RecordingDocument \subseteq X
    BY <1>1
  <2> QED
    BY <1>2, <2>1, SeqWider
<1>4. PICK B : B = F \o G
  OBVIOUS
<1>5. /\ B \in Seq(X) /\ \A x : x \in ToSet(B) <=> x \in ToSet(F) \/ x \in ToSet(G)
  BY <1>3, <1>4, JoinHolds
<1>6. PICK C : C = B \o H
  OBVIOUS
<1>7. /\ C \in Seq(X) /\ Len(C) = Len(B) + Len(H)
      /\ \A x : x \in ToSet(C) <=> x \in ToSet(B) \/ x \in ToSet(H)
  BY <1>3, <1>5, <1>6, JoinHolds
<1>8. PICK Q : Q = C \o R
  OBVIOUS
<1>9. /\ Q \in Seq(X) /\ Len(Q) = Len(C) + Len(R)
      /\ \A x : x \in ToSet(Q) <=> x \in ToSet(C) \/ x \in ToSet(R)
  <2>1. C \in Seq(X) /\ R \in Seq(X)
    BY <1>3, <1>7
  <2>2. /\ C \o R \in Seq(X) /\ Len(C \o R) = Len(C) + Len(R)
        /\ \A x : x \in ToSet(C \o R) <=> x \in ToSet(C) \/ x \in ToSet(R)
    BY <2>1, JoinHolds
  <2> QED
    BY <1>8, <2>2
<1>10. Q \in Seq(ToSet(Q))
  <2>1. Len(Q) \in Nat /\ DOMAIN Q = 1..Len(Q) /\ Q = [i \in 1..Len(Q) |-> Q[i]]
    BY <1>9, SeqIs
  <2>2. \A i \in 1..Len(Q) : Q[i] \in ToSet(Q)
    BY <2>1 DEF ToSet
  <2> QED
    BY <2>1, <2>2, SeqFrom
<1>11. \A x : x \in ToSet(B) <=> OfBodies(x, K)
  BY <1>5
<1>12. ASSUME NEW x \in ToSet(H) PROVE x.signal = "trace" /\ ToSet(x.part) \subseteq T
  <2>1. DOMAIN H = 1..Len(H)
    OBVIOUS
  <2> QED
    BY <1>12, <2>1 DEF ToSet
<1>13. ASSUME NEW i \in 1..Len(B) PROVE B[i].signal = "body"
  <2>1. DOMAIN B = 1..Len(B)
    BY <1>5
  <2>2. B[i] \in ToSet(B)
    BY <2>1 DEF ToSet
  <2>3. PICK b \in K : B[i] \in ToSet(BodyDocuments(b.owner, b))
    BY <1>11, <2>2 DEF OfBodies
  <2>4. PICK g : g = BodyDocuments(b.owner, b)
    OBVIOUS
  <2>5. g \in Seq(BodyDocument) /\ \A l \in 1..Len(g) : g[l].signal = "body"
    BY <2>4, BodyDocumentsAre
  <2>6. DOMAIN g = 1..Len(g)
    BY <2>5
  <2> QED
    BY <2>3, <2>4, <2>5, <2>6 DEF ToSet
<1>14. ASSUME NEW i \in 1..Len(Q)
       PROVE  \/ i <= Len(B) /\ Q[i].signal = "body"
              \/ i > Len(B) /\ Q[i].signal # "body"
  <2>1. /\ Len(B) \in Nat /\ Len(C) \in Nat /\ Len(H) \in Nat /\ Len(Q) \in Nat
        /\ Len(C) = Len(B) + Len(H)
    BY <1>3, <1>5, <1>7, <1>9
  <2>2. \/ i \in 1..Len(C) /\ Q[i] = C[i]
        \/ i > Len(C) /\ i - Len(C) \in 1..Len(R) /\ Q[i] = R[i - Len(C)]
    BY <1>3, <1>7, <1>8, JoinAt
  <2>3. CASE i \in 1..Len(C) /\ Q[i] = C[i]
    <3>1. \/ i <= Len(B) /\ i \in 1..Len(B) /\ C[i] = B[i]
          \/ i > Len(B) /\ i - Len(B) \in 1..Len(H) /\ C[i] = H[i - Len(B)]
      <4>1. i \in 1..Len(B \o H) /\ B \in Seq(X) /\ H \in Seq(X)
        BY <1>3, <1>5, <1>6, <2>3
      <4>2. \/ i <= Len(B) /\ i \in 1..Len(B) /\ (B \o H)[i] = B[i]
            \/ i > Len(B) /\ i - Len(B) \in 1..Len(H) /\ (B \o H)[i] = H[i - Len(B)]
        BY <4>1, JoinAt
      <4> QED
        BY <1>6, <4>2
    <3>2. CASE i <= Len(B) /\ i \in 1..Len(B) /\ C[i] = B[i]
      <4>1. B[i].signal = "body"
        BY <1>13, <3>2
      <4>2. Q[i] = B[i]
        BY <2>3, <3>2
      <4>3. Q[i].signal = "body"
        BY <4>1, <4>2
      <4> QED
        BY <3>2, <4>3
    <3>3. CASE i > Len(B) /\ i - Len(B) \in 1..Len(H) /\ C[i] = H[i - Len(B)]
      <4>1. H[i - Len(B)].signal = "trace"
        BY <3>3
      <4>2. Q[i].signal # "body"
        BY <2>3, <3>3, <4>1, SignalsDiffer
      <4> QED
        BY <3>3, <4>2
    <3> QED
      BY <3>1, <3>2, <3>3
  <2>4. CASE i > Len(C) /\ i - Len(C) \in 1..Len(R) /\ Q[i] = R[i - Len(C)]
    <3>1. R[i - Len(C)].signal = "recording"
      BY <1>2, <2>4
    <3>2. Q[i].signal # "body"
      BY <2>4, <3>1, SignalsDiffer
    <3>3. i > Len(B)
      BY <2>1, <2>4
    <3> QED
      BY <3>2, <3>3
  <2> QED
    BY <2>2, <2>3, <2>4
<1>15. ASSUME NEW i \in 1..Len(Q), NEW j \in 1..Len(Q), Q[i].signal = "trace", Q[j].signal = "body"
       PROVE  j < i
  <2>1. j <= Len(B)
    BY <1>14, <1>15
  <2>2. i > Len(B)
    BY <1>14, <1>15, SignalsDiffer
  <2>3. Len(B) \in Nat /\ Len(Q) \in Nat
    BY <1>5, <1>9
  <2> QED
    BY <2>1, <2>2, <2>3
<1>16. ASSUME NEW d \in ToSet(Q)
       PROVE  OfBodies(d, K) \/ d \in ToSet(Recorded(t.exchange.items))
              \/ OfSpans(d, T)
  <2>1. d \in ToSet(B) \/ d \in ToSet(H) \/ d \in ToSet(R)
    BY <1>7, <1>9
  <2>2. d \in ToSet(B) => OfBodies(d, K)
    BY <1>11
  <2>3. d \in ToSet(H) => OfSpans(d, T)
    BY <1>12 DEF OfSpans
  <2>4. CASE d \in ToSet(B)
    BY <2>2, <2>4
  <2>5. CASE d \in ToSet(H)
    BY <2>3, <2>5
  <2>6. CASE d \in ToSet(R)
    BY <2>6
  <2> QED
    BY <2>1, <2>4, <2>5, <2>6
<1>17. ASSUME NEW d, OfBodies(d, K) \/ d \in ToSet(Recorded(t.exchange.items))
       PROVE  d \in ToSet(Q)
  BY <1>7, <1>9, <1>11, <1>17
<1>18. EndsIn(Q, K, T, t)
  BY <1>10, <1>15, <1>16, <1>17 DEF EndsIn
<1> QED
  BY <1>4, <1>6, <1>8, <1>18

\* What is kept of either side of an exchange.
SidesAre(Z, t) ==
  /\ \A z, w \in Z : z.side = w.side => z = w
  /\ \A z \in Z : z.side \in {"request", "response"} /\ Meant(t, 0, z.side) \in Text
  /\ \A z \in Z : \E limit \in {SettingsOf(t).total, Bytes(Meant(t, 0, z.side))} :
        z.body = Kept(Meant(t, 0, z.side), limit)

\* A body of an exchange, as a body to be written.
Owned(z) == [owner |-> 0, side |-> z.side, text |-> z.body.text]

\* The bodies that are stored, as bodies to be written.
AreOwned(K, Z, config) ==
  \A b : b \in K <=> \E z \in Z : BodyAttributes(z.side, z.body, config).stored /\ b = Owned(z)

\* The attributes of an exchange, in a root span.
RootAttributes(s, K, Z, config, t) ==
  \A z \in Z : /\ Tells(BodyAttributes(z.side, z.body, config), s, t)
              /\ Promised(BodyAttributes(z.side, z.body, config), s, K)

\* The attributes of an exchange tell of its bodies, and promise those that are stored.
LEMMA SidesTell ==
  ASSUME NEW t, NEW Z, SidesAre(Z, t), NEW config, config = SettingsOf(t),
         config.inline \in Nat, config.total \in Nat,
         NEW K, AreOwned(K, Z, config)
  PROVE  /\ OnePerSide(K) /\ \A b \in K : KeptBody(b, t) /\ b.owner = 0
         /\ \A s : s.kind = "root" /\ s.id = 0 => RootAttributes(s, K, Z, config, t)
<1>0. \A b : b \in K <=> \E z \in Z : BodyAttributes(z.side, z.body, config).stored /\ b = Owned(z)
  BY DEF AreOwned
<1>1. ASSUME NEW z \in Z, NEW a, a = BodyAttributes(z.side, z.body, config)
      PROVE  /\ a.side = z.side /\ (z.side = "request" \/ z.side = "response")
             /\ IsPrefix(a.preview, Meant(t, 0, z.side))
             /\ a.size = Bytes(Meant(t, 0, z.side))
             /\ ~a.truncated => a.preview = Meant(t, 0, z.side)
             /\ a.stored => z.body.text # <<>>
             /\ z.body.text \in Text /\ IsPrefix(z.body.text, Meant(t, 0, z.side))
             /\ z.body.text # Meant(t, 0, z.side) => Bytes(z.body.text) >= SettingsOf(t).total - 1
  <2>1. PICK text : text = Meant(t, 0, z.side)
    OBVIOUS
  <2>2. text \in Text /\ z.side \in {"request", "response"}
    BY <2>1 DEF SidesAre
  <2>3. PICK limit \in {config.total, Bytes(text)} : z.body = Kept(text, limit)
    BY <2>1 DEF SidesAre
  <2>4. Bytes(text) \in Nat /\ text \in Seq(Characters)
    BY <2>2, BytesAre DEF Text
  <2>5. limit \in Nat
    BY <2>3, <2>4
  <2>6. /\ a.side = z.side /\ IsPrefix(a.preview, text) /\ a.size = Bytes(text)
        /\ ~a.truncated => a.preview = text
        /\ a.stored => z.body.text # <<>>
        /\ z.body.text \in Text /\ IsPrefix(z.body.text, text)
        /\ z.body.text # text => Bytes(z.body.text) >= limit - 1
    BY <1>1, <2>2, <2>3, <2>5, AttributesAre
  <2>7. z.body.text # text => Bytes(z.body.text) >= config.total - 1
    <3>1. CASE limit = config.total
      BY <2>6, <3>1
    <3>2. CASE limit = Bytes(text)
      <4>1. z.body.text = Cut(text, limit)
        BY <2>2, <2>3, <2>5, KeptIs
      <4>2. Cut(text, limit) = text
        <5>1. Bytes(text) <= limit
          BY <2>4, <3>2
        <5> QED
          BY <2>4, <2>5, <5>1, CutTells
      <4> QED
        BY <4>1, <4>2
    <3> QED
      BY <2>3, <3>1, <3>2
  <2> QED
    BY <2>1, <2>2, <2>6, <2>7
<1>2. ASSUME NEW b \in K
      PROVE  KeptBody(b, t) /\ \E z \in Z : b = Owned(z) /\ b.owner = 0 /\ b.side = z.side
  <2>1. PICK z \in Z : BodyAttributes(z.side, z.body, config).stored /\ b = Owned(z)
    BY <1>0
  <2>2. b.owner = 0 /\ b.side = z.side /\ b.text = z.body.text
    BY <2>1 DEF Owned
  <2>3. /\ z.side = "request" \/ z.side = "response"
        /\ z.body.text # <<>>
        /\ z.body.text \in Text /\ IsPrefix(z.body.text, Meant(t, 0, z.side))
        /\ z.body.text # Meant(t, 0, z.side) => Bytes(z.body.text) >= SettingsOf(t).total - 1
    <3>1. PICK a : a = BodyAttributes(z.side, z.body, config)
      OBVIOUS
    <3>2. a.stored
      BY <2>1, <3>1
    <3> QED
      BY <1>1, <3>1, <3>2
  <2>4. z.side \in Sides
    BY <2>3 DEF Sides
  <2>5. KeptBody(b, t)
    BY <2>2, <2>3, <2>4 DEF KeptBody
  <2> QED
    BY <2>1, <2>2, <2>5
<1>3. OnePerSide(K)
  <2> SUFFICES ASSUME NEW b \in K, NEW c \in K, b.side = c.side PROVE b = c
    BY DEF OnePerSide
  <2>1. PICK z \in Z : b = Owned(z) /\ b.side = z.side
    BY <1>2
  <2>2. PICK w \in Z : c = Owned(w) /\ c.side = w.side
    BY <1>2
  <2>3. z = w
    BY <2>1, <2>2 DEF SidesAre
  <2> QED
    BY <2>1, <2>2, <2>3
<1>4. ASSUME NEW s, NEW z, s.kind = "root", s.id = 0, z \in Z,
             NEW a, a = BodyAttributes(z.side, z.body, config)
      PROVE  Tells(a, s, t) /\ Promised(a, s, K)
  <2>1. Tells(a, s, t)
    BY <1>1, <1>4 DEF Tells
  <2>2. a.side = z.side
    BY <1>1, <1>4
  <2>3. ASSUME ~a.stored, NEW b \in K PROVE ~(b.owner = s.id /\ b.side = a.side)
    <3> SUFFICES ASSUME b.side = a.side PROVE FALSE
      OBVIOUS
    <3>1. PICK w \in Z : BodyAttributes(w.side, w.body, config).stored /\ b = Owned(w)
      BY <1>0, <2>3
    <3>2. b.side = w.side
      BY <3>1 DEF Owned
    <3>3. w = z
      BY <1>4, <2>2, <3>2 DEF SidesAre
    <3> QED
      BY <1>4, <2>3, <3>1, <3>3
  <2>4. ASSUME a.stored PROVE \E b \in K : b.owner = s.id /\ b.side = a.side
    <3>1. PICK b : b = Owned(z)
      OBVIOUS
    <3>2. b \in K
      BY <1>0, <1>4, <2>4, <3>1
    <3>3. b.owner = 0 /\ b.side = z.side
      BY <3>1 DEF Owned
    <3> QED
      BY <1>4, <2>2, <3>2, <3>3
  <2> QED
    BY <2>1, <2>3, <2>4 DEF Promised
<1> QED
  BY <1>2, <1>3, <1>4 DEF RootAttributes

\* What short sequences hold.
LEMMA SingleHolds ==
  ASSUME NEW x
  PROVE  /\ \A z : z \in ToSet(<<x>>) <=> z = x
         /\ \A z : z \notin ToSet(<<>>)
<1>1. DOMAIN <<x>> = {1} /\ <<x>>[1] = x
  OBVIOUS
<1>2. \A z : z \in ToSet(<<x>>) <=> z = x
  BY <1>1 DEF ToSet
<1>3. \A z : z \notin ToSet(<<>>)
  BY DEF ToSet
<1> QED
  BY <1>2, <1>3

\* The bodies that are drained of what is kept.
StoredOf(kept, config) ==
  FlattenSeq([i \in DOMAIN kept |-> StoredBody(kept[i].side, kept[i].body, config)])

\* These are the bodies that do not fit in their span.
AreStored(bodies, kept, config) ==
  /\ \E X : bodies \in Seq(X)
  /\ \A x : x \in ToSet(bodies) <=>
       \E z \in ToSet(kept) : /\ BodyAttributes(z.side, z.body, config).stored
                              /\ x = [side |-> z.side, text |-> z.body.text]

\* What does not fit in its span is drained, and nothing else.
LEMMA StoredAre ==
  ASSUME NEW S, NEW kept \in Seq(S), NEW config
  PROVE  AreStored(StoredOf(kept, config), kept, config)
<1>1. PICK n : n = Len(kept)
  OBVIOUS
<1>2. n \in Nat /\ DOMAIN kept = 1..n /\ \A i \in 1..n : kept[i] \in S
  BY <1>1, SeqIs
<1>3. PICK X : X = {[side |-> z.side, text |-> z.body.text] : z \in S}
  OBVIOUS
<1>4. PICK g : g = [i \in 1..n |-> StoredBody(kept[i].side, kept[i].body, config)]
  OBVIOUS
<1>5. ASSUME NEW i \in 1..n
      PROVE  /\ g[i] \in Seq(X)
             /\ \A x : x \in ToSet(g[i]) <=>
                  /\ BodyAttributes(kept[i].side, kept[i].body, config).stored
                  /\ x = [side |-> kept[i].side, text |-> kept[i].body.text]
  <2>1. PICK z : z = kept[i]
    OBVIOUS
  <2>2. PICK r : r = [side |-> z.side, text |-> z.body.text]
    OBVIOUS
  <2>3. r \in X
    BY <1>2, <1>3, <2>1, <2>2
  <2>4. g[i] = IF BodyAttributes(z.side, z.body, config).stored THEN <<r>> ELSE <<>>
    BY <1>4, <2>1, <2>2 DEF StoredBody
  <2>5. <<r>> \in Seq(X) /\ <<>> \in Seq(X)
    BY <2>3
  <2>6. /\ \A x : x \in ToSet(<<r>>) <=> x = r
        /\ \A x : x \notin ToSet(<<>>)
    BY SingleHolds
  <2>7. CASE BodyAttributes(z.side, z.body, config).stored
    <3>1. g[i] = <<r>>
      BY <2>4, <2>7
    <3> QED
      BY <2>1, <2>2, <2>5, <2>6, <2>7, <3>1
  <2>8. CASE ~BodyAttributes(z.side, z.body, config).stored
    <3>1. g[i] = <<>>
      BY <2>4, <2>8
    <3> QED
      BY <2>1, <2>5, <2>6, <2>8, <3>1
  <2> QED
    BY <2>7, <2>8
<1>6. g \in Seq(Seq(X)) /\ Len(g) = n
  <2>1. PICK Y : Y = Seq(X)
    OBVIOUS
  <2>2. DOMAIN g = 1..n /\ g = [i \in 1..n |-> g[i]] /\ \A i \in 1..n : g[i] \in Y
    BY <1>4, <1>5, <2>1
  <2>3. g \in Seq(Y) /\ Len(g) = n
    BY <1>2, <2>2, SeqFrom
  <2> QED
    BY <2>1, <2>3
<1>7. PICK bodies : bodies = StoredOf(kept, config)
  OBVIOUS
<1>8. bodies \in Seq(X) /\ \A x : x \in ToSet(bodies) <=> \E i \in 1..n : x \in ToSet(g[i])
  <2>1. bodies = FlattenSeq(g)
    BY <1>2, <1>4, <1>7 DEF StoredOf
  <2> QED
    BY <1>6, <2>1, FlattenHolds
<1>9. ASSUME NEW x
      PROVE  x \in ToSet(bodies) <=>
              \E z \in ToSet(kept) : /\ BodyAttributes(z.side, z.body, config).stored
                                     /\ x = [side |-> z.side, text |-> z.body.text]
  <2>1. x \in ToSet(bodies) <=> \E i \in 1..n :
          /\ BodyAttributes(kept[i].side, kept[i].body, config).stored
          /\ x = [side |-> kept[i].side, text |-> kept[i].body.text]
    BY <1>5, <1>8
  <2>2. ToSet(kept) = {kept[i] : i \in 1..n}
    BY <1>2 DEF ToSet
  <2> QED
    BY <2>1, <2>2
<1> QED
  BY <1>7, <1>8, <1>9 DEF AreStored

\* The history of a request, as to its types.
TruthIs(t) ==
  t \in [exchange : Exchanges \cup {Absent}, response : Text \cup {Absent}, headers : Pairs,
         marks : Seq(Nat), end : Nat, calls : Nat, texts : Seq(Text)]

\* What an exchange is, and the settings it resolves to.
LEMMA ExchangeIs ==
  ASSUME NEW t, t.exchange \in Exchanges
  PROVE  /\ t.exchange.maps \in Pairs /\ t.exchange.body \in Text /\ t.exchange.items \in Seq(Item)
         /\ SettingsOf(t).inline \in Nat /\ SettingsOf(t).total \in Nat
<1>1. PICK x : x = t.exchange
  OBVIOUS
<1>2. PICK E : E = [settings : Settings, maps : Pairs, body : Text, multipart : BOOLEAN,
                    items : Seq(Item)]
  OBVIOUS
<1>3. x \in E
  BY <1>1, <1>2, HttpCaptureData DEF Item
<1>4. x.settings \in Settings /\ x.maps \in Pairs /\ x.body \in Text /\ x.items \in Seq(Item)
  BY <1>2, <1>3
<1>5. PICK s : s = x.settings
  OBVIOUS
<1>6. s.inline \in Nat /\ s.total \in Nat
  BY <1>4, <1>5 DEF Settings
<1>7. DefaultInline \in Nat /\ DefaultTotal \in Nat /\ Ceiling \in Nat
  BY HttpCaptureConstants
<1>8. Asked(s.inline, DefaultInline) \in Nat /\ Asked(s.total, DefaultTotal) \in Nat
  BY <1>6, <1>7 DEF Asked
<1>9. PICK a, b : a = Asked(s.inline, DefaultInline) /\ b = Asked(s.total, DefaultTotal)
  OBVIOUS
<1>10. PICK c, d : c = Max({b, a}) /\ d = Max({Ceiling, a})
  OBVIOUS
<1>11. c \in Nat /\ d \in Nat
  BY <1>7, <1>8, <1>9, <1>10, OfTwo
<1>12. Min({c, d}) \in Nat
  BY <1>11, OfTwo
<1>13. Resolve(s).inline \in Nat /\ Resolve(s).total \in Nat
  BY <1>7, <1>8, <1>9, <1>10, <1>12 DEF Resolve, Disabled
<1> QED
  BY <1>1, <1>4, <1>5, <1>13 DEF SettingsOf

\* A capture, by the history of its request.
CaptureOf(t) ==
  [config   |-> SettingsOf(t), maps |-> t.exchange.maps, body |-> Body(t.exchange, SettingsOf(t)),
   headers  |-> t.headers,
   response |-> IF t.response = Absent THEN Absent ELSE Kept(t.response, SettingsOf(t).total),
   phases   |-> Labelled(KeptOf(t))]

\* The history of a request once it has ended.
EndsAs(u, t, duration, listed, buffer) ==
  /\ t.exchange = u.exchange /\ t.marks = u.marks /\ t.texts = u.texts /\ t.end = duration
  /\ t.headers = IF u.headers = <<>> THEN listed ELSE u.headers
  /\ t.response = IF u.response = Absent THEN buffer ELSE u.response

\* What a request has kept of its exchange when it ends.
LEMMA KeptSides ==
  ASSUME NEW t, TruthIs(truth), truth.exchange \in Exchanges, capture = CaptureOf(truth),
         NEW duration, NEW listed, NEW buffer \in Text, EndsAs(truth, t, duration, listed, buffer),
         NEW kept, kept = Sided("request", capture.body) \o Sided("response", Response(buffer))
  PROVE  SidesAre(ToSet(kept), t) /\ \E S : kept \in Seq(S)
<1>1. PICK B, R : B = capture.body /\ R = Response(buffer)
  OBVIOUS
<1>2. PICK x, y : x = [side |-> "request", body |-> B] /\ y = [side |-> "response", body |-> R]
  OBVIOUS
<1>3. PICK p, q : p = Sided("request", B) /\ q = Sided("response", R)
  OBVIOUS
<1>4. /\ p = IF B = Absent THEN <<>> ELSE <<x>>
      /\ q = IF R = Absent THEN <<>> ELSE <<y>>
  BY <1>2, <1>3 DEF Sided
<1>5. PICK S : S = {x, y}
  OBVIOUS
<1>6. p \in Seq(S) /\ q \in Seq(S)
  <2>1. <<>> \in Seq(S) /\ <<x>> \in Seq(S) /\ <<y>> \in Seq(S)
    BY <1>5
  <2> QED
    BY <1>4, <2>1
<1>7. kept = p \o q
  BY <1>1, <1>3
<1>8. kept \in Seq(S) /\ \A z : z \in ToSet(kept) <=> z \in ToSet(p) \/ z \in ToSet(q)
  BY <1>6, <1>7, JoinHolds
<1>9. \A z \in ToSet(kept) : (z = x /\ B # Absent) \/ (z = y /\ R # Absent)
  <2>1. /\ \A z : z \in ToSet(<<x>>) => z = x
        /\ \A z : z \in ToSet(<<y>>) => z = y
        /\ \A z : z \notin ToSet(<<>>)
    BY SingleHolds
  <2>2. ASSUME NEW z \in ToSet(p) PROVE z = x /\ B # Absent
    BY <1>4, <2>1, <2>2
  <2>3. ASSUME NEW z \in ToSet(q) PROVE z = y /\ R # Absent
    BY <1>4, <2>1, <2>3
  <2> QED
    BY <1>8, <2>2, <2>3
<1>10. PICK config : config = SettingsOf(truth)
  OBVIOUS
<1>11. config = SettingsOf(t) /\ t.exchange.body \in Text /\ config.total \in Nat
  <2>1. t.exchange = truth.exchange
    BY DEF EndsAs
  <2> QED
    BY <1>10, <2>1, ExchangeIs DEF SettingsOf
<1>12. B # Absent => B = Kept(t.exchange.body, config.total)
  <2>1. B = Body(truth.exchange, config)
    BY <1>1, <1>10 DEF CaptureOf
  <2>2. t.exchange = truth.exchange
    BY DEF EndsAs
  <2> QED
    BY <2>1, <2>2 DEF Body
<1>13. R # Absent => t.response \in Text /\ (\/ R = Kept(t.response, config.total)
                                             \/ R = Kept(t.response, Bytes(t.response)))
  <2> SUFFICES ASSUME R # Absent
               PROVE  t.response \in Text /\ (\/ R = Kept(t.response, config.total)
                                              \/ R = Kept(t.response, Bytes(t.response)))
    OBVIOUS
  <2>1. capture.response = IF truth.response = Absent THEN Absent
                           ELSE Kept(truth.response, config.total)
    BY <1>10 DEF CaptureOf
  <2>2. t.response = IF truth.response = Absent THEN buffer ELSE truth.response
    BY DEF EndsAs
  <2>3. truth.response \in Text \cup {Absent}
    BY DEF TruthIs
  <2>4. CASE truth.response = Absent
    <3>1. capture.response = Absent /\ t.response = buffer
      BY <2>1, <2>2, <2>4
    <3>2. R = Kept(buffer, Bytes(buffer))
      BY <1>1, <3>1 DEF Response
    <3> QED
      BY <3>1, <3>2
  <2>5. CASE truth.response # Absent
    <3>1. truth.response \in Text /\ t.response = truth.response
      BY <2>2, <2>3, <2>5
    <3>2. capture.response = Kept(truth.response, config.total)
      BY <2>1, <2>5
    <3>3. capture.response # Absent
      BY <1>11, <3>1, <3>2, KeptIs, HttpCaptureData
    <3>4. R = capture.response
      BY <1>1, <3>3 DEF Response
    <3> QED
      BY <3>1, <3>2, <3>4
  <2> QED
    BY <2>4, <2>5
<1>14. x.side = "request" /\ x.body = B /\ y.side = "response" /\ y.body = R
  BY <1>2
<1>15. Meant(t, 0, "request") = t.exchange.body /\ Meant(t, 0, "response") = t.response
  BY SignalsDiffer DEF Meant
<1>16. ASSUME NEW z \in ToSet(kept)
       PROVE  /\ z.side \in {"request", "response"} /\ Meant(t, 0, z.side) \in Text
              /\ \E limit \in {SettingsOf(t).total, Bytes(Meant(t, 0, z.side))} :
                    z.body = Kept(Meant(t, 0, z.side), limit)
  <2>1. CASE z = x /\ B # Absent
    <3>1. Meant(t, 0, z.side) = t.exchange.body /\ z.side = "request"
      BY <1>14, <1>15, <2>1
    <3>2. z.body = Kept(t.exchange.body, config.total)
      BY <1>12, <1>14, <2>1
    <3> QED
      BY <1>11, <3>1, <3>2
  <2>2. CASE z = y /\ R # Absent
    <3>1. Meant(t, 0, z.side) = t.response /\ z.side = "response"
      BY <1>14, <1>15, <2>2
    <3>2. t.response \in Text /\ (\/ z.body = Kept(t.response, config.total)
                                  \/ z.body = Kept(t.response, Bytes(t.response)))
      BY <1>13, <1>14, <2>2
    <3> QED
      BY <1>11, <3>1, <3>2
  <2> QED
    BY <1>9, <2>1, <2>2
<1>17. ASSUME NEW z \in ToSet(kept), NEW w \in ToSet(kept), z.side = w.side PROVE z = w
  BY <1>9, <1>14, <1>17, SignalsDiffer
<1> QED
  BY <1>8, <1>16, <1>17 DEF SidesAre

\* The marks that are kept are the first ones.
LEMMA KeptMarksAre ==
  ASSUME NEW t, Ascending(t.marks)
  PROVE  /\ Ascending(KeptOf(t))
         /\ Len(KeptOf(t)) = IF MaxPhases <= Len(t.marks) THEN MaxPhases ELSE Len(t.marks)
         /\ Len(KeptOf(t)) \in 0..Len(t.marks)
         /\ \A i \in 1..Len(KeptOf(t)) : i \in 1..Len(t.marks) /\ KeptOf(t)[i] = t.marks[i]
<1>1. PICK marks, n, m : /\ marks = t.marks /\ n = Len(marks)
                         /\ m = Min({MaxPhases, n})
  OBVIOUS
<1>2. /\ marks \in Seq(Nat) /\ n \in Nat
      /\ \A i, j \in 1..n : i <= j => marks[i] <= marks[j]
  BY <1>1 DEF Ascending
<1>3. MaxPhases \in Nat
  BY HttpCaptureConstants
<1>4. m = IF MaxPhases <= n THEN MaxPhases ELSE n
  BY <1>1, <1>2, <1>3, OfTwo
<1>5. m \in 0..n
  BY <1>2, <1>3, <1>4
<1>6. PICK k : k = KeptOf(t)
  OBVIOUS
<1>7. k = SubSeq(marks, 1, m)
  BY <1>1, <1>6 DEF KeptOf
<1>8. k \in Seq(Nat) /\ Len(k) = m /\ \A i \in 1..m : k[i] = marks[i]
  BY ZenonT(60), <1>1, <1>2, <1>5, <1>7, PrefixIs
<1>9. \A i \in 1..m : i \in 1..n
  BY <1>2, <1>5
<1>10. Ascending(k)
  BY <1>2, <1>8, <1>9 DEF Ascending
<1> QED
  BY <1>1, <1>4, <1>5, <1>6, <1>8, <1>9, <1>10

\* The maps of a drained capture admit what they leave out.
LEMMA MapsAre ==
  ASSUME NEW t, TruthIs(truth), truth.exchange \in Exchanges, capture = CaptureOf(truth),
         NEW duration, NEW listed \in Pairs, NEW buffer, EndsAs(truth, t, duration, listed, buffer),
         NEW config, config = SettingsOf(t),
         NEW maps, maps = <<capture.maps, ResponseHeaders(listed)>>,
         NEW e, e = [i \in DOMAIN maps |-> Encoded(maps[i], config)]
  PROVE  \A i \in DOMAIN e : Admits(e[i], IF i = 1 THEN t.exchange.maps ELSE t.headers, SettingsOf(t))
<1>1. capture.maps = t.exchange.maps /\ t.exchange.maps \in Pairs
  <2>1. t.exchange = truth.exchange
    BY DEF EndsAs
  <2> QED
    BY <2>1, ExchangeIs DEF CaptureOf
<1>2. ResponseHeaders(listed) = t.headers /\ t.headers \in Pairs
  <2>1. capture.headers = truth.headers /\ truth.headers \in Pairs
    BY DEF CaptureOf, TruthIs
  <2> QED
    BY <2>1 DEF EndsAs, ResponseHeaders
<1>3. DOMAIN maps = {1, 2} /\ maps[1] = t.exchange.maps /\ maps[2] = t.headers
  <2>1. maps = <<t.exchange.maps, t.headers>>
    BY <1>1, <1>2
  <2> QED
    BY <2>1
<1>4. DOMAIN e = {1, 2}
  BY <1>3
<1>5. Admits(e[1], t.exchange.maps, config)
  <2>1. e[1] = Encoded(t.exchange.maps, config)
    BY <1>3
  <2> QED
    BY <1>1, <2>1, EncodedAdmits
<1>6. Admits(e[2], t.headers, config)
  <2>1. e[2] = Encoded(t.headers, config)
    BY <1>3
  <2> QED
    BY <1>2, <2>1, EncodedAdmits
<1>7. ASSUME NEW i \in DOMAIN e
      PROVE  Admits(e[i], IF i = 1 THEN t.exchange.maps ELSE t.headers, SettingsOf(t))
  <2>1. CASE i = 1
    BY <1>5, <2>1
  <2>2. CASE i # 1
    <3>1. i = 2
      BY <1>4, <2>2
    <3> QED
      BY <1>6, <2>2, <3>1
  <2> QED
    BY <2>1, <2>2
<1> QED
  BY <1>7

\* The timeline of a drained capture tiles the request.
LEMMA TimelineIs ==
  ASSUME NEW t, capture = CaptureOf(truth), Ascending(truth.marks),
         NEW duration \in Nat, \A i \in 1..Len(truth.marks) : truth.marks[i] <= duration,
         NEW listed, NEW buffer, EndsAs(truth, t, duration, listed, buffer),
         NEW line, line = PhaseJson(capture.phases, duration), line # <<>>
  PROVE  Tiles(line, KeptOf(t), t.end)
<1>1. PICK k : k = KeptOf(truth)
  OBVIOUS
<1>2. KeptOf(t) = k /\ t.end = duration
  BY <1>1 DEF KeptOf, EndsAs
<1>3. capture.phases = Labelled(k)
  BY <1>1 DEF CaptureOf
<1>4. Ascending(k) /\ \A i \in 1..Len(k) : k[i] <= duration
  BY <1>1, KeptMarksAre
<1>5. PhaseJson(Labelled(k), duration) # <<>> => Tiles(PhaseJson(Labelled(k), duration), k, duration)
  BY <1>4, PhasesTile
<1> QED
  BY <1>2, <1>3, <1>5

\* What is drained of a capture: its bodies, and a root span that tells of them.
LEMMA DrainedIs ==
  ASSUME NEW t, TruthIs(truth), truth.exchange \in Exchanges, capture = CaptureOf(truth),
         Ascending(truth.marks),
         NEW duration \in Nat, \A i \in 1..Len(truth.marks) : truth.marks[i] <= duration,
         NEW listed \in Pairs, NEW buffer \in Text, EndsAs(truth, t, duration, listed, buffer),
         NEW r, r = Drained(duration, listed, buffer)
  PROVE  \E K : /\ OnePerSide(K) /\ \A b \in K : KeptBody(b, t) /\ b.owner = 0
                /\ r.root.id = 0 /\ SpanTells(r.root, t, K)
                /\ \A b : b \in K <=> \E x \in ToSet(r.bodies) :
                                         b = [owner |-> 0, side |-> x.side, text |-> x.text]
                /\ \E X : r.bodies \in Seq(X)
<1>1. PICK config : config = capture.config
  OBVIOUS
<1>2. config = SettingsOf(t) /\ config.inline \in Nat /\ config.total \in Nat
  <2>1. t.exchange = truth.exchange
    BY DEF EndsAs
  <2> QED
    BY <1>1, <2>1, ExchangeIs DEF CaptureOf, SettingsOf
<1>3. PICK kept : kept = Sided("request", capture.body) \o Sided("response", Response(buffer))
  OBVIOUS
<1>4. SidesAre(ToSet(kept), t) /\ \E S : kept \in Seq(S)
  BY <1>3, KeptSides
<1>5. PICK S : kept \in Seq(S)
  BY <1>4
<1>6. PICK maps : maps = <<capture.maps, ResponseHeaders(listed)>>
  OBVIOUS
<1>7. PICK attributes : attributes = [i \in DOMAIN kept |->
                                        BodyAttributes(kept[i].side, kept[i].body, config)]
  OBVIOUS
<1>8. PICK e : e = [i \in DOMAIN maps |-> Encoded(maps[i], config)]
  OBVIOUS
<1>9. PICK line : line = PhaseJson(capture.phases, duration)
  OBVIOUS
<1>10. PICK bodies : bodies = StoredOf(kept, config)
  OBVIOUS
<1>11. r = [bodies |-> bodies, root |-> Span(0, "root", attributes, e, line)]
  BY <1>1, <1>3, <1>6, <1>7, <1>8, <1>9, <1>10 DEF Drained, StoredOf
<1>12. PICK s : s = r.root
  OBVIOUS
<1>13. r.bodies = bodies /\ s.id = 0 /\ s.kind = "root" /\ s.bodies = attributes
       /\ s.maps = e /\ s.timeline = line
  BY <1>11, <1>12 DEF Span
<1>14. /\ \E X : bodies \in Seq(X)
       /\ \A x : x \in ToSet(bodies) <=>
            \E z \in ToSet(kept) : /\ BodyAttributes(z.side, z.body, config).stored
                                   /\ x = [side |-> z.side, text |-> z.body.text]
  <2>1. AreStored(bodies, kept, config)
    BY <1>5, <1>10, StoredAre
  <2> QED
    BY <2>1 DEF AreStored
<1>15. PICK Z : Z = ToSet(kept)
  OBVIOUS
<1>16. PICK K : K = {Owned(z) : z \in {w \in Z : BodyAttributes(w.side, w.body, config).stored}}
  OBVIOUS
<1>17. AreOwned(K, Z, config)
  BY <1>16 DEF AreOwned
<1>18. /\ OnePerSide(K) /\ \A b \in K : KeptBody(b, t) /\ b.owner = 0
       /\ RootAttributes(s, K, Z, config, t)
  <2>1. SidesAre(Z, t)
    BY <1>4, <1>15
  <2> QED
    BY <1>2, <1>13, <1>17, <2>1, SidesTell
<1>19. \A a \in ToSet(s.bodies) : Tells(a, s, t) /\ Promised(a, s, K)
  <2> SUFFICES ASSUME NEW a \in ToSet(attributes) PROVE Tells(a, s, t) /\ Promised(a, s, K)
    BY <1>13
  <2>1. PICK i \in DOMAIN kept : a = BodyAttributes(kept[i].side, kept[i].body, config)
    BY <1>7 DEF ToSet
  <2>2. kept[i] \in Z
    BY <1>15 DEF ToSet
  <2> QED
    BY <1>18, <2>1, <2>2 DEF RootAttributes
<1>20. RootTells(s, t)
  <2>1. \A i \in DOMAIN e : Admits(e[i], IF i = 1 THEN t.exchange.maps ELSE t.headers, SettingsOf(t))
    BY <1>2, <1>6, <1>8, MapsAre
  <2>2. line # <<>> => Tiles(line, KeptOf(t), t.end)
    BY <1>9, TimelineIs
  <2> QED
    BY <1>13, <2>1, <2>2 DEF RootTells
<1>21. SpanTells(s, t, K)
  BY <1>13, <1>19, <1>20 DEF SpanTells
<1>22. ASSUME NEW b
       PROVE  b \in K <=> \E x \in ToSet(bodies) :
                             b = [owner |-> 0, side |-> x.side, text |-> x.text]
  <2>1. ASSUME b \in K
        PROVE  \E x \in ToSet(bodies) : b = [owner |-> 0, side |-> x.side, text |-> x.text]
    <3>1. PICK z \in Z : BodyAttributes(z.side, z.body, config).stored /\ b = Owned(z)
      BY <1>17, <2>1 DEF AreOwned
    <3>2. PICK x : x = [side |-> z.side, text |-> z.body.text]
      OBVIOUS
    <3>3. x \in ToSet(bodies)
      BY <1>14, <1>15, <3>1, <3>2
    <3>4. x.side = z.side /\ x.text = z.body.text
      BY <3>2
    <3> QED
      BY <3>1, <3>3, <3>4 DEF Owned
  <2>2. ASSUME NEW x \in ToSet(bodies), b = [owner |-> 0, side |-> x.side, text |-> x.text]
        PROVE  b \in K
    <3>1. PICK z \in Z : /\ BodyAttributes(z.side, z.body, config).stored
                         /\ x = [side |-> z.side, text |-> z.body.text]
      BY <1>14, <1>15, <2>2
    <3>2. x.side = z.side /\ x.text = z.body.text
      BY <3>1
    <3>3. b = Owned(z)
      BY <2>2, <3>2 DEF Owned
    <3> QED
      BY <1>17, <3>1, <3>3 DEF AreOwned
  <2> QED
    BY <2>1, <2>2
<1> QED
  BY <1>12, <1>13, <1>14, <1>18, <1>21, <1>22

---------------------------------------------------------------------------
(* The invariant, and the steps that keep it                               *)

\* The message of span i, as a body to be written.
MessageOf(i, t) == [owner |-> i, side |-> "message", text |-> t.texts[i]]

\* What is pending are messages of spans.
PendingAre ==
  /\ \E S : pending \in Seq(S)
  /\ \A p \in ToSet(pending) : \E i \in 1..Len(truth.texts) :
        p = MessageOf(i, truth) /\ truth.texts[i] # <<>>

\* Each span tells of the text it was recorded with.
SpansAre ==
  /\ \E S : spans \in Seq(S)
  /\ Len(spans) = Len(truth.texts)
  /\ \A i \in 1..Len(spans) : spans[i].id = i /\ SpanTells(spans[i], truth, ToSet(pending))

\* Nothing is on the way before the request has ended.
NothingYet == queue = <<>> /\ written = {} /\ failed = {} /\ killed = FALSE

\* The request is under way.
Collected ==
  /\ step = "open" /\ NothingYet
  /\ truth.exchange \in Exchanges /\ (capture = Absent \/ capture = CaptureOf(truth))
  /\ Ascending(truth.marks)
  /\ PendingAre /\ SpansAre

\* Nothing has begun.
Awaited ==
  /\ step = "new" /\ NothingYet
  /\ spans = <<>> /\ pending = <<>> /\ truth.marks = <<>> /\ truth.texts = <<>>
  /\ truth.headers = <<>> /\ truth.response = Absent

\* Before, during and after: what is collected is the truth, and so is what is delivered.
CaptureInv == TruthIs(truth) /\ (Awaited \/ Collected \/ Delivered)

\* The steps of a request are told apart.
LEMMA StepsDiffer ==
  /\ "new" # "open" /\ "new" # "writing" /\ "new" # "over"
  /\ "open" # "writing" /\ "open" # "over" /\ "writing" # "over"
<1>1. "new" # "open" /\ "new" # "writing" /\ "new" # "over"
  OBVIOUS
<1>2. "open" # "writing" /\ "open" # "over" /\ "writing" # "over"
  OBVIOUS
<1> QED
  BY <1>1, <1>2

\* A span goes on telling while its text and its body stay.
LEMMA SpanStays ==
  ASSUME NEW s, NEW u, NEW t, NEW K, NEW L, SpanTells(s, u, K), s.id # 0,
         t.texts[s.id] = u.texts[s.id],
         \A b : b.owner = s.id => (b \in L <=> b \in K)
  PROVE  SpanTells(s, t, L)
<1>1. s.kind # "root" /\ \A a \in ToSet(s.bodies) : Tells(a, s, u) /\ Promised(a, s, K)
  BY DEF SpanTells
<1>2. ASSUME NEW a \in ToSet(s.bodies) PROVE Tells(a, s, t) /\ Promised(a, s, L)
  <2>1. Meant(t, s.id, a.side) = Meant(u, s.id, a.side)
    BY DEF Meant
  <2>2. Tells(a, s, t)
    BY <1>1, <2>1 DEF Tells
  <2>3. Promised(a, s, L)
    <3>1. Promised(a, s, K)
      BY <1>1
    <3>2. ~a.stored => \A b \in L : ~(b.owner = s.id /\ b.side = a.side)
      BY <3>1 DEF Promised
    <3>3. a.stored /\ s.kind # "client" => \E b \in L : b.owner = s.id /\ b.side = a.side
      BY <3>1 DEF Promised
    <3> QED
      BY <3>2, <3>3 DEF Promised
  <2> QED
    BY <2>2, <2>3
<1> QED
  BY <1>1, <1>2 DEF SpanTells

\* A message that is pending is a body that is kept.
LEMMA MessageIs ==
  ASSUME NEW t, t.texts \in Seq(Text), NEW i \in 1..Len(t.texts), t.texts[i] # <<>>
  PROVE  /\ KeptBody(MessageOf(i, t), t)
         /\ MessageOf(i, t).owner = i /\ MessageOf(i, t).side = "message"
<1>1. PICK b, text : b = MessageOf(i, t) /\ text = t.texts[i]
  OBVIOUS
<1>2. b.owner = i /\ b.side = "message" /\ b.text = text
  BY <1>1 DEF MessageOf
<1>3. text \in Text /\ i \in Nat /\ i # 0
  <2>1. Len(t.texts) \in Nat /\ \A j \in 1..Len(t.texts) : t.texts[j] \in Text
    BY SeqIs
  <2> QED
    BY <1>1, <2>1
<1>4. Meant(t, b.owner, b.side) = text
  BY <1>1, <1>2, <1>3 DEF Meant
<1>5. IsPrefix(text, text)
  <2>1. text \in Seq(Characters) /\ Len(text) \in Nat
    BY <1>3 DEF Text
  <2> QED
    BY <2>1 DEF IsPrefix
<1>6. KeptBody(b, t)
  BY <1>1, <1>2, <1>3, <1>4, <1>5 DEF KeptBody, Sides
<1> QED
  BY <1>1, <1>2, <1>6

\* What has been drained when a request ends, of a capture or of none.
DrainedWell(r, K, t) ==
  /\ OnePerSide(K) /\ \A b \in K : KeptBody(b, t) /\ b.owner = 0
  /\ r.root.id = 0 /\ SpanTells(r.root, t, K)
  /\ \A b : b \in K <=> \E x \in ToSet(r.bodies) :
                           b = [owner |-> 0, side |-> x.side, text |-> x.text]
  /\ \E X : r.bodies \in Seq(X)

\* Without a capture nothing is drained.
LEMMA NothingIs ==
  ASSUME NEW t
  PROVE  DrainedWell(Nothing, {}, t)
<1>1. PICK s : s = Nothing.root
  OBVIOUS
<1>2. /\ Nothing.bodies = <<>> /\ s.id = 0 /\ s.kind = "root"
      /\ s.bodies = <<>> /\ s.maps = <<>> /\ s.timeline = <<>>
  BY <1>1 DEF Nothing, Span
<1>3. \A x : x \notin ToSet(<<>>)
  BY SingleHolds
<1>4. RootTells(s, t)
  <2>1. DOMAIN <<>> = {}
    OBVIOUS
  <2> QED
    BY <1>2, <2>1 DEF RootTells
<1>5. SpanTells(s, t, {})
  BY <1>2, <1>3, <1>4 DEF SpanTells
<1>6. OnePerSide({})
  BY DEF OnePerSide
<1>7. <<>> \in Seq({})
  OBVIOUS
<1> QED
  BY <1>1, <1>2, <1>3, <1>5, <1>6, <1>7 DEF DrainedWell

\* The last mark is the greatest.
LEMMA LastMarkIs ==
  ASSUME Ascending(truth.marks)
  PROVE  LastMark \in Nat /\ \A i \in 1..Len(truth.marks) : truth.marks[i] <= LastMark
<1>1. PICK m, n : m = truth.marks /\ n = Len(m)
  OBVIOUS
<1>2. m \in Seq(Nat) /\ n \in Nat /\ \A i, j \in 1..n : i <= j => m[i] <= m[j]
  BY <1>1 DEF Ascending
<1>3. CASE n = 0
  <2>1. m = <<>>
    BY <1>1, <1>2, <1>3, SeqIs
  <2>2. LastMark = 0
    BY <1>1, <2>1 DEF LastMark
  <2> QED
    BY <1>1, <1>3, <2>2
<1>4. CASE n # 0
  <2>1. m # <<>> /\ n \in 1..n
    BY <1>1, <1>2, <1>4
  <2>2. LastMark = m[n]
    BY <1>1, <2>1 DEF LastMark, Last
  <2>3. m[n] \in Nat
    BY <1>1, <1>2, <2>1
  <2>4. \A i \in 1..n : m[i] <= m[n]
    <3>1. \A i \in 1..n : i <= n
      BY <1>2
    <3> QED
      BY <1>2, <2>1, <3>1
  <2> QED
    BY <1>1, <2>2, <2>3, <2>4
<1> QED
  BY <1>3, <1>4

\* A sequence of some things is one of its own elements.
LEMMA OwnElements ==
  ASSUME NEW S, NEW s \in Seq(S)
  PROVE  s \in Seq(ToSet(s)) /\ Len(s) \in Nat /\ DOMAIN s = 1..Len(s)
<1>1. Len(s) \in Nat /\ DOMAIN s = 1..Len(s) /\ s = [i \in 1..Len(s) |-> s[i]]
  BY SeqIs
<1>2. \A i \in 1..Len(s) : s[i] \in ToSet(s)
  BY <1>1 DEF ToSet
<1> QED
  BY <1>1, <1>2, SeqFrom

\* A sequence and one more.
LEMMA AppendHolds ==
  ASSUME NEW S, NEW s \in Seq(S), NEW x
  PROVE  /\ \E X : Append(s, x) \in Seq(X)
         /\ Len(Append(s, x)) = Len(s) + 1 /\ Append(s, x)[Len(s) + 1] = x /\ Len(s) \in Nat
         /\ \A i \in 1..Len(s) : Append(s, x)[i] = s[i]
         /\ \A y : y \in ToSet(Append(s, x)) <=> y \in ToSet(s) \/ y = x
<1>1. PICK X : X = S \cup {x}
  OBVIOUS
<1>2. s \in Seq(X) /\ x \in X
  <2>1. S \subseteq X
    BY <1>1
  <2> QED
    BY <1>1, <2>1, SeqWider
<1>3. PICK t, n : t = Append(s, x) /\ n = Len(s)
  OBVIOUS
<1>4. /\ t \in Seq(X) /\ Len(t) = n + 1 /\ t[n + 1] = x /\ n \in Nat
      /\ \A i \in 1..n : t[i] = s[i]
  BY <1>2, <1>3, AppendProperties
<1>5. DOMAIN t = 1..(n + 1) /\ DOMAIN s = 1..n
  BY <1>2, <1>3, <1>4
<1>6. ToSet(t) = {t[i] : i \in 1..(n + 1)} /\ ToSet(s) = {s[i] : i \in 1..n}
  BY <1>5 DEF ToSet
<1>7. \A i : i \in 1..(n + 1) <=> i \in 1..n \/ i = n + 1
  BY <1>4
<1>8. \A y : y \in ToSet(t) <=> y \in ToSet(s) \/ y = x
  BY <1>4, <1>6, <1>7
<1> QED
  BY <1>3, <1>4, <1>8

\* Pending messages and spans stay while their texts stay.
LEMMA TextsStay ==
  ASSUME PendingAre, SpansAre, UNCHANGED <<pending, spans>>, truth'.texts = truth.texts
  PROVE  PendingAre' /\ SpansAre'
<1>1. PICK t, P : t = truth' /\ P = ToSet(pending)
  OBVIOUS
<1>2. t.texts = truth.texts
  BY <1>1
<1>3. PendingAre'
  <2>1. \A i : MessageOf(i, t) = MessageOf(i, truth)
    BY <1>2 DEF MessageOf
  <2> QED
    BY <1>1, <1>2, <2>1 DEF PendingAre
<1>4. /\ Len(spans) = Len(truth.texts) /\ \E S : spans \in Seq(S)
      /\ \A i \in 1..Len(spans) : spans[i].id = i /\ SpanTells(spans[i], truth, P)
  BY <1>1 DEF SpansAre
<1>5. Len(spans) \in Nat
  BY <1>4
<1>6. ASSUME NEW i \in 1..Len(spans) PROVE SpanTells(spans[i], t, P)
  <2>1. spans[i].id = i /\ i # 0 /\ SpanTells(spans[i], truth, P)
    BY <1>4, <1>5
  <2>2. t.texts[spans[i].id] = truth.texts[spans[i].id]
    BY <1>2
  <2> QED
    BY <2>1, <2>2, SpanStays
<1>7. SpansAre'
  BY <1>1, <1>2, <1>4, <1>6 DEF SpansAre
<1> QED
  BY <1>3, <1>7

\* The request begins.
LEMMA StartKeeps ==
  ASSUME CaptureInv, NEW x \in Exchanges, OnRequestStart(x)
  PROVE  CaptureInv'
<1>1. Awaited /\ TruthIs(truth)
  BY StepsDiffer DEF CaptureInv, Collected, Delivered, OnRequestStart
<1>2. PICK t : t = truth'
  OBVIOUS
<1>3. /\ t.exchange = x /\ t.headers = <<>> /\ t.response = Absent /\ t.marks = <<>>
      /\ t.texts = <<>> /\ TruthIs(t)
  BY <1>1, <1>2 DEF OnRequestStart, Awaited, TruthIs
<1>4. Ascending(<<>>)
  BY DEF Ascending
<1>5. Labelled(KeptOf(t)) = <<>>
  <2>1. Len(KeptOf(t)) \in 0..Len(<<>>)
    BY <1>3, <1>4, KeptMarksAre
  <2>2. Len(KeptOf(t)) = 0
    BY <2>1
  <2> QED
    BY <2>2 DEF Labelled
<1>6. PICK config : config = Resolve(x.settings)
  OBVIOUS
<1>7. CaptureOf(t) = [config |-> config, maps |-> x.maps, body |-> Body(x, config),
                      headers |-> <<>>, response |-> Absent, phases |-> <<>>]
  BY <1>3, <1>5, <1>6 DEF CaptureOf, SettingsOf
<1>8. capture' = Absent \/ capture' = CaptureOf(t)
  BY <1>6, <1>7 DEF OnRequestStart
<1>9. pending' = <<>> /\ spans' = <<>> /\ step' = "open" /\ NothingYet'
  BY <1>1 DEF Awaited, OnRequestStart, NothingYet
<1>10. PendingAre'
  <2>1. \E S : pending' \in Seq(S)
    <3>1. <<>> \in Seq({})
      OBVIOUS
    <3> QED
      BY <1>9, <3>1
  <2>2. \A p : p \notin ToSet(pending)'
    BY <1>9, SingleHolds
  <2> QED
    BY <2>1, <2>2 DEF PendingAre
<1>11. SpansAre'
  <2>1. <<>> \in Seq({}) /\ Len(<<>>) = 0
    OBVIOUS
  <2> QED
    BY <1>2, <1>3, <1>9, <2>1 DEF SpansAre
<1>12. Collected'
  BY <1>2, <1>3, <1>4, <1>8, <1>9, <1>10, <1>11 DEF Collected
<1> QED
  BY <1>2, <1>3, <1>12 DEF CaptureInv

\* While the request is under way.
LEMMA BusyIs ==
  ASSUME CaptureInv, step = "open"
  PROVE  Collected /\ TruthIs(truth)
BY StepsDiffer DEF CaptureInv, Awaited, Delivered

\* A bridge hands over a response.
LEMMA ResponseKeeps ==
  ASSUME CaptureInv, NEW r \in Responses, SetResponse(r)
  PROVE  CaptureInv'
<1>1. Collected /\ TruthIs(truth)
  BY BusyIs DEF SetResponse, Busy
<1>2. r.body \in Text /\ r.headers \in Pairs
  <2>1. r \in [body : Text, headers : Pairs]
    BY HttpCaptureData
  <2> QED
    BY <2>1
<1>3. PICK t, u, c : t = truth' /\ u = truth /\ c = capture
  OBVIOUS
<1>4. PICK h, b, f, g : /\ h = u.headers /\ b = u.response
                        /\ f = (IF c # Absent /\ r.headers # <<>> THEN r.headers ELSE h)
                        /\ g = (IF c # Absent /\ c.config.bodies /\ r.body # <<>> THEN r.body ELSE b)
  OBVIOUS
<1>5. t = [u EXCEPT !.calls = @ + 1, !.headers = f, !.response = g]
  BY <1>3, <1>4 DEF SetResponse
<1>6. h \in Pairs /\ b \in Text \cup {Absent}
  BY <1>1, <1>3, <1>4 DEF TruthIs
<1>7. f \in Pairs /\ g \in Text \cup {Absent}
  BY <1>2, <1>4, <1>6
<1>8. /\ t.exchange = u.exchange /\ t.headers = f /\ t.response = g /\ t.marks = u.marks
      /\ t.texts = u.texts /\ TruthIs(t)
  <2>1. TruthIs(u)
    BY <1>1, <1>3
  <2>2. /\ u = [exchange |-> u.exchange, response |-> u.response, headers |-> u.headers,
                marks |-> u.marks, end |-> u.end, calls |-> u.calls, texts |-> u.texts]
        /\ u.exchange \in Exchanges \cup {Absent} /\ u.marks \in Seq(Nat) /\ u.end \in Nat
        /\ u.calls \in Nat /\ u.texts \in Seq(Text)
    BY <2>1 DEF TruthIs
  <2>3. t = [exchange |-> u.exchange, response |-> g, headers |-> f, marks |-> u.marks,
             end |-> u.end, calls |-> u.calls + 1, texts |-> u.texts]
    BY <1>5, <2>2
  <2>4. u.calls + 1 \in Nat
    BY <2>2
  <2>5. TruthIs(t)
    BY <1>7, <2>2, <2>3, <2>4 DEF TruthIs
  <2> QED
    BY <2>3, <2>5
<1>9. capture' = Absent \/ capture' = CaptureOf(t)
  <2>1. CASE c = Absent
    BY <1>3, <2>1 DEF SetResponse
  <2>2. CASE c # Absent
    <3>1. c = CaptureOf(u)
      BY <1>1, <1>3, <2>2 DEF Collected
    <3>2. PICK s, p : s = SettingsOf(u) /\ p = Labelled(KeptOf(u))
      OBVIOUS
    <3>3. SettingsOf(t) = s /\ Labelled(KeptOf(t)) = p
      BY <1>8, <3>2 DEF SettingsOf, KeptOf
    <3>4. c.config = s /\ c.headers = h
      BY <1>4, <3>1, <3>2 DEF CaptureOf
    <3>5. capture' = [c EXCEPT !.headers = IF r.headers # <<>> THEN r.headers ELSE @,
                        !.response = IF s.bodies /\ r.body # <<>> THEN Kept(r.body, s.total) ELSE @]
      BY <1>3, <2>2, <3>4 DEF SetResponse
    <3>6. c = [config |-> s, maps |-> u.exchange.maps, body |-> Body(u.exchange, s),
               headers |-> h, response |-> IF b = Absent THEN Absent ELSE Kept(b, s.total),
               phases |-> p]
      BY <1>4, <3>1, <3>2 DEF CaptureOf
    <3>7. PICK q : q = IF s.bodies /\ r.body # <<>> THEN Kept(r.body, s.total)
                       ELSE IF b = Absent THEN Absent ELSE Kept(b, s.total)
      OBVIOUS
    <3>8. f = IF r.headers # <<>> THEN r.headers ELSE h
      BY <1>4, <2>2
    <3>9. capture' = [config |-> s, maps |-> u.exchange.maps, body |-> Body(u.exchange, s),
                      headers |-> f, response |-> q, phases |-> p]
      BY <3>5, <3>6, <3>7, <3>8
    <3>10. q = IF g = Absent THEN Absent ELSE Kept(g, s.total)
      <4>1. CASE s.bodies /\ r.body # <<>>
        <5>1. g = r.body /\ q = Kept(r.body, s.total)
          BY <1>4, <2>2, <3>4, <3>7, <4>1
        <5>2. r.body # Absent
          BY <1>2, HttpCaptureData
        <5> QED
          BY <5>1, <5>2
      <4>2. CASE ~(s.bodies /\ r.body # <<>>)
        <5>1. g = b /\ q = IF b = Absent THEN Absent ELSE Kept(b, s.total)
          BY <1>4, <3>4, <3>7, <4>2
        <5> QED
          BY <5>1
      <4> QED
        BY <4>1, <4>2
    <3>11. CaptureOf(t) = [config |-> s, maps |-> u.exchange.maps, body |-> Body(u.exchange, s),
                           headers |-> f, response |-> IF g = Absent THEN Absent ELSE Kept(g, s.total),
                           phases |-> p]
      BY <1>8, <3>3 DEF CaptureOf
    <3> QED
      BY <3>9, <3>10, <3>11
  <2> QED
    BY <2>1, <2>2
<1>10. PendingAre' /\ SpansAre'
  <2>1. UNCHANGED <<pending, spans>>
    BY DEF SetResponse
  <2>2. truth'.texts = truth.texts /\ PendingAre /\ SpansAre
    BY <1>1, <1>3, <1>8 DEF Collected
  <2> QED
    BY <2>1, <2>2, TextsStay
<1>11. step' = "open" /\ NothingYet'
  BY <1>1 DEF SetResponse, Busy, Collected, NothingYet
<1>12. Collected'
  BY <1>1, <1>3, <1>8, <1>9, <1>10, <1>11 DEF Collected
<1> QED
  BY <1>3, <1>8, <1>12 DEF CaptureInv

\* A mark more is kept as long as there is room.
LEMMA MarkMore ==
  ASSUME NEW u, NEW t, Ascending(u.marks), NEW at \in Nat, t.marks = Append(u.marks, at),
         \A i \in 1..Len(u.marks) : u.marks[i] <= at
  PROVE  /\ Ascending(t.marks)
         /\ Len(Labelled(KeptOf(u))) < MaxPhases =>
              Labelled(KeptOf(t)) = Append(Labelled(KeptOf(u)), [name |-> Len(u.marks) + 1, at |-> at])
         /\ ~(Len(Labelled(KeptOf(u))) < MaxPhases) => Labelled(KeptOf(t)) = Labelled(KeptOf(u))
<1>1. PICK m, n : m = u.marks /\ n = Len(m)
  OBVIOUS
<1>2. /\ m \in Seq(Nat) /\ n \in Nat /\ \A i \in 1..n : m[i] \in Nat /\ m[i] <= at
      /\ \A i, j \in 1..n : i <= j => m[i] <= m[j]
  BY <1>1 DEF Ascending
<1>3. PICK q : q = t.marks
  OBVIOUS
<1>4. q \in Seq(Nat) /\ Len(q) = n + 1 /\ q[n + 1] = at /\ \A i \in 1..n : q[i] = m[i]
  BY <1>1, <1>2, <1>3, AppendProperties
<1>5. Ascending(q)
  <2> SUFFICES ASSUME NEW i \in 1..(n + 1), NEW j \in 1..(n + 1), i <= j PROVE q[i] <= q[j]
    BY <1>4 DEF Ascending
  <2>1. CASE j = n + 1
    <3>1. CASE i = n + 1
      BY <1>4, <2>1, <3>1
    <3>2. CASE i # n + 1
      <4>1. i \in 1..n
        BY <1>2, <3>2
      <4> QED
        BY <1>2, <1>4, <2>1, <4>1
    <3> QED
      BY <3>1, <3>2
  <2>2. CASE j # n + 1
    <3>1. j \in 1..n /\ i \in 1..n
      BY <1>2, <2>2
    <3> QED
      BY <1>2, <1>4, <3>1
  <2> QED
    BY <2>1, <2>2
<1>6. PICK k, l : k = KeptOf(u) /\ l = KeptOf(t)
  OBVIOUS
<1>7. MaxPhases \in Nat
  BY HttpCaptureConstants
<1>8. /\ k \in Seq(Nat) /\ Len(k) = IF MaxPhases <= n THEN MaxPhases ELSE n
      /\ \A i \in 1..Len(k) : i \in 1..n /\ k[i] = m[i]
  BY <1>1, <1>6, KeptMarksAre DEF Ascending
<1>9. /\ l \in Seq(Nat) /\ Len(l) = IF MaxPhases <= n + 1 THEN MaxPhases ELSE n + 1
      /\ \A i \in 1..Len(l) : l[i] = q[i]
  <2>1. Ascending(t.marks) /\ Len(t.marks) = n + 1
    BY <1>3, <1>4, <1>5
  <2> QED
    BY <1>3, <1>6, <2>1, KeptMarksAre DEF Ascending
<1>10. PICK a, b : a = Labelled(k) /\ b = Labelled(l)
  OBVIOUS
<1>11. /\ a = [i \in 1..Len(k) |-> [name |-> i, at |-> k[i]]]
       /\ b = [i \in 1..Len(l) |-> [name |-> i, at |-> l[i]]]
  BY <1>10 DEF Labelled
<1>12. PICK E : E = [name : Nat, at : Nat]
  OBVIOUS
<1>13. a \in Seq(E) /\ Len(a) = Len(k)
  <2>1. Len(k) \in Nat /\ DOMAIN a = 1..Len(k) /\ a = [i \in 1..Len(k) |-> a[i]]
    BY <1>8, <1>11
  <2>2. \A i \in 1..Len(k) : a[i] \in E
    <3> SUFFICES ASSUME NEW i \in 1..Len(k) PROVE a[i] \in E
      OBVIOUS
    <3>1. a[i] = [name |-> i, at |-> k[i]] /\ i \in Nat /\ k[i] \in Nat
      BY <1>8, <1>11, <2>1
    <3> QED
      BY <1>12, <3>1
  <2> QED
    BY <2>1, <2>2, SeqFrom
<1>14. CASE Len(a) < MaxPhases
  <2>1. Len(k) = n /\ Len(l) = n + 1
    BY <1>2, <1>7, <1>8, <1>9, <1>13, <1>14
  <2>2. PICK e, c : e = [name |-> n + 1, at |-> at] /\ c = Append(a, e)
    OBVIOUS
  <2>3. e \in E
    BY <1>2, <1>12, <2>2
  <2>4. c \in Seq(E) /\ Len(c) = n + 1 /\ c[n + 1] = e /\ \A i \in 1..n : c[i] = a[i]
    BY <1>13, <2>1, <2>2, <2>3, AppendProperties
  <2>5. DOMAIN c = 1..(n + 1) /\ c = [i \in 1..(n + 1) |-> c[i]]
    BY <2>4, SeqIs
  <2>6. ASSUME NEW i \in 1..(n + 1) PROVE c[i] = [name |-> i, at |-> l[i]]
    <3>1. l[i] = q[i]
      BY <1>9, <2>1
    <3>2. CASE i = n + 1
      BY <1>4, <2>2, <2>4, <3>1, <3>2
    <3>3. CASE i # n + 1
      <4>1. i \in 1..n
        BY <1>2, <3>3
      <4>2. c[i] = [name |-> i, at |-> k[i]]
        BY <1>11, <2>1, <2>4, <4>1
      <4>3. k[i] = m[i] /\ q[i] = m[i]
        BY <1>4, <1>8, <2>1, <4>1
      <4> QED
        BY <3>1, <4>2, <4>3
    <3> QED
      BY <3>2, <3>3
  <2>7. b = c
    BY <1>11, <2>1, <2>5, <2>6
  <2> QED
    BY <1>1, <1>3, <1>5, <1>6, <1>10, <1>14, <2>2, <2>7
<1>15. CASE ~(Len(a) < MaxPhases)
  <2>1. Len(k) = MaxPhases /\ Len(l) = MaxPhases
    BY <1>2, <1>7, <1>8, <1>9, <1>13, <1>15
  <2>2. ASSUME NEW i \in 1..Len(k) PROVE l[i] = k[i]
    BY <1>4, <1>8, <1>9, <2>1
  <2>3. a = b
    BY <1>11, <2>1, <2>2
  <2> QED
    BY <1>1, <1>3, <1>5, <1>6, <1>10, <1>15, <2>3
<1> QED
  BY <1>14, <1>15

\* A phase is marked.
LEMMA MarkKeeps ==
  ASSUME CaptureInv, NEW at \in 0..MaxTime, MarkPhase(at)
  PROVE  CaptureInv'
<1>1. Collected /\ TruthIs(truth)
  BY BusyIs DEF MarkPhase, Busy
<1>2. at \in Nat
  BY HttpCaptureConstants
<1>3. PICK t, u : t = truth' /\ u = truth
  OBVIOUS
<1>4. t = [u EXCEPT !.marks = Append(@, at), !.calls = @ + 1]
  BY <1>3 DEF MarkPhase
<1>5. /\ u.marks \in Seq(Nat) /\ Append(u.marks, at) \in Seq(Nat)
  <2>1. u.marks \in Seq(Nat)
    BY <1>1, <1>3 DEF TruthIs
  <2> QED
    BY <1>2, <2>1, AppendProperties
<1>6. /\ t.exchange = u.exchange /\ t.headers = u.headers /\ t.response = u.response
      /\ t.marks = Append(u.marks, at) /\ t.texts = u.texts /\ TruthIs(t)
  <2>1. TruthIs(u)
    BY <1>1, <1>3
  <2>2. /\ u = [exchange |-> u.exchange, response |-> u.response, headers |-> u.headers,
                marks |-> u.marks, end |-> u.end, calls |-> u.calls, texts |-> u.texts]
        /\ u.exchange \in Exchanges \cup {Absent} /\ u.response \in Text \cup {Absent}
        /\ u.headers \in Pairs /\ u.end \in Nat /\ u.calls \in Nat /\ u.texts \in Seq(Text)
    BY <2>1 DEF TruthIs
  <2>3. t = [exchange |-> u.exchange, response |-> u.response, headers |-> u.headers,
             marks |-> Append(u.marks, at), end |-> u.end, calls |-> u.calls + 1,
             texts |-> u.texts]
    BY <1>4, <2>2
  <2>4. u.calls + 1 \in Nat
    BY <2>2
  <2>5. TruthIs(t)
    BY <1>5, <2>2, <2>3, <2>4 DEF TruthIs
  <2> QED
    BY <2>3, <2>5
<1>7. Ascending(u.marks) /\ \A i \in 1..Len(u.marks) : u.marks[i] <= at
  <2>1. Ascending(truth.marks)
    BY <1>1 DEF Collected
  <2>2. LastMark \in Nat /\ \A i \in 1..Len(truth.marks) : truth.marks[i] <= LastMark
    BY <2>1, LastMarkIs
  <2>3. LastMark <= at
    BY DEF MarkPhase
  <2>4. \A i \in 1..Len(truth.marks) : truth.marks[i] \in Nat
    BY <2>1 DEF Ascending
  <2>5. \A i \in 1..Len(truth.marks) : truth.marks[i] <= at
    BY <1>2, <2>2, <2>3, <2>4
  <2> QED
    BY <1>3, <2>1, <2>5
<1>8. PICK a, b, e : /\ a = Labelled(KeptOf(u)) /\ b = Labelled(KeptOf(t))
                     /\ e = [name |-> Len(u.marks) + 1, at |-> at]
  OBVIOUS
<1>9. /\ Ascending(t.marks)
      /\ Len(a) < MaxPhases => b = Append(a, e)
      /\ ~(Len(a) < MaxPhases) => b = a
  BY <1>2, <1>6, <1>7, <1>8, MarkMore
<1>10. capture' = Absent \/ capture' = CaptureOf(t)
  <2>1. CASE capture = Absent
    BY <2>1 DEF MarkPhase
  <2>2. CASE capture # Absent
    <3>1. capture = CaptureOf(u)
      BY <1>1, <1>3, <2>2 DEF Collected
    <3>2. PICK c : c = capture
      OBVIOUS
    <3>3. c.phases = a
      BY <1>8, <3>1, <3>2 DEF CaptureOf
    <3>4. capture' = IF Len(a) < MaxPhases THEN [c EXCEPT !.phases = Append(@, e)] ELSE c
      BY <1>3, <1>8, <2>2, <3>2, <3>3 DEF MarkPhase
    <3>5. PICK s, y : /\ s = SettingsOf(u)
                      /\ y = IF u.response = Absent THEN Absent ELSE Kept(u.response, s.total)
      OBVIOUS
    <3>6. c = [config |-> s, maps |-> u.exchange.maps, body |-> Body(u.exchange, s),
               headers |-> u.headers, response |-> y, phases |-> a]
      BY <1>8, <3>1, <3>2, <3>5 DEF CaptureOf
    <3>7. capture' = [config |-> s, maps |-> u.exchange.maps, body |-> Body(u.exchange, s),
                      headers |-> u.headers, response |-> y, phases |-> b]
      <4>1. CASE Len(a) < MaxPhases
        BY <1>9, <3>4, <3>6, <4>1
      <4>2. CASE ~(Len(a) < MaxPhases)
        BY <1>9, <3>4, <3>6, <4>2
      <4> QED
        BY <4>1, <4>2
    <3>8. SettingsOf(t) = s
      BY <1>6, <3>5 DEF SettingsOf
    <3>9. CaptureOf(t) = [config |-> s, maps |-> u.exchange.maps, body |-> Body(u.exchange, s),
                          headers |-> u.headers, response |-> y, phases |-> b]
      BY <1>6, <1>8, <3>5, <3>8 DEF CaptureOf
    <3> QED
      BY <3>7, <3>9
  <2> QED
    BY <2>1, <2>2
<1>11. PendingAre' /\ SpansAre'
  <2>1. UNCHANGED <<pending, spans>>
    BY DEF MarkPhase
  <2>2. truth'.texts = truth.texts /\ PendingAre /\ SpansAre
    BY <1>1, <1>3, <1>6 DEF Collected
  <2> QED
    BY <2>1, <2>2, TextsStay
<1>12. step' = "open" /\ NothingYet'
  BY <1>1 DEF MarkPhase, Busy, Collected, NothingYet
<1>13. Collected'
  BY <1>1, <1>3, <1>6, <1>9, <1>10, <1>11, <1>12 DEF Collected
<1> QED
  BY <1>3, <1>6, <1>13 DEF CaptureInv

\* A text more in the history.
LEMMA TextMore ==
  ASSUME NEW u, TruthIs(u), NEW text \in Text, NEW t,
         t = [u EXCEPT !.calls = @ + 1, !.texts = Append(@, text)]
  PROVE  /\ TruthIs(t) /\ t.texts = Append(u.texts, text)
         /\ t.exchange = u.exchange /\ t.marks = u.marks
         /\ CaptureOf(t) = CaptureOf(u)
<1>1. /\ u = [exchange |-> u.exchange, response |-> u.response, headers |-> u.headers,
              marks |-> u.marks, end |-> u.end, calls |-> u.calls, texts |-> u.texts]
      /\ u.exchange \in Exchanges \cup {Absent} /\ u.response \in Text \cup {Absent}
      /\ u.headers \in Pairs /\ u.marks \in Seq(Nat) /\ u.end \in Nat /\ u.calls \in Nat
      /\ u.texts \in Seq(Text)
  BY DEF TruthIs
<1>2. PICK a : a = Append(u.texts, text)
  OBVIOUS
<1>3. a \in Seq(Text)
  BY <1>1, <1>2, AppendProperties
<1>4. t = [exchange |-> u.exchange, response |-> u.response, headers |-> u.headers,
           marks |-> u.marks, end |-> u.end, calls |-> u.calls + 1, texts |-> a]
  BY <1>1, <1>2
<1>5. u.calls + 1 \in Nat
  BY <1>1
<1>6. TruthIs(t)
  BY <1>1, <1>3, <1>4, <1>5 DEF TruthIs
<1>7. /\ t.exchange = u.exchange /\ t.marks = u.marks /\ t.headers = u.headers
      /\ t.response = u.response /\ t.texts = a
  BY ONLY <1>4
<1>8. CaptureOf(t) = CaptureOf(u)
  BY <1>7 DEF CaptureOf, SettingsOf, KeptOf
<1> QED
  BY <1>2, <1>6, <1>7, <1>8

\* A span is recorded, and at most its message is buffered.
LEMMA SpanMore ==
  ASSUME CaptureInv, step = "open", NEW text \in Text,
         truth' = [truth EXCEPT !.calls = @ + 1, !.texts = Append(@, text)],
         NEW s, spans' = Append(spans, s), s.id = Len(spans) + 1,
         UNCHANGED <<step, capture, queue, written, failed, killed>>,
         \/ pending' = pending
         \/ /\ text # <<>>
            /\ pending' = Append(pending, [owner |-> Len(spans) + 1, side |-> "message", text |-> text]),
         SpanTells(s, truth', ToSet(pending'))
  PROVE  CaptureInv'
<1>1. Collected /\ TruthIs(truth)
  BY BusyIs
<1>2. PICK u : u = truth
  OBVIOUS
<1>3. PICK t : t = truth'
  OBVIOUS
<1>4. PICK n : n = Len(spans)
  OBVIOUS
<1>5. /\ TruthIs(u) /\ u.texts \in Seq(Text) /\ Len(u.texts) = n /\ n \in Nat
  <2>1. TruthIs(u) /\ u.texts \in Seq(Text)
    BY <1>1, <1>2 DEF TruthIs
  <2>2. Len(u.texts) = n
    BY <1>1, <1>2, <1>4 DEF Collected, SpansAre
  <2> QED
    BY <2>1, <2>2
<1>6. /\ TruthIs(t) /\ t.texts = Append(u.texts, text)
      /\ t.exchange = u.exchange /\ t.marks = u.marks
      /\ CaptureOf(t) = CaptureOf(u)
  <2>1. t = [u EXCEPT !.calls = @ + 1, !.texts = Append(@, text)]
    BY <1>2, <1>3
  <2> QED
    BY <1>5, <2>1, TextMore
<1>7. Len(t.texts) = n + 1 /\ t.texts[n + 1] = text /\ \A i \in 1..n : t.texts[i] = u.texts[i]
  BY <1>5, <1>6, AppendHolds
<1>8. PICK P : P = ToSet(pending)
  OBVIOUS
<1>9. PICK L : L = ToSet(pending')
  OBVIOUS
<1>10. \A p \in P : \E i \in 1..n : p = MessageOf(i, u) /\ u.texts[i] # <<>>
  BY <1>1, <1>2, <1>5, <1>8 DEF Collected, PendingAre
<1>11. PICK S : pending \in Seq(S)
  BY <1>1 DEF Collected, PendingAre
<1>12. \A i \in 1..n : MessageOf(i, t) = MessageOf(i, u)
  BY <1>7 DEF MessageOf
<1>13. PICK b : b = MessageOf(n + 1, t)
  OBVIOUS
<1>14. /\ \E X : pending' \in Seq(X)
       /\ (\A y : y \in L <=> y \in P) \/ (text # <<>> /\ \A y : y \in L <=> y \in P \/ y = b)
  <2>1. CASE pending' = pending
    BY <1>8, <1>9, <1>11, <2>1
  <2>2. CASE text # <<>> /\ pending' = Append(pending, [owner |-> n + 1, side |-> "message", text |-> text])
    <3>1. b = [owner |-> n + 1, side |-> "message", text |-> text]
      BY <1>7, <1>13 DEF MessageOf
    <3>2. pending' = Append(pending, b)
      BY <2>2, <3>1
    <3> QED
      BY <1>8, <1>9, <1>11, <2>2, <3>2, AppendHolds
  <2> QED
    BY <1>4, <2>1, <2>2
<1>15. \A y \in L : y \in P \/ (text # <<>> /\ y = b)
  BY <1>14
<1>16. \A p \in L : \E i \in 1..(n + 1) : p = MessageOf(i, t) /\ t.texts[i] # <<>>
  <2> SUFFICES ASSUME NEW p \in L PROVE \E i \in 1..(n + 1) : p = MessageOf(i, t) /\ t.texts[i] # <<>>
    OBVIOUS
  <2>1. CASE p \in P
    <3>1. PICK i \in 1..n : p = MessageOf(i, u) /\ u.texts[i] # <<>>
      BY <1>10, <2>1
    <3>2. i \in 1..(n + 1)
      BY <1>5
    <3> QED
      BY <1>7, <1>12, <3>1, <3>2
  <2>2. CASE text # <<>> /\ p = b
    <3>1. n + 1 \in 1..(n + 1)
      BY <1>5
    <3> QED
      BY <1>7, <1>13, <2>2, <3>1
  <2> QED
    BY <1>15, <2>1, <2>2
<1>17. PendingAre'
  BY <1>3, <1>7, <1>9, <1>14, <1>16 DEF PendingAre
<1>18. /\ \E X : spans' \in Seq(X)
       /\ Len(spans') = n + 1 /\ spans'[n + 1] = s /\ \A i \in 1..n : spans'[i] = spans[i]
  <2>1. PICK X : spans \in Seq(X)
    BY <1>1 DEF Collected, SpansAre
  <2> QED
    BY <1>4, <2>1, AppendHolds
<1>19. \A i \in 1..n : spans[i].id = i /\ SpanTells(spans[i], u, P)
  BY <1>1, <1>2, <1>4, <1>8 DEF Collected, SpansAre
<1>20. ASSUME NEW i \in 1..n PROVE SpanTells(spans[i], t, L)
  <2>1. PICK z : z = spans[i]
    OBVIOUS
  <2>2. z.id = i /\ SpanTells(z, u, P) /\ i # 0 /\ i # n + 1
    BY <1>5, <1>19, <2>1
  <2>3. t.texts[z.id] = u.texts[z.id]
    BY <1>7, <2>2
  <2>4. b.owner = n + 1
    BY <1>13 DEF MessageOf
  <2>5. \A y : y.owner = z.id => (y \in L <=> y \in P)
    BY <1>14, <2>2, <2>4
  <2> QED
    BY <2>1, <2>2, <2>3, <2>5, SpanStays
<1>21. ASSUME NEW i \in 1..(n + 1) PROVE spans'[i].id = i /\ SpanTells(spans'[i], t, L)
  <2>1. CASE i = n + 1
    BY <1>3, <1>4, <1>9, <1>18, <2>1
  <2>2. CASE i # n + 1
    <3>1. i \in 1..n
      BY <1>5, <2>2
    <3> QED
      BY <1>18, <1>19, <1>20, <3>1
  <2> QED
    BY <2>1, <2>2
<1>22. SpansAre'
  BY <1>3, <1>7, <1>9, <1>18, <1>21 DEF SpansAre
<1>23. Collected'
  <2>1. step' = "open" /\ NothingYet'
    BY <1>1 DEF Collected, NothingYet
  <2>2. t.exchange \in Exchanges /\ Ascending(t.marks) /\ (capture' = Absent \/ capture' = CaptureOf(t))
    BY <1>1, <1>2, <1>6 DEF Collected
  <2> QED
    BY <1>3, <1>17, <1>22, <2>1, <2>2 DEF Collected
<1> QED
  BY <1>3, <1>6, <1>23 DEF CaptureInv

\* A message is stored, or the buffer is full.
LEMMA StoreKeeps ==
  ASSUME CaptureInv, NEW text \in Payloads, StoreBody(text)
  PROVE  CaptureInv'
<1>1. Collected /\ TruthIs(truth) /\ step = "open"
  BY BusyIs DEF StoreBody, Busy
<1>2. text \in Text /\ text # <<>>
  BY HttpCaptureData
<1>3. PICK n : n = Len(spans)
  OBVIOUS
<1>4. PICK taken \in BOOLEAN : taken <=> Len(pending) < MaxBodies
  BY Zenon
<1>21. PICK p : p = Cut(text, PublishPreview)
  OBVIOUS
<1>5. PICK a : a = [side |-> "message", preview |-> p, size |-> Bytes(text),
                    truncated |-> p # text, stored |-> Len(pending) < MaxBodies]
  OBVIOUS
<1>6. PICK s : s = Span(n + 1, "publish", <<a>>, <<>>, <<>>)
  OBVIOUS
<1>7. PICK b : b = [owner |-> n + 1, side |-> "message", text |-> text]
  OBVIOUS
<1>8. /\ pending' = IF Len(pending) < MaxBodies THEN Append(pending, b) ELSE pending
      /\ spans' = Append(spans, s)
      /\ truth' = [truth EXCEPT !.calls = @ + 1, !.texts = Append(@, text)]
      /\ UNCHANGED <<step, capture, queue, written, failed, killed>>
  BY <1>3, <1>5, <1>6, <1>7, <1>21 DEF StoreBody
<1>9. PICK t : t = truth'
  OBVIOUS
<1>10. /\ truth.texts \in Seq(Text) /\ Len(truth.texts) = n /\ n \in Nat
       /\ t.texts = Append(truth.texts, text)
  <2>1. truth.texts \in Seq(Text)
    BY <1>1 DEF TruthIs
  <2>2. Len(truth.texts) = n
    BY <1>1, <1>3 DEF Collected, SpansAre
  <2>3. t.texts = Append(truth.texts, text)
    BY <1>1, <1>2, <1>8, <1>9, TextMore
  <2> QED
    BY <2>1, <2>2, <2>3
<1>11. t.texts[n + 1] = text
  BY <1>10, AppendHolds
<1>12. PICK L : L = ToSet(pending')
  OBVIOUS
<1>13. s.id = n + 1 /\ s.kind = "publish" /\ s.bodies = <<a>>
  BY <1>6 DEF Span
<1>14. Tells(a, s, t)
  <2>1. Meant(t, s.id, a.side) = text
    BY <1>10, <1>11, <1>13 DEF Meant
  <2>2. IsPrefix(p, text)
    <3>1. PublishPreview \in Nat
      BY HttpCaptureConstants
    <3> QED
      BY <1>2, <1>21, <3>1, CutTells DEF Text
  <2>3. a.preview = p /\ (a.truncated <=> p # text) /\ a.size = Bytes(text) /\ s.kind # "root"
    BY <1>5, <1>13, SignalsDiffer
  <2> QED
    BY <2>1, <2>2, <2>3 DEF Tells
<1>15. PICK S : pending \in Seq(S)
  BY <1>1 DEF Collected, PendingAre
<1>16. \A old \in ToSet(pending) : old.owner # n + 1
  <2> SUFFICES ASSUME NEW old \in ToSet(pending) PROVE old.owner # n + 1
    OBVIOUS
  <2>1. PICK i \in 1..Len(truth.texts) : old = MessageOf(i, truth)
    BY <1>1 DEF Collected, PendingAre
  <2> QED
    BY <1>10, <2>1 DEF MessageOf
<1>17. Promised(a, s, L)
  <2>1. a.side = "message" /\ b.owner = n + 1 /\ b.side = "message" /\ s.kind # "client"
    BY <1>5, <1>7, <1>13, SignalsDiffer
  <2>2. CASE Len(pending) < MaxBodies
    <3>1. a.stored
      BY <1>5, <2>2
    <3>2. b \in L
      BY <1>8, <1>12, <1>15, <2>2, AppendHolds
    <3> QED
      BY <1>13, <2>1, <3>1, <3>2 DEF Promised
  <2>3. CASE ~(Len(pending) < MaxBodies)
    <3>1. ~a.stored
      BY <1>5, <2>3
    <3>2. \A old \in L : old.owner # n + 1
      BY <1>8, <1>12, <1>16, <2>3
    <3> QED
      BY <1>13, <2>1, <3>1, <3>2 DEF Promised
  <2> QED
    BY <2>2, <2>3
<1>18. SpanTells(s, t, L)
  <2>1. s.kind # "root" /\ s.id # 0
    BY <1>10, <1>13, SignalsDiffer
  <2>2. \A z \in ToSet(s.bodies) : z = a
    BY <1>13, SingleHolds
  <2> QED
    BY <1>14, <1>17, <2>1, <2>2 DEF SpanTells
<1>19. \/ pending' = pending
       \/ /\ text # <<>>
          /\ pending' = Append(pending, [owner |-> Len(spans) + 1, side |-> "message", text |-> text])
  BY <1>2, <1>3, <1>7, <1>8
<1>20. s.id = Len(spans) + 1 /\ SpanTells(s, truth', ToSet(pending'))
  BY <1>3, <1>9, <1>12, <1>13, <1>18
<1> QED
  BY <1>1, <1>2, <1>8, <1>19, <1>20, SpanMore

\* An outbound call returns.
LEMMA CurlKeeps ==
  ASSUME CaptureInv, NEW r \in Outbound, CurlReturns(r)
  PROVE  CaptureInv'
<1>1. Collected /\ TruthIs(truth) /\ step = "open"
  BY BusyIs DEF CurlReturns, Busy
<1>2. r.body \in Text /\ r.size \in Nat
  <2>1. r \in [body : Text, size : Nat]
    BY HttpCaptureData
  <2> QED
    BY <2>1
<1>3. PICK n : n = Len(spans)
  OBVIOUS
<1>4. PICK c : c = [text |-> r.body, size |-> IF r.size > 0 THEN r.size ELSE Bytes(r.body)]
  OBVIOUS
<1>5. PICK a : a = BodyAttributes("response", c, capture.config)
  OBVIOUS
<1>6. PICK e : e = IF capture # Absent /\ capture.config.bodies THEN <<a>> ELSE <<>>
  OBVIOUS
<1>7. PICK s : s = Span(n + 1, "client", e, <<>>, <<>>)
  OBVIOUS
<1>8. /\ pending' = pending
      /\ spans' = Append(spans, s)
      /\ truth' = [truth EXCEPT !.calls = @ + 1, !.texts = Append(@, r.body)]
      /\ UNCHANGED <<step, capture, queue, written, failed, killed>>
  BY <1>3, <1>4, <1>5, <1>6, <1>7 DEF CurlReturns
<1>9. PICK t : t = truth'
  OBVIOUS
<1>10. /\ truth.texts \in Seq(Text) /\ Len(truth.texts) = n /\ n \in Nat
       /\ t.texts = Append(truth.texts, r.body)
  <2>1. truth.texts \in Seq(Text)
    BY <1>1 DEF TruthIs
  <2>2. Len(truth.texts) = n
    BY <1>1, <1>3 DEF Collected, SpansAre
  <2>3. t.texts = Append(truth.texts, r.body)
    BY <1>1, <1>2, <1>8, <1>9, TextMore
  <2> QED
    BY <2>1, <2>2, <2>3
<1>11. t.texts[n + 1] = r.body
  BY <1>10, AppendHolds
<1>12. PICK L : L = ToSet(pending')
  OBVIOUS
<1>13. s.id = n + 1 /\ s.kind = "client" /\ s.bodies = e
  BY <1>7 DEF Span
<1>14. \A p \in L : p.owner # n + 1
  <2> SUFFICES ASSUME NEW p \in L PROVE p.owner # n + 1
    OBVIOUS
  <2>1. PICK i \in 1..Len(truth.texts) : p = MessageOf(i, truth)
    BY <1>1, <1>8, <1>12 DEF Collected, PendingAre
  <2> QED
    BY <1>10, <2>1 DEF MessageOf
<1>15. ASSUME NEW z \in ToSet(e) PROVE Tells(z, s, t) /\ Promised(z, s, L)
  <2>1. z = a /\ capture # Absent
    BY <1>6, SingleHolds
  <2>2. capture.config.inline \in Nat
    <3>1. truth.exchange \in Exchanges /\ capture = CaptureOf(truth)
      BY <1>1, <2>1 DEF Collected
    <3>2. SettingsOf(truth).inline \in Nat
      BY <3>1, ExchangeIs
    <3>3. capture.config = SettingsOf(truth)
      BY <3>1 DEF CaptureOf
    <3> QED
      BY <3>2, <3>3
  <2>3. PICK m : m = capture.config.inline
    OBVIOUS
  <2>4. /\ a.preview = Cut(r.body, m) /\ (~a.truncated => ~(Bytes(r.body) > m))
    BY <1>4, <1>5, <2>3 DEF BodyAttributes, Overflows
  <2>5. /\ IsPrefix(Cut(r.body, m), r.body) /\ (~(Bytes(r.body) > m) => Cut(r.body, m) = r.body)
    <3>1. r.body \in Seq(Characters)
      BY <1>2 DEF Text
    <3>2. IsPrefix(Cut(r.body, m), r.body) /\ (Bytes(r.body) <= m => Cut(r.body, m) = r.body)
      BY <2>2, <2>3, <3>1, CutTells
    <3>3. Bytes(r.body) \in Nat
      BY <3>1, BytesAre
    <3> QED
      BY <2>2, <2>3, <3>2, <3>3
  <2>6. Meant(t, s.id, z.side) = r.body
    BY <1>10, <1>11, <1>13 DEF Meant
  <2>7. Tells(z, s, t)
    BY <1>13, <2>1, <2>4, <2>5, <2>6, SignalsDiffer DEF Tells
  <2>8. Promised(z, s, L)
    BY <1>13, <1>14 DEF Promised
  <2> QED
    BY <2>7, <2>8
<1>16. SpanTells(s, t, L)
  <2>1. s.kind # "root" /\ s.id # 0
    BY <1>10, <1>13, SignalsDiffer
  <2> QED
    BY <1>13, <1>15, <2>1 DEF SpanTells
<1>17. s.id = Len(spans) + 1 /\ SpanTells(s, truth', ToSet(pending'))
  BY <1>3, <1>9, <1>12, <1>13, <1>16
<1> QED
  BY <1>1, <1>2, <1>8, <1>17, SpanMore

\* The documents of what was drained.
LEMMA DrainedDocuments ==
  ASSUME NEW r, NEW K, NEW t, DrainedWell(r, K, t),
         NEW F, F = FlattenSeq([i \in DOMAIN r.bodies |-> BodyDocuments(0, r.bodies[i])])
  PROVE  F \in Seq(BodyDocument) /\ \A d : d \in ToSet(F) <=> OfBodies(d, K)
<1>1. PICK q : q = r.bodies
  OBVIOUS
<1>2. PICK X : q \in Seq(X)
  BY <1>1 DEF DrainedWell
<1>3. PICK n : n = Len(q)
  OBVIOUS
<1>4. n \in Nat /\ DOMAIN q = 1..n
  BY <1>2, <1>3
<1>5. PICK g : g = [i \in 1..n |-> BodyDocuments(0, q[i])]
  OBVIOUS
<1>6. g = [i \in 1..n |-> g[i]] /\ \A i \in 1..n : g[i] = BodyDocuments(0, q[i])
  BY <1>5
<1>7. \A b \in K : KeptBody(b, t) /\ b.owner = 0
  BY DEF DrainedWell
<1>8. \A b : b \in K <=> \E x \in ToSet(q) : b = [owner |-> 0, side |-> x.side, text |-> x.text]
  BY <1>1 DEF DrainedWell
<1>9. ASSUME NEW x, NEW b, b = [owner |-> 0, side |-> x.side, text |-> x.text]
      PROVE  BodyDocuments(b.owner, b) = BodyDocuments(0, x)
  <2>1. b.owner = 0 /\ b.side = x.side /\ b.text = x.text
    BY <1>9
  <2> QED
    BY <2>1 DEF BodyDocuments
<1>10. ASSUME NEW i \in 1..n PROVE \E b \in K : g[i] = BodyDocuments(b.owner, b)
  <2>1. PICK x : x = q[i]
    OBVIOUS
  <2>2. x \in ToSet(q)
    BY <1>4, <2>1 DEF ToSet
  <2>3. PICK b : b = [owner |-> 0, side |-> x.side, text |-> x.text]
    OBVIOUS
  <2>4. b \in K
    BY <1>8, <2>2, <2>3
  <2>5. BodyDocuments(b.owner, b) = BodyDocuments(0, x)
    BY <1>9, <2>3
  <2> QED
    BY <1>6, <2>1, <2>4, <2>5
<1>11. ASSUME NEW b \in K PROVE \E i \in 1..n : g[i] = BodyDocuments(b.owner, b)
  <2>1. PICK x \in ToSet(q) : b = [owner |-> 0, side |-> x.side, text |-> x.text]
    BY <1>8
  <2>2. PICK i \in 1..n : x = q[i]
    BY <1>4 DEF ToSet
  <2>3. BodyDocuments(b.owner, b) = BodyDocuments(0, x)
    BY <1>9, <2>1
  <2> QED
    BY <1>6, <2>2, <2>3
<1>12. F = FlattenSeq(g)
  BY <1>1, <1>4, <1>5
<1>13. \A b \in K : KeptBody(b, t)
  BY <1>7
<1>14. FlattenSeq(g) \in Seq(BodyDocument) /\ \A d : d \in ToSet(FlattenSeq(g)) <=> OfBodies(d, K)
  BY <1>4, <1>6, <1>10, <1>11, <1>13, DocumentsOfBodies
<1> QED
  BY <1>12, <1>14

\* The documents of what was pending.
LEMMA PendingDocuments ==
  ASSUME NEW X, NEW q \in Seq(X), NEW t, \A b \in ToSet(q) : KeptBody(b, t),
         NEW G, G = FlattenSeq([i \in DOMAIN q |-> BodyDocuments(q[i].owner, q[i])])
  PROVE  G \in Seq(BodyDocument) /\ \A d : d \in ToSet(G) <=> OfBodies(d, ToSet(q))
<1>1. PICK n : n = Len(q)
  OBVIOUS
<1>2. n \in Nat /\ DOMAIN q = 1..n
  BY <1>1
<1>3. PICK g : g = [i \in 1..n |-> BodyDocuments(q[i].owner, q[i])]
  OBVIOUS
<1>4. g = [i \in 1..n |-> g[i]] /\ \A i \in 1..n : g[i] = BodyDocuments(q[i].owner, q[i])
  BY <1>3
<1>5. PICK P : P = ToSet(q)
  OBVIOUS
<1>6. P = {q[i] : i \in 1..n}
  BY <1>2, <1>5 DEF ToSet
<1>7. \A i \in 1..n : \E b \in P : g[i] = BodyDocuments(b.owner, b)
  BY <1>4, <1>6
<1>8. \A b \in P : \E i \in 1..n : g[i] = BodyDocuments(b.owner, b)
  BY <1>4, <1>6
<1>9. G = FlattenSeq(g)
  BY <1>2, <1>3
<1>10. \A b \in P : KeptBody(b, t)
  BY <1>5
<1>11. FlattenSeq(g) \in Seq(BodyDocument) /\ \A d : d \in ToSet(FlattenSeq(g)) <=> OfBodies(d, P)
  BY <1>2, <1>4, <1>7, <1>8, <1>10, DocumentsOfBodies
<1> QED
  BY <1>5, <1>9, <1>11

\* The root goes on telling while no body of its own is added.
LEMMA RootStays ==
  ASSUME NEW s, NEW t, NEW K, NEW L, SpanTells(s, t, K),
         \A b : b.owner = s.id => (b \in L <=> b \in K)
  PROVE  SpanTells(s, t, L)
<1>1. ASSUME NEW a \in ToSet(s.bodies) PROVE Tells(a, s, t) /\ Promised(a, s, L)
  <2>1. Tells(a, s, t) /\ Promised(a, s, K)
    BY DEF SpanTells
  <2>2. Promised(a, s, L)
    BY <2>1 DEF Promised
  <2> QED
    BY <2>1, <2>2
<1> QED
  BY <1>1 DEF SpanTells

\* The history of a request that ends.
LEMMA EndIs ==
  ASSUME NEW u, TruthIs(u), NEW duration \in Nat, NEW listed \in Pairs, NEW buffer \in Text, NEW t,
         t = [u EXCEPT !.end = duration,
                       !.headers = IF @ = <<>> THEN listed ELSE @,
                       !.response = IF @ = Absent THEN buffer ELSE @]
  PROVE  TruthIs(t) /\ EndsAs(u, t, duration, listed, buffer)
<1>1. /\ u = [exchange |-> u.exchange, response |-> u.response, headers |-> u.headers,
              marks |-> u.marks, end |-> u.end, calls |-> u.calls, texts |-> u.texts]
      /\ u.exchange \in Exchanges \cup {Absent} /\ u.response \in Text \cup {Absent}
      /\ u.headers \in Pairs /\ u.marks \in Seq(Nat) /\ u.end \in Nat /\ u.calls \in Nat
      /\ u.texts \in Seq(Text)
  BY DEF TruthIs
<1>2. PICK h : h = IF u.headers = <<>> THEN listed ELSE u.headers
  OBVIOUS
<1>3. PICK g : g = IF u.response = Absent THEN buffer ELSE u.response
  OBVIOUS
<1>4. t = [exchange |-> u.exchange, response |-> g, headers |-> h, marks |-> u.marks,
           end |-> duration, calls |-> u.calls, texts |-> u.texts]
  BY <1>1, <1>2, <1>3
<1>5. h \in Pairs /\ g \in Text \cup {Absent}
  BY <1>1, <1>2, <1>3
<1>6. TruthIs(t)
  BY <1>1, <1>4, <1>5 DEF TruthIs
<1>7. /\ t.exchange = u.exchange /\ t.response = g /\ t.headers = h /\ t.marks = u.marks
      /\ t.end = duration /\ t.texts = u.texts
  BY ONLY <1>4
<1>8. EndsAs(u, t, duration, listed, buffer)
  BY <1>2, <1>3, <1>7 DEF EndsAs
<1> QED
  BY <1>6, <1>8

\* What has been drained when the request ends.
LEMMA DrainsWell ==
  ASSUME CaptureInv, step = "open", NEW duration \in Nat, duration >= LastMark,
         NEW listed \in Pairs, NEW buffer \in Text, NEW t, EndsAs(truth, t, duration, listed, buffer),
         NEW r, r = IF capture = Absent THEN Nothing ELSE Drained(duration, listed, buffer)
  PROVE  \E K : DrainedWell(r, K, t)
<1>1. Collected /\ TruthIs(truth)
  BY BusyIs
<1>2. CASE capture = Absent
  <2>1. r = Nothing
    BY <1>2
  <2> QED
    BY <2>1, NothingIs
<1>3. CASE capture # Absent
  <2>1. r = Drained(duration, listed, buffer)
    BY <1>3
  <2>2. capture = CaptureOf(truth) /\ truth.exchange \in Exchanges /\ Ascending(truth.marks)
    BY <1>1, <1>3 DEF Collected
  <2>3. \A i \in 1..Len(truth.marks) : truth.marks[i] <= duration
    <3> SUFFICES ASSUME NEW i \in 1..Len(truth.marks) PROVE truth.marks[i] <= duration
      OBVIOUS
    <3>1. LastMark \in Nat /\ truth.marks[i] <= LastMark
      BY <2>2, LastMarkIs
    <3>2. truth.marks[i] \in Nat
      BY <2>2 DEF Ascending
    <3> QED
      BY <3>1, <3>2
  <2>4. \E K : /\ OnePerSide(K) /\ \A b \in K : KeptBody(b, t) /\ b.owner = 0
               /\ r.root.id = 0 /\ SpanTells(r.root, t, K)
               /\ \A b : b \in K <=> \E x \in ToSet(r.bodies) :
                                        b = [owner |-> 0, side |-> x.side, text |-> x.text]
               /\ \E X : r.bodies \in Seq(X)
    BY <1>1, <2>1, <2>2, <2>3, DrainedIs
  <2> QED
    BY <2>4 DEF DrainedWell
<1> QED
  BY <1>2, <1>3

\* The request ends.
LEMMA EndKeeps ==
  ASSUME CaptureInv, NEW duration \in 0..MaxTime, NEW listed \in Listed, NEW buffer \in Buffers,
         EndRequest(duration, listed, buffer)
  PROVE  CaptureInv'
<1>1. step = "open" /\ duration >= LastMark /\ duration \in Nat /\ listed \in Pairs /\ buffer \in Text
  BY HttpCaptureConstants, HttpCaptureData DEF EndRequest
<1>2. Collected /\ TruthIs(truth)
  BY <1>1, BusyIs
<1>3. PICK t : t = truth'
  OBVIOUS
<1>4. PICK u : u = truth
  OBVIOUS
<1>5. TruthIs(t) /\ EndsAs(u, t, duration, listed, buffer)
  <2>1. t = [u EXCEPT !.end = duration,
                      !.headers = IF @ = <<>> THEN listed ELSE @,
                      !.response = IF @ = Absent THEN buffer ELSE @]
    BY <1>3, <1>4 DEF EndRequest
  <2> QED
    BY <1>1, <1>2, <1>4, <2>1, EndIs
<1>6. PICK r : r = IF capture = Absent THEN Nothing ELSE Drained(duration, listed, buffer)
  OBVIOUS
<1>7. PICK A : DrainedWell(r, A, t)
  BY <1>1, <1>4, <1>5, <1>6, DrainsWell
<1>8. /\ OnePerSide(A) /\ \A b \in A : KeptBody(b, t) /\ b.owner = 0
      /\ r.root.id = 0 /\ SpanTells(r.root, t, A)
  BY <1>7 DEF DrainedWell
<1>9. /\ t.exchange = u.exchange /\ t.texts = u.texts /\ u.exchange \in Exchanges
      /\ u.texts \in Seq(Text)
  BY <1>2, <1>4, <1>5 DEF EndsAs, Collected, TruthIs
<1>10. PICK n : n = Len(u.texts)
  OBVIOUS
<1>11. n \in Nat
  BY <1>9, <1>10
<1>12. PICK P : P = ToSet(pending)
  OBVIOUS
<1>13. \A p \in P : \E i \in 1..n : p = MessageOf(i, t) /\ p.owner = i /\ KeptBody(p, t)
  <2> SUFFICES ASSUME NEW p \in P
               PROVE  \E i \in 1..n : p = MessageOf(i, t) /\ p.owner = i /\ KeptBody(p, t)
    OBVIOUS
  <2>1. PICK i \in 1..n : p = MessageOf(i, u) /\ u.texts[i] # <<>>
    BY <1>2, <1>4, <1>10, <1>12 DEF Collected, PendingAre
  <2>2. MessageOf(i, t) = MessageOf(i, u)
    BY <1>9 DEF MessageOf
  <2>3. KeptBody(MessageOf(i, t), t) /\ MessageOf(i, t).owner = i
    BY <1>9, <1>10, <2>1, MessageIs
  <2> QED
    BY <2>1, <2>2, <2>3
<1>14. PICK K : K = A \cup P
  OBVIOUS
<1>15. /\ \A b \in A : b.owner = 0
       /\ \A b \in P : b.owner # 0
  BY <1>8, <1>11, <1>13
<1>16. OnePerSide(K)
  <2> SUFFICES ASSUME NEW b \in K, NEW c \in K, b.owner = c.owner, b.side = c.side PROVE b = c
    BY DEF OnePerSide
  <2>1. CASE b \in A
    <3>1. c \in A
      BY <1>14, <1>15, <2>1
    <3> QED
      BY <1>8, <2>1, <3>1 DEF OnePerSide
  <2>2. CASE b \notin A
    <3>1. b \in P /\ c \in P
      BY <1>14, <1>15, <2>2
    <3> QED
      BY <1>13, <3>1
  <2> QED
    BY <2>1, <2>2
<1>17. \A b \in K : KeptBody(b, t)
  BY <1>8, <1>13, <1>14
<1>18. SpanTells(r.root, t, K)
  <2>1. \A b : b.owner = r.root.id => (b \in K <=> b \in A)
    BY <1>8, <1>14, <1>15
  <2> QED
    BY <1>8, <2>1, RootStays
<1>19. /\ \E S : spans \in Seq(S)
       /\ Len(spans) = n /\ \A i \in 1..n : spans[i].id = i /\ SpanTells(spans[i], u, P)
  BY <1>2, <1>4, <1>10, <1>12 DEF Collected, SpansAre
<1>20. ASSUME NEW i \in 1..n PROVE SpanTells(spans[i], t, K)
  <2>1. PICK z : z = spans[i]
    OBVIOUS
  <2>2. z.id = i /\ SpanTells(z, u, P) /\ i # 0
    BY <1>11, <1>19, <2>1
  <2>3. \A b : b.owner = z.id => (b \in K <=> b \in P)
    BY <1>14, <1>15, <2>2
  <2>4. t.texts[z.id] = u.texts[z.id]
    BY <1>9
  <2> QED
    BY <2>1, <2>2, <2>3, <2>4, SpanStays
<1>21. PICK T : T = {r.root} \cup ToSet(spans)
  OBVIOUS
<1>22. /\ \A s \in T : SpanTells(s, t, K)
       /\ <<r.root>> \o spans \in Seq(T)
  <2>1. spans \in Seq(ToSet(spans)) /\ DOMAIN spans = 1..n
    BY <1>19, OwnElements
  <2>2. \A s \in T : SpanTells(s, t, K)
    BY <1>18, <1>20, <1>21, <2>1 DEF ToSet
  <2>3. spans \in Seq(T)
    <3>1. ToSet(spans) \subseteq T
      BY <1>21
    <3> QED
      BY <2>1, <3>1, SeqWider
  <2>4. <<r.root>> \in Seq(T)
    BY <1>21
  <2>5. <<r.root>> \o spans \in Seq(T)
    BY <2>3, <2>4, ConcatProperties
  <2> QED
    BY <2>2, <2>5
<1>23. PICK F : F = FlattenSeq([i \in DOMAIN r.bodies |-> BodyDocuments(0, r.bodies[i])])
  OBVIOUS
<1>24. F \in Seq(BodyDocument) /\ \A d : d \in ToSet(F) <=> OfBodies(d, A)
  BY <1>7, <1>23, DrainedDocuments
<1>25. PICK q : q = pending
  OBVIOUS
<1>26. PICK G : G = FlattenSeq([i \in DOMAIN q |-> BodyDocuments(q[i].owner, q[i])])
  OBVIOUS
<1>27. G \in Seq(BodyDocument) /\ \A d : d \in ToSet(G) <=> OfBodies(d, P)
  <2>1. PICK X : q \in Seq(X)
    BY <1>2, <1>25 DEF Collected, PendingAre
  <2>2. ToSet(q) = P
    BY <1>12, <1>25
  <2>3. \A b \in ToSet(q) : KeptBody(b, t)
    BY <1>13, <2>2
  <2>4. G \in Seq(BodyDocument) /\ \A d : d \in ToSet(G) <=> OfBodies(d, ToSet(q))
    BY <1>26, <2>1, <2>3, PendingDocuments
  <2> QED
    BY <2>2, <2>4
<1>28. \A d : d \in ToSet(F) \/ d \in ToSet(G) <=> OfBodies(d, K)
  <2>1. \A d : OfBodies(d, K) <=> OfBodies(d, A) \/ OfBodies(d, P)
    BY <1>14 DEF OfBodies
  <2> QED
    BY <1>24, <1>27, <2>1
<1>29. PICK H : H = Batches(<<r.root>> \o spans)
  OBVIOUS
<1>30. /\ H \in Seq(TraceDocument(T))
       /\ \A i \in 1..Len(H) : H[i].signal = "trace" /\ ToSet(H[i].part) \subseteq T
  <2>1. PICK y : y = <<r.root>> \o spans
    OBVIOUS
  <2>2. y \in Seq(T) /\ H = Batches(y)
    BY <1>22, <1>29, <2>1
  <2> QED
    BY <2>2, BatchesAre
<1>31. PICK R : R = Recorded(t.exchange.items)
  OBVIOUS
<1>32. t.exchange.items \in Seq(Item)
  BY <1>9, ExchangeIs
<1>33. PICK Q : Q = F \o G \o H \o R
  OBVIOUS
<1>34. EndsIn(Q, K, T, t)
  BY <1>16, <1>17, <1>22, <1>24, <1>27, <1>28, <1>30, <1>31, <1>32, <1>33, Assembled
<1>35. queue' = Q
  <2>1. queue' = FlattenSeq([i \in DOMAIN r.bodies |-> BodyDocuments(0, r.bodies[i])])
                 \o FlattenSeq([i \in DOMAIN pending |-> BodyDocuments(pending[i].owner, pending[i])])
                 \o Batches(<<r.root>> \o spans)
                 \o Recorded(truth.exchange.items)
    BY <1>6 DEF EndRequest
  <2>2. Recorded(truth.exchange.items) = R
    BY <1>4, <1>9, <1>31
  <2> QED
    BY <1>23, <1>25, <1>26, <1>29, <1>33, <2>1, <2>2
<1>36. /\ step' = "writing" /\ written' = {} /\ failed' = {} /\ killed' = FALSE
  BY <1>2 DEF EndRequest, Collected, NothingYet
<1>37. Q \in Seq(ToSet(Q))
  BY <1>34 DEF EndsIn
<1>38. Progress(Q, 0)'
  <2>1. Len(Q) \in Nat /\ SubSeq(Q, 0 + 1, Len(Q)) = Q
    BY <1>37
  <2>2. written' \cup failed' = {Q[i] : i \in 1..0}
    BY <1>36
  <2>3. 0 \in 0..Len(Q)
    BY <2>1
  <2> QED
    BY <1>35, <1>36, <2>1, <2>2, <2>3 DEF Progress
<1>39. Delivered'
  <2>1. \E k : Progress(Q, k)'
    BY <1>38
  <2>2. \E L, Y, Z : EndsIn(L, Y, Z, truth') /\ \E k : Progress(L, k)'
    BY <1>3, <1>34, <2>1
  <2>3. truth'.exchange.items \in Seq(Item)
    BY <1>3, <1>32
  <2>4. killed' \in BOOLEAN /\ step' # "over"
    BY <1>36, StepsDiffer
  <2> QED
    BY <1>36, <2>2, <2>3, <2>4 DEF Delivered
<1> QED
  BY <1>3, <1>5, <1>39 DEF CaptureInv

\* A document is taken from the queue, whatever becomes of it.
LEMMA WriteKeeps ==
  ASSUME CaptureInv, WriteDocument
  PROVE  CaptureInv'
<1>1. Delivered /\ TruthIs(truth) /\ step = "writing"
  BY StepsDiffer DEF CaptureInv, Awaited, Collected, WriteDocument
<1>2. PICK Q, K, T : EndsIn(Q, K, T, truth) /\ \E k : Progress(Q, k)
  BY <1>1 DEF Delivered
<1>3. PICK k : Progress(Q, k)
  BY <1>2
<1>4. Q \in Seq(ToSet(Q)) /\ Len(Q) \in Nat
  <2>1. Q \in Seq(ToSet(Q))
    BY <1>2 DEF EndsIn
  <2> QED
    BY <2>1
<1>5. killed = FALSE /\ queue # <<>>
  BY <1>1, StepsDiffer DEF Delivered, WriteDocument
<1>6. k \in Nat /\ k <= Len(Q) /\ queue = SubSeq(Q, k + 1, Len(Q))
  BY <1>3, <1>4, <1>5 DEF Progress
<1>7. k < Len(Q)
  <2> SUFFICES ASSUME k = Len(Q) PROVE FALSE
    BY <1>4, <1>6
  <2>1. SubSeq(Q, k + 1, Len(Q)) = <<>>
    BY <1>4, <1>6
  <2> QED
    BY <1>5, <1>6, <2>1
<1>8. Head(queue) = Q[k + 1] /\ Tail(queue) = SubSeq(Q, (k + 1) + 1, Len(Q))
  BY <1>4, <1>6, <1>7
<1>9. written' \cup failed' = (written \cup failed) \cup {Q[k + 1]}
  <2>1. \/ written' = written \cup {Q[k + 1]} /\ failed' = failed
        \/ failed' = failed \cup {Q[k + 1]} /\ written' = written
    BY <1>8 DEF WriteDocument
  <2> QED
    BY <2>1
<1>10. {Q[i] : i \in 1..(k + 1)} = {Q[i] : i \in 1..k} \cup {Q[k + 1]}
  <2>1. \A i : i \in 1..(k + 1) <=> i \in 1..k \/ i = k + 1
    BY <1>6
  <2> QED
    BY <2>1
<1>11. Progress(Q, k + 1)'
  <2>1. k + 1 \in 0..Len(Q)
    BY <1>4, <1>6, <1>7
  <2>2. written' \cup failed' = {Q[i] : i \in 1..(k + 1)}
    BY <1>3, <1>9, <1>10 DEF Progress
  <2>3. killed' = FALSE /\ queue' = SubSeq(Q, (k + 1) + 1, Len(Q))
    BY <1>5, <1>8 DEF WriteDocument
  <2> QED
    BY <2>1, <2>2, <2>3 DEF Progress
<1>12. truth' = truth /\ step' = "writing" /\ killed' = FALSE
  BY <1>1, <1>5 DEF WriteDocument
<1>13. Delivered'
  <2>1. EndsIn(Q, K, T, truth') /\ \E j : Progress(Q, j)'
    BY <1>2, <1>11, <1>12
  <2>2. \E L, Y, Z : EndsIn(L, Y, Z, truth') /\ \E j : Progress(L, j)'
    BY <2>1
  <2>3. truth'.exchange.items \in Seq(Item)
    BY <1>1, <1>12 DEF Delivered
  <2> QED
    BY <1>12, <2>2, <2>3, StepsDiffer DEF Delivered
<1> QED
  BY <1>1, <1>12, <1>13 DEF CaptureInv

\* The request is over: all is written, or the worker was killed.
LEMMA OverKeeps ==
  ASSUME CaptureInv, KillWorker \/ CloseRequest
  PROVE  CaptureInv'
<1>1. Delivered /\ TruthIs(truth) /\ step = "writing"
  BY StepsDiffer DEF CaptureInv, Awaited, Collected, KillWorker, CloseRequest
<1>2. PICK Q, K, T : EndsIn(Q, K, T, truth) /\ \E k : Progress(Q, k)
  BY <1>1 DEF Delivered
<1>3. PICK k : Progress(Q, k)
  BY <1>2
<1>4. /\ truth' = truth /\ step' = "over" /\ queue' = <<>> /\ killed' \in BOOLEAN
      /\ written' = written /\ failed' = failed /\ (killed' = killed \/ killed' = TRUE)
      /\ ~killed' => queue' = queue
  BY <1>1 DEF Delivered, KillWorker, CloseRequest
<1>5. Progress(Q, k)'
  <2>1. k \in 0..Len(Q) /\ written \cup failed = {Q[i] : i \in 1..k}
    BY <1>3 DEF Progress
  <2>2. queue' = IF killed' THEN <<>> ELSE SubSeq(Q, k + 1, Len(Q))
    BY <1>3, <1>4 DEF Progress
  <2> QED
    BY <1>4, <2>1, <2>2 DEF Progress
<1>6. Delivered'
  <2>1. EndsIn(Q, K, T, truth') /\ \E j : Progress(Q, j)'
    BY <1>2, <1>4, <1>5
  <2>2. \E L, Y, Z : EndsIn(L, Y, Z, truth') /\ \E j : Progress(L, j)'
    BY <2>1
  <2>3. truth'.exchange.items \in Seq(Item)
    BY <1>1, <1>4 DEF Delivered
  <2> QED
    BY <1>4, <2>2, <2>3 DEF Delivered
<1> QED
  BY <1>1, <1>4, <1>6 DEF CaptureInv

\* A step that changes nothing.
LEMMA CaptureStutters ==
  ASSUME CaptureInv, UNCHANGED captureVars
  PROVE  CaptureInv'
<1>1. /\ step' = step /\ capture' = capture /\ spans' = spans /\ pending' = pending
      /\ queue' = queue /\ written' = written /\ failed' = failed /\ killed' = killed
      /\ truth' = truth
  BY DEF captureVars
<1>2. Awaited => Awaited'
  BY <1>1 DEF Awaited, NothingYet
<1>3. Collected => Collected'
  <2> SUFFICES ASSUME Collected PROVE Collected'
    OBVIOUS
  <2>1. PendingAre' /\ SpansAre'
    BY <1>1, TextsStay DEF Collected
  <2> QED
    BY <1>1, <2>1 DEF Collected, NothingYet
<1>4. Delivered => Delivered'
  <2> SUFFICES ASSUME Delivered PROVE Delivered'
    OBVIOUS
  <2>1. PICK Q, K, T : EndsIn(Q, K, T, truth) /\ \E k : Progress(Q, k)
    BY DEF Delivered
  <2>2. PICK k : Progress(Q, k)
    BY <2>1
  <2>3. Progress(Q, k)'
    BY <1>1, <2>2 DEF Progress
  <2>4. \E L, Y, Z : EndsIn(L, Y, Z, truth') /\ \E j : Progress(L, j)'
    BY <1>1, <2>1, <2>3
  <2> QED
    BY <1>1, <2>4 DEF Delivered
<1> QED
  BY <1>1, <1>2, <1>3, <1>4 DEF CaptureInv

\* What a request has kept, or has in its documents, is what the application had: until the
\* end the capture is a function of the history, and after it the documents done are the first
\* ones of a row that tells the truth.
THEOREM CaptureKeeps == CaptureSpec => []CaptureInv
<1>1. CaptureInit => CaptureInv
  <2> SUFFICES ASSUME CaptureInit PROVE CaptureInv
    OBVIOUS
  <2>1. truth = [exchange |-> Absent, response |-> Absent, headers |-> <<>>, marks |-> <<>>,
                 end |-> 0, calls |-> 0, texts |-> <<>>]
    BY DEF CaptureInit, Untold
  <2>2. <<>> \in Pairs /\ <<>> \in Seq(Nat) /\ <<>> \in Seq(Text)
    BY DEF Pairs
  <2>3. TruthIs(truth)
    BY <2>1, <2>2 DEF TruthIs
  <2>4. Awaited
    BY <2>1 DEF CaptureInit, Awaited, NothingYet
  <2> QED
    BY <2>3, <2>4 DEF CaptureInv
<1>2. CaptureInv /\ [CaptureNext]_captureVars => CaptureInv'
  <2> SUFFICES ASSUME CaptureInv, [CaptureNext]_captureVars PROVE CaptureInv'
    OBVIOUS
  <2>1. ASSUME NEW x \in Exchanges, OnRequestStart(x) PROVE CaptureInv'
    BY <2>1, StartKeeps
  <2>2. ASSUME NEW r \in Responses, SetResponse(r) PROVE CaptureInv'
    BY <2>2, ResponseKeeps
  <2>3. ASSUME NEW at \in 0..MaxTime, MarkPhase(at) PROVE CaptureInv'
    BY <2>3, MarkKeeps
  <2>4. ASSUME NEW text \in Payloads, StoreBody(text) PROVE CaptureInv'
    BY <2>4, StoreKeeps
  <2>5. ASSUME NEW r \in Outbound, CurlReturns(r) PROVE CaptureInv'
    BY <2>5, CurlKeeps
  <2>6. ASSUME NEW duration \in 0..MaxTime, NEW listed \in Listed, NEW buffer \in Buffers,
               EndRequest(duration, listed, buffer)
        PROVE  CaptureInv'
    BY <2>6, EndKeeps
  <2>7. CASE WriteDocument
    BY <2>7, WriteKeeps
  <2>8. CASE KillWorker \/ CloseRequest
    BY <2>8, OverKeeps
  <2>9. CASE UNCHANGED captureVars
    BY <2>9, CaptureStutters
  <2> QED
    BY <2>1, <2>2, <2>3, <2>4, <2>5, <2>6, <2>7, <2>8, <2>9 DEF CaptureNext
<1> QED
  BY <1>1, <1>2, PTL DEF CaptureSpec

\* Before the request has ended nothing of it is on disk.
LEMMA NothingShows ==
  ASSUME NothingYet
  PROVE  PreviewTells /\ PartsReassemble /\ TimelineTiles /\ LossIsAdmitted
<1>1. SpansOnDisk = {}
  BY DEF NothingYet, SpansOnDisk
<1>2. Root = {}
  BY <1>1 DEF Root
<1>3. NumberedDocuments = {}
  BY DEF NothingYet, NumberedDocuments
<1>4. PreviewTells
  BY <1>1 DEF PreviewTells
<1>5. PartsReassemble
  BY <1>3 DEF PartsReassemble
<1>6. TimelineTiles
  BY <1>2 DEF TimelineTiles
<1>7. LossIsAdmitted
  BY <1>2 DEF LossIsAdmitted
<1> QED
  BY <1>4, <1>5, <1>6, <1>7

\* The invariant is enough.
LEMMA CaptureShows ==
  ASSUME CaptureInv
  PROVE  PreviewTells /\ PartsReassemble /\ TimelineTiles /\ LossIsAdmitted
<1>1. CASE Awaited \/ Collected
  BY <1>1, NothingShows DEF Awaited, Collected
<1>2. CASE Delivered
  BY <1>2, PreviewsTell, PartsJoin, RootIsTrue
<1> QED
  BY <1>1, <1>2 DEF CaptureInv

\* No attribute of a span on disk misleads about the body it is of, whatever writes fail and
\* whenever the worker is killed.
THEOREM PreviewsTellTheTruth == CaptureSpec => []PreviewTells
<1>1. CaptureInv => PreviewTells
  BY CaptureShows
<1> QED
  BY <1>1, CaptureKeeps, PTL

\* The documents of a body or a recording agree with each other, and together they are it.
THEOREM NumberedPartsReassemble == CaptureSpec => []PartsReassemble
<1>1. CaptureInv => PartsReassemble
  BY CaptureShows
<1> QED
  BY <1>1, CaptureKeeps, PTL

\* The timeline of a root span tiles the request, for every number of marks and of those kept.
THEOREM PhasesTileTheRequest == CaptureSpec => []TimelineTiles
<1>1. CaptureInv => TimelineTiles
  BY CaptureShows
<1> QED
  BY <1>1, CaptureKeeps, PTL

\* What a bounded map leaves out is counted in it, for every bound.
THEOREM MapsAdmitTheirLoss == CaptureSpec => []LossIsAdmitted
<1>1. CaptureInv => LossIsAdmitted
  BY CaptureShows
<1> QED
  BY <1>1, CaptureKeeps, PTL
==============================================================================
