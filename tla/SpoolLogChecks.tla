--------------------------- MODULE SpoolLogChecks ---------------------------
(***************************************************************************)
(* Properties of the spool log that speak of more than its state: sums over*)
(* processes, the implementation of FrameLog, and progress.                *)
(***************************************************************************)
EXTENDS SpoolLog, Sums

Total(f) == SumOver(Worker, f)

-----------------------------------------------------------------------------
Frame(w, k) == [by |-> w, seq |-> k, whole |-> TRUE]

Holds(i, w, k, positions) == \E p \in positions : entries[i][p] = Frame(w, k)

\* What became of the k-th document of w, as the segments and the cursor show it.
FateOf(w, k) ==
    IF k > appends[w] THEN "unborn"
    ELSE IF k = appends[w] /\ pc[w] # "idle" THEN "open"
    ELSE IF \E i \in Inode : Holds(i, w, k, 1..shipped[i]) THEN "shipped"
    ELSE IF \E i \in linked : Holds(i, w, k, DOMAIN entries[i]) THEN "stored"
    ELSE IF \E i \in Inode : Holds(i, w, k, DOMAIN entries[i]) THEN "lost"
    ELSE "failed"

Fates == [w \in Worker |-> [k \in 1..MaxAppends |-> FateOf(w, k)]]

Contract == INSTANCE FrameLog WITH fate <- Fates

\* The documents that append has given up: no file has their frame.
Refused == {d \in Worker \X (1..MaxAppends) : FateOf(d[1], d[2]) = "failed"}

\* The files that have lost their name.
Removed == {i \in Inode : gen[i] # 0 /\ i \notin linked}

\* What is lost adds up: every document refused and every file removed is in the count of
\* exactly one process, even when several enforce the budget at once, but for those that
\* append loses without counting them (a directory or a segment it cannot open, a process that
\* dies in it), those the agent removes, and the counts that died with their process.  The
\* frames in a removed file are lost for one count, or for none when they come after it.
LossesAddUp ==
    Total(dropped) + history.buried + history.silent + history.retired
        = Cardinality(Refused) + Cardinality(Removed)

\* append keeps the contract of FrameLog: a frame's fate is decided once, a failed
\* append never surfaces, and a process's frames are shipped in order.
ImplementsFrameLog == Contract!Spec

\* append returns to the request: open_active's rescans come to an end.
AppendReturns ==
    \A w \in Worker : pc[w] # "idle" ~> pc[w] = "idle"

Excess == Cardinality(Segments) > MaxSegments + Cardinality(SecondFirst)

\* An excess over the segment budget is transient, a second generation 1 apart:
\* that one stays until the next rotation.
BudgetRestored == Excess ~> ~Excess
=============================================================================
