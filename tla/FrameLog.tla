------------------------------ MODULE FrameLog ------------------------------
(***************************************************************************)
(* What the spool log promises about one frame, with the segments, the     *)
(* descriptors and the races left out.                                     *)
(*                                                                         *)
(* A caller of spool_log::append hands over a document and goes on with    *)
(* its request whatever comes back, so the contract is about the fate of   *)
(* the frame: it is decided once, a frame whose append failed never turns  *)
(* up later, a frame is shipped at most once and only after it was stored, *)
(* and the frames one worker process stored are shipped in the order in    *)
(* which it appended them.                                                 *)
(***************************************************************************)
EXTENDS Naturals

CONSTANTS
    Worker,         \* the PHP worker processes that share one spool directory
    MaxAppends      \* bound: how many documents each of them appends

VARIABLE fate       \* fate[w][k]: what became of the k-th document of w

Fate == {"unborn", "open", "failed", "stored", "shipped", "lost"}

Number == 1..MaxAppends

TypeOK == fate \in [Worker -> [Number -> Fate]]

Init == fate = [w \in Worker |-> [k \in Number |-> "unborn"]]

Becomes(w, k, f) == fate' = [fate EXCEPT ![w][k] = f]

\* append is entered: one at a time in a process, in the order of the calls.
Open(w, k) ==
    /\ fate[w][k] = "unborn"
    /\ \A j \in Number : j < k => fate[w][j] \notin {"unborn", "open"}
    /\ Becomes(w, k, "open")

\* The document is refused before anything is opened.
Refuse(w, k) ==
    /\ fate[w][k] = "unborn"
    /\ \A j \in Number : j < k => fate[w][j] \notin {"unborn", "open"}
    /\ Becomes(w, k, "failed")

\* append returns: the frame is in the log, or it is not and never will be.
Close(w, k) ==
    /\ fate[w][k] = "open"
    /\ \E f \in {"stored", "failed", "lost"} : Becomes(w, k, f)

\* The reader takes the oldest unread frame of a worker.
Ship(w, k) ==
    /\ fate[w][k] = "stored"
    /\ \A j \in Number : j < k => fate[w][j] # "stored"
    /\ Becomes(w, k, "shipped")

\* The segment budget discards a whole segment, with the frames still in it.
Evict ==
    /\ fate' \in [Worker -> [Number -> Fate]]
    /\ \A w \in Worker, k \in Number :
           fate'[w][k] # fate[w][k] => fate[w][k] = "stored" /\ fate'[w][k] = "lost"

Next ==
    \/ \E w \in Worker, k \in Number :
           Open(w, k) \/ Refuse(w, k) \/ Close(w, k) \/ Ship(w, k)
    \/ Evict

Spec == Init /\ [][Next]_fate
=============================================================================
