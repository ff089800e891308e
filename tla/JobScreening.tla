----------------------------- MODULE JobScreening -----------------------------
(***************************************************************************)
(* The two scripts that ask the operator contracts which jobs of a list    *)
(* are still open, and write those: "failed", on processInBatches and      *)
(* processEventsConcurrently of utils/concurrency.ts, and "incomplete",    *)
(* with a loop of its own.  Both go through the list in batches and keep a *)
(* bounded number of queries in flight; they differ in how they find out   *)
(* which query came back.                                                  *)
(*                                                                         *)
(* A job is its index in the list.  An answer is the job (it exists), null *)
(* (it does not, or the node did not answer: both print and return null),  *)
(* or a rejection (getOperator threw).  The lines of the output file and   *)
(* the results of a batch are counted for each job; their order is that in *)
(* which the answers come and is left out.                                 *)
(***************************************************************************)
EXTENDS Integers, Sequences, FiniteSets

CONSTANTS
    Scripts,     \* a subset of {"failed", "incomplete"}
    Length,      \* number of jobs in the list
    Level,       \* CONCURRENCY_LEVEL
    BatchSize,   \* BATCH_SIZE
    MinBatch,    \* minBatchSize
    Rate         \* <<n, d>>: increaseRate is n / d

ASSUME SizesType ==
    /\ Length \in Nat
    /\ {Level, BatchSize, MinBatch} \subseteq Nat \ {0}
    /\ MinBatch <= BatchSize
    /\ Rate \in Nat \X (Nat \ {0})
ASSUME ScriptsType == Scripts \subseteq {"failed", "incomplete"}

VARIABLES
    script,      \* chosen once
    throws,      \* the action handed to processInBatches may throw
    phase,       \* "next": before a batch; "batch"; "done"; "thrown"
    first,       \* i of the loop over the list
    size,        \* of the batches
    next,        \* the first job of the batch not yet asked about
    promises,    \* promises (failed), executing (incomplete)
    answer,      \* of the last query for a job
    results,     \* of the batch
    written      \* lines of the output file

vars == <<script, throws, phase, first, size, next, promises, answer, results, written>>

Jobs    == 0 .. Length - 1
Answers == {"job", "null", "rejected"}
None    == [j \in Jobs |-> 0]

Smaller(a, b) == IF a <= b THEN a ELSE b

\* rangeEnd
Last     == Smaller(first + size - 1, Length - 1)
Pending  == {j \in Jobs : answer[j] = "pending"}
Asked(q) == [j \in Jobs |-> IF \E k \in DOMAIN q : q[k] = j THEN "pending" ELSE answer[j]]

Without(q, k) == SubSeq(q, 1, k - 1) \o SubSeq(q, k + 1, Len(q))

\* The lines a batch adds: those of its results that are jobs.
Lines == [j \in Jobs |-> written[j] + IF answer[j] = "job" THEN results[j] ELSE 0]

-----------------------------------------------------------------------------
(* A query comes back.  The incomplete script stores the result right here,  *)
(* in the array of the batch that sent the query: once that batch is written *)
(* nobody looks at it again. *)

OfThisBatch(j) == phase = "batch" /\ first <= j /\ j < next

Answer(j) ==
    /\ answer[j] = "pending"
    /\ \E a \in Answers :
         /\ answer' = [answer EXCEPT ![j] = a]
         /\ results' = IF script = "incomplete" /\ a = "job" /\ OfThisBatch(j)
                       THEN [results EXCEPT ![j] = @ + 1] ELSE results
    /\ UNCHANGED <<script, throws, phase, first, size, next, promises, written>>

-----------------------------------------------------------------------------
(* The failed jobs: processEventsConcurrently within processInBatches. *)

StartConcurrently ==
    /\ script = "failed" /\ phase = "next" /\ first < Length
    /\ promises' = [k \in 1 .. Smaller(Level, Last - first + 1) |-> first + k - 1]
    /\ answer' = Asked(promises')
    /\ next' = first + Len(promises')
    /\ results' = None
    /\ phase' = "batch"
    /\ UNCHANGED <<script, throws, first, size, written>>

\* Faulty: the oldest promise is removed, whichever won the race.
SettleOldest(k) ==
    /\ script = "failed" /\ phase = "batch"
    /\ answer[promises[k]] # "pending"
    /\ results' = [results EXCEPT ![promises[1]] = @ + 1]
    /\ IF next <= Last
       THEN /\ promises' = Append(Tail(promises), next)
            /\ answer' = Asked(<<next>>)
            /\ next' = next + 1
       ELSE promises' = Tail(promises) /\ UNCHANGED <<answer, next>>
    /\ UNCHANGED <<script, throws, phase, first, size, written>>

\* Faulty: the next query is sent when one is taken from the list and before.
SettleTwice(k) ==
    /\ script = "failed" /\ phase = "batch"
    /\ answer[promises[k]] # "pending"
    /\ results' = [results EXCEPT ![promises[k]] = @ + 1]
    /\ IF next + 1 <= Last
       THEN /\ promises' = Without(promises, k) \o <<next, next + 1>>
            /\ answer' = Asked(<<next, next + 1>>)
            /\ next' = next + 2
       ELSE IF next <= Last
       THEN /\ promises' = Append(Without(promises, k), next)
            /\ answer' = Asked(<<next>>)
            /\ next' = next + 1
       ELSE promises' = Without(promises, k) /\ UNCHANGED <<answer, next>>
    /\ UNCHANGED <<script, throws, phase, first, size, written>>

\* The promise that won the race is replaced by the next query.
Settle(k) ==
    /\ script = "failed" /\ phase = "batch"
    /\ answer[promises[k]] # "pending"
    /\ results' = [results EXCEPT ![promises[k]] = @ + 1]
    /\ IF next <= Last
       THEN /\ promises' = Append(Without(promises, k), next)
            /\ answer' = Asked(<<next>>)
            /\ next' = next + 1
       ELSE promises' = Without(promises, k) /\ UNCHANGED <<answer, next>>
    /\ UNCHANGED <<script, throws, phase, first, size, written>>

\* Faulty: growth does not stop at BATCH_SIZE.
GrownUncapped == (size * (Rate[1] + Rate[2])) \div Rate[2]

\* The next size after a batch that went well: the quotient is Math.floor.
Grown == Smaller(BatchSize, (size * (Rate[1] + Rate[2])) \div Rate[2])

\* processBatch writes, and processInBatches goes on.
WriteConcurrently ==
    /\ script = "failed" /\ phase = "batch" /\ promises = <<>>
    /\ written' = Lines
    /\ first' = first + size
    /\ size' = IF size < BatchSize THEN Grown ELSE size
    /\ phase' = "next"
    /\ UNCHANGED <<script, throws, next, promises, answer, results>>

\* Faulty: the smallest batch is tried again and again.
RetryForever ==
    /\ script = "failed" /\ phase = "batch" /\ promises = <<>>
    /\ throws
    /\ size' = IF size \div 2 < MinBatch THEN size ELSE size \div 2
    /\ phase' = "next"
    /\ UNCHANGED <<script, throws, first, next, promises, answer, results, written>>

\* An action that throws instead of writing is tried again on half the range.
\* That of this script never does: a rejection becomes a result.
Retry ==
    /\ script = "failed" /\ phase = "batch" /\ promises = <<>>
    /\ throws
    /\ size' = size \div 2
    /\ phase' = IF size' < MinBatch THEN "thrown" ELSE "next"
    /\ UNCHANGED <<script, throws, first, next, promises, answer, results, written>>

-----------------------------------------------------------------------------
(* The incomplete jobs. *)

StartLoop ==
    /\ script = "incomplete" /\ phase = "next" /\ first < Length
    /\ next' = first
    /\ promises' = <<>>
    /\ results' = None
    /\ phase' = "batch"
    /\ UNCHANGED <<script, throws, first, size, answer, written>>

Launch ==
    /\ script = "incomplete" /\ phase = "batch"
    /\ next <= Last
    /\ Len(promises) < Level
    /\ promises' = Append(promises, next)
    /\ answer' = Asked(<<next>>)
    /\ next' = next + 1
    /\ UNCHANGED <<script, throws, phase, first, size, results, written>>

\* Whoever won the race, the oldest promise is removed.
RemoveOldest ==
    /\ script = "incomplete" /\ phase = "batch"
    /\ Len(promises) >= Level
    /\ \E k \in DOMAIN promises : answer[promises[k]] # "pending"
    /\ promises' = Tail(promises)
    /\ UNCHANGED <<script, throws, phase, first, size, next, answer, results, written>>

\* Faulty: the results of the last batch are kept.
WriteLoopKeeping ==
    /\ script = "incomplete" /\ phase = "batch"
    /\ next > Last
    /\ Len(promises) < Level
    /\ \A k \in DOMAIN promises : answer[promises[k]] # "pending"
    /\ written' = Lines
    /\ first' = first + 1
    /\ phase' = "next"
    /\ UNCHANGED <<script, throws, size, next, promises, answer, results>>

\* Promise.all of what is left, and the batch is written.
WriteLoop ==
    /\ script = "incomplete" /\ phase = "batch"
    /\ next > Last
    /\ Len(promises) < Level
    /\ \A k \in DOMAIN promises : answer[promises[k]] # "pending"
    /\ written' = Lines
    /\ first' = first + size
    /\ phase' = "next"
    /\ UNCHANGED <<script, throws, size, next, promises, answer, results>>

-----------------------------------------------------------------------------
Finish ==
    /\ phase = "next" /\ first >= Length
    /\ phase' = "done"
    /\ UNCHANGED <<script, throws, first, size, next, promises, answer, results, written>>

Init ==
    /\ script \in Scripts
    /\ throws \in (IF script = "failed" THEN BOOLEAN ELSE {FALSE})
    /\ phase = "next"
    /\ first = 0 /\ size = BatchSize /\ next = 0
    /\ promises = <<>>
    /\ answer = [j \in Jobs |-> "idle"]
    /\ results = None /\ written = None

Main ==
    \/ StartConcurrently \/ WriteConcurrently \/ Retry
    \/ \E k \in DOMAIN promises : Settle(k)
    \/ StartLoop \/ Launch \/ RemoveOldest \/ WriteLoop
    \/ Finish

Next == Main \/ \E j \in Jobs : Answer(j)

\* The provider gives up on a request that is not answered; the event loop
\* runs what it can.
Fairness == WF_vars(Main) /\ WF_vars(\E j \in Jobs : Answer(j))

Spec == Init /\ [][Next]_vars /\ Fairness

-----------------------------------------------------------------------------
(* Properties. *)

TypeOK ==
    /\ script \in Scripts /\ throws \in BOOLEAN
    /\ phase \in {"next", "batch", "done", "thrown"}
    /\ first \in Nat /\ next \in Nat
    /\ size \in 0 .. BatchSize /\ (phase # "thrown" => size >= MinBatch)
    /\ promises \in Seq(Jobs)
    /\ answer \in [Jobs -> Answers \cup {"idle", "pending"}]
    /\ results \in [Jobs -> Nat] /\ written \in [Jobs -> Nat]

\* The script for failed jobs writes every job it was told exists exactly once,
\* however the answers are ordered and batches are cut, repeated and grown.
ExistingJobsWritten ==
    script = "failed" /\ phase = "done" =>
        \A j \in Jobs : /\ answer[j] \in Answers
                        /\ written[j] = IF answer[j] = "job" THEN 1 ELSE 0

\* Neither script writes a job twice, nor one it was not told exists.
WrittenAtMostOnce ==
    \A j \in Jobs : written[j] <= 1 /\ (phase = "done" /\ written[j] = 1 => answer[j] = "job")

\* processEventsConcurrently keeps as many queries in flight as it was told.
QueriesBounded == script = "failed" => Cardinality(Pending) <= Level

\* Both scripts end.
Ends == <>(phase \in {"done", "thrown"})
=============================================================================
