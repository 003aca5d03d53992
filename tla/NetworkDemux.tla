----------------------------- MODULE NetworkDemux -----------------------------
(***************************************************************************)
(* The demultiplexing network (src/src/neural/backends/network_demux.cc):  *)
(* a computation is split into parts of equal size, which worker threads   *)
(* compute on networks they take in turn. Which network that is makes no   *)
(* difference here.                                                        *)
(*                                                                         *)
(* A computation is used once. Its owner waits for it before it destroys   *)
(* the network (as NetworkMux does), so the loop of the destructor that    *)
(* lets waiting computations go finds the queue empty.                     *)
(***************************************************************************)
EXTENDS Integers, Sequences, FiniteSets

CONSTANTS
  Computation,       \* the DemuxingComputations
  Worker,            \* threads of the network
  MinimumSplitSize,  \* option minimum-split-size
  None

VARIABLES
  queue_, abort_,       \* of the network; a computation is queued once for each part
  caller,               \* of each computation: "filling", "enqueue", "wait", "returned"
  planes_,              \* its inputs
  partial_size_, dataready_,  \* the size of its parts, and how many are missing
  to_queue,             \* how many parts are still to be queued
  parents_,             \* its parts: the inputs of each, and whether they are computed
  worker,               \* what each worker does next
  part,                 \* the part it works on: computation and index
  network               \* "alive", or how far the destructor is

computations == <<caller, planes_, partial_size_, dataready_, to_queue, parents_>>
demuxVars == <<queue_, abort_, network, computations, worker, part>>

CeilDiv(n, k) == (n + k - 1) \div k
SmallerOf(m, n) == IF m < n THEN m ELSE n

Goto(w, label) == worker' = [worker EXCEPT ![w] = label]
Asleep == {w \in Worker : worker[w] = "asleep"}

\* The mutex_ of a computation is held by its caller while it queues the parts.
MutexFree(c) == caller[c] # "enqueue"

\* GetQVal() and the others: the input that a sample is the result of.
Sample(c, i) ==
  parents_[c][1 + ((i - 1) \div partial_size_[c])].inputs[1 + ((i - 1) % partial_size_[c])]

-----------------------------------------------------------------------------
(* Callers.                                                                *)

PartialSize(n) ==
  LET even == CeilDiv(n, Cardinality(Worker)) IN
  IF even < MinimumSplitSize THEN SmallerOf(n, MinimumSplitSize) ELSE even

\* ComputeBlocking: an empty batch is done at once, others are split.
ComputeBlocking(c, planes) ==
  /\ caller[c] = "filling"
  /\ planes_' = [planes_ EXCEPT ![c] = planes]
  /\ IF planes = <<>>
       THEN /\ caller' = [caller EXCEPT ![c] = "wait"]
            /\ UNCHANGED <<partial_size_, dataready_, to_queue>>
       ELSE LET size == PartialSize(Len(planes))
                splits == CeilDiv(Len(planes), size)
            IN
            /\ partial_size_' = [partial_size_ EXCEPT ![c] = size]
            /\ dataready_' = [dataready_ EXCEPT ![c] = splits]
            /\ to_queue' = [to_queue EXCEPT ![c] = splits]
            /\ caller' = [caller EXCEPT ![c] = "enqueue"]
  /\ UNCHANGED <<queue_, abort_, network, parents_, worker, part>>

\* Enqueue of one part, with notify_one(); after the last the caller waits, which
\* releases its mutex_.
Enqueue(c) ==
  /\ caller[c] = "enqueue"
  /\ queue_' = Append(queue_, c)
  /\ to_queue' = [to_queue EXCEPT ![c] = @ - 1]
  /\ caller' = [caller EXCEPT ![c] = IF to_queue[c] = 1 THEN "wait" ELSE @]
  /\ IF Asleep = {} THEN UNCHANGED worker ELSE \E w \in Asleep : Goto(w, "wait")
  /\ UNCHANGED <<abort_, network, planes_, partial_size_, dataready_, parents_, part>>

\* ComputeBlocking returns.
Return(c) ==
  /\ caller[c] = "wait" /\ dataready_[c] = 0
  /\ caller' = [caller EXCEPT ![c] = "returned"]
  /\ UNCHANGED <<queue_, abort_, network, planes_, partial_size_, dataready_, to_queue,
                 parents_, worker, part>>

-----------------------------------------------------------------------------
(* Workers.                                                                *)

\* The head of the loop, then cv_.wait() under the lock.
WaitForWork(w) ==
  /\ worker[w] = "wait"
  /\ Goto(w, IF abort_ THEN "ended" ELSE IF queue_ = <<>> THEN "asleep" ELSE "take")
  /\ UNCHANGED <<queue_, abort_, network, computations, part>>

\* The lock was released since: another worker may have taken the work.
Take(w) ==
  /\ worker[w] = "take"
  /\ IF queue_ = <<>>
       THEN Goto(w, "wait") /\ UNCHANGED <<queue_, part>>
       ELSE /\ part' = [part EXCEPT ![w] = [of |-> Head(queue_), index |-> 0]]
            /\ queue_' = Tail(queue_)
            /\ Goto(w, "add")
  /\ UNCHANGED <<abort_, network, computations>>

\* Mutant of AddParentFromNetwork: the slice is found by the parts that are complete.
AddParentByMissing(w) ==
  LET c == part[w].of
      cur_idx == (CeilDiv(Len(planes_[c]), partial_size_[c]) - dataready_[c])
                 * partial_size_[c]
      slice == SubSeq(planes_[c], cur_idx + 1,
                      SmallerOf(Len(planes_[c]), cur_idx + partial_size_[c]))
  IN
  /\ worker[w] = "add" /\ MutexFree(c)
  /\ parents_' = [parents_ EXCEPT ![c] = Append(@, [inputs |-> slice, computed |-> FALSE])]
  /\ part' = [part EXCEPT ![w].index = Len(parents_[c]) + 1]
  /\ Goto(w, "compute")
  /\ UNCHANGED <<queue_, abort_, network, caller, planes_, partial_size_, dataready_,
                 to_queue>>

\* AddParentFromNetwork: the next slice of the inputs becomes a part.
AddParentFromNetwork(w) ==
  LET c == part[w].of
      cur_idx == Len(parents_[c]) * partial_size_[c]
      slice == SubSeq(planes_[c], cur_idx + 1,
                      SmallerOf(Len(planes_[c]), cur_idx + partial_size_[c]))
  IN
  /\ worker[w] = "add" /\ MutexFree(c)
  /\ parents_' = [parents_ EXCEPT ![c] = Append(@, [inputs |-> slice, computed |-> FALSE])]
  /\ part' = [part EXCEPT ![w].index = Len(parents_[c]) + 1]
  /\ Goto(w, "compute")
  /\ UNCHANGED <<queue_, abort_, network, caller, planes_, partial_size_, dataready_,
                 to_queue>>

\* to_compute->ComputeBlocking().
Compute(w) ==
  /\ worker[w] = "compute"
  /\ parents_' = [parents_ EXCEPT ![part[w].of][part[w].index].computed = TRUE]
  /\ Goto(w, "complete")
  /\ UNCHANGED <<queue_, abort_, network, caller, planes_, partial_size_, dataready_,
                 to_queue, part>>

\* Mutant of NotifyComplete: the first part ends the wait.
NotifyCompleteOnce(w) ==
  /\ worker[w] = "complete" /\ MutexFree(part[w].of)
  /\ dataready_' = [dataready_ EXCEPT ![part[w].of] = 0]
  /\ part' = [part EXCEPT ![w] = [of |-> None, index |-> 0]]
  /\ Goto(w, "take")
  /\ UNCHANGED <<queue_, abort_, network, caller, planes_, partial_size_, to_queue,
                 parents_>>

NotifyComplete(w) ==
  /\ worker[w] = "complete" /\ MutexFree(part[w].of)
  /\ dataready_' = [dataready_ EXCEPT ![part[w].of] = @ - 1]
  /\ part' = [part EXCEPT ![w] = [of |-> None, index |-> 0]]
  /\ Goto(w, "take")
  /\ UNCHANGED <<queue_, abort_, network, caller, planes_, partial_size_, to_queue,
                 parents_>>

-----------------------------------------------------------------------------
(* The destructor.                                                         *)

Abort ==
  /\ network = "alive"
  /\ abort_' = TRUE
  /\ network' = "notify"
  /\ UNCHANGED <<queue_, computations, worker, part>>

NotifyAll ==
  /\ network = "notify"
  /\ worker' = [w \in Worker |-> IF w \in Asleep THEN "wait" ELSE worker[w]]
  /\ network' = "join"
  /\ UNCHANGED <<queue_, abort_, computations, part>>

Wait ==
  /\ network = "join" /\ \A w \in Worker : worker[w] = "ended"
  /\ network' = "gone"
  /\ UNCHANGED <<queue_, abort_, computations, worker, part>>

-----------------------------------------------------------------------------
DemuxInit ==
  /\ queue_ = <<>> /\ abort_ = FALSE /\ network = "alive"
  /\ caller = [c \in Computation |-> "filling"]
  /\ planes_ = [c \in Computation |-> <<>>]
  /\ partial_size_ = [c \in Computation |-> 0]
  /\ dataready_ = [c \in Computation |-> 0] /\ to_queue = [c \in Computation |-> 0]
  /\ parents_ = [c \in Computation |-> <<>>]
  /\ worker = [w \in Worker |-> "wait"]
  /\ part = [w \in Worker |-> [of |-> None, index |-> 0]]

DemuxWorkerStep(w) ==
  \/ WaitForWork(w) \/ Take(w) \/ AddParentFromNetwork(w) \/ Compute(w)
  \/ NotifyComplete(w)
===============================================================================
