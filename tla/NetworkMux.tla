------------------------------ MODULE NetworkMux ------------------------------
(***************************************************************************)
(* The multiplexing network (src/src/neural/backends/network_mux.cc):      *)
(* computations of several callers are queued, and worker threads merge    *)
(* them into the larger batches of another network.                        *)
(*                                                                         *)
(* A computation is used once: filled, then given to ComputeBlocking(). A  *)
(* batch is named by the first computation in it. The section of a worker  *)
(* that takes computations from the queue, holding mutex_, is a step for   *)
(* each of them; other sections of mutex_ are one step.                    *)
(***************************************************************************)
EXTENDS Integers, Sequences, FiniteSets

CONSTANTS
  Computation,  \* the MuxingComputations
  Size,         \* inputs in each of them, planes_.size()
  Worker,       \* threads of the network
  MaxBatch,     \* option max_batch of the backend of each worker
  None

ASSUME NetworkMuxAssumption ==
  /\ None \notin Computation
  /\ Size \in [Computation -> Nat] /\ MaxBatch \in [Worker -> Nat]

VARIABLES
  queue_, abort_,  \* of the network
  parent, idx_in_parent, dataready,  \* of each computation
  caller,          \* its thread: "filling", "waiting" or "returned"
  inputs,          \* of each batch: the inputs given to the other network
  computed,        \* batches the other network has computed
  worker,          \* what each worker does next
  batch,           \* the batch it fills or computes
  children,        \* the computations in it that wait for an answer
  network          \* "alive", or how far its destructor is

queueing == <<queue_, abort_, network>>
computations == <<parent, idx_in_parent, dataready, caller>>
working == <<worker, batch, children>>
muxVars == <<queueing, computations, inputs, computed, working>>

\* What GetQVal() and the others return is that of an input.
Input(c, i) == <<c, i>>
Planes(c) == [i \in 1..Size[c] |-> Input(c, i)]

Goto(w, label) == worker' = [worker EXCEPT ![w] = label]

MutexFree == \A w \in Worker : worker[w] # "gather"
Asleep == {w \in Worker : worker[w] = "asleep"}

-----------------------------------------------------------------------------
(* Callers.                                                                *)

\* cv_.notify_one(): a worker that is asleep looks at the condition again.
NotifyOne ==
  IF Asleep = {} THEN UNCHANGED worker
  ELSE \E w \in Asleep : Goto(w, "wait")

\* Mutant of Enqueue: nobody is notified.
EnqueueSilently(c) ==
  /\ caller[c] = "filling" /\ network = "alive" /\ MutexFree
  /\ queue_' = Append(queue_, c)
  /\ caller' = [caller EXCEPT ![c] = "waiting"]
  /\ UNCHANGED worker
  /\ UNCHANGED <<abort_, network, parent, idx_in_parent, dataready, inputs, computed,
                 batch, children>>

\* ComputeBlocking, Enqueue. Nobody starts to compute on a network being destroyed.
Enqueue(c) ==
  /\ caller[c] = "filling" /\ network = "alive" /\ MutexFree
  /\ queue_' = Append(queue_, c)
  /\ caller' = [caller EXCEPT ![c] = "waiting"]
  /\ NotifyOne
  /\ UNCHANGED <<abort_, network, parent, idx_in_parent, dataready, inputs, computed,
                 batch, children>>

\* Mutant of Return: any wake-up is taken for the answer.
ReturnAwoken(c) ==
  /\ caller[c] = "waiting"
  /\ caller' = [caller EXCEPT ![c] = "returned"]
  /\ UNCHANGED <<queueing, parent, idx_in_parent, dataready, inputs, computed, working>>

\* ComputeBlocking returns.
Return(c) ==
  /\ caller[c] = "waiting" /\ dataready[c]
  /\ caller' = [caller EXCEPT ![c] = "returned"]
  /\ UNCHANGED <<queueing, parent, idx_in_parent, dataready, inputs, computed, working>>

-----------------------------------------------------------------------------
(* Workers.                                                                *)

\* The head of the loop, then cv_.wait(): under the lock the condition is tested, and the
\* worker sleeps or goes on. That abort_ is tested twice makes no difference.
WaitForWork(w) ==
  /\ worker[w] = "wait" /\ MutexFree
  /\ Goto(w, IF abort_ THEN "ended" ELSE IF queue_ = <<>> THEN "asleep" ELSE "gather")
  /\ UNCHANGED <<queueing, computations, inputs, computed, batch, children>>

\* A wake-up that nobody caused.
WakeSpuriously(w) ==
  /\ worker[w] = "asleep"
  /\ Goto(w, "wait")
  /\ UNCHANGED <<queueing, computations, inputs, computed, batch, children>>

\* There is a computation to add: it fits, or is the first.
Fits(w) ==
  /\ queue_ # <<>>
  /\ batch[w] # None /\ Len(inputs[batch[w]]) # 0 =>
       Len(inputs[batch[w]]) + Size[Head(queue_)] <= MaxBatch[w]

\* Mutant of Gather: every computation takes itself for the first of its batch.
GatherFromStart(w) ==
  LET c == Head(queue_)
      b == IF batch[w] = None THEN c ELSE batch[w]
  IN
  /\ worker[w] = "gather"
  /\ Fits(w)
  /\ queue_' = Tail(queue_)
  /\ children' = [children EXCEPT ![w] = Append(@, c)]
  /\ parent' = [parent EXCEPT ![c] = b]
  /\ idx_in_parent' = [idx_in_parent EXCEPT ![c] = 0]
  /\ inputs' = [inputs EXCEPT ![b] = @ \o Planes(c)]
  /\ batch' = [batch EXCEPT ![w] = b]
  /\ UNCHANGED <<abort_, network, dataready, caller, computed, worker>>

\* PopulateToParent: the inputs of the first in the queue are added to the batch.
Gather(w) ==
  LET c == Head(queue_)
      b == IF batch[w] = None THEN c ELSE batch[w]
  IN
  /\ worker[w] = "gather"
  /\ Fits(w)
  /\ queue_' = Tail(queue_)
  /\ children' = [children EXCEPT ![w] = Append(@, c)]
  /\ parent' = [parent EXCEPT ![c] = b]
  /\ idx_in_parent' = [idx_in_parent EXCEPT ![c] = Len(inputs[b])]
  /\ inputs' = [inputs EXCEPT ![b] = @ \o Planes(c)]
  /\ batch' = [batch EXCEPT ![w] = b]
  /\ UNCHANGED <<abort_, network, dataready, caller, computed, worker>>

\* The queue is empty or the batch is full: the lock is released.
Gathered(w) ==
  /\ worker[w] = "gather" /\ batch[w] # None
  /\ ~Fits(w)
  /\ Goto(w, "compute")
  /\ UNCHANGED <<queueing, computations, inputs, computed, batch, children>>

\* parent->ComputeBlocking().
ComputeBatch(w) ==
  /\ worker[w] = "compute"
  /\ Goto(w, "computing")
  /\ UNCHANGED <<queueing, computations, inputs, computed, batch, children>>

Computed(w) ==
  /\ worker[w] = "computing"
  /\ computed' = computed \cup {batch[w]}
  /\ Goto(w, "notify")
  /\ UNCHANGED <<queueing, computations, inputs, batch, children>>

\* NotifyReady of the next child; after the last the worker starts over.
NotifyReady(w) ==
  /\ worker[w] = "notify"
  /\ dataready' = [dataready EXCEPT ![Head(children[w])] = TRUE]
  /\ children' = [children EXCEPT ![w] = Tail(@)]
  /\ IF Len(children[w]) > 1
       THEN UNCHANGED <<worker, batch>>
       ELSE Goto(w, "wait") /\ batch' = [batch EXCEPT ![w] = None]
  /\ UNCHANGED <<queueing, parent, idx_in_parent, caller, inputs, computed>>

-----------------------------------------------------------------------------
(* The destructor.                                                         *)

Abort ==
  /\ network = "alive" /\ MutexFree
  /\ abort_' = TRUE
  /\ network' = "notify"
  /\ UNCHANGED <<queue_, computations, inputs, computed, working>>

\* Mutant of NotifyAll: one thread is notified.
NotifyOneOnly ==
  /\ network = "notify"
  /\ NotifyOne
  /\ network' = "join"
  /\ UNCHANGED <<queue_, abort_, computations, inputs, computed, batch, children>>

\* cv_.notify_all(), after the lock was released.
NotifyAll ==
  /\ network = "notify"
  /\ worker' = [w \in Worker |-> IF w \in Asleep THEN "wait" ELSE worker[w]]
  /\ network' = "join"
  /\ UNCHANGED <<queue_, abort_, computations, inputs, computed, batch, children>>

\* Wait: the threads are joined.
Wait ==
  /\ network = "join" /\ \A w \in Worker : worker[w] = "ended"
  /\ network' = "drain"
  /\ UNCHANGED <<queue_, abort_, computations, inputs, computed, working>>

\* Waiting computations are let go, without results.
Drain ==
  /\ network = "drain" /\ queue_ # <<>>
  /\ dataready' = [dataready EXCEPT ![Head(queue_)] = TRUE]
  /\ queue_' = Tail(queue_)
  /\ UNCHANGED <<abort_, network, parent, idx_in_parent, caller, inputs, computed, working>>

Destroyed ==
  /\ network = "drain" /\ queue_ = <<>>
  /\ network' = "gone"
  /\ UNCHANGED <<queue_, abort_, computations, inputs, computed, working>>

-----------------------------------------------------------------------------
MuxInit ==
  /\ queue_ = <<>> /\ abort_ = FALSE /\ network = "alive"
  /\ parent = [c \in Computation |-> None]
  /\ idx_in_parent = [c \in Computation |-> 0]
  /\ dataready = [c \in Computation |-> FALSE]
  /\ caller = [c \in Computation |-> "filling"]
  /\ inputs = [c \in Computation |-> <<>>] /\ computed = {}
  /\ worker = [w \in Worker |-> "wait"]
  /\ batch = [w \in Worker |-> None] /\ children = [w \in Worker |-> <<>>]

\* The steps between which a worker uses the other network.
MuxWorkerStep(w) == WaitForWork(w) \/ Gather(w) \/ Gathered(w) \/ NotifyReady(w)

Destructor == Abort \/ NotifyAll \/ Wait \/ Drain \/ Destroyed

MuxStep ==
  \/ \E c \in Computation : Enqueue(c) \/ Return(c)
  \/ \E w \in Worker : MuxWorkerStep(w) \/ WakeSpuriously(w)
  \/ Destructor

MuxNext == MuxStep \/ \E w \in Worker : ComputeBatch(w) \/ Computed(w)

MuxSpec == MuxInit /\ [][MuxNext]_muxVars

-----------------------------------------------------------------------------
(* Invariants.                                                             *)

\* A caller that gets its answer finds its own results in it, all of them computed,
\* whatever else was merged into the batch. Only a network that is being destroyed lets
\* callers go without any.
AnsweredWithOwn ==
  \A c \in Computation : dataready[c] =>
    \/ /\ parent[c] # None /\ parent[c] \in computed
       /\ \A i \in 1..Size[c] :
            /\ idx_in_parent[c] + i <= Len(inputs[parent[c]])
            /\ inputs[parent[c]][idx_in_parent[c] + i] = Input(c, i)
    \/ parent[c] = None /\ abort_

\* network_mux.cc:195: a worker answers children after its batch is computed, with no
\* lock: none of them has returned, and may have been destroyed, before.
ChildrenStillWait ==
  \A w \in Worker : \A i \in 1..Len(children[w]) :
    /\ caller[children[w][i]] = "waiting" /\ ~dataready[children[w][i]]
    /\ parent[children[w][i]] = batch[w]
===============================================================================
