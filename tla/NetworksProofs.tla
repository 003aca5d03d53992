---------------------------- MODULE NetworksProofs ----------------------------
(***************************************************************************)
(* Theorems about Networks for all computations, sizes, workers and        *)
(* limits: merged and split again, computations get their own results, and *)
(* no worker of either network touches one whose owner has left.           *)
(*                                                                         *)
(* A computation is in one place at a time: filling, in the queue, among   *)
(* the children of one worker, or answered. Batches tell the workers       *)
(* apart, since a batch is the parent of its first computation. In the     *)
(* second network it is the parts of a batch that are in one place each,   *)
(* and counted.                                                            *)
(***************************************************************************)
EXTENDS Networks, SequenceTheorems, FunctionTheorems, FiniteSetTheorems, TLAPS

-----------------------------------------------------------------------------
(* The first network.                                                      *)

Plane == Computation \X Nat

TypeOK ==
  /\ queue_ \in Seq(Computation) /\ abort_ \in BOOLEAN
  /\ network \in {"alive", "notify", "join", "drain", "gone"}
  /\ parent \in [Computation -> Computation \cup {None}]
  /\ idx_in_parent \in [Computation -> Nat]
  /\ dataready \in [Computation -> BOOLEAN]
  /\ caller \in [Computation -> {"filling", "waiting", "returned"}]
  /\ inputs \in [Computation -> Seq(Plane)]
  /\ computed \subseteq Computation
  /\ worker \in [Worker -> {"wait", "asleep", "gather", "compute", "computing", "notify",
                            "ended"}]
  /\ batch \in [Worker -> Computation \cup {None}]
  /\ children \in [Worker -> Seq(Computation)]

\* What is in the queue waits, without a parent, and is in it once.
Queued ==
  /\ \A i \in 1..Len(queue_) :
       /\ caller[queue_[i]] = "waiting" /\ ~dataready[queue_[i]]
       /\ parent[queue_[i]] = None
  /\ \A i, j \in 1..Len(queue_) : queue_[i] = queue_[j] => i = j

\* The children of a worker wait for its batch.
Children ==
  /\ \A w \in Worker : \A i \in 1..Len(children[w]) :
       /\ caller[children[w][i]] = "waiting" /\ ~dataready[children[w][i]]
       /\ parent[children[w][i]] = batch[w] /\ batch[w] # None
  /\ \A w \in Worker : \A i, j \in 1..Len(children[w]) :
       children[w][i] = children[w][j] => i = j

\* A worker has a batch from the first child to the last.
Batches ==
  /\ \A w \in Worker :
       /\ batch[w] # None => /\ worker[w] \in {"gather", "compute", "computing", "notify"}
                             /\ parent[batch[w]] = batch[w]
       /\ worker[w] \in {"compute", "computing", "notify"} => batch[w] # None
       /\ worker[w] = "notify" => batch[w] \in computed /\ children[w] # <<>>
       /\ batch[w] # None => children[w] # <<>>
  /\ \A v, w \in Worker : batch[v] = batch[w] /\ batch[v] # None => v = w

\* The inputs of a computation stay where they were put.
Slices ==
  \A c \in Computation : parent[c] # None =>
    /\ idx_in_parent[c] + Size[c] <= Len(inputs[parent[c]])
    /\ \A i \in 1..Size[c] : inputs[parent[c]][idx_in_parent[c] + i] = Input(c, i)

Answers ==
  \A c \in Computation :
    /\ dataready[c] /\ parent[c] # None => parent[c] \in computed
    /\ dataready[c] /\ parent[c] = None => abort_
    /\ caller[c] = "filling" => parent[c] = None /\ ~dataready[c]
    /\ caller[c] = "returned" => dataready[c]

MuxInv ==
  /\ TypeOK /\ Queued /\ Children /\ Batches /\ Slices /\ Answers
  /\ network # "alive" => abort_

-----------------------------------------------------------------------------
\* What is appended leaves the old part alone and begins after it.
LEMMA Concatenation ==
  ASSUME NEW s \in Seq(Plane), NEW t \in Seq(Plane)
  PROVE  /\ s \o t \in Seq(Plane) /\ Len(s \o t) = Len(s) + Len(t)
         /\ \A i \in 1..Len(s) : (s \o t)[i] = s[i]
         /\ \A i \in 1..Len(t) : (s \o t)[Len(s) + i] = t[i]
BY SMT

\* The planes a computation hands over are its inputs, in their order.
LEMMA PlanesOf ==
  ASSUME NEW c \in Computation
  PROVE  /\ Planes(c) \in Seq(Plane) /\ Len(Planes(c)) = Size[c]
         /\ \A i \in 1..Size[c] : Planes(c)[i] = Input(c, i)
<1>1. Size[c] \in Nat
    BY NetworkMuxAssumption
<1>2. \A i \in 1..Size[c] : Input(c, i) \in Plane
    BY <1>1 DEF Plane, Input
<1> QED
    BY <1>1, <1>2 DEF Planes

\* The computations named by the queue and by the lists of children.
LEMMA Members ==
  ASSUME TypeOK
  PROVE  /\ Len(queue_) \in Nat /\ \A i \in 1..Len(queue_) : queue_[i] \in Computation
         /\ \A w \in Worker : /\ Len(children[w]) \in Nat
                             /\ \A i \in 1..Len(children[w]) : children[w][i] \in Computation
<1>1. queue_ \in Seq(Computation) /\ \A w \in Worker : children[w] \in Seq(Computation)
    BY DEF TypeOK
<1>2. \A q \in Seq(Computation) :
         Len(q) \in Nat /\ \A i \in 1..Len(q) : q[i] \in Computation
    OBVIOUS
<1> QED
    BY <1>1, <1>2

\* The first network begins with nothing queued and nobody served.
LEMMA InitInv == MuxInit => MuxInv
<1> SUFFICES ASSUME MuxInit PROVE MuxInv
    OBVIOUS
<1>1. TypeOK
  <2>1. <<>> \in Seq(Computation) /\ <<>> \in Seq(Plane)
      OBVIOUS
  <2>2. inputs \in [Computation -> Seq(Plane)] /\ children \in [Worker -> Seq(Computation)]
      BY <2>1 DEF MuxInit
  <2> QED
      BY <2>1, <2>2 DEF MuxInit, TypeOK
<1>2. Queued /\ Children /\ Batches
    BY DEF MuxInit, Queued, Children, Batches
<1>3. Slices /\ Answers
    BY DEF MuxInit, Slices, Answers
<1> QED
    BY <1>1, <1>2, <1>3 DEF MuxInv, MuxInit

\* The state of the first network keeps its type.
LEMMA TypeKept == TypeOK /\ Batches /\ [MuxNext]_muxVars => TypeOK'
<1> SUFFICES ASSUME TypeOK, Batches, [MuxNext]_muxVars PROVE TypeOK'
    OBVIOUS
<1> USE DEF TypeOK, queueing, computations, working, Goto
<1>1. ASSUME NEW c \in Computation, Enqueue(c) PROVE TypeOK'
  <2>1. worker' \in [Worker -> {"wait", "asleep", "gather", "compute", "computing", "notify",
                                "ended"}]
      BY <1>1 DEF Enqueue, NotifyOne, Asleep
  <2> QED
      BY <2>1, <1>1 DEF Enqueue
<1>2. ASSUME NEW c \in Computation, Return(c) PROVE TypeOK'
    BY <1>2 DEF Return
<1>3. ASSUME NEW w \in Worker, WaitForWork(w) PROVE TypeOK'
    BY <1>3 DEF WaitForWork
<1>4. ASSUME NEW w \in Worker, Gather(w) PROVE TypeOK'
  <2> DEFINE c == Head(queue_)
             b == IF batch[w] = None THEN c ELSE batch[w]
  <2>1. queue_ # <<>> /\ c \in Computation /\ b \in Computation /\ Tail(queue_) \in Seq(Computation)
      BY <1>4 DEF Gather, Fits
  <2>2. inputs[b] \o Planes(c) \in Seq(Plane)
      BY <2>1, PlanesOf, Concatenation
  <2>3. Len(inputs[b]) \in Nat /\ Append(children[w], c) \in Seq(Computation)
      BY <2>1
  <2> QED
      BY <1>4, <2>1, <2>2, <2>3 DEF Gather
<1>5. ASSUME NEW w \in Worker, Gathered(w) PROVE TypeOK'
    BY <1>5 DEF Gathered
<1>6. ASSUME NEW w \in Worker, ComputeBatch(w) PROVE TypeOK'
    BY <1>6 DEF ComputeBatch
<1>7. ASSUME NEW w \in Worker, Computed(w) PROVE TypeOK'
    BY <1>7 DEF Computed, Batches
<1>8. ASSUME NEW w \in Worker, NotifyReady(w) PROVE TypeOK'
  <2>1. children[w] \in Seq(Computation) /\ children[w] # <<>>
      BY <1>8 DEF NotifyReady, Batches
  <2>2. Tail(children[w]) \in Seq(Computation) /\ Head(children[w]) \in Computation
      BY <2>1
  <2> QED
      BY <1>8, <2>2 DEF NotifyReady
<1>9. ASSUME NEW w \in Worker, WakeSpuriously(w) PROVE TypeOK'
    BY <1>9 DEF WakeSpuriously
<1>10. ASSUME Abort \/ NotifyAll \/ Wait \/ Destroyed PROVE TypeOK'
    BY <1>10 DEF Abort, NotifyAll, Wait, Destroyed
<1>11. ASSUME Drain PROVE TypeOK'
  <2>1. Tail(queue_) \in Seq(Computation) /\ Head(queue_) \in Computation
      BY <1>11 DEF Drain
  <2> QED
      BY <1>11, <2>1 DEF Drain
<1>12. CASE UNCHANGED muxVars
    BY <1>12 DEF muxVars
<1> QED
    BY <1>1, <1>2, <1>3, <1>4, <1>5, <1>6, <1>7, <1>8, <1>9, <1>10, <1>11, <1>12
    DEF MuxNext, MuxStep, MuxWorkerStep, Destructor

\* A caller queues its computation, or takes its answer.
LEMMA CallerInv ==
  ASSUME MuxInv, TypeOK', NEW c \in Computation, Enqueue(c) \/ Return(c)
  PROVE  MuxInv'
<1> USE DEF MuxInv
<1>1. CASE Enqueue(c)
  <2> USE <1>1 DEF Enqueue
  <2>1. /\ batch' = batch /\ children' = children /\ parent' = parent
        /\ \A w \in Worker : worker'[w] = worker[w] \/ (worker[w] = "asleep" /\ worker'[w] = "wait")
    <3>1. CASE worker' = worker
        BY <3>1
    <3>2. ASSUME NEW v \in Worker, worker[v] = "asleep", worker' = [worker EXCEPT ![v] = "wait"]
          PROVE  \A w \in Worker : worker'[w] = worker[w] \/ (worker[w] = "asleep" /\ worker'[w] = "wait")
        BY <3>2 DEF TypeOK
    <3> QED
        BY <3>1, <3>2 DEF NotifyOne, Asleep, Goto
  <2>2. Queued'
    <3>1. /\ Len(queue_') = Len(queue_) + 1 /\ queue_'[Len(queue_) + 1] = c
          /\ \A i \in 1..Len(queue_) : queue_'[i] = queue_[i] /\ queue_[i] # c
        BY DEF TypeOK, Queued
    <3>2. caller'[c] = "waiting" /\ ~dataready[c] /\ parent[c] = None
        BY DEF TypeOK, Answers
    <3>3. \A d \in Computation : d # c => caller'[d] = caller[d]
        BY DEF TypeOK
    <3>4. Len(queue_) \in Nat /\ \A i \in 1..Len(queue_) : queue_[i] \in Computation
        BY DEF TypeOK
    <3> QED
        BY <3>1, <3>2, <3>3, <3>4 DEF Queued
  <2>3. Children'
      BY <2>1 DEF Children, TypeOK
  <2>4. Batches'
      BY <2>1 DEF Batches, TypeOK
  <2>5. Slices' /\ Answers'
      BY DEF Slices, Answers, TypeOK
  <2> QED
      BY <2>2, <2>3, <2>4, <2>5
<1>2. CASE Return(c)
  <2> USE <1>2 DEF Return, queueing, working
  <2>1. Queued'
      BY DEF Queued, TypeOK
  <2>2. Children' /\ Batches'
      BY DEF Children, Batches, TypeOK
  <2>3. Slices' /\ Answers'
      BY DEF Slices, Answers, TypeOK
  <2> QED
      BY <2>1, <2>2, <2>3
<1> QED
    BY <1>1, <1>2

\* Steps of a worker that only change what it does next.
LEMMA PlaceInv ==
  ASSUME MuxInv, TypeOK', NEW w \in Worker,
         WaitForWork(w) \/ WakeSpuriously(w) \/ Gathered(w) \/ ComputeBatch(w)
  PROVE  MuxInv'
<1>1. UNCHANGED <<queueing, computations, inputs, computed, batch, children>>
    BY DEF WaitForWork, WakeSpuriously, Gathered, ComputeBatch
<1>2. Queued' /\ Children' /\ Slices' /\ Answers'
    BY <1>1 DEF MuxInv, queueing, computations, Queued, Children, Slices, Answers
<1>3. Batches'
  <2>1. \A v \in Worker : v # w => worker'[v] = worker[v]
      BY DEF WaitForWork, WakeSpuriously, Gathered, ComputeBatch, Goto, MuxInv, TypeOK
  <2>2. \/ worker[w] \in {"wait", "asleep"} /\ worker'[w] \in {"wait", "asleep", "gather", "ended"}
        \/ worker[w] = "gather" /\ batch[w] # None /\ worker'[w] = "compute"
        \/ worker[w] = "compute" /\ worker'[w] = "computing"
      BY DEF WaitForWork, WakeSpuriously, Gathered, ComputeBatch, Goto, MuxInv, TypeOK
  <2> QED
      BY <1>1, <2>1, <2>2 DEF MuxInv, Batches, computations
<1> QED
    BY <1>1, <1>2, <1>3 DEF MuxInv, queueing

\* A computation moves from the queue to the children of a worker.
LEMMA GatherInv ==
  ASSUME MuxInv, TypeOK', NEW w \in Worker, Gather(w)
  PROVE  MuxInv'
<1> DEFINE c == Head(queue_)
           b == IF batch[w] = None THEN c ELSE batch[w]
<1>1. /\ queue_ \in Seq(Computation) /\ queue_ # <<>> /\ c = queue_[1] /\ c \in Computation
      /\ 1 \in 1..Len(queue_) /\ b \in Computation /\ worker[w] = "gather"
    BY DEF Gather, Fits, MuxInv, TypeOK
<1>2. caller[c] = "waiting" /\ ~dataready[c] /\ parent[c] = None
    BY <1>1 DEF MuxInv, Queued
<1>3. /\ queue_' = Tail(queue_)
      /\ children' = [children EXCEPT ![w] = Append(@, c)]
      /\ parent' = [parent EXCEPT ![c] = b]
      /\ idx_in_parent' = [idx_in_parent EXCEPT ![c] = Len(inputs[b])]
      /\ inputs' = [inputs EXCEPT ![b] = @ \o Planes(c)]
      /\ batch' = [batch EXCEPT ![w] = b]
      /\ UNCHANGED <<abort_, network, dataready, caller, computed, worker>>
    BY DEF Gather
<1>4. parent'[c] = b /\ \A d \in Computation : d # c => parent'[d] = parent[d]
    BY <1>1, <1>3 DEF MuxInv, TypeOK
<1>5. batch'[w] = b /\ \A v \in Worker : v # w => batch'[v] = batch[v]
    BY <1>3 DEF MuxInv, TypeOK
<1>6. Queued'
  <2>1. /\ Len(queue_') = Len(queue_) - 1
        /\ \A i \in 1..Len(queue_') : /\ i + 1 \in 1..Len(queue_)
                                      /\ queue_'[i] = queue_[i + 1] /\ queue_[i + 1] # c
    <3>1. Len(queue_') = Len(queue_) - 1 /\ \A i \in 1..Len(queue_') : queue_'[i] = queue_[i + 1]
        BY <1>1, <1>3
    <3>2. \A i \in 1..Len(queue_') : i + 1 \in 1..Len(queue_) /\ i + 1 # 1
        BY <1>1, <3>1
    <3> QED
        BY <1>1, <3>1, <3>2 DEF MuxInv, Queued
  <2>2. \A i \in 1..Len(queue_) : queue_[i] \in Computation
      BY <1>1
  <2> QED
      BY <1>1, <1>3, <1>4, <2>1, <2>2 DEF MuxInv, Queued
<1>7. \A v \in Worker : \A i \in 1..Len(children[v]) : children[v][i] \in Computation /\ children[v][i] # c
  <2> SUFFICES ASSUME NEW v \in Worker, NEW i \in 1..Len(children[v])
               PROVE  children[v][i] \in Computation /\ children[v][i] # c
      OBVIOUS
  <2>1. parent[children[v][i]] # None
      BY DEF MuxInv, Children
  <2> QED
      BY <2>1, <1>2, Members DEF MuxInv
<1>8. Children'
  <2>1. /\ Len(children'[w]) = Len(children[w]) + 1 /\ children'[w][Len(children[w]) + 1] = c
        /\ \A i \in 1..Len(children[w]) : children'[w][i] = children[w][i]
        /\ Len(children[w]) \in Nat
      BY <1>1, <1>3 DEF MuxInv, TypeOK
  <2>2. \A v \in Worker : v # w => children'[v] = children[v]
      BY <1>3 DEF MuxInv, TypeOK
  <2>3. \A i \in 1..Len(children[w]) : batch[w] # None
      BY DEF MuxInv, Children
  <2>4. b # None
      BY <1>1, NetworkMuxAssumption
  <2>5. \A v \in Worker : \A i \in 1..Len(children'[v]) :
           /\ caller'[children'[v][i]] = "waiting" /\ ~dataready'[children'[v][i]]
           /\ parent'[children'[v][i]] = batch'[v] /\ batch'[v] # None
    <3>1. ASSUME NEW v \in Worker, v # w, NEW i \in 1..Len(children'[v])
          PROVE /\ caller'[children'[v][i]] = "waiting" /\ ~dataready'[children'[v][i]]
                /\ parent'[children'[v][i]] = batch'[v] /\ batch'[v] # None
        BY <3>1, <1>3, <1>4, <1>5, <1>7, <2>2 DEF MuxInv, Children
    <3>2. ASSUME NEW i \in 1..Len(children[w])
          PROVE /\ caller'[children'[w][i]] = "waiting" /\ ~dataready'[children'[w][i]]
                /\ parent'[children'[w][i]] = batch'[w] /\ batch'[w] # None
        BY <3>2, <1>3, <1>4, <1>5, <1>7, <2>1, <2>3 DEF MuxInv, Children
    <3>3. /\ caller'[c] = "waiting" /\ ~dataready'[c]
          /\ parent'[c] = batch'[w] /\ batch'[w] # None
        BY <1>2, <1>3, <1>4, <1>5, <2>4
    <3> QED
        BY <3>1, <3>2, <3>3, <2>1
  <2>6. \A v \in Worker : \A i, j \in 1..Len(children'[v]) :
           children'[v][i] = children'[v][j] => i = j
    <3>1. ASSUME NEW i \in 1..Len(children'[w]), NEW j \in 1..Len(children'[w]),
                 children'[w][i] = children'[w][j]
          PROVE i = j
        BY <3>1, <2>1, <1>7, SMTT(40) DEF MuxInv, Children
    <3> QED
        BY <3>1, <2>2 DEF MuxInv, Children
  <2> QED
      BY <2>5, <2>6 DEF Children
<1>9. Batches'
  <2>1. \A v \in Worker : batch[v] # None => batch[v] # c
      BY <1>2 DEF MuxInv, Batches
  <2>2. \A v \in Worker : v # w => batch[v] = None \/ batch[v] # b
      BY <2>1 DEF MuxInv, Batches
  <2>3. children'[w] # <<>> /\ \A v \in Worker : v # w => children'[v] = children[v]
    <3>1. children[w] \in Seq(Computation)
        BY DEF MuxInv, TypeOK
    <3>2. Append(children[w], c) # <<>>
        BY <3>1, <1>1, AppendProperties
    <3> QED
        BY <3>2, <1>3 DEF MuxInv, TypeOK
  <2>4. parent'[b] = b
      BY <1>4, <1>1 DEF MuxInv, Batches
  <2>5. \A v \in Worker : batch[v] \in Computation \cup {None}
      BY DEF MuxInv, TypeOK
  <2>6. \A v \in Worker : batch'[v] # None =>
           /\ worker'[v] \in {"gather", "compute", "computing", "notify"}
           /\ parent'[batch'[v]] = batch'[v]
      BY <1>1, <1>3, <1>4, <1>5, <2>1, <2>4, <2>5 DEF MuxInv, Batches
  <2>7. \A v \in Worker :
           /\ worker'[v] \in {"compute", "computing", "notify"} => batch'[v] # None
           /\ worker'[v] = "notify" => batch'[v] \in computed' /\ children'[v] # <<>>
           /\ batch'[v] # None => children'[v] # <<>>
      BY <1>1, <1>3, <1>5, <2>3 DEF MuxInv, Batches
  <2>8. \A u, v \in Worker : batch'[u] = batch'[v] /\ batch'[u] # None => u = v
      BY <1>5, <2>2 DEF MuxInv, Batches
  <2> QED
      BY <2>6, <2>7, <2>8 DEF Batches
<1>10. Slices'
  <2>1. /\ inputs[b] \in Seq(Plane) /\ Len(inputs[b]) \in Nat
        /\ Planes(c) \in Seq(Plane) /\ Len(Planes(c)) = Size[c] /\ Size[c] \in Nat
        /\ \A i \in 1..Size[c] : Planes(c)[i] = Input(c, i)
    <3>1. inputs[b] \in Seq(Plane)
        BY <1>1 DEF MuxInv, TypeOK
    <3>2. Len(inputs[b]) \in Nat
        BY <3>1
    <3>3. Size[c] \in Nat
        BY <1>1, NetworkMuxAssumption
    <3> HIDE DEF c, b
    <3> QED
        BY <1>1, <3>1, <3>2, <3>3, PlanesOf
  <2>2. /\ Len(inputs'[b]) = Len(inputs[b]) + Size[c]
        /\ \A i \in 1..Len(inputs[b]) : inputs'[b][i] = inputs[b][i]
        /\ \A i \in 1..Size[c] : inputs'[b][Len(inputs[b]) + i] = Input(c, i)
    <3>1. inputs'[b] = inputs[b] \o Planes(c)
        BY <1>1, <1>3 DEF MuxInv, TypeOK
    <3> HIDE DEF c, b
    <3>2. /\ Len(inputs[b] \o Planes(c)) = Len(inputs[b]) + Len(Planes(c))
          /\ \A i \in 1..Len(inputs[b]) : (inputs[b] \o Planes(c))[i] = inputs[b][i]
          /\ \A i \in 1..Len(Planes(c)) :
               (inputs[b] \o Planes(c))[Len(inputs[b]) + i] = Planes(c)[i]
        BY <2>1, Concatenation
    <3> QED
        BY <2>1, <3>1, <3>2
  <2>3. \A d \in Computation : d # b => inputs'[d] = inputs[d]
      BY <1>3 DEF MuxInv, TypeOK
  <2>4. ASSUME NEW d \in Computation, d # c, parent'[d] # None
        PROVE /\ idx_in_parent'[d] + Size[d] <= Len(inputs'[parent'[d]])
              /\ \A i \in 1..Size[d] : inputs'[parent'[d]][idx_in_parent'[d] + i] = Input(d, i)
    <3>1. /\ parent'[d] = parent[d] /\ parent[d] \in Computation /\ idx_in_parent'[d] = idx_in_parent[d]
          /\ idx_in_parent[d] \in Nat /\ Size[d] \in Nat
        BY <2>4, <1>3, <1>4, NetworkMuxAssumption DEF MuxInv, TypeOK
    <3>2. /\ idx_in_parent[d] + Size[d] <= Len(inputs[parent[d]])
          /\ \A i \in 1..Size[d] : inputs[parent[d]][idx_in_parent[d] + i] = Input(d, i)
        BY <2>4, <3>1 DEF MuxInv, Slices
    <3>3. CASE parent[d] # b
        BY <3>1, <3>2, <3>3, <2>3
    <3>4. CASE parent[d] = b
      <4>1. \A i \in 1..Size[d] : idx_in_parent[d] + i \in 1..Len(inputs[b])
          BY <3>1, <3>2, <3>4, <2>1
      <4> HIDE DEF c, b
      <4>2. \A i \in 1..Size[d] :
               inputs'[b][idx_in_parent[d] + i] = inputs[b][idx_in_parent[d] + i]
          BY <4>1, <2>2
      <4>3. idx_in_parent[d] + Size[d] <= Len(inputs'[b])
          BY <3>1, <3>2, <3>4, <2>1, <2>2
      <4> QED
          BY <3>1, <3>2, <3>4, <4>2, <4>3
    <3> QED
        BY <3>3, <3>4
  <2>5. /\ idx_in_parent'[c] + Size[c] <= Len(inputs'[parent'[c]])
        /\ \A i \in 1..Size[c] : inputs'[parent'[c]][idx_in_parent'[c] + i] = Input(c, i)
    <3>1. idx_in_parent'[c] = Len(inputs[b])
        BY <1>1, <1>3 DEF MuxInv, TypeOK
    <3> QED
        BY <3>1, <1>4, <2>1, <2>2
  <2> QED
      BY <2>4, <2>5 DEF Slices
<1>11. Answers'
    BY <1>1, <1>2, <1>3, <1>4 DEF MuxInv, Answers
<1> QED
    BY <1>3, <1>6, <1>8, <1>9, <1>10, <1>11 DEF MuxInv

\* A batch is computed.
LEMMA ComputedInv ==
  ASSUME MuxInv, TypeOK', NEW w \in Worker, Computed(w)
  PROVE  MuxInv'
<1>1. UNCHANGED <<queueing, computations, inputs, batch, children>>
    BY DEF Computed
<1>2. /\ computed' = computed \cup {batch[w]}
      /\ worker[w] = "computing" /\ worker'[w] = "notify"
      /\ \A v \in Worker : v # w => worker'[v] = worker[v]
    BY DEF Computed, Goto, MuxInv, TypeOK
<1>3. Queued' /\ Children' /\ Slices'
    BY <1>1 DEF MuxInv, queueing, computations, Queued, Children, Slices
<1>4. Batches'
    BY <1>1, <1>2 DEF MuxInv, Batches, computations
<1>5. Answers'
    BY <1>1, <1>2 DEF MuxInv, Answers, computations, queueing
<1> QED
    BY <1>1, <1>3, <1>4, <1>5 DEF MuxInv, queueing

\* A child is told that its data is ready.
LEMMA NotifyInv ==
  ASSUME MuxInv, TypeOK', NEW w \in Worker, NotifyReady(w)
  PROVE  MuxInv'
<1> DEFINE c == Head(children[w])
<1>1. /\ children[w] \in Seq(Computation) /\ children[w] # <<>> /\ worker[w] = "notify"
      /\ c = children[w][1] /\ c \in Computation /\ 1 \in 1..Len(children[w])
    BY DEF NotifyReady, MuxInv, TypeOK, Batches
<1>2. caller[c] = "waiting" /\ parent[c] = batch[w] /\ batch[w] # None /\ batch[w] \in computed
    BY <1>1 DEF MuxInv, Children, Batches
<1>3. /\ dataready'[c] /\ \A d \in Computation : d # c => dataready'[d] = dataready[d]
      /\ children'[w] = Tail(children[w])
      /\ \A v \in Worker : v # w => /\ children'[v] = children[v] /\ batch'[v] = batch[v]
                                    /\ worker'[v] = worker[v]
      /\ UNCHANGED <<queueing, parent, idx_in_parent, caller, inputs, computed>>
    BY <1>1 DEF NotifyReady, Goto, MuxInv, TypeOK
<1>4. \/ Len(children[w]) > 1 /\ batch'[w] = batch[w] /\ worker'[w] = worker[w]
      \/ ~(Len(children[w]) > 1) /\ batch'[w] = None /\ worker'[w] = "wait"
    BY DEF NotifyReady, Goto, MuxInv, TypeOK
<1>5. Queued'
  <2>1. \A i \in 1..Len(queue_) : queue_[i] \in Computation /\ parent[queue_[i]] = None
      BY Members DEF MuxInv, Queued
  <2>2. \A i \in 1..Len(queue_) : queue_[i] # c
      BY <1>2, <2>1
  <2> QED
      BY <1>3, <2>1, <2>2 DEF MuxInv, Queued, queueing
<1>6. /\ Len(children'[w]) = Len(children[w]) - 1
      /\ \A i \in 1..Len(children'[w]) : /\ children'[w][i] = children[w][i + 1]
                                         /\ i + 1 \in 1..Len(children[w])
                                         /\ children[w][i + 1] # c
                                         /\ children[w][i + 1] \in Computation
  <2>1. /\ Len(children'[w]) = Len(children[w]) - 1
        /\ \A i \in 1..Len(children'[w]) : children'[w][i] = children[w][i + 1]
      BY <1>1, <1>3
  <2>2. \A i \in 1..Len(children'[w]) : i + 1 \in 1..Len(children[w]) /\ i + 1 # 1
      BY <1>1, <2>1
  <2> QED
      BY <1>1, <2>1, <2>2 DEF MuxInv, Children
<1>7. Children'
  <2>1. ASSUME NEW v \in Worker, v # w, NEW i \in 1..Len(children[v])
        PROVE children[v][i] \in Computation /\ children[v][i] # c
    <3>1. parent[children[v][i]] = batch[v] /\ batch[v] # None
        BY <2>1 DEF MuxInv, Children
    <3>2. batch[v] # batch[w]
        BY <3>1, <2>1 DEF MuxInv, Batches
    <3> QED
        BY <3>1, <3>2, <1>2, <2>1, Members DEF MuxInv
  <2>2. \A i \in 1..Len(children'[w]) : batch'[w] = batch[w]
      BY <1>1, <1>4, <1>6
  <2>3. \A v \in Worker : \A i \in 1..Len(children'[v]) :
           /\ caller'[children'[v][i]] = "waiting" /\ ~dataready'[children'[v][i]]
           /\ parent'[children'[v][i]] = batch'[v] /\ batch'[v] # None
    <3>1. ASSUME NEW v \in Worker, v # w, NEW i \in 1..Len(children'[v])
          PROVE /\ caller'[children'[v][i]] = "waiting" /\ ~dataready'[children'[v][i]]
                /\ parent'[children'[v][i]] = batch'[v] /\ batch'[v] # None
        BY <3>1, <1>3, <2>1 DEF MuxInv, Children
    <3>2. ASSUME NEW i \in 1..Len(children'[w])
          PROVE /\ caller'[children'[w][i]] = "waiting" /\ ~dataready'[children'[w][i]]
                /\ parent'[children'[w][i]] = batch'[w] /\ batch'[w] # None
        BY <3>2, <1>2, <1>3, <1>6, <2>2 DEF MuxInv, Children
    <3> QED
        BY <3>1, <3>2
  <2>4. \A v \in Worker : \A i, j \in 1..Len(children'[v]) :
           children'[v][i] = children'[v][j] => i = j
    <3>1. ASSUME NEW i \in 1..Len(children'[w]), NEW j \in 1..Len(children'[w]),
                 children'[w][i] = children'[w][j]
          PROVE i = j
      <4>1. children[w][i + 1] = children[w][j + 1]
          BY <3>1, <1>6
      <4>2. i + 1 \in 1..Len(children[w]) /\ j + 1 \in 1..Len(children[w])
          BY <1>6
      <4>3. i + 1 = j + 1
          BY <4>1, <4>2 DEF MuxInv, Children
      <4> QED
          BY <4>3
    <3>2. ASSUME NEW v \in Worker, v # w
          PROVE  \A i, j \in 1..Len(children'[v]) : children'[v][i] = children'[v][j] => i = j
        BY <3>2, <1>3 DEF MuxInv, Children
    <3> QED
        BY <3>1, <3>2
  <2> QED
      BY <2>3, <2>4 DEF Children
<1>8. Batches'
  <2>1. batch'[w] # None => children'[w] # <<>>
      BY <1>1, <1>4, <1>6
  <2>2. worker'[w] # "notify" => worker'[w] = "wait" /\ batch'[w] = None
      BY <1>1, <1>4
  <2>3. batch'[w] # None => batch'[w] = batch[w] /\ worker'[w] = "notify"
      BY <1>1, <1>4
  <2>4. worker'[w] = "notify" => batch'[w] = batch[w]
      BY <1>4
  <2>5. \A v \in Worker :
           /\ batch'[v] # None => /\ worker'[v] \in {"gather", "compute", "computing", "notify"}
                                  /\ parent'[batch'[v]] = batch'[v]
           /\ worker'[v] \in {"compute", "computing", "notify"} => batch'[v] # None
           /\ worker'[v] = "notify" => batch'[v] \in computed' /\ children'[v] # <<>>
           /\ batch'[v] # None => children'[v] # <<>>
    <3>1. /\ batch'[w] # None => parent'[batch'[w]] = batch'[w]
          /\ worker'[w] \in {"compute", "computing", "notify"} => batch'[w] # None
          /\ worker'[w] = "notify" => batch'[w] \in computed' /\ children'[w] # <<>>
        BY <1>2, <1>3, <2>1, <2>2, <2>3, <2>4 DEF MuxInv, Batches
    <3>2. ASSUME NEW v \in Worker, v # w
          PROVE  /\ batch'[v] = batch[v] /\ worker'[v] = worker[v]
                 /\ children'[v] = children[v] /\ parent' = parent /\ computed' = computed
        BY <3>2, <1>3
    <3> QED
        BY <2>1, <2>3, <3>1, <3>2 DEF MuxInv, Batches
  <2>6. ASSUME NEW u \in Worker, NEW v \in Worker, batch'[u] = batch'[v], batch'[u] # None
        PROVE  u = v
    <3>1. batch'[u] = batch[u] /\ batch'[v] = batch[v]
        BY <2>6, <1>3, <2>3
    <3> QED
        BY <3>1, <2>6 DEF MuxInv, Batches
  <2> QED
      BY <2>5, <2>6 DEF Batches
<1>9. Slices'
    BY <1>3 DEF MuxInv, Slices
<1>10. Answers'
    BY <1>2, <1>3 DEF MuxInv, Answers, queueing
<1> QED
    BY <1>3, <1>5, <1>7, <1>8, <1>9, <1>10 DEF MuxInv, queueing

\* The destructor answers those who were never gathered.
LEMMA DestructorInv ==
  ASSUME MuxInv, TypeOK', Destructor
  PROVE  MuxInv'
<1>1. ASSUME Abort \/ Wait \/ Destroyed PROVE MuxInv'
  <2>1. UNCHANGED <<queue_, computations, inputs, computed, working>> /\ (abort_' \/ abort_' = abort_)
      BY <1>1 DEF Abort, Wait, Destroyed
  <2>2. network' # "alive" => abort_'
      BY <1>1 DEF Abort, Wait, Destroyed, MuxInv
  <2>3. Queued' /\ Children' /\ Batches' /\ Slices'
      BY <2>1 DEF MuxInv, computations, working, Queued, Children, Batches, Slices
  <2>4. Answers'
      BY <2>1 DEF MuxInv, computations, Answers
  <2> QED
      BY <2>2, <2>3, <2>4 DEF MuxInv
<1>2. ASSUME NotifyAll PROVE MuxInv'
  <2>1. /\ UNCHANGED <<queue_, abort_, computations, inputs, computed, batch, children>>
        /\ network # "alive"
        /\ worker' = [w \in Worker |-> IF w \in Asleep THEN "wait" ELSE worker[w]]
      BY <1>2 DEF NotifyAll
  <2>2. Queued' /\ Children' /\ Slices' /\ Answers'
      BY <2>1 DEF MuxInv, computations, Queued, Children, Slices, Answers
  <2>3. Batches'
    <3>1. \A w \in Worker : worker'[w] = worker[w] \/ (worker[w] = "asleep" /\ worker'[w] = "wait")
        BY <2>1 DEF Asleep
    <3> QED
        BY <2>1, <3>1 DEF MuxInv, computations, Batches
  <2> QED
      BY <2>1, <2>2, <2>3 DEF MuxInv
<1>3. ASSUME Drain PROVE MuxInv'
  <2> DEFINE c == Head(queue_)
  <2>1. /\ queue_ \in Seq(Computation) /\ queue_ # <<>> /\ c = queue_[1] /\ c \in Computation
        /\ 1 \in 1..Len(queue_) /\ network = "drain" /\ abort_
      BY <1>3 DEF Drain, MuxInv, TypeOK
  <2>2. caller[c] = "waiting" /\ parent[c] = None
      BY <2>1 DEF MuxInv, Queued
  <2>3. /\ dataready'[c] /\ \A d \in Computation : d # c => dataready'[d] = dataready[d]
        /\ queue_' = Tail(queue_)
        /\ UNCHANGED <<abort_, network, parent, idx_in_parent, caller, inputs, computed, working>>
      BY <1>3, <2>1 DEF Drain, MuxInv, TypeOK
  <2>4. Queued'
    <3>1. Len(queue_') = Len(queue_) - 1 /\ \A i \in 1..Len(queue_') : queue_'[i] = queue_[i + 1]
        BY <2>1, <2>3
    <3>2. \A i \in 1..Len(queue_') : i + 1 \in 1..Len(queue_) /\ i + 1 # 1
        BY <2>1, <3>1
    <3>3. \A i \in 1..Len(queue_') : queue_[i + 1] \in Computation /\ queue_[i + 1] # c
        BY <2>1, <3>1, <3>2 DEF MuxInv, Queued
    <3>4. \A i \in 1..Len(queue_') : /\ caller'[queue_'[i]] = "waiting" /\ ~dataready'[queue_'[i]]
                                     /\ parent'[queue_'[i]] = None
        BY <2>3, <3>1, <3>2, <3>3 DEF MuxInv, Queued
    <3>5. ASSUME NEW i \in 1..Len(queue_'), NEW j \in 1..Len(queue_'), queue_'[i] = queue_'[j]
          PROVE i = j
      <4>1. i + 1 = j + 1
          BY <3>1, <3>2, <3>5 DEF MuxInv, Queued
      <4> QED
          BY <4>1
    <3> QED
        BY <3>4, <3>5 DEF Queued
  <2>5. Children'
    <3>1. ASSUME NEW w \in Worker, NEW i \in 1..Len(children[w])
          PROVE  children[w][i] \in Computation /\ children[w][i] # c
      <4>1. parent[children[w][i]] # None
          BY DEF MuxInv, Children
      <4> QED
          BY <4>1, <2>2, Members DEF MuxInv
    <3> QED
        BY <2>3, <3>1 DEF MuxInv, Children, working
  <2>6. Batches' /\ Slices'
      BY <2>3 DEF MuxInv, Batches, Slices, working
  <2>7. Answers'
      BY <2>1, <2>2, <2>3 DEF MuxInv, Answers
  <2> QED
      BY <2>1, <2>3, <2>4, <2>5, <2>6, <2>7 DEF MuxInv
<1> QED
    BY <1>1, <1>2, <1>3 DEF Destructor

-----------------------------------------------------------------------------
\* Every step of the first network keeps its invariant.
LEMMA MuxInvKept == MuxInv /\ [MuxNext]_muxVars => MuxInv'
<1> SUFFICES ASSUME MuxInv, [MuxNext]_muxVars PROVE MuxInv'
    OBVIOUS
<1>1. TypeOK'
    BY TypeKept DEF MuxInv
<1>2. CASE UNCHANGED muxVars
    BY <1>2 DEF MuxInv, muxVars, queueing, computations, working, TypeOK, Queued, Children,
                Batches, Slices, Answers
<1>3. CASE MuxNext
    BY <1>1, <1>3, CallerInv, PlaceInv, GatherInv, ComputedInv, NotifyInv, DestructorInv
    DEF MuxNext, MuxStep, MuxWorkerStep
<1> QED
    BY <1>2, <1>3

\* What MuxInv says of answers, and of the children of a worker.
LEMMA MuxPromises == MuxInv => AnsweredWithOwn /\ ChildrenStillWait
<1>1. MuxInv => AnsweredWithOwn
  <2> SUFFICES ASSUME MuxInv, NEW c \in Computation, dataready[c], parent[c] # None
               PROVE  /\ parent[c] \in computed
                      /\ \A i \in 1..Size[c] :
                           /\ idx_in_parent[c] + i <= Len(inputs[parent[c]])
                           /\ inputs[parent[c]][idx_in_parent[c] + i] = Input(c, i)
      BY DEF AnsweredWithOwn, MuxInv, Answers
  <2>1. Size[c] \in Nat /\ idx_in_parent[c] \in Nat /\ Len(inputs[parent[c]]) \in Nat
      BY NetworkMuxAssumption DEF MuxInv, TypeOK
  <2> QED
      BY <2>1 DEF MuxInv, Answers, Slices
<1>2. MuxInv => ChildrenStillWait
    BY DEF MuxInv, Children, ChildrenStillWait
<1> QED
    BY <1>1, <1>2


-----------------------------------------------------------------------------
(* The second network: every part of a computation is in one place.        *)

PartType == [inputs : Seq(Plane), computed : BOOLEAN]

DemuxTypeOK ==
  /\ demuxQueue \in Seq(Computation) /\ demuxAbort \in BOOLEAN
  /\ demuxNetwork \in {"alive", "notify", "join", "gone"}
  /\ demuxCaller \in [Computation -> {"filling", "enqueue", "wait", "returned"}]
  /\ planes \in [Computation -> Seq(Plane)]
  /\ partial_size \in [Computation -> Nat] /\ missing \in [Computation -> Nat]
  /\ to_queue \in [Computation -> Nat]
  /\ parts \in [Computation -> Seq(PartType)]
  /\ demuxWorker \in [DemuxWorker -> {"wait", "asleep", "take", "add", "compute", "complete",
                                      "ended"}]
  /\ part \in [DemuxWorker -> [of : Computation \cup {None}, index : Nat]]

\* Where the parts of a computation are: in the queue, with a worker that is still to make
\* them, or with any worker.
InQueue(c) == {i \in 1..Len(demuxQueue) : demuxQueue[i] = c}
Adding(c) == {v \in DemuxWorker : part[v].of = c /\ demuxWorker[v] = "add"}
Holding(c) == {v \in DemuxWorker : part[v].of = c}

Splits(c) ==
  IF planes[c] = <<>> THEN 0 ELSE Demux!CeilDiv(Len(planes[c]), partial_size[c])

PartsCounted ==
  \A c \in Computation :
    /\ missing[c] = to_queue[c] + Cardinality(InQueue(c)) + Cardinality(Holding(c))
    /\ Splits(c) = to_queue[c] + Cardinality(InQueue(c)) + Cardinality(Adding(c))
                     + Len(parts[c])

\* How far its owner is.
Owners ==
  \A c \in Computation :
    /\ demuxCaller[c] = "enqueue" => to_queue[c] > 0
    /\ demuxCaller[c] # "enqueue" => to_queue[c] = 0
    /\ demuxCaller[c] \in {"filling", "returned"} => missing[c] = 0
    /\ demuxCaller[c] = "filling" => planes[c] = <<>>
    /\ planes[c] # <<>> => partial_size[c] > 0

\* A worker has a part while it makes, computes or completes it.
PartsHeld ==
  \A v \in DemuxWorker :
    /\ demuxWorker[v] \in {"add", "compute", "complete"} <=> part[v].of # None
    /\ demuxWorker[v] = "compute" => part[v].index \in 1..Len(parts[part[v].of])

\* The parts are the inputs, slice by slice, and what no worker is to compute is computed.
PartsRight ==
  \A c \in Computation : \A k \in 1..Len(parts[c]) :
    /\ parts[c][k].inputs =
         SubSeq(planes[c], (k - 1) * partial_size[c] + 1,
                Demux!SmallerOf(Len(planes[c]), (k - 1) * partial_size[c] + partial_size[c]))
    /\ \/ parts[c][k].computed
       \/ \E v \in DemuxWorker : part[v] = [of |-> c, index |-> k] /\ demuxWorker[v] = "compute"

DemuxInv == DemuxTypeOK /\ PartsCounted /\ Owners /\ PartsHeld /\ PartsRight

-----------------------------------------------------------------------------
(* Both networks.                                                          *)

\* A batch is computed on the second network while its worker waits for it, and is not
\* changed any more from then on.
BatchesFollowed ==
  /\ \A w \in Worker : batch[w] # None =>
       /\ worker[w] \in {"gather", "compute"} => demuxCaller[batch[w]] = "filling"
       /\ worker[w] = "notify" => demuxCaller[batch[w]] = "returned"
  /\ \A b \in Computation :
       /\ parent[b] = None => demuxCaller[b] = "filling"
       /\ demuxCaller[b] # "filling" => planes[b] = inputs[b]
       /\ demuxCaller[b] \in {"enqueue", "wait"} =>
            \E w \in Worker : worker[w] = "computing" /\ batch[w] = b
       /\ b \in computed => demuxCaller[b] = "returned"

\* The second network is destroyed after the threads of the first have ended.
Shutdown ==
  /\ network \in {"drain", "gone"} => \A w \in Worker : worker[w] = "ended"
  /\ demuxNetwork # "alive" => network = "gone"

NetworksInv == MuxInv /\ DemuxInv /\ BatchesFollowed /\ Shutdown

-----------------------------------------------------------------------------
(* Numbers, and counting in the queue and among the workers.               *)

\* What division of naturals is.
LEMMA Division ==
  ASSUME NEW m \in Nat, NEW k \in Nat \ {0}
  PROVE  m \div k \in Nat /\ m % k \in 0..(k - 1) /\ m = k * (m \div k) + (m % k)
OBVIOUS

\* As many parts as are needed, and no more.
LEMMA CeilDivOf ==
  ASSUME NEW m \in Nat, NEW k \in Nat \ {0}
  PROVE  /\ Demux!CeilDiv(m, k) \in Nat
         /\ m <= k * Demux!CeilDiv(m, k)
         /\ m > 0 => Demux!CeilDiv(m, k) > 0
<1> DEFINE d == (m + k - 1) \div k
           r == (m + k - 1) % k
<1>1. m + k - 1 \in Nat
    OBVIOUS
<1>2. d \in Nat /\ r \in 0..(k - 1) /\ m + k - 1 = k * d + r
    BY <1>1, Division
<1> HIDE DEF d, r
<1>3. m <= k * d
    BY <1>2
<1>4. m > 0 => d > 0
    BY <1>2
<1> QED
    BY <1>2, <1>3, <1>4 DEF d, Demux!CeilDiv

\* A computation has finitely many places in the queue.
LEMMA InQueueFinite ==
  ASSUME demuxQueue \in Seq(Computation), NEW c
  PROVE  IsFiniteSet(InQueue(c)) /\ Cardinality(InQueue(c)) \in Nat
<1>1. InQueue(c) \subseteq 1..Len(demuxQueue) /\ Len(demuxQueue) \in Nat
    BY DEF InQueue
<1>2. IsFiniteSet(1..Len(demuxQueue))
    BY <1>1, FS_Interval
<1> QED
    BY <1>1, <1>2, FS_Subset, FS_CardinalityType

\* A part appended to the queue is counted once more, and no other part is.
LEMMA Appended ==
  ASSUME demuxQueue \in Seq(Computation), NEW d \in Computation,
         demuxQueue' = Append(demuxQueue, d), NEW c
  PROVE  Cardinality(InQueue(c)') = Cardinality(InQueue(c)) + (IF c = d THEN 1 ELSE 0)
<1>1. /\ Len(demuxQueue') = Len(demuxQueue) + 1 /\ Len(demuxQueue) \in Nat
      /\ \A i \in 1..Len(demuxQueue) : demuxQueue'[i] = demuxQueue[i]
      /\ demuxQueue'[Len(demuxQueue) + 1] = d
    OBVIOUS
<1>2. InQueue(c)' = IF c = d THEN InQueue(c) \cup {Len(demuxQueue) + 1} ELSE InQueue(c)
    BY <1>1 DEF InQueue
<1>3. Len(demuxQueue) + 1 \notin InQueue(c)
    BY <1>1 DEF InQueue
<1>4. IsFiniteSet(InQueue(c)) /\ Cardinality(InQueue(c)) \in Nat
    BY InQueueFinite
<1>5. Cardinality(InQueue(c) \cup {Len(demuxQueue) + 1}) = Cardinality(InQueue(c)) + 1
    BY <1>3, <1>4, FS_AddElement
<1> QED
    BY <1>2, <1>4, <1>5

\* The first part leaves the queue, and is counted once less.
LEMMA Dequeued ==
  ASSUME demuxQueue \in Seq(Computation), demuxQueue # <<>>,
         demuxQueue' = Tail(demuxQueue), NEW c
  PROVE  Cardinality(InQueue(c)') = Cardinality(InQueue(c))
           - (IF c = Head(demuxQueue) THEN 1 ELSE 0)
<1> DEFINE rest == InQueue(c) \ {1}
           new == InQueue(c)'
           up == [j \in rest |-> j - 1]
<1>1. /\ Len(demuxQueue') = Len(demuxQueue) - 1 /\ Len(demuxQueue) \in Nat
      /\ \A i \in 1..Len(demuxQueue') : demuxQueue'[i] = demuxQueue[i + 1]
      /\ 1 \in 1..Len(demuxQueue) /\ Head(demuxQueue) = demuxQueue[1]
    OBVIOUS
<1>2. up \in Bijection(rest, new)
  <2>1. \A i \in new : i + 1 \in rest /\ (i + 1) - 1 = i
      BY <1>1 DEF InQueue
  <2>2. \A j \in rest : j \in Nat /\ j - 1 \in new
      BY <1>1 DEF InQueue
  <2> HIDE DEF rest, new
  <2>3. up \in [rest -> new]
      BY <2>2
  <2>4. \A i, j \in rest : up[i] = up[j] => i = j
      BY <2>2
  <2>5. \A i \in new : \E j \in rest : up[j] = i
      BY <2>1
  <2> QED
      BY <2>3, <2>4, <2>5, Fun_IsBij
<1>3. IsFiniteSet(InQueue(c)) /\ IsFiniteSet(rest) /\ Cardinality(InQueue(c)) \in Nat
    BY InQueueFinite, FS_Subset
<1>4. Cardinality(InQueue(c)') = Cardinality(rest)
  <2>1. ExistsBijection(rest, new)
      BY <1>2, Fun_ExistsBij
  <2> QED
      BY <1>3, <2>1, FS_Bijection
<1>5. 1 \in InQueue(c) <=> c = Head(demuxQueue)
    BY <1>1 DEF InQueue
<1>6. Cardinality(rest) = IF 1 \in InQueue(c) THEN Cardinality(InQueue(c)) - 1
                          ELSE Cardinality(InQueue(c))
    BY <1>3, FS_RemoveElement
<1> QED
    BY <1>3, <1>4, <1>5, <1>6

\* Sets that differ in one element.
LEMMA OneElement ==
  ASSUME NEW S, NEW T, NEW x, IsFiniteSet(S), T \ {x} = S \ {x}
  PROVE  /\ IsFiniteSet(T) /\ Cardinality(S) \in Nat /\ Cardinality(T) \in Nat
         /\ Cardinality(T) = Cardinality(S) + (IF x \in T THEN 1 ELSE 0)
                                            - (IF x \in S THEN 1 ELSE 0)
<1> DEFINE R == S \ {x}
<1>1. IsFiniteSet(R) /\ Cardinality(R) \in Nat /\ Cardinality(S) \in Nat
    BY FS_Subset, FS_CardinalityType
<1>2. Cardinality(R) = IF x \in S THEN Cardinality(S) - 1 ELSE Cardinality(S)
    BY FS_RemoveElement
<1>3. T = IF x \in T THEN R \cup {x} ELSE R
    OBVIOUS
<1>4. x \notin R
    OBVIOUS
<1> HIDE DEF R
<1>5. IsFiniteSet(R \cup {x}) /\ Cardinality(R \cup {x}) = Cardinality(R) + 1
    BY <1>1, <1>4, FS_AddElement
<1>6. IsFiniteSet(T) /\ Cardinality(T) = Cardinality(R) + (IF x \in T THEN 1 ELSE 0)
  <2>1. CASE x \in T
    <3>1. T = R \cup {x}
        BY <1>3, <2>1
    <3> QED
        BY <1>5, <2>1, <3>1
  <2>2. CASE x \notin T
    <3>1. T = R
        BY <1>3, <2>2
    <3> QED
        BY <1>1, <2>2, <3>1
  <2> QED
      BY <2>1, <2>2
<1>7. Cardinality(S) = Cardinality(R) + (IF x \in S THEN 1 ELSE 0)
    BY <1>1, <1>2
<1> QED
    BY <1>1, <1>6, <1>7

\* Workers are finitely many.
LEMMA HoldersFinite ==
  ASSUME NEW c
  PROVE  /\ IsFiniteSet(Holding(c)) /\ Cardinality(Holding(c)) \in Nat
         /\ IsFiniteSet(Adding(c)) /\ Cardinality(Adding(c)) \in Nat
<1>1. Holding(c) \subseteq DemuxWorker /\ Adding(c) \subseteq DemuxWorker
    BY DEF Holding, Adding
<1>2. IsFiniteSet(Holding(c)) /\ IsFiniteSet(Adding(c))
    BY <1>1, FS_Subset, NetworksAssumption
<1> QED
    BY <1>2, FS_CardinalityType

\* A worker that takes or gives up a part changes the count of its holders by one.
LEMMA HoldersChange ==
  ASSUME NEW v \in DemuxWorker, NEW c,
         \A u \in DemuxWorker : u # v =>
           part'[u] = part[u] /\ demuxWorker'[u] = demuxWorker[u]
  PROVE  /\ Cardinality(Holding(c)') = Cardinality(Holding(c))
              + (IF part'[v].of = c THEN 1 ELSE 0) - (IF part[v].of = c THEN 1 ELSE 0)
         /\ Cardinality(Adding(c)') = Cardinality(Adding(c))
              + (IF part'[v].of = c /\ demuxWorker'[v] = "add" THEN 1 ELSE 0)
              - (IF part[v].of = c /\ demuxWorker[v] = "add" THEN 1 ELSE 0)
<1>1. /\ Holding(c)' \ {v} = Holding(c) \ {v} /\ Adding(c)' \ {v} = Adding(c) \ {v}
      /\ v \in Holding(c)' <=> part'[v].of = c
      /\ v \in Holding(c) <=> part[v].of = c
      /\ v \in Adding(c)' <=> part'[v].of = c /\ demuxWorker'[v] = "add"
      /\ v \in Adding(c) <=> part[v].of = c /\ demuxWorker[v] = "add"
    BY DEF Holding, Adding
<1>2. IsFiniteSet(Holding(c)) /\ IsFiniteSet(Adding(c))
    BY HoldersFinite
<1>3. Cardinality(Holding(c)') = Cardinality(Holding(c))
         + (IF v \in Holding(c)' THEN 1 ELSE 0) - (IF v \in Holding(c) THEN 1 ELSE 0)
    BY <1>1, <1>2, OneElement
<1>4. Cardinality(Adding(c)') = Cardinality(Adding(c))
         + (IF v \in Adding(c)' THEN 1 ELSE 0) - (IF v \in Adding(c) THEN 1 ELSE 0)
    BY <1>1, <1>2, OneElement
<1> QED
    BY <1>1, <1>3, <1>4

\* Where only sleep and waking change, the counts stay.
LEMMA HoldersKept ==
  ASSUME part' = part,
         \A v \in DemuxWorker : demuxWorker'[v] = "add" <=> demuxWorker[v] = "add",
         NEW c
  PROVE  Holding(c)' = Holding(c) /\ Adding(c)' = Adding(c)
BY DEF Holding, Adding

\* The second network begins with nothing queued and nobody served.
LEMMA DemuxInitInv == Demux!DemuxInit => DemuxInv
<1> SUFFICES ASSUME Demux!DemuxInit PROVE DemuxInv
    OBVIOUS
<1> USE DEF Demux!DemuxInit
<1>1. DemuxTypeOK
  <2>1. <<>> \in Seq(Plane) /\ <<>> \in Seq(PartType)
        /\ <<>> \in Seq(Computation)
      OBVIOUS
  <2>2. \A v \in DemuxWorker : part[v] \in [of : Computation \cup {None}, index : Nat]
      OBVIOUS
  <2> QED
      BY <2>1, <2>2 DEF DemuxTypeOK
<1>2. ASSUME NEW c \in Computation
      PROVE  /\ InQueue(c) = {} /\ Adding(c) = {} /\ Holding(c) = {} /\ Splits(c) = 0
             /\ missing[c] = 0 /\ to_queue[c] = 0 /\ Len(parts[c]) = 0
    BY NetworkMuxAssumption DEF InQueue, Adding, Holding, Splits
<1>3. Cardinality({}) = 0
    BY FS_EmptySet
<1>4. \A c \in Computation :
        /\ Cardinality(InQueue(c)) = 0 /\ Cardinality(Adding(c)) = 0
        /\ Cardinality(Holding(c)) = 0
    BY <1>2, <1>3
<1>5. PartsCounted
    BY <1>2, <1>4 DEF PartsCounted
<1>6. Owners /\ PartsHeld /\ PartsRight
    BY DEF Owners, PartsHeld, PartsRight
<1> QED
    BY <1>1, <1>5, <1>6 DEF DemuxInv

-----------------------------------------------------------------------------
(* The steps of the second network.                                        *)

\* The instance counts as its user does.
LEMMA SameCardinality == \A S : Demux!Cardinality(S) = Cardinality(S)
BY DEF Demux!Cardinality, Cardinality

\* ComputeBlocking() never makes empty parts.
LEMMA PartialSizeOf ==
  ASSUME NEW m \in Nat \ {0}
  PROVE  Demux!PartialSize(m) \in Nat \ {0}
<1> DEFINE k == Cardinality(DemuxWorker)
           even == Demux!CeilDiv(m, k)
<1>1. k \in Nat \ {0}
    BY NetworksAssumption, FS_CardinalityType, FS_EmptySet
<1> HIDE DEF k
<1>2. even \in Nat \ {0}
    BY <1>1, CeilDivOf
<1> HIDE DEF even
<1>3. Demux!PartialSize(m) =
        IF even < MinimumSplitSize THEN Demux!SmallerOf(m, MinimumSplitSize) ELSE even
    BY SameCardinality DEF Demux!PartialSize, even, k
<1> QED
    BY <1>2, <1>3, NetworksAssumption DEF Demux!SmallerOf

\* What the counts say of one computation.
LEMMA CountsTyped ==
  ASSUME DemuxInv, NEW c \in Computation
  PROVE  /\ missing[c] \in Nat /\ to_queue[c] \in Nat /\ Len(parts[c]) \in Nat
         /\ Cardinality(InQueue(c)) \in Nat /\ Cardinality(Holding(c)) \in Nat
         /\ Cardinality(Adding(c)) \in Nat
         /\ missing[c] = to_queue[c] + Cardinality(InQueue(c)) + Cardinality(Holding(c))
         /\ Splits(c) = to_queue[c] + Cardinality(InQueue(c)) + Cardinality(Adding(c))
                          + Len(parts[c])
<1>1. /\ missing[c] \in Nat /\ to_queue[c] \in Nat /\ Len(parts[c]) \in Nat
      /\ demuxQueue \in Seq(Computation)
    BY DEF DemuxInv, DemuxTypeOK
<1> QED
    BY <1>1, InQueueFinite, HoldersFinite DEF DemuxInv, PartsCounted

\* Steps of a caller, and those of workers without a part, leave the parts and their holders
\* alone.
LEMMA CallerStep ==
  ASSUME DemuxInv, part' = part, parts' = parts,
         \A v \in DemuxWorker :
           \/ demuxWorker'[v] = demuxWorker[v]
           \/ /\ demuxWorker[v] \in {"wait", "asleep", "take"}
              /\ demuxWorker'[v] \in {"wait", "asleep", "take", "ended"},
         \A c \in Computation : \/ planes'[c] = planes[c] /\ partial_size'[c] = partial_size[c]
                                \/ parts[c] = <<>>
  PROVE  /\ PartsHeld' /\ PartsRight'
         /\ \A c : Holding(c)' = Holding(c) /\ Adding(c)' = Adding(c)
<1>1. \A v \in DemuxWorker :
        /\ demuxWorker'[v] \in {"add", "compute", "complete"}
             <=> demuxWorker[v] \in {"add", "compute", "complete"}
        /\ demuxWorker'[v] = "compute" <=> demuxWorker[v] = "compute"
        /\ demuxWorker'[v] = "add" <=> demuxWorker[v] = "add"
    OBVIOUS
<1>2. PartsHeld'
    BY <1>1 DEF DemuxInv, PartsHeld
<1>3. PartsRight'
  <2> SUFFICES ASSUME NEW c \in Computation, NEW k \in 1..Len(parts'[c])
               PROVE  /\ parts'[c][k].inputs =
                           SubSeq(planes'[c], (k - 1) * partial_size'[c] + 1,
                                  Demux!SmallerOf(Len(planes'[c]),
                                                  (k - 1) * partial_size'[c] + partial_size'[c]))
                      /\ \/ parts'[c][k].computed
                         \/ \E v \in DemuxWorker : part'[v] = [of |-> c, index |-> k]
                                                   /\ demuxWorker'[v] = "compute"
      BY DEF PartsRight, Demux!SmallerOf
  <2>1. k \in 1..Len(parts[c]) /\ parts[c] # <<>>
      OBVIOUS
  <2>2. planes'[c] = planes[c] /\ partial_size'[c] = partial_size[c]
      BY <2>1
  <2>3. /\ parts[c][k].inputs =
             SubSeq(planes[c], (k - 1) * partial_size[c] + 1,
                    Demux!SmallerOf(Len(planes[c]), (k - 1) * partial_size[c] + partial_size[c]))
        /\ \/ parts[c][k].computed
           \/ \E v \in DemuxWorker : part[v] = [of |-> c, index |-> k]
                                     /\ demuxWorker[v] = "compute"
      BY <2>1 DEF DemuxInv, PartsRight
  <2> QED
      BY <1>1, <2>2, <2>3
<1> QED
    BY <1>1, <1>2, <1>3, HoldersKept

\* A computation of the second network is cut into parts, none of them queued yet.
LEMMA ComputeBlockingInv ==
  ASSUME DemuxInv, NEW b \in Computation, NEW s \in Seq(Plane), Demux!ComputeBlocking(b, s)
  PROVE  DemuxInv'
<1>1. DemuxTypeOK
    BY DEF DemuxInv
<1>2. /\ demuxCaller[b] = "filling" /\ planes' = [planes EXCEPT ![b] = s]
      /\ UNCHANGED <<demuxQueue, demuxAbort, demuxNetwork, parts, demuxWorker, part>>
    BY DEF Demux!ComputeBlocking
<1>3. /\ to_queue[b] = 0 /\ missing[b] = 0 /\ planes[b] = <<>>
      /\ Cardinality(InQueue(b)) = 0 /\ Cardinality(Holding(b)) = 0
      /\ Cardinality(Adding(b)) = 0 /\ parts[b] = <<>>
  <2>1. /\ to_queue[b] = 0 /\ missing[b] = 0 /\ planes[b] = <<>>
      BY <1>2 DEF DemuxInv, Owners
  <2>2. Splits(b) = 0
      BY <2>1 DEF Splits
  <2>3. /\ Cardinality(InQueue(b)) = 0 /\ Cardinality(Holding(b)) = 0
        /\ Cardinality(Adding(b)) = 0 /\ Len(parts[b]) = 0
    <3>1. /\ Len(parts[b]) \in Nat
          /\ Cardinality(InQueue(b)) \in Nat /\ Cardinality(Holding(b)) \in Nat
          /\ Cardinality(Adding(b)) \in Nat
          /\ missing[b] = to_queue[b] + Cardinality(InQueue(b)) + Cardinality(Holding(b))
          /\ Splits(b) = to_queue[b] + Cardinality(InQueue(b)) + Cardinality(Adding(b))
                          + Len(parts[b])
        BY CountsTyped
    <3> DEFINE q == Cardinality(InQueue(b))
               h == Cardinality(Holding(b))
               a == Cardinality(Adding(b))
               l == Len(parts[b])
    <3>2. q \in Nat /\ h \in Nat /\ a \in Nat /\ l \in Nat /\ 0 = 0 + q + h /\ 0 = 0 + q + a + l
        BY <2>1, <2>2, <3>1
    <3> HIDE DEF q, h, a, l
    <3>3. q = 0 /\ h = 0 /\ a = 0 /\ l = 0
        BY <3>2
    <3> QED
        BY <3>3 DEF q, h, a, l
  <2>4. parts[b] \in Seq(PartType)
      BY <1>1 DEF DemuxTypeOK, PartType
  <2> QED
      BY <2>1, <2>3, <2>4
<1> DEFINE size == IF s = <<>> THEN partial_size[b] ELSE Demux!PartialSize(Len(s))
           splits == IF s = <<>> THEN 0 ELSE Demux!CeilDiv(Len(s), size)
           where == IF s = <<>> THEN "wait" ELSE "enqueue"
<1>4. /\ size \in Nat /\ splits \in Nat
      /\ s # <<>> => size > 0 /\ splits > 0
  <2>1. CASE s = <<>>
      BY <1>1, <2>1 DEF DemuxTypeOK
  <2>2. CASE s # <<>>
    <3>1. Len(s) \in Nat /\ Len(s) > 0
        BY <2>2
    <3>2. Demux!PartialSize(Len(s)) \in Nat \ {0}
        BY <3>1, PartialSizeOf
    <3>3. size \in Nat \ {0}
        BY <2>2, <3>2
    <3> HIDE DEF size
    <3>4. Demux!CeilDiv(Len(s), size) \in Nat /\ Demux!CeilDiv(Len(s), size) > 0
        BY <3>1, <3>3, CeilDivOf
    <3> QED
        BY <2>2, <3>3, <3>4
  <2> QED
      BY <2>1, <2>2
<1>5. /\ partial_size' = [partial_size EXCEPT ![b] = size]
      /\ missing' = [missing EXCEPT ![b] = splits]
      /\ to_queue' = [to_queue EXCEPT ![b] = splits]
      /\ demuxCaller' = [demuxCaller EXCEPT ![b] = where]
      /\ splits = IF s = <<>> THEN 0 ELSE Demux!CeilDiv(Len(s), size)
      /\ where \in {"wait", "enqueue"} /\ (where = "enqueue" <=> s # <<>>)
  <2>1. CASE s = <<>>
    <3>1. /\ demuxCaller' = [demuxCaller EXCEPT ![b] = "wait"]
          /\ UNCHANGED <<partial_size, missing, to_queue>>
        BY <2>1 DEF Demux!ComputeBlocking
    <3> QED
        BY <1>1, <1>3, <2>1, <3>1 DEF DemuxTypeOK
  <2>2. CASE s # <<>>
      BY <2>2 DEF Demux!ComputeBlocking
  <2> QED
      BY <2>1, <2>2
<1> HIDE DEF size, splits, where
<1>6. DemuxTypeOK'
    BY <1>1, <1>2, <1>4, <1>5 DEF DemuxTypeOK
<1>7. /\ PartsHeld' /\ PartsRight'
      /\ \A c : Holding(c)' = Holding(c) /\ Adding(c)' = Adding(c)
  <2>1. \A c \in Computation : \/ planes'[c] = planes[c] /\ partial_size'[c] = partial_size[c]
                               \/ parts[c] = <<>>
      BY <1>1, <1>2, <1>3, <1>5 DEF DemuxTypeOK
  <2> QED
      BY <1>2, <2>1, CallerStep
<1>8. \A c : InQueue(c)' = InQueue(c)
    BY <1>2 DEF InQueue
<1>9. /\ planes'[b] = s /\ partial_size'[b] = size /\ missing'[b] = splits
      /\ to_queue'[b] = splits /\ demuxCaller'[b] = where
      /\ \A c \in Computation : c # b =>
           /\ planes'[c] = planes[c] /\ partial_size'[c] = partial_size[c]
           /\ missing'[c] = missing[c] /\ to_queue'[c] = to_queue[c]
           /\ demuxCaller'[c] = demuxCaller[c]
    BY <1>1, <1>2, <1>5 DEF DemuxTypeOK
<1>10. PartsCounted'
  <2>1. ASSUME NEW c \in Computation, c # b PROVE Splits(c)' = Splits(c)
      BY <1>9, <2>1 DEF Splits, Demux!CeilDiv
  <2>2. Splits(b)' = splits
    <3>1. splits = IF s = <<>> THEN 0 ELSE Demux!CeilDiv(Len(s), size)
        BY <1>5
    <3>2. planes'[b] = s /\ partial_size'[b] = size
        BY <1>9
    <3> QED
        BY <3>1, <3>2 DEF Splits, Demux!CeilDiv
  <2>3. ASSUME NEW c \in Computation
        PROVE  /\ missing'[c] = to_queue'[c] + Cardinality(InQueue(c)') + Cardinality(Holding(c)')
               /\ Splits(c)' = to_queue'[c] + Cardinality(InQueue(c)') + Cardinality(Adding(c)')
                                 + Len(parts'[c])
    <3>1. CASE c = b
      <4>1. /\ missing'[b] = splits /\ to_queue'[b] = splits /\ Splits(b)' = splits
            /\ Cardinality(InQueue(b)') = 0 /\ Cardinality(Holding(b)') = 0
            /\ Cardinality(Adding(b)') = 0
          BY <1>3, <1>7, <1>8, <1>9, <2>2
      <4>2. Len(parts'[b]) = 0
          BY <1>2, <1>3
      <4> QED
          BY <1>4, <3>1, <4>1, <4>2
    <3>2. CASE c # b
        BY <1>2, <1>7, <1>8, <1>9, <2>1, <3>2 DEF DemuxInv, PartsCounted
    <3> QED
        BY <3>1, <3>2
  <2> QED
      BY <2>3 DEF PartsCounted
<1>11. Owners'
    BY <1>4, <1>5, <1>9 DEF DemuxInv, Owners
<1> QED
    BY <1>6, <1>7, <1>10, <1>11 DEF DemuxInv

\* One part more is in the queue, and one less is still to be queued.
LEMMA DemuxEnqueueInv ==
  ASSUME DemuxInv, NEW b \in Computation, Demux!Enqueue(b)
  PROVE  DemuxInv'
<1>1. DemuxTypeOK /\ demuxQueue \in Seq(Computation)
    BY DEF DemuxInv, DemuxTypeOK
<1>2. /\ demuxCaller[b] = "enqueue" /\ demuxQueue' = Append(demuxQueue, b)
      /\ to_queue' = [to_queue EXCEPT ![b] = @ - 1]
      /\ demuxCaller' = [demuxCaller EXCEPT ![b] = IF to_queue[b] = 1 THEN "wait" ELSE @]
      /\ UNCHANGED <<demuxAbort, demuxNetwork, planes, partial_size, missing, parts, part>>
    BY DEF Demux!Enqueue
<1>3. \A v \in DemuxWorker : \/ demuxWorker'[v] = demuxWorker[v]
                             \/ demuxWorker[v] = "asleep" /\ demuxWorker'[v] = "wait"
  <2>1. CASE demuxWorker' = demuxWorker
      BY <2>1
  <2>2. ASSUME NEW u \in DemuxWorker, demuxWorker[u] = "asleep",
               demuxWorker' = [demuxWorker EXCEPT ![u] = "wait"]
        PROVE  <1>3
      BY <1>1, <2>2 DEF DemuxTypeOK
  <2> QED
      BY <2>1, <2>2 DEF Demux!Enqueue, Demux!Asleep, Demux!Goto
<1>4. demuxWorker' \in [DemuxWorker -> {"wait", "asleep", "take", "add", "compute", "complete",
                                        "ended"}]
    BY <1>1 DEF DemuxTypeOK, Demux!Enqueue, Demux!Asleep, Demux!Goto
<1>5. to_queue[b] \in Nat /\ to_queue[b] > 0
    BY <1>1, <1>2 DEF DemuxInv, DemuxTypeOK, Owners
<1>6. DemuxTypeOK'
  <2>1. demuxQueue' \in Seq(Computation)
      BY <1>1, <1>2
  <2>2. to_queue' \in [Computation -> Nat]
    <3>1. to_queue[b] - 1 \in Nat /\ to_queue \in [Computation -> Nat]
        BY <1>1, <1>5 DEF DemuxTypeOK
    <3> QED
        BY <1>2, <3>1
  <2>3. demuxCaller' \in [Computation -> {"filling", "enqueue", "wait", "returned"}]
      BY <1>1, <1>2 DEF DemuxTypeOK
  <2> QED
      BY <1>1, <1>2, <1>4, <2>1, <2>2, <2>3 DEF DemuxTypeOK
<1>7. /\ PartsHeld' /\ PartsRight'
      /\ \A c : Holding(c)' = Holding(c) /\ Adding(c)' = Adding(c)
    BY <1>2, <1>3, CallerStep
<1>8. /\ to_queue'[b] = to_queue[b] - 1
      /\ \A c \in Computation : c # b => to_queue'[c] = to_queue[c]
                                         /\ demuxCaller'[c] = demuxCaller[c]
      /\ demuxCaller'[b] = IF to_queue[b] = 1 THEN "wait" ELSE "enqueue"
    BY <1>1, <1>2 DEF DemuxTypeOK
<1>9. PartsCounted'
  <2> SUFFICES ASSUME NEW c \in Computation
               PROVE  /\ missing'[c] = to_queue'[c] + Cardinality(InQueue(c)')
                                         + Cardinality(Holding(c)')
                      /\ Splits(c)' = to_queue'[c] + Cardinality(InQueue(c)')
                                        + Cardinality(Adding(c)') + Len(parts'[c])
      BY DEF PartsCounted
  <2>1. Splits(c)' = Splits(c)
      BY <1>2 DEF Splits, Demux!CeilDiv
  <2>2. Cardinality(InQueue(c)') = Cardinality(InQueue(c)) + (IF c = b THEN 1 ELSE 0)
      BY <1>1, <1>2, Appended
  <2>3. to_queue'[c] = to_queue[c] - (IF c = b THEN 1 ELSE 0)
      BY <1>1, <1>8 DEF DemuxTypeOK
  <2>4. /\ missing'[c] = missing[c] /\ Len(parts'[c]) = Len(parts[c])
        /\ Cardinality(Holding(c)') = Cardinality(Holding(c))
        /\ Cardinality(Adding(c)') = Cardinality(Adding(c))
      BY <1>2, <1>7
  <2>5. /\ missing[c] \in Nat /\ to_queue[c] \in Nat /\ Len(parts[c]) \in Nat
        /\ Cardinality(InQueue(c)) \in Nat /\ Cardinality(Holding(c)) \in Nat
        /\ Cardinality(Adding(c)) \in Nat
        /\ missing[c] = to_queue[c] + Cardinality(InQueue(c)) + Cardinality(Holding(c))
        /\ Splits(c) = to_queue[c] + Cardinality(InQueue(c)) + Cardinality(Adding(c))
                         + Len(parts[c])
      BY CountsTyped
  <2> QED
      BY <2>1, <2>2, <2>3, <2>4, <2>5, SMTT(40)
<1>10. Owners'
    BY <1>2, <1>5, <1>8 DEF DemuxInv, Owners
<1> QED
    BY <1>6, <1>7, <1>9, <1>10 DEF DemuxInv

\* A caller of the second network returns when no part is missing.
LEMMA DemuxReturnInv ==
  ASSUME DemuxInv, NEW b \in Computation, Demux!Return(b)
  PROVE  DemuxInv'
<1>1. DemuxTypeOK
    BY DEF DemuxInv
<1>2. /\ demuxCaller[b] = "wait" /\ missing[b] = 0
      /\ demuxCaller' = [demuxCaller EXCEPT ![b] = "returned"]
      /\ UNCHANGED <<demuxQueue, demuxAbort, demuxNetwork, planes, partial_size, missing,
                     to_queue, parts, demuxWorker, part>>
    BY DEF Demux!Return
<1>3. DemuxTypeOK'
    BY <1>1, <1>2 DEF DemuxTypeOK
<1>4. /\ PartsHeld' /\ PartsRight'
      /\ \A c : Holding(c)' = Holding(c) /\ Adding(c)' = Adding(c)
    BY <1>2, CallerStep
<1>5. \A c : InQueue(c)' = InQueue(c) /\ Splits(c)' = Splits(c)
    BY <1>2 DEF InQueue, Splits, Demux!CeilDiv
<1>6. PartsCounted'
    BY <1>2, <1>4, <1>5 DEF DemuxInv, PartsCounted
<1>7. Owners'
    BY <1>1, <1>2 DEF DemuxInv, DemuxTypeOK, Owners
<1> QED
    BY <1>3, <1>4, <1>6, <1>7 DEF DemuxInv

\* The destructor wakes workers, but holds no parts.
LEMMA DemuxDestructorInv ==
  ASSUME DemuxInv, Demux!Abort \/ Demux!NotifyAll \/ Demux!Wait
  PROVE  DemuxInv'
<1>1. DemuxTypeOK
    BY DEF DemuxInv
<1>2. /\ UNCHANGED <<demuxQueue, demuxCaller, planes, partial_size, missing, to_queue, parts,
                     part>>
      /\ demuxNetwork' \in {"notify", "join", "gone"} /\ demuxAbort' \in BOOLEAN
      /\ demuxWorker' \in [DemuxWorker -> {"wait", "asleep", "take", "add", "compute",
                                           "complete", "ended"}]
      /\ \A v \in DemuxWorker : \/ demuxWorker'[v] = demuxWorker[v]
                                \/ demuxWorker[v] = "asleep" /\ demuxWorker'[v] = "wait"
    BY <1>1 DEF Demux!Abort, Demux!NotifyAll, Demux!Wait, Demux!computations, Demux!Asleep,
                DemuxTypeOK
<1>3. DemuxTypeOK'
    BY <1>1, <1>2 DEF DemuxTypeOK
<1>4. /\ PartsHeld' /\ PartsRight'
      /\ \A c : Holding(c)' = Holding(c) /\ Adding(c)' = Adding(c)
    BY <1>2, CallerStep
<1>5. \A c : InQueue(c)' = InQueue(c) /\ Splits(c)' = Splits(c)
    BY <1>2 DEF InQueue, Splits, Demux!CeilDiv
<1>6. PartsCounted'
    BY <1>2, <1>4, <1>5 DEF DemuxInv, PartsCounted
<1>7. Owners'
    BY <1>2 DEF DemuxInv, Owners
<1> QED
    BY <1>3, <1>4, <1>6, <1>7 DEF DemuxInv

\* A worker without a part waits, sleeps, ends or finds the queue empty.
LEMMA DemuxIdleInv ==
  ASSUME DemuxInv, NEW v \in DemuxWorker,
         demuxWorker[v] \in {"wait", "asleep", "take"}, NEW x \in {"wait", "asleep", "take", "ended"},
         demuxWorker' = [demuxWorker EXCEPT ![v] = x],
         UNCHANGED <<demuxQueue, demuxAbort, demuxNetwork, demuxCaller, planes, partial_size,
                     missing, to_queue, parts, part>>
  PROVE  DemuxInv'
<1>1. DemuxTypeOK
    BY DEF DemuxInv
<1>2. DemuxTypeOK'
    BY <1>1 DEF DemuxTypeOK
<1>3. /\ PartsHeld' /\ PartsRight'
      /\ \A c : Holding(c)' = Holding(c) /\ Adding(c)' = Adding(c)
  <2>1. \A u \in DemuxWorker :
          \/ demuxWorker'[u] = demuxWorker[u]
          \/ /\ demuxWorker[u] \in {"wait", "asleep", "take"}
             /\ demuxWorker'[u] \in {"wait", "asleep", "take", "ended"}
      BY <1>1 DEF DemuxTypeOK
  <2> QED
      BY <2>1, CallerStep
<1>4. \A c : InQueue(c)' = InQueue(c) /\ Splits(c)' = Splits(c)
    BY DEF InQueue, Splits, Demux!CeilDiv
<1>5. PartsCounted'
    BY <1>3, <1>4 DEF DemuxInv, PartsCounted
<1>6. Owners'
    BY DEF DemuxInv, Owners
<1> QED
    BY <1>2, <1>3, <1>5, <1>6 DEF DemuxInv

\* The part taken out of the queue is one that its worker is to make.
LEMMA DemuxTakeInv ==
  ASSUME DemuxInv, NEW v \in DemuxWorker, Demux!Take(v)
  PROVE  DemuxInv'
<1>1. DemuxTypeOK /\ demuxQueue \in Seq(Computation)
    BY DEF DemuxInv, DemuxTypeOK
<1>2. /\ demuxWorker[v] = "take"
      /\ UNCHANGED <<demuxAbort, demuxNetwork, demuxCaller, planes, partial_size, missing,
                     to_queue, parts>>
    BY DEF Demux!Take, Demux!computations
<1>3. CASE demuxQueue = <<>>
  <2>1. demuxWorker' = [demuxWorker EXCEPT ![v] = "wait"] /\ UNCHANGED <<demuxQueue, part>>
      BY <1>3 DEF Demux!Take, Demux!Goto
  <2> QED
      BY <1>2, <2>1, DemuxIdleInv
<1>4. CASE demuxQueue # <<>>
  <2> DEFINE d == Head(demuxQueue)
  <2>1. /\ part' = [part EXCEPT ![v] = [of |-> d, index |-> 0]]
        /\ demuxQueue' = Tail(demuxQueue)
        /\ demuxWorker' = [demuxWorker EXCEPT ![v] = "add"]
      BY <1>4 DEF Demux!Take, Demux!Goto
  <2>2. d \in Computation /\ Tail(demuxQueue) \in Seq(Computation)
      BY <1>1, <1>4
  <2>3. \A c : Cardinality(InQueue(c)') = Cardinality(InQueue(c)) - (IF c = d THEN 1 ELSE 0)
      BY <1>1, <1>4, <2>1, Dequeued
  <2> HIDE DEF d
  <2>4. /\ part'[v].of = d /\ demuxWorker'[v] = "add" /\ part'[v].of # None
        /\ \A u \in DemuxWorker : u # v => part'[u] = part[u] /\ demuxWorker'[u] = demuxWorker[u]
      BY <1>1, <2>1, <2>2, NetworkMuxAssumption DEF DemuxTypeOK
  <2>5. part[v].of = None
      BY <1>2 DEF DemuxInv, PartsHeld
  <2>6. \A c \in Computation :
          /\ Cardinality(Holding(c)') = Cardinality(Holding(c)) + (IF c = d THEN 1 ELSE 0)
          /\ Cardinality(Adding(c)') = Cardinality(Adding(c)) + (IF c = d THEN 1 ELSE 0)
    <3> SUFFICES ASSUME NEW c \in Computation
                 PROVE  /\ Cardinality(Holding(c)')
                             = Cardinality(Holding(c)) + (IF c = d THEN 1 ELSE 0)
                        /\ Cardinality(Adding(c)')
                             = Cardinality(Adding(c)) + (IF c = d THEN 1 ELSE 0)
        OBVIOUS
    <3>1. c # None
        BY NetworkMuxAssumption
    <3>2. /\ Cardinality(Holding(c)') = Cardinality(Holding(c))
               + (IF part'[v].of = c THEN 1 ELSE 0) - (IF part[v].of = c THEN 1 ELSE 0)
          /\ Cardinality(Adding(c)') = Cardinality(Adding(c))
               + (IF part'[v].of = c /\ demuxWorker'[v] = "add" THEN 1 ELSE 0)
               - (IF part[v].of = c /\ demuxWorker[v] = "add" THEN 1 ELSE 0)
        BY <2>4, HoldersChange
    <3>3. Cardinality(Holding(c)) \in Nat /\ Cardinality(Adding(c)) \in Nat
        BY HoldersFinite
    <3> QED
        BY <2>4, <2>5, <3>1, <3>2, <3>3
  <2>7. DemuxTypeOK'
    <3>1. part' \in [DemuxWorker -> [of : Computation \cup {None}, index : Nat]]
        BY <1>1, <2>1, <2>2 DEF DemuxTypeOK
    <3> QED
        BY <1>1, <1>2, <2>1, <2>2, <3>1 DEF DemuxTypeOK, d
  <2>8. PartsCounted'
    <3> SUFFICES ASSUME NEW c \in Computation
                 PROVE  /\ missing'[c] = to_queue'[c] + Cardinality(InQueue(c)')
                                           + Cardinality(Holding(c)')
                        /\ Splits(c)' = to_queue'[c] + Cardinality(InQueue(c)')
                                          + Cardinality(Adding(c)') + Len(parts'[c])
        BY DEF PartsCounted
    <3>1. Splits(c)' = Splits(c)
        BY <1>2 DEF Splits, Demux!CeilDiv
    <3>2. /\ missing[c] \in Nat /\ to_queue[c] \in Nat /\ Len(parts[c]) \in Nat
          /\ Cardinality(InQueue(c)) \in Nat /\ Cardinality(Holding(c)) \in Nat
          /\ Cardinality(Adding(c)) \in Nat
          /\ missing[c] = to_queue[c] + Cardinality(InQueue(c)) + Cardinality(Holding(c))
          /\ Splits(c) = to_queue[c] + Cardinality(InQueue(c)) + Cardinality(Adding(c))
                           + Len(parts[c])
        BY CountsTyped
    <3>3. /\ missing'[c] = missing[c] /\ to_queue'[c] = to_queue[c]
          /\ Len(parts'[c]) = Len(parts[c])
        BY <1>2
    <3>4. Cardinality(InQueue(c)') = Cardinality(InQueue(c)) - (IF c = d THEN 1 ELSE 0)
        BY <2>3
    <3>5. /\ Cardinality(Holding(c)') = Cardinality(Holding(c)) + (IF c = d THEN 1 ELSE 0)
          /\ Cardinality(Adding(c)') = Cardinality(Adding(c)) + (IF c = d THEN 1 ELSE 0)
        BY <2>6
    <3> QED
        BY <3>1, <3>2, <3>3, <3>4, <3>5
  <2>9. Owners'
      BY <1>2 DEF DemuxInv, Owners
  <2>10. PartsHeld'
      BY <1>2, <2>4 DEF DemuxInv, PartsHeld
  <2>11. PartsRight'
    <3> SUFFICES ASSUME NEW c \in Computation, NEW k \in 1..Len(parts[c])
                 PROVE  /\ parts[c][k].inputs =
                             SubSeq(planes[c], (k - 1) * partial_size[c] + 1,
                                    Demux!SmallerOf(Len(planes[c]),
                                                    (k - 1) * partial_size[c] + partial_size[c]))
                        /\ \/ parts[c][k].computed
                           \/ \E u \in DemuxWorker : part'[u] = [of |-> c, index |-> k]
                                                     /\ demuxWorker'[u] = "compute"
        BY <1>2 DEF PartsRight, Demux!SmallerOf
    <3> QED
        BY <1>2, <2>4 DEF DemuxInv, PartsRight
  <2> QED
      BY <2>7, <2>8, <2>9, <2>10, <2>11 DEF DemuxInv
<1> QED
    BY <1>3, <1>4

\* What a slice is.
LEMMA SliceType ==
  ASSUME NEW s \in Seq(Plane), NEW m \in Nat, NEW n \in Nat, n <= Len(s)
  PROVE  SubSeq(s, m + 1, n) \in Seq(Plane)
<1>1. \A i \in (m + 1)..n : s[i] \in Plane
    OBVIOUS
<1> QED
    BY <1>1, SubSeqProperties

\* A step of a worker that has a part leaves the other workers alone.
LEMMA OthersKept ==
  ASSUME DemuxInv, NEW v \in DemuxWorker,
         \A u \in DemuxWorker : u # v => part'[u] = part[u] /\ demuxWorker'[u] = demuxWorker[u],
         NEW c \in Computation, NEW k \in 1..Len(parts[c]),
         demuxWorker[v] # "compute" \/ part[v] # [of |-> c, index |-> k]
  PROVE  /\ parts[c][k].inputs =
              SubSeq(planes[c], (k - 1) * partial_size[c] + 1,
                     Demux!SmallerOf(Len(planes[c]),
                                     (k - 1) * partial_size[c] + partial_size[c]))
         /\ \/ parts[c][k].computed
            \/ \E u \in DemuxWorker : part'[u] = [of |-> c, index |-> k]
                                      /\ demuxWorker'[u] = "compute"
<1>1. /\ parts[c][k].inputs =
           SubSeq(planes[c], (k - 1) * partial_size[c] + 1,
                  Demux!SmallerOf(Len(planes[c]),
                                  (k - 1) * partial_size[c] + partial_size[c]))
      /\ \/ parts[c][k].computed
         \/ \E u \in DemuxWorker : part[u] = [of |-> c, index |-> k]
                                   /\ demuxWorker[u] = "compute"
    BY DEF DemuxInv, PartsRight
<1> QED
    BY <1>1

\* The next slice is made: one part more, and one less to be made.
LEMMA DemuxAddInv ==
  ASSUME DemuxInv, NEW v \in DemuxWorker, Demux!AddParentFromNetwork(v)
  PROVE  DemuxInv'
<1> DEFINE d == part[v].of
           from == Len(parts[d]) * partial_size[d]
           upto == Demux!SmallerOf(Len(planes[d]), from + partial_size[d])
           new == [inputs |-> SubSeq(planes[d], from + 1, upto), computed |-> FALSE]
<1>1. DemuxTypeOK
    BY DEF DemuxInv
<1>2. /\ demuxWorker[v] = "add"
      /\ parts' = [parts EXCEPT ![d] = Append(@, new)]
      /\ part' = [part EXCEPT ![v].index = Len(parts[d]) + 1]
      /\ demuxWorker' = [demuxWorker EXCEPT ![v] = "compute"]
      /\ UNCHANGED <<demuxQueue, demuxAbort, demuxNetwork, demuxCaller, planes, partial_size,
                     missing, to_queue>>
    BY DEF Demux!AddParentFromNetwork, Demux!Goto, Demux!SmallerOf
<1>3. d \in Computation /\ part[v] \in [of : Computation \cup {None}, index : Nat]
    BY <1>1, <1>2 DEF DemuxInv, DemuxTypeOK, PartsHeld
<1>4. /\ Len(parts[d]) \in Nat /\ partial_size[d] \in Nat /\ planes[d] \in Seq(Plane)
      /\ parts[d] \in Seq(PartType)
    BY <1>1, <1>3 DEF DemuxTypeOK
<1>5. new \in PartType
  <2>1. from \in Nat
      BY <1>4
  <2> HIDE DEF from
  <2>2. upto \in Nat /\ upto <= Len(planes[d])
      BY <1>4, <2>1, SMTT(40) DEF Demux!SmallerOf
  <2> HIDE DEF upto
  <2>3. SubSeq(planes[d], from + 1, upto) \in Seq(Plane)
      BY <1>4, <2>1, <2>2, SliceType
  <2> QED
      BY <2>3 DEF PartType
<1>6. new.inputs = SubSeq(planes[d], Len(parts[d]) * partial_size[d] + 1,
                          Demux!SmallerOf(Len(planes[d]),
                                          Len(parts[d]) * partial_size[d] + partial_size[d]))
    OBVIOUS
<1> HIDE DEF new
<1>7. /\ parts'[d] = Append(parts[d], new)
      /\ \A c \in Computation : c # d => parts'[c] = parts[c]
      /\ part'[v] = [of |-> d, index |-> Len(parts[d]) + 1] /\ demuxWorker'[v] = "compute"
      /\ \A u \in DemuxWorker : u # v => part'[u] = part[u] /\ demuxWorker'[u] = demuxWorker[u]
  <2>1. part'[v] = [part[v] EXCEPT !.index = Len(parts[d]) + 1]
      BY <1>1, <1>2 DEF DemuxTypeOK
  <2>2. part'[v] = [of |-> d, index |-> Len(parts[d]) + 1]
      BY <1>3, <2>1
  <2> QED
      BY <1>1, <1>2, <1>3, <2>2 DEF DemuxTypeOK
<1> HIDE DEF d
<1>8. /\ Append(parts[d], new) \in Seq(PartType)
      /\ Len(parts'[d]) = Len(parts[d]) + 1 /\ parts'[d][Len(parts[d]) + 1] = new
      /\ \A i \in 1..Len(parts[d]) : parts'[d][i] = parts[d][i]
    BY <1>4, <1>5, <1>7
<1>9. DemuxTypeOK'
  <2>1. parts' \in [Computation -> Seq(PartType)]
      BY <1>1, <1>2, <1>8 DEF DemuxTypeOK
  <2>2. part' \in [DemuxWorker -> [of : Computation \cup {None}, index : Nat]]
    <3>1. part'[v] \in [of : Computation \cup {None}, index : Nat]
        BY <1>3, <1>4, <1>7
    <3>2. DOMAIN part' = DemuxWorker /\ \A u \in DemuxWorker :
             part'[u] \in [of : Computation \cup {None}, index : Nat]
        BY <1>1, <1>2, <1>7, <3>1 DEF DemuxTypeOK
    <3>3. part' = [u \in DemuxWorker |-> part'[u]]
        BY <1>1, <1>2 DEF DemuxTypeOK
    <3> QED
        BY <3>2, <3>3
  <2> QED
      BY <1>1, <1>2, <2>1, <2>2 DEF DemuxTypeOK
<1>10. PartsCounted'
  <2> SUFFICES ASSUME NEW c \in Computation
               PROVE  /\ missing'[c] = to_queue'[c] + Cardinality(InQueue(c)')
                                         + Cardinality(Holding(c)')
                      /\ Splits(c)' = to_queue'[c] + Cardinality(InQueue(c)')
                                        + Cardinality(Adding(c)') + Len(parts'[c])
      BY DEF PartsCounted
  <2>1. Splits(c)' = Splits(c) /\ InQueue(c)' = InQueue(c)
      BY <1>2 DEF Splits, Demux!CeilDiv, InQueue
  <2>2. /\ missing[c] \in Nat /\ to_queue[c] \in Nat /\ Len(parts[c]) \in Nat
        /\ Cardinality(InQueue(c)) \in Nat /\ Cardinality(Holding(c)) \in Nat
        /\ Cardinality(Adding(c)) \in Nat
        /\ missing[c] = to_queue[c] + Cardinality(InQueue(c)) + Cardinality(Holding(c))
        /\ Splits(c) = to_queue[c] + Cardinality(InQueue(c)) + Cardinality(Adding(c))
                         + Len(parts[c])
      BY CountsTyped
  <2>3. /\ Cardinality(Holding(c)') = Cardinality(Holding(c))
             + (IF part'[v].of = c THEN 1 ELSE 0) - (IF part[v].of = c THEN 1 ELSE 0)
        /\ Cardinality(Adding(c)') = Cardinality(Adding(c))
             + (IF part'[v].of = c /\ demuxWorker'[v] = "add" THEN 1 ELSE 0)
             - (IF part[v].of = c /\ demuxWorker[v] = "add" THEN 1 ELSE 0)
      BY <1>7, HoldersChange
  <2>4. part[v].of = d /\ part'[v].of = d
      BY <1>7 DEF d
  <2>5. /\ Cardinality(Holding(c)') = Cardinality(Holding(c))
        /\ Cardinality(Adding(c)') = Cardinality(Adding(c)) - (IF c = d THEN 1 ELSE 0)
      BY <1>2, <1>7, <2>2, <2>3, <2>4
  <2>6. Len(parts'[c]) = Len(parts[c]) + (IF c = d THEN 1 ELSE 0)
    <3>1. CASE c = d
        BY <1>8, <3>1
    <3>2. CASE c # d
        BY <1>7, <2>2, <3>2
    <3> QED
        BY <3>1, <3>2
  <2>7. missing'[c] = missing[c] /\ to_queue'[c] = to_queue[c]
      BY <1>2
  <2> DEFINE more == IF c = d THEN 1 ELSE 0
  <2>8. more \in Nat
      OBVIOUS
  <2> HIDE DEF more
  <2>9. /\ Cardinality(Adding(c)') = Cardinality(Adding(c)) - more
        /\ Len(parts'[c]) = Len(parts[c]) + more
      BY <2>5, <2>6 DEF more
  <2> QED
      BY <2>1, <2>2, <2>5, <2>7, <2>8, <2>9, SMTT(40)
<1>11. Owners'
    BY <1>2 DEF DemuxInv, Owners
<1>12. PartsHeld'
  <2> SUFFICES ASSUME NEW u \in DemuxWorker
               PROVE  /\ demuxWorker'[u] \in {"add", "compute", "complete"} <=> part'[u].of # None
                      /\ demuxWorker'[u] = "compute"
                           => part'[u].index \in 1..Len(parts'[part'[u].of])
      BY DEF PartsHeld
  <2>1. CASE u = v
    <3>1. d # None
        BY <1>3, NetworkMuxAssumption
    <3> QED
        BY <1>4, <1>7, <1>8, <2>1, <3>1
  <2>2. CASE u # v
    <3>1. /\ demuxWorker[u] \in {"add", "compute", "complete"} <=> part[u].of # None
          /\ demuxWorker[u] = "compute" => part[u].index \in 1..Len(parts[part[u].of])
        BY DEF DemuxInv, PartsHeld
    <3>2. part[u].of \in Computation \cup {None}
        BY <1>1 DEF DemuxTypeOK
    <3>3. part[u].of \in Computation => 1..Len(parts[part[u].of]) \subseteq 1..Len(parts'[part[u].of])
        BY <1>4, <1>7, <1>8
    <3> QED
        BY <1>7, <2>2, <3>1, <3>2, <3>3
  <2> QED
      BY <2>1, <2>2
<1>13. PartsRight'
  <2> SUFFICES ASSUME NEW c \in Computation, NEW k \in 1..Len(parts'[c])
               PROVE  /\ parts'[c][k].inputs =
                           SubSeq(planes[c], (k - 1) * partial_size[c] + 1,
                                  Demux!SmallerOf(Len(planes[c]),
                                                  (k - 1) * partial_size[c] + partial_size[c]))
                      /\ \/ parts'[c][k].computed
                         \/ \E u \in DemuxWorker : part'[u] = [of |-> c, index |-> k]
                                                   /\ demuxWorker'[u] = "compute"
    <3>1. planes' = planes /\ partial_size' = partial_size
        BY <1>2
    <3> QED
        BY <3>1 DEF PartsRight, Demux!SmallerOf
  <2>1. CASE k \in 1..Len(parts[c])
    <3>1. parts'[c][k] = parts[c][k]
        BY <1>7, <1>8, <2>1
    <3> QED
        BY <1>2, <1>7, <2>1, <3>1, OthersKept, SMTT(40)
  <2>2. CASE k \notin 1..Len(parts[c])
    <3>1. c = d /\ k = Len(parts[d]) + 1
        BY <1>4, <1>7, <1>8, <2>2
    <3>2. parts'[c][k] = new /\ k - 1 = Len(parts[d])
        BY <1>4, <1>8, <3>1
    <3>3. part'[v] = [of |-> c, index |-> k] /\ demuxWorker'[v] = "compute"
        BY <1>7, <3>1
    <3> QED
        BY <1>6, <3>1, <3>2, <3>3
  <2> QED
      BY <2>1, <2>2
<1> QED
    BY <1>9, <1>10, <1>11, <1>12, <1>13 DEF DemuxInv

\* The part is computed, and its worker need not compute it any more.
LEMMA DemuxComputeInv ==
  ASSUME DemuxInv, NEW v \in DemuxWorker, Demux!Compute(v)
  PROVE  DemuxInv'
<1> DEFINE d == part[v].of
           j == part[v].index
<1>1. DemuxTypeOK
    BY DEF DemuxInv
<1>2. /\ demuxWorker[v] = "compute"
      /\ parts' = [parts EXCEPT ![d][j].computed = TRUE]
      /\ demuxWorker' = [demuxWorker EXCEPT ![v] = "complete"]
      /\ UNCHANGED <<demuxQueue, demuxAbort, demuxNetwork, demuxCaller, planes, partial_size,
                     missing, to_queue, part>>
    BY DEF Demux!Compute, Demux!Goto
<1>3. /\ d \in Computation /\ j \in 1..Len(parts[d])
      /\ part[v] = [of |-> d, index |-> j]
    BY <1>1, <1>2 DEF DemuxInv, DemuxTypeOK, PartsHeld
<1> HIDE DEF d, j
<1>4. parts[d] \in Seq(PartType) /\ parts[d][j] \in PartType
  <2>1. parts[d] \in Seq(PartType)
      BY <1>1, <1>3 DEF DemuxTypeOK
  <2> QED
      BY <1>3, <2>1
<1>5. /\ parts'[d] = [parts[d] EXCEPT ![j] = [parts[d][j] EXCEPT !.computed = TRUE]]
      /\ \A c \in Computation : c # d => parts'[c] = parts[c]
      /\ demuxWorker'[v] = "complete"
      /\ \A u \in DemuxWorker : u # v => part'[u] = part[u] /\ demuxWorker'[u] = demuxWorker[u]
    BY <1>1, <1>2, <1>3 DEF DemuxTypeOK
<1>6. /\ parts'[d] \in Seq(PartType) /\ Len(parts'[d]) = Len(parts[d])
      /\ parts'[d][j].computed /\ parts'[d][j].inputs = parts[d][j].inputs
      /\ \A i \in 1..Len(parts[d]) : i # j => parts'[d][i] = parts[d][i]
  <2> DEFINE p == parts[d][j]
             r == [p EXCEPT !.computed = TRUE]
  <2>1. p \in [inputs : Seq(Plane), computed : BOOLEAN]
      BY <1>4 DEF PartType
  <2> HIDE DEF p
  <2>2. r.computed /\ r.inputs = p.inputs
      BY <2>1, Zenon
  <2>3. r \in PartType
      BY <2>1 DEF PartType
  <2>4. parts'[d] = [parts[d] EXCEPT ![j] = r]
      BY <1>5 DEF p
  <2> HIDE DEF r
  <2> QED
      BY <1>3, <1>4, <2>2, <2>3, <2>4 DEF p
<1>7. DemuxTypeOK'
  <2>1. parts' \in [Computation -> Seq(PartType)]
    <3>1. parts' = [parts EXCEPT ![d] = parts'[d]]
        BY <1>1, <1>2, <1>3 DEF DemuxTypeOK
    <3> QED
        BY <1>1, <1>6, <3>1 DEF DemuxTypeOK
  <2> QED
      BY <1>1, <1>2, <2>1 DEF DemuxTypeOK
<1>8. PartsCounted'
  <2> SUFFICES ASSUME NEW c \in Computation
               PROVE  /\ missing'[c] = to_queue'[c] + Cardinality(InQueue(c)')
                                         + Cardinality(Holding(c)')
                      /\ Splits(c)' = to_queue'[c] + Cardinality(InQueue(c)')
                                        + Cardinality(Adding(c)') + Len(parts'[c])
      BY DEF PartsCounted
  <2>1. Splits(c)' = Splits(c) /\ InQueue(c)' = InQueue(c)
      BY <1>2 DEF Splits, Demux!CeilDiv, InQueue
  <2>2. \A u \in DemuxWorker : demuxWorker'[u] = "add" <=> demuxWorker[u] = "add"
      BY <1>2, <1>5
  <2>3. Holding(c)' = Holding(c) /\ Adding(c)' = Adding(c)
      BY <1>2, <2>2, HoldersKept
  <2>4. Len(parts'[c]) = Len(parts[c]) /\ missing'[c] = missing[c] /\ to_queue'[c] = to_queue[c]
      BY <1>2, <1>5, <1>6
  <2> QED
      BY <2>1, <2>3, <2>4, CountsTyped
<1>9. Owners'
    BY <1>2 DEF DemuxInv, Owners
<1>10. PartsHeld'
  <2> SUFFICES ASSUME NEW u \in DemuxWorker
               PROVE  /\ demuxWorker'[u] \in {"add", "compute", "complete"} <=> part[u].of # None
                      /\ demuxWorker'[u] = "compute"
                           => part[u].index \in 1..Len(parts'[part[u].of])
      BY <1>2 DEF PartsHeld
  <2>1. /\ demuxWorker[u] \in {"add", "compute", "complete"} <=> part[u].of # None
        /\ demuxWorker[u] = "compute" => part[u].index \in 1..Len(parts[part[u].of])
        /\ part[u].of \in Computation \cup {None}
      BY <1>1 DEF DemuxInv, PartsHeld, DemuxTypeOK
  <2>2. \A c \in Computation : Len(parts'[c]) = Len(parts[c])
      BY <1>5, <1>6
  <2>3. demuxWorker'[u] = demuxWorker[u] \/ u = v
      BY <1>5
  <2> QED
      BY <1>2, <1>5, <2>1, <2>2, <2>3
<1>11. PartsRight'
  <2> SUFFICES ASSUME NEW c \in Computation, NEW k \in 1..Len(parts[c])
               PROVE  /\ parts'[c][k].inputs =
                           SubSeq(planes[c], (k - 1) * partial_size[c] + 1,
                                  Demux!SmallerOf(Len(planes[c]),
                                                  (k - 1) * partial_size[c] + partial_size[c]))
                      /\ \/ parts'[c][k].computed
                         \/ \E u \in DemuxWorker : part'[u] = [of |-> c, index |-> k]
                                                   /\ demuxWorker'[u] = "compute"
    <3>1. \A c \in Computation : Len(parts'[c]) = Len(parts[c])
        BY <1>5, <1>6
    <3> QED
        BY <1>2, <3>1 DEF PartsRight, Demux!SmallerOf
  <2>1. CASE c = d /\ k = j
      BY <1>6, <2>1 DEF DemuxInv, PartsRight
  <2>2. CASE ~(c = d /\ k = j)
    <3>1. parts'[c][k] = parts[c][k]
        BY <1>5, <1>6, <2>2
    <3>2. part[v] # [of |-> c, index |-> k]
        BY <1>3, <2>2
    <3> QED
        BY <1>5, <3>1, <3>2, OthersKept
  <2> QED
      BY <2>1, <2>2
<1> QED
    BY <1>7, <1>8, <1>9, <1>10, <1>11 DEF DemuxInv

\* One part less is missing, and its worker is done with it.
LEMMA DemuxCompleteInv ==
  ASSUME DemuxInv, NEW v \in DemuxWorker, Demux!NotifyComplete(v)
  PROVE  DemuxInv'
<1> DEFINE d == part[v].of
<1>1. DemuxTypeOK
    BY DEF DemuxInv
<1>2. /\ demuxWorker[v] = "complete"
      /\ missing' = [missing EXCEPT ![d] = @ - 1]
      /\ part' = [part EXCEPT ![v] = [of |-> None, index |-> 0]]
      /\ demuxWorker' = [demuxWorker EXCEPT ![v] = "take"]
      /\ UNCHANGED <<demuxQueue, demuxAbort, demuxNetwork, demuxCaller, planes, partial_size,
                     to_queue, parts>>
    BY DEF Demux!NotifyComplete, Demux!Goto
<1>3. d \in Computation /\ d # None
    BY <1>1, <1>2 DEF DemuxInv, DemuxTypeOK, PartsHeld
<1>4. part[v].of = d
    OBVIOUS
<1> HIDE DEF d
<1>5. /\ part'[v].of = None /\ demuxWorker'[v] = "take"
      /\ \A u \in DemuxWorker : u # v => part'[u] = part[u] /\ demuxWorker'[u] = demuxWorker[u]
      /\ missing'[d] = missing[d] - 1
      /\ \A c \in Computation : c # d => missing'[c] = missing[c]
    BY <1>1, <1>2, <1>3 DEF DemuxTypeOK
<1>6. /\ Len(parts[d]) \in Nat /\ missing[d] \in Nat /\ to_queue[d] \in Nat
      /\ Cardinality(InQueue(d)) \in Nat /\ Cardinality(Holding(d)) \in Nat
      /\ missing[d] = to_queue[d] + Cardinality(InQueue(d)) + Cardinality(Holding(d))
    BY <1>3, CountsTyped
<1>7. ASSUME NEW c \in Computation
      PROVE  /\ Cardinality(Holding(c)') = Cardinality(Holding(c)) - (IF c = d THEN 1 ELSE 0)
             /\ Cardinality(Adding(c)') = Cardinality(Adding(c))
  <2>1. c # None
      BY NetworkMuxAssumption
  <2>2. /\ Cardinality(Holding(c)') = Cardinality(Holding(c))
             + (IF part'[v].of = c THEN 1 ELSE 0) - (IF part[v].of = c THEN 1 ELSE 0)
        /\ Cardinality(Adding(c)') = Cardinality(Adding(c))
             + (IF part'[v].of = c /\ demuxWorker'[v] = "add" THEN 1 ELSE 0)
             - (IF part[v].of = c /\ demuxWorker[v] = "add" THEN 1 ELSE 0)
      BY <1>5, HoldersChange
  <2>3. Cardinality(Holding(c)) \in Nat /\ Cardinality(Adding(c)) \in Nat
      BY HoldersFinite
  <2> QED
      BY <1>2, <1>4, <1>5, <2>1, <2>2, <2>3
<1>8. missing[d] > 0 /\ missing[d] - 1 \in Nat
  <2>1. v \in Holding(d) /\ IsFiniteSet(Holding(d))
      BY <1>4, HoldersFinite DEF Holding
  <2>2. Cardinality(Holding(d)) # 0
      BY <2>1, FS_EmptySet
  <2> QED
      BY <1>6, <2>2
<1>9. DemuxTypeOK'
  <2>1. missing' \in [Computation -> Nat]
    <3>1. missing \in [Computation -> Nat]
        BY <1>1 DEF DemuxTypeOK
    <3> QED
        BY <1>2, <1>8, <3>1
  <2>2. part' \in [DemuxWorker -> [of : Computation \cup {None}, index : Nat]]
    <3>1. [of |-> None, index |-> 0] \in [of : Computation \cup {None}, index : Nat]
        OBVIOUS
    <3> QED
        BY <1>1, <1>2, <3>1 DEF DemuxTypeOK
  <2> QED
      BY <1>1, <1>2, <2>1, <2>2 DEF DemuxTypeOK
<1>10. PartsCounted'
  <2> SUFFICES ASSUME NEW c \in Computation
               PROVE  /\ missing'[c] = to_queue'[c] + Cardinality(InQueue(c)')
                                         + Cardinality(Holding(c)')
                      /\ Splits(c)' = to_queue'[c] + Cardinality(InQueue(c)')
                                        + Cardinality(Adding(c)') + Len(parts'[c])
      BY DEF PartsCounted
  <2>1. Splits(c)' = Splits(c) /\ InQueue(c)' = InQueue(c)
      BY <1>2 DEF Splits, Demux!CeilDiv, InQueue
  <2>2. /\ missing[c] \in Nat /\ to_queue[c] \in Nat /\ Len(parts[c]) \in Nat
        /\ Cardinality(InQueue(c)) \in Nat /\ Cardinality(Holding(c)) \in Nat
        /\ Cardinality(Adding(c)) \in Nat
        /\ missing[c] = to_queue[c] + Cardinality(InQueue(c)) + Cardinality(Holding(c))
        /\ Splits(c) = to_queue[c] + Cardinality(InQueue(c)) + Cardinality(Adding(c))
                         + Len(parts[c])
      BY CountsTyped
  <2>3. missing'[c] = missing[c] - (IF c = d THEN 1 ELSE 0)
      BY <1>5, <2>2
  <2>4. to_queue'[c] = to_queue[c] /\ parts'[c] = parts[c]
      BY <1>2
  <2> QED
      BY <1>7, <2>1, <2>2, <2>3, <2>4
<1>11. Owners'
    BY <1>2, <1>5, <1>8 DEF DemuxInv, Owners
<1>12. PartsHeld'
    BY <1>2, <1>5 DEF DemuxInv, PartsHeld
<1>13. PartsRight'
  <2> SUFFICES ASSUME NEW c \in Computation, NEW k \in 1..Len(parts[c])
               PROVE  /\ parts[c][k].inputs =
                           SubSeq(planes[c], (k - 1) * partial_size[c] + 1,
                                  Demux!SmallerOf(Len(planes[c]),
                                                  (k - 1) * partial_size[c] + partial_size[c]))
                      /\ \/ parts[c][k].computed
                         \/ \E u \in DemuxWorker : part'[u] = [of |-> c, index |-> k]
                                                   /\ demuxWorker'[u] = "compute"
      BY <1>2 DEF PartsRight, Demux!SmallerOf
  <2> QED
      BY <1>2, <1>5, OthersKept
<1> QED
    BY <1>9, <1>10, <1>11, <1>12, <1>13 DEF DemuxInv

\* Every step of a worker of the second network keeps its invariant.
LEMMA DemuxWorkerInv ==
  ASSUME DemuxInv, NEW v \in DemuxWorker, Demux!DemuxWorkerStep(v)
  PROVE  DemuxInv'
<1>1. ASSUME Demux!WaitForWork(v) PROVE DemuxInv'
  <2>1. demuxWorker[v] \in {"wait", "asleep", "take"}
      BY <1>1 DEF Demux!WaitForWork
  <2>2. \E x \in {"wait", "asleep", "take", "ended"} :
          demuxWorker' = [demuxWorker EXCEPT ![v] = x]
      BY <1>1 DEF Demux!WaitForWork, Demux!Goto
  <2>3. UNCHANGED <<demuxQueue, demuxAbort, demuxNetwork, demuxCaller, planes, partial_size,
                    missing, to_queue, parts, part>>
      BY <1>1 DEF Demux!WaitForWork, Demux!computations
  <2> QED
      BY <2>1, <2>2, <2>3, DemuxIdleInv
<1> QED
    BY <1>1, DemuxTakeInv, DemuxAddInv, DemuxComputeInv, DemuxCompleteInv
    DEF Demux!DemuxWorkerStep

\* Every step keeps the invariant of the second network.
LEMMA DemuxInvKept == MuxInv /\ DemuxInv /\ [Next]_vars => DemuxInv'
<1> SUFFICES ASSUME MuxInv, DemuxInv, [Next]_vars PROVE DemuxInv'
    OBVIOUS
<1>1. ASSUME UNCHANGED demuxVars PROVE DemuxInv'
  <2>1. UNCHANGED <<demuxQueue, demuxAbort, demuxNetwork, demuxCaller, planes, partial_size,
                    missing, to_queue, parts, demuxWorker, part>>
      BY <1>1 DEF demuxVars
  <2>2. \A c : Holding(c)' = Holding(c) /\ Adding(c)' = Adding(c) /\ InQueue(c)' = InQueue(c)
               /\ Splits(c)' = Splits(c)
      BY <2>1 DEF Holding, Adding, InQueue, Splits, Demux!CeilDiv
  <2>3. DemuxTypeOK' /\ Owners' /\ PartsHeld'
      BY <2>1 DEF DemuxInv, DemuxTypeOK, Owners, PartsHeld
  <2>4. PartsCounted'
      BY <2>1, <2>2 DEF DemuxInv, PartsCounted
  <2>5. PartsRight'
      BY <2>1 DEF DemuxInv, PartsRight, Demux!SmallerOf
  <2> QED
      BY <2>3, <2>4, <2>5 DEF DemuxInv
<1>2. ASSUME DemuxInternal PROVE DemuxInv'
    BY <1>2, DemuxEnqueueInv, DemuxWorkerInv DEF DemuxInternal
<1>3. ASSUME DemuxDestructor PROVE DemuxInv'
    BY <1>3, DemuxDestructorInv DEF DemuxDestructor
<1>4. ASSUME NEW w \in Worker, ComputeBlocking(w) PROVE DemuxInv'
  <2>1. batch[w] # None
      BY <1>4 DEF ComputeBlocking, ComputeBatch, MuxInv, Batches
  <2>2. batch[w] \in Computation /\ inputs[batch[w]] \in Seq(Plane)
      BY <2>1 DEF MuxInv, TypeOK
  <2> QED
      BY <1>4, <2>2, ComputeBlockingInv DEF ComputeBlocking
<1>5. ASSUME NEW w \in Worker, ComputeReturns(w) PROVE DemuxInv'
  <2>1. batch[w] # None
      BY <1>5 DEF ComputeReturns, Computed, MuxInv, Batches
  <2>2. batch[w] \in Computation
      BY <2>1 DEF MuxInv, TypeOK
  <2> QED
      BY <1>5, <2>2, DemuxReturnInv DEF ComputeReturns
<1> QED
    BY <1>1, <1>2, <1>3, <1>4, <1>5 DEF Next, MuxInternal, vars

-----------------------------------------------------------------------------
(* The steps of both networks together.                                    *)

\* Next is a step of the first network, or leaves it alone.
LEMMA MuxStepOf == [Next]_vars => [MuxNext]_muxVars
BY DEF Next, vars, MuxInternal, DemuxInternal, DemuxDestructor, ComputeBlocking, ComputeReturns,
       MuxNext

\* What a step of the first network alone does to its workers and their batches.
Placed(w) ==
  \/ worker'[w] = worker[w] /\ batch'[w] = batch[w]
  \/ worker[w] = "gather" /\ worker'[w] = "compute" /\ batch'[w] = batch[w]
  \/ /\ worker[w] = "gather" /\ worker'[w] = "gather" /\ batch'[w] \in Computation
     /\ IF batch[w] = None THEN parent[batch'[w]] = None ELSE batch'[w] = batch[w]
  \/ /\ worker[w] \in {"wait", "asleep", "notify"}
     /\ worker'[w] \in {"wait", "asleep", "ended", "gather"} /\ batch'[w] = None

MuxEffect ==
  /\ computed' = computed
  /\ \A w \in Worker : Placed(w)
  /\ \A b \in Computation : parent'[b] = None => parent[b] = None
  /\ \A b \in Computation :
       inputs'[b] = inputs[b] \/ parent[b] = None
         \/ \E w \in Worker : worker[w] = "gather" /\ batch[w] = b

\* What a step of the first network does to its workers, batches and inputs.
LEMMA MuxStepEffect ==
  ASSUME MuxInv, MuxStep
  PROVE  MuxEffect
<1> USE DEF queueing, computations, working, Goto
<1>1. TypeOK
    BY DEF MuxInv
<1>2. \A w \in Worker : worker[w] \in {"wait", "asleep"} => batch[w] = None
    BY DEF MuxInv, Batches
<1>3. ASSUME UNCHANGED <<parent, inputs, computed, batch>>,
             \A w \in Worker : \/ worker'[w] = worker[w]
                               \/ worker[w] = "gather" /\ worker'[w] = "compute"
                               \/ /\ worker[w] \in {"wait", "asleep"}
                                  /\ worker'[w] \in {"wait", "asleep", "ended", "gather"}
      PROVE  MuxEffect
    BY <1>2, <1>3 DEF MuxEffect, Placed
<1>4. ASSUME NEW c \in Computation, Enqueue(c) \/ Return(c) PROVE MuxEffect
  <2>1. UNCHANGED <<parent, inputs, computed, batch>>
      BY <1>4 DEF Enqueue, Return
  <2>2. \/ worker' = worker
        \/ \E v \in Worker : worker[v] = "asleep" /\ worker' = [worker EXCEPT ![v] = "wait"]
      BY <1>4 DEF Enqueue, Return, NotifyOne, Asleep
  <2>3. \A w \in Worker : \/ worker'[w] = worker[w]
                          \/ worker[w] = "asleep" /\ worker'[w] = "wait"
      BY <1>1, <2>2 DEF TypeOK
  <2> QED
      BY <1>3, <2>1, <2>3
<1>5. ASSUME NEW w \in Worker, WaitForWork(w) \/ WakeSpuriously(w) \/ Gathered(w)
      PROVE  MuxEffect
  <2>1. UNCHANGED <<parent, inputs, computed, batch>>
      BY <1>5 DEF WaitForWork, WakeSpuriously, Gathered
  <2>2. \A v \in Worker : \/ worker'[v] = worker[v]
                          \/ worker[v] = "gather" /\ worker'[v] = "compute"
                          \/ /\ worker[v] \in {"wait", "asleep"}
                             /\ worker'[v] \in {"wait", "asleep", "ended", "gather"}
      BY <1>1, <1>5 DEF WaitForWork, WakeSpuriously, Gathered, TypeOK
  <2> QED
      BY <1>3, <2>1, <2>2
<1>6. ASSUME NEW w \in Worker, Gather(w) PROVE MuxEffect
  <2> DEFINE c == Head(queue_)
             b == IF batch[w] = None THEN c ELSE batch[w]
  <2>1. /\ queue_ \in Seq(Computation) /\ queue_ # <<>> /\ c = queue_[1] /\ c \in Computation
        /\ 1 \in 1..Len(queue_) /\ b \in Computation /\ worker[w] = "gather"
      BY <1>1, <1>6 DEF Gather, Fits, TypeOK
  <2>2. parent[c] = None
      BY <2>1 DEF MuxInv, Queued
  <2>3. /\ parent' = [parent EXCEPT ![c] = b]
        /\ inputs' = [inputs EXCEPT ![b] = @ \o Planes(c)]
        /\ batch' = [batch EXCEPT ![w] = b]
        /\ UNCHANGED <<computed, worker>>
      BY <1>6 DEF Gather
  <2>4. b \in Computation /\ IF batch[w] = None THEN b = c ELSE b = batch[w]
      BY <2>1
  <2> HIDE DEF b, c
  <2>5. b # None
      BY <2>4, NetworkMuxAssumption
  <2>6. \A v \in Worker : Placed(v)
      BY <1>1, <2>1, <2>2, <2>3, <2>4 DEF Placed, TypeOK
  <2>7. \A x \in Computation : parent'[x] = None => parent[x] = None
      BY <1>1, <2>3, <2>5 DEF TypeOK
  <2>8. \A x \in Computation : x # b => inputs'[x] = inputs[x]
      BY <1>1, <2>3 DEF TypeOK
  <2>9. \/ parent[b] = None
        \/ worker[w] = "gather" /\ batch[w] = b
      BY <2>1, <2>2, <2>4
  <2> QED
      BY <2>3, <2>6, <2>7, <2>8, <2>9 DEF MuxEffect
<1>7. ASSUME NEW w \in Worker, NotifyReady(w) PROVE MuxEffect
  <2>1. /\ worker[w] = "notify" /\ UNCHANGED <<parent, inputs, computed>>
        /\ \/ UNCHANGED <<worker, batch>>
           \/ /\ worker' = [worker EXCEPT ![w] = "wait"]
              /\ batch' = [batch EXCEPT ![w] = None]
      BY <1>7 DEF NotifyReady
  <2>2. \A v \in Worker : Placed(v)
      BY <1>1, <2>1 DEF Placed, TypeOK
  <2> QED
      BY <2>1, <2>2 DEF MuxEffect
<1>8. ASSUME Destructor PROVE MuxEffect
  <2>1. UNCHANGED <<parent, inputs, computed, batch>>
      BY <1>8 DEF Destructor, Abort, NotifyAll, Wait, Drain, Destroyed
  <2>2. \A w \in Worker : \/ worker'[w] = worker[w]
                          \/ worker[w] = "asleep" /\ worker'[w] = "wait"
      BY <1>8 DEF Destructor, Abort, NotifyAll, Wait, Drain, Destroyed, Asleep
  <2> QED
      BY <1>3, <2>1, <2>2
<1> QED
    BY <1>4, <1>5, <1>6, <1>7, <1>8 DEF MuxStep, MuxWorkerStep

\* A step of the first network leaves the callers of the second one alone.
LEMMA FollowedMux ==
  ASSUME MuxInv, BatchesFollowed, MuxInternal
  PROVE  BatchesFollowed'
<1>1. MuxEffect /\ UNCHANGED <<demuxCaller, planes>>
    BY MuxStepEffect DEF MuxInternal, demuxVars
<1>2. ASSUME NEW w \in Worker, batch'[w] # None
      PROVE  /\ worker'[w] \in {"gather", "compute"} => demuxCaller'[batch'[w]] = "filling"
             /\ worker'[w] = "notify" => demuxCaller'[batch'[w]] = "returned"
  <2>1. Placed(w)
      BY <1>1 DEF MuxEffect
  <2> QED
      BY <1>1, <1>2, <2>1 DEF Placed, BatchesFollowed
<1>3. ASSUME NEW b \in Computation
      PROVE  /\ parent'[b] = None => demuxCaller'[b] = "filling"
             /\ demuxCaller'[b] # "filling" => planes'[b] = inputs'[b]
             /\ demuxCaller'[b] \in {"enqueue", "wait"} =>
                  \E w \in Worker : worker'[w] = "computing" /\ batch'[w] = b
             /\ b \in computed' => demuxCaller'[b] = "returned"
  <2>1. parent'[b] = None => demuxCaller'[b] = "filling"
      BY <1>1 DEF MuxEffect, BatchesFollowed
  <2>2. demuxCaller'[b] # "filling" => planes'[b] = inputs'[b]
    <3>1. demuxCaller[b] # "filling" => inputs'[b] = inputs[b]
      <4>1. ASSUME NEW w \in Worker, worker[w] = "gather", batch[w] = b
            PROVE  demuxCaller[b] = "filling"
          BY <4>1, NetworkMuxAssumption DEF BatchesFollowed
      <4> QED
          BY <1>1, <4>1 DEF MuxEffect, BatchesFollowed
    <3> QED
        BY <1>1, <3>1 DEF BatchesFollowed
  <2>3. \A w \in Worker : worker[w] = "computing" => worker'[w] = "computing" /\ batch'[w] = batch[w]
      BY <1>1 DEF MuxEffect, Placed
  <2>4. demuxCaller'[b] \in {"enqueue", "wait"} =>
          \E w \in Worker : worker'[w] = "computing" /\ batch'[w] = b
      BY <1>1, <2>3 DEF BatchesFollowed
  <2>5. b \in computed' => demuxCaller'[b] = "returned"
      BY <1>1 DEF MuxEffect, BatchesFollowed
  <2> QED
      BY <2>1, <2>2, <2>4, <2>5
<1> QED
    BY <1>2, <1>3 DEF BatchesFollowed

\* A step of the second network leaves the callers that fill a batch, or that have its results, alone.
LEMMA FollowedDemux ==
  ASSUME MuxInv, DemuxInv, BatchesFollowed, DemuxInternal \/ DemuxDestructor
  PROVE  BatchesFollowed'
<1>1. UNCHANGED <<worker, batch, parent, inputs, computed, planes>>
    BY DEF DemuxInternal, DemuxDestructor, muxVars, queueing, computations, working,
           Demux!Enqueue, Demux!DemuxWorkerStep, Demux!WaitForWork, Demux!Take,
           Demux!AddParentFromNetwork, Demux!Compute, Demux!NotifyComplete, Demux!Abort,
           Demux!NotifyAll, Demux!Wait, Demux!computations
<1>2. \/ demuxCaller' = demuxCaller
      \/ \E c \in Computation : /\ demuxCaller[c] = "enqueue"
                                /\ demuxCaller' = [demuxCaller EXCEPT ![c] = "wait"]
      \/ \E c \in Computation : demuxCaller' = [demuxCaller EXCEPT ![c] = @]
    BY DEF DemuxInternal, DemuxDestructor,
           Demux!Enqueue, Demux!DemuxWorkerStep, Demux!WaitForWork, Demux!Take,
           Demux!AddParentFromNetwork, Demux!Compute, Demux!NotifyComplete, Demux!Abort,
           Demux!NotifyAll, Demux!Wait, Demux!computations
<1>3. demuxCaller \in [Computation -> {"filling", "enqueue", "wait", "returned"}]
    BY DEF DemuxInv, DemuxTypeOK
<1>4. \A c \in Computation : \/ demuxCaller'[c] = demuxCaller[c]
                             \/ demuxCaller[c] = "enqueue" /\ demuxCaller'[c] = "wait"
    BY <1>2, <1>3
<1>5. ASSUME NEW w \in Worker, batch'[w] # None
      PROVE  /\ worker'[w] \in {"gather", "compute"} => demuxCaller'[batch'[w]] = "filling"
             /\ worker'[w] = "notify" => demuxCaller'[batch'[w]] = "returned"
  <2>1. batch[w] \in Computation
      BY <1>1, <1>5 DEF MuxInv, TypeOK
  <2>2. \/ demuxCaller'[batch[w]] = demuxCaller[batch[w]]
        \/ demuxCaller[batch[w]] = "enqueue"
      BY <1>4, <2>1
  <2> QED
      BY <1>1, <1>5, <2>2 DEF BatchesFollowed
<1>6. ASSUME NEW b \in Computation
      PROVE  /\ parent'[b] = None => demuxCaller'[b] = "filling"
             /\ demuxCaller'[b] # "filling" => planes'[b] = inputs'[b]
             /\ demuxCaller'[b] \in {"enqueue", "wait"} =>
                  \E w \in Worker : worker'[w] = "computing" /\ batch'[w] = b
             /\ b \in computed' => demuxCaller'[b] = "returned"
    BY <1>1, <1>4 DEF BatchesFollowed
<1> QED
    BY <1>5, <1>6 DEF BatchesFollowed

\* A batch that is handed to the second network is with one worker only.
LEMMA FollowedCompute ==
  ASSUME MuxInv, DemuxInv, BatchesFollowed, NEW w \in Worker, ComputeBlocking(w)
  PROVE  BatchesFollowed'
<1> DEFINE b == batch[w]
<1>1. /\ worker[w] = "compute" /\ worker' = [worker EXCEPT ![w] = "computing"]
      /\ UNCHANGED <<batch, parent, inputs, computed>>
    BY DEF ComputeBlocking, ComputeBatch, Goto, queueing, computations
<1>2. b # None /\ b \in Computation /\ parent[b] = b
      /\ \A v \in Worker : batch[v] = b => v = w
    BY <1>1 DEF MuxInv, Batches, TypeOK
<1>3. /\ demuxCaller[b] = "filling" /\ planes' = [planes EXCEPT ![b] = inputs[b]]
      /\ demuxCaller' = [demuxCaller EXCEPT ![b] = IF inputs[b] = <<>> THEN "wait" ELSE "enqueue"]
    BY DEF ComputeBlocking, Demux!ComputeBlocking
<1>4. batch[w] = b
    OBVIOUS
<1> HIDE DEF b
<1>5. /\ demuxCaller'[b] \in {"wait", "enqueue"} /\ planes'[b] = inputs[b]
      /\ \A c \in Computation : c # b => demuxCaller'[c] = demuxCaller[c]
                                         /\ planes'[c] = planes[c]
      /\ worker'[w] = "computing" /\ \A v \in Worker : v # w => worker'[v] = worker[v]
    BY <1>1, <1>2, <1>3 DEF DemuxInv, DemuxTypeOK, MuxInv, TypeOK
<1>6. ASSUME NEW v \in Worker, batch'[v] # None
      PROVE  /\ worker'[v] \in {"gather", "compute"} => demuxCaller'[batch'[v]] = "filling"
             /\ worker'[v] = "notify" => demuxCaller'[batch'[v]] = "returned"
  <2>1. batch[v] \in Computation
      BY <1>1, <1>6 DEF MuxInv, TypeOK
  <2> QED
      BY <1>1, <1>2, <1>5, <1>6, <2>1 DEF BatchesFollowed
<1>7. ASSUME NEW c \in Computation
      PROVE  /\ parent'[c] = None => demuxCaller'[c] = "filling"
             /\ demuxCaller'[c] # "filling" => planes'[c] = inputs'[c]
             /\ demuxCaller'[c] \in {"enqueue", "wait"} =>
                  \E v \in Worker : worker'[v] = "computing" /\ batch'[v] = c
             /\ c \in computed' => demuxCaller'[c] = "returned"
  <2>1. CASE c = b
      BY <1>1, <1>2, <1>3, <1>4, <1>5, <2>1 DEF BatchesFollowed
  <2>2. CASE c # b
    <3>1. \A v \in Worker : worker[v] = "computing" => v # w
        BY <1>1
    <3> QED
        BY <1>1, <1>5, <2>2, <3>1 DEF BatchesFollowed
  <2> QED
      BY <2>1, <2>2
<1> QED
    BY <1>6, <1>7 DEF BatchesFollowed

\* A batch that returns from the second network has all its results.
LEMMA FollowedReturn ==
  ASSUME MuxInv, DemuxInv, BatchesFollowed, NEW w \in Worker, ComputeReturns(w)
  PROVE  BatchesFollowed'
<1> DEFINE b == batch[w]
<1>1. /\ worker[w] = "computing" /\ worker' = [worker EXCEPT ![w] = "notify"]
      /\ computed' = computed \cup {b}
      /\ UNCHANGED <<batch, parent, inputs>>
    BY DEF ComputeReturns, Computed, Goto, queueing, computations
<1>2. b # None /\ b \in Computation /\ parent[b] = b
      /\ \A v \in Worker : batch[v] = b => v = w
    BY <1>1 DEF MuxInv, Batches, TypeOK
<1>3. /\ demuxCaller[b] = "wait" /\ planes' = planes
      /\ demuxCaller' = [demuxCaller EXCEPT ![b] = "returned"]
    BY DEF ComputeReturns, Demux!Return
<1>4. batch[w] = b
    OBVIOUS
<1> HIDE DEF b
<1>5. /\ demuxCaller'[b] = "returned"
      /\ \A c \in Computation : c # b => demuxCaller'[c] = demuxCaller[c]
      /\ worker'[w] = "notify" /\ \A v \in Worker : v # w => worker'[v] = worker[v]
    BY <1>1, <1>2, <1>3 DEF DemuxInv, DemuxTypeOK, MuxInv, TypeOK
<1>6. ASSUME NEW v \in Worker, batch'[v] # None
      PROVE  /\ worker'[v] \in {"gather", "compute"} => demuxCaller'[batch'[v]] = "filling"
             /\ worker'[v] = "notify" => demuxCaller'[batch'[v]] = "returned"
  <2>1. batch[v] \in Computation
      BY <1>1, <1>6 DEF MuxInv, TypeOK
  <2> QED
      BY <1>1, <1>2, <1>4, <1>5, <1>6, <2>1 DEF BatchesFollowed
<1>7. ASSUME NEW c \in Computation
      PROVE  /\ parent'[c] = None => demuxCaller'[c] = "filling"
             /\ demuxCaller'[c] # "filling" => planes'[c] = inputs'[c]
             /\ demuxCaller'[c] \in {"enqueue", "wait"} =>
                  \E v \in Worker : worker'[v] = "computing" /\ batch'[v] = c
             /\ c \in computed' => demuxCaller'[c] = "returned"
  <2>1. CASE c = b
      BY <1>1, <1>2, <1>3, <1>5, <2>1, NetworkMuxAssumption DEF BatchesFollowed
  <2>2. CASE c # b
      BY <1>1, <1>3, <1>4, <1>5, <2>2 DEF BatchesFollowed
  <2> QED
      BY <2>1, <2>2
<1> QED
    BY <1>6, <1>7 DEF BatchesFollowed

\* The second network is destroyed after the threads of the first one have ended.
LEMMA ShutdownKept ==
  ASSUME Shutdown, [Next]_vars
  PROVE  Shutdown'
<1> USE DEF queueing, computations, working, Shutdown
<1>1. CASE MuxInternal
  <2>1. demuxNetwork' = demuxNetwork
      BY <1>1 DEF MuxInternal, demuxVars
  <2>2. \/ worker' = worker /\ network' = network
        \/ network \notin {"drain", "gone"} /\ network' \notin {"drain", "gone"}
        \/ network = "join" /\ network' = "drain" /\ worker' = worker
             /\ \A w \in Worker : worker[w] = "ended"
        \/ network = "drain" /\ worker' = worker
        \/ network' = network /\ \E w \in Worker : worker[w] # "ended"
      BY <1>1 DEF MuxInternal, MuxStep, Enqueue, Return, MuxWorkerStep, WaitForWork, Gather,
                  Gathered, NotifyReady, WakeSpuriously, Destructor, Abort, NotifyAll, Wait,
                  Drain, Destroyed
  <2> QED
      BY <2>1, <2>2
<1>2. CASE DemuxInternal
    BY <1>2 DEF DemuxInternal, muxVars, Demux!Enqueue, Demux!DemuxWorkerStep,
                Demux!WaitForWork, Demux!Take, Demux!AddParentFromNetwork, Demux!Compute,
                Demux!NotifyComplete
<1>3. CASE DemuxDestructor
    BY <1>3 DEF DemuxDestructor, muxVars
<1>4. ASSUME NEW w \in Worker, ComputeBlocking(w) \/ ComputeReturns(w) PROVE Shutdown'
  <2>1. /\ worker[w] # "ended" /\ network' = network /\ demuxNetwork' = demuxNetwork
      BY <1>4 DEF ComputeBlocking, ComputeReturns, ComputeBatch, Computed,
                  Demux!ComputeBlocking, Demux!Return
  <2> QED
      BY <2>1
<1>5. CASE UNCHANGED vars
    BY <1>5 DEF vars, muxVars, demuxVars
<1> QED
    BY <1>1, <1>2, <1>3, <1>4, <1>5 DEF Next

\* What the two networks promise to each other holds in all reachable states.
THEOREM NetworksInvariant == Spec => []NetworksInv
<1>1. Init => NetworksInv
  <2> SUFFICES ASSUME Init PROVE NetworksInv
      OBVIOUS
  <2>1. MuxInv /\ DemuxInv
      BY InitInv, DemuxInitInv DEF Init
  <2>2. BatchesFollowed
      BY DEF Init, MuxInit, Demux!DemuxInit, BatchesFollowed
  <2>3. Shutdown
      BY DEF Init, MuxInit, Demux!DemuxInit, Shutdown
  <2> QED
      BY <2>1, <2>2, <2>3 DEF NetworksInv
<1>2. NetworksInv /\ [Next]_vars => NetworksInv'
  <2> SUFFICES ASSUME NetworksInv, [Next]_vars PROVE NetworksInv'
      OBVIOUS
  <2>1. MuxInv /\ DemuxInv /\ BatchesFollowed /\ Shutdown
      BY DEF NetworksInv
  <2>2. MuxInv' /\ DemuxInv'
      BY <2>1, MuxStepOf, MuxInvKept, DemuxInvKept
  <2>3. BatchesFollowed'
    <3>1. CASE UNCHANGED vars
        BY <2>1, <3>1 DEF vars, muxVars, demuxVars, queueing, computations, working,
                          BatchesFollowed
    <3> QED
        BY <2>1, <3>1, FollowedMux, FollowedDemux, FollowedCompute, FollowedReturn DEF Next
  <2>4. Shutdown'
      BY <2>1, ShutdownKept
  <2> QED
      BY <2>2, <2>3, <2>4 DEF NetworksInv
<1> QED
    BY <1>1, <1>2, PTL DEF Spec

\* The second network does to the first what MuxSpec lets any network do: a batch is
\* computed some time after it was given away, by steps the first does not see.
THEOREM MuxRefined == Spec => MuxSpec
<1>1. Init => MuxInit
    BY DEF Init
<1> QED
    BY <1>1, MuxStepOf, PTL DEF Spec, MuxSpec

\* However computations are merged, an answer is made of the caller's own results
\* (network_mux.cc:75); only the destructor lets callers go without any.
THEOREM OwnAnswers == Spec => []AnsweredWithOwn
<1>1. NetworksInv => AnsweredWithOwn
    BY MuxPromises DEF NetworksInv
<1> QED
    BY <1>1, NetworksInvariant, PTL

\* network_mux.cc:195: no worker touches a computation whose caller has its answer and
\* may have destroyed it.
THEOREM ChildrenAlive == Spec => []ChildrenStillWait
<1>1. NetworksInv => ChildrenStillWait
    BY MuxPromises DEF NetworksInv
<1> QED
    BY <1>1, NetworksInvariant, PTL

\* network_demux.cc:190: a thread of the second network has a part only of a computation
\* whose owner waits, and none is left in it or in the queue when it is destroyed.
THEOREM PartsAlive == Spec => []PartsStillWanted
<1>1. NetworksInv => PartsStillWanted
  <2> SUFFICES ASSUME NetworksInv PROVE PartsStillWanted
      OBVIOUS
  <2>1. DemuxInv /\ DemuxTypeOK
      BY DEF NetworksInv, DemuxInv
  <2>2. ASSUME NEW c \in Computation, demuxCaller[c] \in {"filling", "returned"}
        PROVE  InQueue(c) = {} /\ Holding(c) = {}
    <3>1. missing[c] = 0
        BY <2>1, <2>2 DEF DemuxInv, Owners
    <3> DEFINE q == Cardinality(InQueue(c))
               h == Cardinality(Holding(c))
    <3>2. q \in Nat /\ h \in Nat /\ to_queue[c] \in Nat /\ 0 = to_queue[c] + q + h
        BY <2>1, <3>1, CountsTyped
    <3> HIDE DEF q, h
    <3>3. q = 0 /\ h = 0
        BY <3>2
    <3>4. IsFiniteSet(InQueue(c)) /\ IsFiniteSet(Holding(c))
        BY <2>1, InQueueFinite, HoldersFinite DEF DemuxTypeOK
    <3> QED
        BY <3>3, <3>4, FS_EmptySet DEF q, h
  <2>3. ASSUME NEW v \in DemuxWorker, part[v].of # None
        PROVE  demuxCaller[part[v].of] \in {"enqueue", "wait"}
    <3>1. part[v].of \in Computation /\ v \in Holding(part[v].of)
        BY <2>1, <2>3 DEF DemuxTypeOK, Holding
    <3>2. demuxCaller[part[v].of] \in {"filling", "enqueue", "wait", "returned"}
        BY <2>1, <3>1 DEF DemuxTypeOK
    <3> QED
        BY <2>2, <3>1, <3>2
  <2>4. ASSUME demuxNetwork # "alive"
        PROVE  demuxQueue = <<>> /\ \A v \in DemuxWorker : part[v].of = None
    <3>1. \A w \in Worker : worker[w] = "ended"
        BY <2>4 DEF NetworksInv, Shutdown
    <3>2. \A c \in Computation : demuxCaller[c] \notin {"enqueue", "wait"}
        BY <3>1 DEF NetworksInv, BatchesFollowed
    <3>3. \A c \in Computation : demuxCaller[c] \in {"filling", "returned"}
        BY <2>1, <3>2 DEF DemuxTypeOK
    <3>4. \A v \in DemuxWorker : part[v].of = None
        BY <2>1, <2>3, <3>2 DEF DemuxTypeOK
    <3>5. ASSUME demuxQueue # <<>> PROVE FALSE
      <4>1. 1 \in 1..Len(demuxQueue) /\ demuxQueue[1] \in Computation
          BY <2>1, <3>5 DEF DemuxTypeOK
      <4>2. 1 \in InQueue(demuxQueue[1])
          BY <4>1 DEF InQueue
      <4> QED
          BY <2>2, <3>3, <4>1, <4>2
    <3> QED
        BY <3>4, <3>5
  <2> QED
      BY <2>3, <2>4 DEF PartsStillWanted
<1> QED
    BY <1>1, NetworksInvariant, PTL

\* A product of naturals less than another with the same factor.
LEMMA Factor ==
  ASSUME NEW k \in Nat \ {0}, NEW q \in Nat, NEW d \in Nat, k * q < k * d
  PROVE  q < d
<1>1. CASE q >= d
  <2>1. q = d + (q - d) /\ q - d \in Nat
      BY <1>1
  <2> DEFINE x == q - d
  <2>2. x \in Nat /\ k * x \in Nat
      BY <2>1
  <2> HIDE DEF x
  <2>3. k * (d + x) = (k * d) + (k * x) /\ k * d \in Nat
      BY <2>2
  <2>4. q = d + x
      BY <2>1 DEF x
  <2> QED
      BY <2>2, <2>3, <2>4
<1> QED
    BY <1>1

\* The i-th input, as GetQVal() finds it again: in which part, and where in it.
LEMMA SampleInSlice ==
  ASSUME NEW s \in Seq(Plane), NEW k \in Nat \ {0}, NEW i \in 1..Len(s)
  PROVE  /\ (i - 1) \div k \in Nat /\ 1 + ((i - 1) \div k) \in 1..Demux!CeilDiv(Len(s), k)
         /\ SubSeq(s, ((i - 1) \div k) * k + 1,
                   Demux!SmallerOf(Len(s), ((i - 1) \div k) * k + k))[1 + ((i - 1) % k)] = s[i]
<1> DEFINE q == (i - 1) \div k
           r == (i - 1) % k
           d == Demux!CeilDiv(Len(s), k)
<1>1. i - 1 \in Nat /\ Len(s) \in Nat
    OBVIOUS
<1>2. q \in Nat /\ r \in 0..(k - 1) /\ i - 1 = k * q + r
    BY <1>1, Division
<1>3. d \in Nat /\ Len(s) <= k * d
    BY <1>1, CeilDivOf
<1> HIDE DEF q, r, d
<1> DEFINE kq == k * q
           kd == k * d
<1>4. kq \in Nat /\ kd \in Nat /\ q * k = kq
    BY <1>2, <1>3
<1> HIDE DEF kq, kd
<1>5. kq < kd
    BY <1>1, <1>2, <1>3, <1>4 DEF kq, kd
<1>6. q < d
    BY <1>2, <1>3, <1>5, Factor DEF kq, kd
<1> DEFINE n == Demux!SmallerOf(Len(s), kq + k)
<1>7. n \in Nat /\ n <= Len(s) /\ 1 + r \in 1..(n - (kq + 1) + 1) /\ kq + 1 + (1 + r) - 1 = i
  <2>1. i - 1 = kq + r
      BY <1>2 DEF kq
  <2> QED
      BY <1>1, <1>2, <1>4, <2>1 DEF Demux!SmallerOf
<1> HIDE DEF n
<1>8. \A j \in (kq + 1)..n : s[j] \in Plane
    BY <1>4, <1>7
<1>9. SubSeq(s, kq + 1, n)[1 + r] = s[kq + 1 + (1 + r) - 1]
    BY <1>4, <1>7, <1>8, SubSeqProperties
<1>10. SubSeq(s, q * k + 1, Demux!SmallerOf(Len(s), q * k + k))[1 + r] = s[i]
    BY <1>4, <1>7, <1>9 DEF n
<1>11. q \in Nat /\ 1 + q \in 1..d
    BY <1>2, <1>3, <1>6
<1> QED
    BY <1>10, <1>11 DEF q, r, d

\* Merged by one network and split by the other, whose indices are computed apart from each
\* other, what a caller reads is the result of its own inputs, and was computed.
THEOREM OwnResults == Spec => []ResultsAreOwn
<1>1. NetworksInv => ResultsAreOwn
  <2> SUFFICES ASSUME NetworksInv, NEW c \in Computation, caller[c] = "returned",
                      parent[c] # None, NEW i \in 1..Size[c]
               PROVE  LET b == parent[c]
                          sample == idx_in_parent[c] + i
                      IN
                      /\ Demux!Sample(b, sample) = Input(c, i)
                      /\ parts[b][1 + ((sample - 1) \div partial_size[b])].computed
      BY DEF ResultsAreOwn, Demux!Sample
  <2> DEFINE b == parent[c]
             sample == idx_in_parent[c] + i
  <2>1. MuxInv /\ DemuxInv
      BY DEF NetworksInv
  <2>2. b \in Computation /\ b \in computed
      BY <2>1 DEF MuxInv, TypeOK, Answers
  <2>3. /\ idx_in_parent[c] \in Nat /\ Size[c] \in Nat /\ inputs[b] \in Seq(Plane)
      BY <2>1, <2>2, NetworkMuxAssumption DEF MuxInv, TypeOK
  <2>4. sample \in 1..Len(inputs[b]) /\ inputs[b][sample] = Input(c, i)
    <3>1. idx_in_parent[c] + Size[c] <= Len(inputs[b]) /\ Len(inputs[b]) \in Nat
        BY <2>1, <2>3 DEF MuxInv, Slices
    <3> QED
        BY <2>1, <2>3, <3>1 DEF MuxInv, Slices
  <2>5. demuxCaller[b] = "returned" /\ planes[b] = inputs[b]
      BY <2>2 DEF NetworksInv, BatchesFollowed
  <2> HIDE DEF b, sample
  <2>6. planes[b] # <<>>
      BY <2>3, <2>4, <2>5
  <2>7. partial_size[b] \in Nat \ {0} /\ to_queue[b] = 0 /\ missing[b] = 0
      BY <2>1, <2>2, <2>5, <2>6 DEF DemuxInv, DemuxTypeOK, Owners
  <2>8. Holding(b) = {} /\ Len(parts[b]) = Splits(b)
    <3> DEFINE q == Cardinality(InQueue(b))
               h == Cardinality(Holding(b))
               a == Cardinality(Adding(b))
    <3>1. /\ q \in Nat /\ h \in Nat /\ a \in Nat /\ Len(parts[b]) \in Nat
          /\ 0 = 0 + q + h /\ Splits(b) = 0 + q + a + Len(parts[b])
        BY <2>1, <2>2, <2>7, CountsTyped
    <3> HIDE DEF q, h, a
    <3>2. q = 0 /\ h = 0
        BY <3>1
    <3>3. Holding(b) = {}
        BY <3>2, HoldersFinite, FS_EmptySet DEF h
    <3>4. Adding(b) = {}
        BY <3>3 DEF Adding, Holding
    <3>5. a = 0
        BY <3>4, FS_EmptySet DEF a
    <3> QED
        BY <3>1, <3>2, <3>3, <3>5
  <2> DEFINE q == (sample - 1) \div partial_size[b]
             r == (sample - 1) % partial_size[b]
             k == 1 + q
  <2>9. /\ q \in Nat /\ k \in 1..Len(parts[b])
        /\ SubSeq(planes[b], q * partial_size[b] + 1,
                  Demux!SmallerOf(Len(planes[b]), q * partial_size[b] + partial_size[b]))[1 + r]
             = inputs[b][sample]
    <3>1. /\ q \in Nat /\ k \in 1..Demux!CeilDiv(Len(inputs[b]), partial_size[b])
          /\ SubSeq(inputs[b], q * partial_size[b] + 1,
                    Demux!SmallerOf(Len(inputs[b]), q * partial_size[b] + partial_size[b]))[1 + r]
               = inputs[b][sample]
        BY <2>3, <2>4, <2>7, SampleInSlice
    <3> HIDE DEF q, r, k
    <3>2. Splits(b) = Demux!CeilDiv(Len(inputs[b]), partial_size[b])
        BY <2>5, <2>6 DEF Splits
    <3> QED
        BY <2>5, <2>8, <3>1, <3>2
  <2>10. /\ parts[b][k].inputs =
              SubSeq(planes[b], q * partial_size[b] + 1,
                     Demux!SmallerOf(Len(planes[b]), q * partial_size[b] + partial_size[b]))
         /\ parts[b][k].computed
    <3>1. ASSUME NEW v \in DemuxWorker, part[v] = [of |-> b, index |-> k] PROVE FALSE
        BY <2>8, <3>1 DEF Holding
    <3>2. k - 1 = q
        BY <2>9
    <3> HIDE DEF k, q
    <3> QED
        BY <2>1, <2>2, <2>9, <3>1, <3>2 DEF DemuxInv, PartsRight
  <2>11. Demux!Sample(b, sample) = inputs[b][sample]
    <3>1. Demux!Sample(b, sample) = parts[b][k].inputs[1 + r]
        BY DEF Demux!Sample
    <3> QED
        BY <2>9, <2>10, <3>1
  <2> QED
      BY <2>4, <2>10, <2>11 DEF b, sample
<1> QED
    BY <1>1, NetworksInvariant, PTL
===============================================================================
