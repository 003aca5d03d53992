------------------------------- MODULE Networks -------------------------------
(***************************************************************************)
(* A multiplexing network over a demultiplexing one: the batches that the  *)
(* first merges from the computations of its callers are split again by    *)
(* the second. A batch of NetworkMux is a computation of NetworkDemux; its *)
(* worker waits there for the threads of the other network.                *)
(***************************************************************************)
EXTENDS NetworkMux

CONSTANTS DemuxWorker, MinimumSplitSize

ASSUME NetworksAssumption ==
  /\ IsFiniteSet(DemuxWorker) /\ DemuxWorker # {}
  /\ MinimumSplitSize \in Nat

VARIABLES
  demuxQueue, demuxAbort, demuxCaller, planes, partial_size, missing, to_queue, parts,
  demuxWorker, part, demuxNetwork

Demux == INSTANCE NetworkDemux WITH
  Worker <- DemuxWorker, queue_ <- demuxQueue, abort_ <- demuxAbort, caller <- demuxCaller,
  planes_ <- planes, partial_size_ <- partial_size, dataready_ <- missing,
  parents_ <- parts, worker <- demuxWorker, network <- demuxNetwork

demuxVars == <<demuxQueue, demuxAbort, demuxCaller, planes, partial_size, missing,
               to_queue, parts, demuxWorker, part, demuxNetwork>>
vars == <<muxVars, demuxVars>>

\* A worker of the first network gives its batch to the second, and waits.
ComputeBlocking(w) ==
  /\ ComputeBatch(w)
  /\ Demux!ComputeBlocking(batch[w], inputs[batch[w]])

ComputeReturns(w) ==
  /\ Computed(w)
  /\ Demux!Return(batch[w])

MuxInternal == MuxStep /\ UNCHANGED demuxVars

DemuxInternal ==
  /\ \/ \E c \in Computation : Demux!Enqueue(c)
     \/ \E v \in DemuxWorker : Demux!DemuxWorkerStep(v)
  /\ UNCHANGED muxVars

\* networks_ is destroyed after the body of the destructor of its owner.
DemuxDestructor ==
  /\ network = "gone"
  /\ Demux!Abort \/ Demux!NotifyAll \/ Demux!Wait
  /\ UNCHANGED muxVars

Init == MuxInit /\ Demux!DemuxInit

Next ==
  \/ MuxInternal \/ DemuxInternal \/ DemuxDestructor
  \/ \E w \in Worker : ComputeBlocking(w) \/ ComputeReturns(w)

\* Threads run on, and the destructor with them once it was called. Nobody need call
\* it, and nothing is owed by spurious wake-ups. Of the callers, who take few steps each,
\* it is enough that one that can run does.
Fairness ==
  /\ \A w \in Worker :
       WF_vars((MuxWorkerStep(w) /\ UNCHANGED demuxVars)
               \/ ComputeBlocking(w) \/ ComputeReturns(w))
  /\ \A v \in DemuxWorker : WF_vars(Demux!DemuxWorkerStep(v) /\ UNCHANGED muxVars)
  /\ WF_vars(\E c \in Computation : \/ Return(c) /\ UNCHANGED demuxVars
                                    \/ Demux!Enqueue(c) /\ UNCHANGED muxVars)
  /\ WF_vars(\/ (NotifyAll \/ Wait \/ Drain \/ Destroyed) /\ UNCHANGED demuxVars
             \/ DemuxDestructor)

Spec == Init /\ [][Next]_vars /\ Fairness

-----------------------------------------------------------------------------
(* Properties.                                                             *)

\* What a caller reads back through both networks, whose indices are computed apart
\* from each other, is the result of each of its own inputs, computed before it is read.
ResultsAreOwn ==
  \A c \in Computation : caller[c] = "returned" /\ parent[c] # None =>
    \A i \in 1..Size[c] :
      LET b == parent[c]
          sample == idx_in_parent[c] + i
      IN
      /\ Demux!Sample(b, sample) = Input(c, i)
      /\ parts[b][1 + ((sample - 1) \div partial_size[b])].computed

\* network_demux.cc:190: the threads of the second network use a batch without a lock;
\* its owner waits for it until the last of them has told that its part is complete, and
\* destroys the network only then.
PartsStillWanted ==
  /\ \A v \in DemuxWorker :
       part[v].of # None => demuxCaller[part[v].of] \in {"enqueue", "wait"}
  /\ demuxNetwork # "alive" => demuxQueue = <<>> /\ \A v \in DemuxWorker : part[v].of = None

\* Whoever computes gets an answer, also if the network is destroyed meanwhile.
CallersReturn ==
  \A c \in Computation : caller[c] = "waiting" ~> caller[c] = "returned"

\* Destroying the networks comes to an end, with threads asleep or busy.
DestructorReturns == abort_ ~> demuxNetwork = "gone"
===============================================================================
