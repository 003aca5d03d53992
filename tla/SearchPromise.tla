---------------------------- MODULE SearchPromise ----------------------------
(***************************************************************************)
(* What one search (classic Search object) promises to the thread that     *)
(* started it, whatever its worker threads do: it is "open" until a limit, *)
(* `stop`, or an abort decides its fate; a search that must answer is      *)
(* "committed" and answers exactly once; a silenced search never answers.  *)
(* SearchControl.tla is shown to implement this module.                    *)
(***************************************************************************)
CONSTANTS Move,     \* moves the search may answer with
          NoMove    \* "no best move known" (a default constructed Move)

VARIABLES phase,    \* "open", "committed", "answered" or "silenced"
          answer    \* the move sent with bestmove, NoMove before that

vars == <<phase, answer>>

Init == phase = "open" /\ answer = NoMove

\* A limit was reached in a search allowed to respond, or the client said stop.
Commit == /\ phase = "open"
          /\ phase' = "committed"
          /\ UNCHANGED answer

\* The client aborted a search that was not committed yet.
Silence == /\ phase = "open"
           /\ phase' = "silenced"
           /\ UNCHANGED answer

\* bestmove is sent: after the commitment, or in the very step that makes it.
Answer == /\ phase \in {"open", "committed"}
          /\ phase' = "answered"
          /\ answer' \in Move \cup {NoMove}

Next == Commit \/ Silence \/ Answer

\* A committed search answers: nothing may take the commitment back.
Spec == Init /\ [][Next]_vars /\ WF_vars(phase = "committed" /\ Answer)
==============================================================================
