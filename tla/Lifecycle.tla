------------------------------ MODULE Lifecycle ------------------------------
(***************************************************************************)
(* The canonical lifecycle of a tracked item and the legality of a move    *)
(* between two states, translated from core/transitions.py.                *)
(*                                                                         *)
(*   proposed -> comment_open -> comment_closed                            *)
(*            -> final_pending_effective -> effective                      *)
(*                                                                         *)
(* with three side states: withdrawn, stalled and superseded.              *)
(***************************************************************************)
EXTENDS Naturals

Rank == [ proposed                |-> 0,
          comment_open            |-> 1,
          comment_closed          |-> 2,
          final_pending_effective |-> 3,
          effective               |-> 4 ]

Mainline == {"proposed", "comment_open", "comment_closed",
             "final_pending_effective", "effective"}
Terminal == {"withdrawn", "superseded"}
Side     == {"withdrawn", "stalled", "superseded"}
State    == Mainline \cup Side

\* Mutant of BackwardOk: a window that has closed does not open again.
BackwardOfFinal == { <<"final_pending_effective", "comment_open">> }

\* The two legal moves back along the main line.
BackwardOk == { <<"comment_closed", "comment_open">>,
                <<"final_pending_effective", "comment_open">> }

\* A derived state that is nothing new: the current one, or the stale echo of a
\* superseded item whose document is still in its feed.
Echo(current, new) == current = new \/ (current = "superseded" /\ new \in Mainline)

\* A derived state that the item may move to.
Advances(current, new) ==
  /\ current \notin Terminal
  /\ \/ new \in Side
     \/ current = "stalled"
     \/ <<current, new>> \in BackwardOk
     \/ Rank[new] > Rank[current]

\* classify_transition: what becomes of a state derived for an item in `current`.
Verdict(current, new) ==
  IF Echo(current, new) THEN "noop" ELSE IF Advances(current, new) THEN "ok" ELSE "anomaly"
=============================================================================
