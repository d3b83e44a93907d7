------------------------------- MODULE ItemLife -------------------------------
(***************************************************************************)
(* What the pipeline promises about the life of each item, without saying  *)
(* how it knows: it is first seen at any stage, moves forward (a window    *)
(* may reopen, a pending rule may be proposed again, a stalled one may     *)
(* resume), may leave the main line for good, and may be purged. Nothing   *)
(* comes back from withdrawn, superseded or purged.                        *)
(***************************************************************************)
EXTENDS Naturals

CONSTANT ItemId
VARIABLE life

Stages  == << "proposed", "comment_open", "comment_closed",
              "final_pending_effective", "effective" >>
Ends    == {"withdrawn", "superseded"}
OffLine == Ends \cup {"stalled"}

OnLine  == {Stages[n] : n \in DOMAIN Stages}

Forward(a, b) == \E m, n \in DOMAIN Stages : m < n /\ a = Stages[m] /\ b = Stages[n]

Moves(a, b) ==
  \/ a = "unborn" /\ b \in OnLine \cup OffLine
  \/ Forward(a, b)
  \/ a \in {"comment_closed", "final_pending_effective"} /\ b = "comment_open"
  \/ a \in OnLine /\ b \in OffLine
  \/ a = "stalled" /\ b \in OnLine \cup Ends
  \/ a \in OnLine \cup OffLine /\ b = "purged"

Init == life = [i \in ItemId |-> "unborn"]

\* Any number of items move in one step: a tick or a link takes all that are due.
Next ==
  /\ DOMAIN life' = ItemId /\ life' = [i \in ItemId |-> life'[i]]
  /\ \A i \in ItemId : life'[i] = life[i] \/ Moves(life[i], life'[i])

Spec == Init /\ [][Next]_life
===============================================================================
