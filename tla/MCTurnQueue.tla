---------------------------- MODULE MCTurnQueue ----------------------------
(* Instances of TurnQueue for TLC. *)
EXTENDS TurnQueue

CONSTANTS p1, p2, h1, h2

\* The two client requests are interchangeable.
HandlerSymmetry == Permutations(Handlers)

\* With crashes and failed writes, one request besides sendTurn and one other fault;
\* without them, two of each.
Budget ==
  \/ crashes = 0 /\ writeFaults = 0
  \/ faults <= 1 /\ asks <= 1
=============================================================================
