------------------------ MODULE MCScheduledMessages ------------------------
(* Instances of ScheduledMessages for TLC.                                  *)
EXTENDS ScheduledMessages, TLC

CONSTANTS m1, m2, p1, p2, r1, r2

\* The entity as the code's own column names rebuild it from RETURNING *.
RawColumns == {"status", "content"}
\* The entity as the unit tests' driver rebuilds it.
AllColumns == Column \cup Recipient

\* Safety only: the pods are interchangeable, and so are the requests.
PodRequestSymmetry == Permutations({p1, p2}) \cup Permutations({r1, r2})
=============================================================================
