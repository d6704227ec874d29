--------------------------- MODULE MCSessionStore ---------------------------
(* Instances of SessionStore for TLC.                                      *)
EXTENDS SessionStore, TLC

CONSTANTS t1, t2, e1, e2, e3, s1

TwoTurns == {t1, t2}
TwoEdits == {e1, e2}
OneSession == {s1}
SameSession == [x \in Task |-> s1]

=============================================================================
