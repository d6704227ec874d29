---------------------------- MODULE MCTurnEngine ----------------------------
(* Instances of TurnEngine for TLC.                                        *)
EXTENDS TurnEngine, TLC

CONSTANTS t1, t2, t3, s1, s2

OneTurn == {t1}
TwoTurns == {t1, t2}
OneSession == {s1}
SameSession == [t \in Turn |-> s1]

NoModes == {}
AllModes == {"manual", "auto", "yolo"}

(* The second call of a round is external, and that of the first round is  *)
(* made to an MCP server.                                                  *)
SecondExternal == {c \in Call : c[2] = 2}
FirstRoundMcp == {c \in SecondExternal : c[1] = 1}

(* The calls of the first round are made to an MCP server. *)
FirstRoundCalls == {c \in Call : c[1] = 1}
=============================================================================
