------------------------ MODULE MCInteractionBroker -------------------------
(* Instances of InteractionBroker for TLC. *)
EXTENDS InteractionBroker, TLC

CONSTANTS r1, r2, r3, i1, i2, i3

ThreeCalls == {r1, r2, r3}
TwoIds == {i1, i2}

(* The second call uses the id of the first. *)
SharedId == [r \in Request |-> IF r = r3 THEN i2 ELSE i1]
=============================================================================
