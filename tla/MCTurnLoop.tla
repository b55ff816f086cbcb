----------------------------- MODULE MCTurnLoop -----------------------------
(* TurnLoop for TLC: a chain of two endpoints; the retry config lists one  *)
(* of them again, one more, and one that is not registered.  The turn      *)
(* finds a new transcript, or an exchange with a tool round.               *)
EXTENDS TurnLoop

MCPriors == {<<>>, <<Plain(1, "user")>> \o Round(2, 1) \o <<Plain(4, "text")>>}
ASSUME MCPriorsPaired == PriorsPaired

MCChain == <<"e1", "e2">>
MCCandidates == <<"e1", "e4", "e3">>
=============================================================================
