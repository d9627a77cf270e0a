----------------------------- MODULE MCAttempt -----------------------------
(* An instance of Attempt for TLC: every kind of message.                  *)
EXTENDS Attempt

MCMessages ==
  {{"text"}, {"tools"}, {"text", "tools"}, {"empty", "tools"}, {"done"}, {"error"}, {}}
=============================================================================
