---------------------------- MODULE MCGuidedFlow ----------------------------
EXTENDS GuidedFlow, TLC
\* A press goes one or two entries back or forward.
Presses == {-2, -1, 1, 2}
=============================================================================
