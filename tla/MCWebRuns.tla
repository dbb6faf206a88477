----------------------------- MODULE MCWebRuns ------------------------------
EXTENDS WebRuns
CONSTANTS r1, r2, ui
=============================================================================
