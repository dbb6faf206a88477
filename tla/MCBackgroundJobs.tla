-------------------------- MODULE MCBackgroundJobs --------------------------
EXTENDS BackgroundJobs
CONSTANTS j1, j2, inbox, tool
=============================================================================
