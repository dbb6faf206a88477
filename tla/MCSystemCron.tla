---------------------------- MODULE MCSystemCron ----------------------------
EXTENDS SystemCron
CONSTANTS p, q
=============================================================================
