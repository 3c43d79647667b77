----------------------------- MODULE MCRjClient -----------------------------
\* RjClient for TLC: every constant gets its value in the configurations.
EXTENDS RjClient
=============================================================================
