----------------------------- MODULE MCSession -----------------------------
\* The session model as TLC runs it: the constants are plain numbers.
EXTENDS Session

=============================================================================
