----------------------------- MODULE MCRunView -----------------------------
\* RunView for TLC: the configurations name the prompts and the requests.
EXTENDS RunView
=============================================================================
