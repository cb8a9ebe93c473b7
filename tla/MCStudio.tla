------------------------------ MODULE MCStudio ------------------------------
EXTENDS Studio

\* A surface of the mode the link names, and one of another mode.
MCDeepLinks == {Route("automate", "delegations"), Route("automate", "chat")}
=============================================================================
