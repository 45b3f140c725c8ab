------------------------------ MODULE MCSession -----------------------------
\* Session with a user and a client: the constants have their values in Session.cfg.
EXTENDS Session, TLC
=============================================================================
