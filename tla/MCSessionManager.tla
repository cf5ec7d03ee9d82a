---------------------------- MODULE MCSessionManager ----------------------------
EXTENDS SessionManager
=============================================================================
