-------------------------- MODULE MCOutageRecording --------------------------
EXTENDS OutageRecording
=============================================================================
