--------------------------- MODULE MCMonitorDaemon ---------------------------
EXTENDS MonitorDaemon
=============================================================================
