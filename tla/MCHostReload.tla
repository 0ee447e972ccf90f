---------------------------- MODULE MCHostReload ----------------------------
EXTENDS HostReload
=============================================================================
