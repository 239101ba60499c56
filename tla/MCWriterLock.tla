---------------------------- MODULE MCWriterLock ----------------------------
(* An MCP re-sync and the bridge in the portal, and a scan child. *)
EXTENDS WriterLock

CONSTANTS bridge, m1, scan, child, portal

Homes == [c \in Callers |-> IF c = scan THEN child ELSE portal]
=============================================================================
