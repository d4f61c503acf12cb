---------------------------- MODULE MCSyncQueue ----------------------------
(* Model checking of SyncQueue.                                            *)
EXTENDS SyncQueue
=============================================================================
