---------------------------- MODULE MCPersistence ----------------------------
(* Model-checking instances of Persistence: what command handlers call.    *)
EXTENDS Persistence

MCScripts ==
  {<<"persist", "persist", "flush_batch">>, <<"persist_unfenced", "defer_async", "flush_batch">>,
   <<"save_snapshot", "defer">>, <<"delete_messages", "fail">>}

(* Batches of one event, fenced and unfenced.                              *)
MCSingleEvents == {<<"persist", "flush_batch">>, <<"persist_unfenced", "flush_batch">>}
=============================================================================
