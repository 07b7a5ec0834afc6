--------------------------- MODULE MCRemoteEvents ---------------------------
(* RemoteEvents for TLC: the order in which _initialize_remote, then        *)
(* async_init_signals, create the signal handlers.                         *)
EXTENDS RemoteEvents

MCSignals == <<"remote", "int", "fpe">>
=============================================================================
