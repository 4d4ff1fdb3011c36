--------------------------- MODULE MCRemoteClient ---------------------------
(* A few concurrent calls to one remote server. *)
EXTENDS RemoteClient
=============================================================================
