--------------------------- MODULE MC_ResumableConn ---------------------------
(* Small instances of ResumableConn. *)
EXTENDS ResumableConn

Load(client, server) == [e \in Ends |-> IF e = Client THEN client ELSE server]

\* A byte each way, or two bytes from the server
MC_Mixed == {Load(1, 1), Load(0, 2)}

MC_Upload == {Load(2, 0)}

MC_Download == {Load(0, 1)}
===============================================================================
