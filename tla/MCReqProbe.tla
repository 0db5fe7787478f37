----------------------------- MODULE MCReqProbe -----------------------------
(* Values of ReqProbe's constants for TLC.  Threads 1 and 2 belong to process *)
(* 1 (Redis: main thread and an IO thread), thread 3 is another process.      *)
EXTENDS ReqProbe

MCTgid == [t \in Threads |-> IF t = 3 THEN 3 ELSE 1]

\* tcp_sendmsg fails, or sends 5 bytes.
MCRetVals == {-1, 5}

\* Two clients on two remote ports, one server address.
MCRcvSaddr == [s \in Socks |-> 9]
MCDport == [s \in Socks |-> 40000 + s]
=============================================================================
