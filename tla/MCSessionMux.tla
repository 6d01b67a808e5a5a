---------------------------- MODULE MCSessionMux ----------------------------
(***************************************************************************)
(* Two streams.  On the first the client writes three bytes against the   *)
(* server's window of two, and the server, which writes none, closes its   *)
(* direction when it likes; the second stream carries nothing, and only    *)
(* opens, closes and is refused: the server's limit is one stream.         *)
(***************************************************************************)
EXTENDS SessionMux
ByEnd(c, v) == [e \in End |-> IF e = "client" THEN c ELSE v]
Limits == ByEnd(2, 1)
Windows == ByEnd(1, 2)
Payload == ByEnd([i \in Ids |-> IF i = 1 THEN 3 ELSE 0], [i \in Ids |-> 0])
=============================================================================
