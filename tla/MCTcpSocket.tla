----------------------------- MODULE MCTcpSocket -----------------------------
(***************************************************************************)
(* Two descriptors, a client that connects and a provider to connect to,   *)
(* two messages to the provider, of two bytes and of one, and one of two   *)
(* bytes to the client.                                                    *)
(***************************************************************************)
EXTENDS TcpSocket, TLC

CONSTANTS f1, f2, client, provider, m1, m2, m3

MCTo == (m1 :> provider) @@ (m2 :> provider) @@ (m3 :> client)
MCSize == (m1 :> 2) @@ (m2 :> 1) @@ (m3 :> 2)
=============================================================================
