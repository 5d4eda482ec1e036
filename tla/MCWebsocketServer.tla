------------------------- MODULE MCWebsocketServer -------------------------
(* A small instance of WebsocketServer: two connections.                    *)
EXTENDS WebsocketServer, TLC

CONSTANTS c1, c2
=============================================================================
