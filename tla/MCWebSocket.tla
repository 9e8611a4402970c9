------------------------------ MODULE MCWebSocket ------------------------------
(* A small instance of WebSocket: the client talks more, and closes.          *)
EXTENDS WebSocket

CONSTANTS server, client

Talk == [e \in End |->
            IF e = client THEN [messages |-> 1, fragments |-> 1, pings |-> 1, closes |-> 1]
                          ELSE [messages |-> 1, fragments |-> 2, pings |-> 1, closes |-> 0]]
=============================================================================
