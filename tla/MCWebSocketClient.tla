--------------------------- MODULE MCWebSocketClient ---------------------------
(* TLC instance of WebSocketClient. *)
EXTENDS WebSocketClient

===============================================================================
