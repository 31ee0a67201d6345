--------------------------- MODULE MCWsConnection ---------------------------
(***************************************************************************)
(* Values for the constants of WsConnection.  The services are the two the *)
(* lanes tell apart; presence is independent by default, chat is not.      *)
(***************************************************************************)
EXTENDS WsConnection

TwoServices == <<"presence", "chat">>

=============================================================================
