----------------------------- MODULE MCHttpServer -----------------------------
(***************************************************************************)
(* HttpServer on its own: three connections, two request slots.            *)
(***************************************************************************)
EXTENDS HttpServer
==============================================================================
