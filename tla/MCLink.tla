------------------------------- MODULE MCLink -------------------------------
(* Link with small delays: one unit is the timeout of a request.  One command *)
(* of the clients is enough to answer the request of another.                 *)
EXTENDS Link

MCCommandes == {"commande"}
=============================================================================
