--------------------------- MODULE MCInactiveConn ---------------------------
(* InactiveConn with values that a configuration file cannot express.      *)
EXTENDS InactiveConn, TLC

CONSTANTS c1, c2

\* Whoever is accepted as c2 sends nothing; whoever is c1 may send more than one
\* recv() takes.
MCMaxUnread == c1 :> 3 @@ c2 :> 0
=============================================================================
