------------------------------ MODULE MCSockets ------------------------------
(***************************************************************************)
(* Two sockets, a listener and one connection that comes again and again,  *)
(* mailboxes of one message, one server, and two selects of which one      *)
(* reads both sockets and the other only the second.                       *)
(***************************************************************************)
EXTENDS Sockets

CONSTANTS listener, connection, server, first, second

Both == <<first, {0, 1}>>
One  == <<second, {1}>>
SmallReadSets == {Both, One}
=============================================================================
