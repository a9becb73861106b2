---------------------------- MODULE MCConnection ----------------------------
(* Instances of Connection: what may go wrong together. *)
EXTENDS Connection

(* Failures that dhmp_connect recovers from; the same with connections     *)
(* that break after they were kept; a connection lost while it is made, or *)
(* failing at one end; calls that fail for good; an epoll thread ahead of  *)
(* the main thread, and a second that is too short.                        *)
Mixed ==
  {[kinds |-> {"resolve", "route", "serve", "accept"}, most |-> 2],
   [kinds |-> {"serve", "accept", "disconnect"}, most |-> 2],
   [kinds |-> {"drop", "client_error", "server_error"}, most |-> 1],
   [kinds |-> {"create", "connect", "disconnect"}, most |-> 2],
   [kinds |-> {"overtake"}, most |-> 1],
   [kinds |-> {"late"}, most |-> 1]}

TooLate == {[kinds |-> {"late"}, most |-> 1]}
=============================================================================
