---------------------------- MODULE MCLspRegistry ----------------------------
(* Instances of LspRegistry for TLC: a few worlds, each with the calls that  *)
(* are hard to interleave.                                                   *)
EXTENDS LspRegistry, TLC

CONSTANTS u, v, go

In(relies, handlers, notices, first, second) ==
  [relies |-> relies, handlers |-> handlers, notices |-> notices,
   calls |-> (u :> first) @@ (v :> second)]

FewWorlds == {
  In("deadlines", "quiet", 0, {"RestartServer"}, {"StartServer"}),
  In("answers", "quiet", 0, {"GetClientsForFile"}, {"StopServer", "StopAll"}),
  In("answers", "quiet", 1, {"StartServer", "RegisterHandler"}, {"GetClient", "Request"}),
  In("deadlines", "asking", 1, {"StartServer"}, {"GetClient", "Kill"})}
=============================================================================
