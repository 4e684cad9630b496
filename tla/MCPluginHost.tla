---------------------------- MODULE MCPluginHost ----------------------------
(* Two tasks that call hooks, and a host whose revives may race.            *)
EXTENDS PluginHost

CONSTANTS c1, c2
=============================================================================
