------------------------------ MODULE MCDaemon ------------------------------
(* One client, a watched file and one outside: see MCDaemon.cfg.            *)
EXTENDS Daemon
=============================================================================
