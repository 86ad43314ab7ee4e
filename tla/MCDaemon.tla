-------------------------------- MODULE MCDaemon --------------------------------
(* Two clients of one session; the clients are interchangeable, and so are *)
(* the workers.                                                            *)
EXTENDS Daemon, TLC

Symmetric == Permutations(Clients) \cup Permutations(Workers)
=============================================================================
