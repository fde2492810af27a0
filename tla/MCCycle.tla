------------------------------ MODULE MCCycle -------------------------------
(* Small instances of Webserv as an implementation of RequestCycle. *)
EXTENDS WebservCycle, TLC

\* Connections, descriptors and processes are interchangeable.
Symmetry == Permutations(Http) \cup Permutations(Fd) \cup Permutations(Cgi)
=============================================================================
