---------------------------- MODULE MCChannels ----------------------------
(* Two interchangeable clients, one of whom may register and use each account. *)
EXTENDS Channels, TLC

ClientSymmetry == Permutations(Clients) \cup Permutations(Passwords)
=============================================================================
