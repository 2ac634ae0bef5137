---------------------------- MODULE FollowersMC ----------------------------
(* Model-checking instances of Followers. *)
EXTENDS Followers, TLC

CONSTANTS ann, bob, cem, home, aside, d1
=============================================================================
