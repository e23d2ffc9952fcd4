---------------------------- MODULE MCVenueFeed -----------------------------
(* A small instance of VenueFeed for TLC. *)
EXTENDS VenueFeed

Up     == {1}
UpDown == {1, -1}
=============================================================================
