---------------------------- MODULE MCResultPool ----------------------------
(* A small pool for TLC: every slot is reused, and generations wrap.       *)
EXTENDS ResultPool, TLC

CONSTANTS listing, chunk

MCContents == {listing, chunk}
=============================================================================
