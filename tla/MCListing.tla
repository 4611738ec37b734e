----------------------------- MODULE MCListing -----------------------------
(* Instances of Listing for TLC.                                           *)
EXTENDS Listing, TLC

CONSTANTS tab, other, s1, s2
=============================================================================
