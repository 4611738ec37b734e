------------------------------ MODULE MCInbox ------------------------------
(* Instances of Inbox for TLC: a photo two senders call the same, a file   *)
(* called like its .part, and a note.                                      *)
EXTENDS Inbox, TLC

CONSTANTS s1, s2, s3, s4, photo, part, note

PhotosAndNote == s1 :> photo @@ s2 :> photo @@ s3 :> part @@ s4 :> note
TwoPhotos     == s1 :> photo @@ s2 :> photo
PartOfPhoto   == part :> photo
=============================================================================
