------------------------------ MODULE MCChats ------------------------------
(* Small instances of ChatListing: a private chat and a group. *)
EXTENDS ChatListing

MCTwoChats == {1, 2}
MCPrivate == {1}
=============================================================================
