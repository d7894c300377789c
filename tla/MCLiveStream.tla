---------------------------- MODULE MCLiveStream ----------------------------
(* LiveStream for TLC: two chats.                                            *)
EXTENDS LiveStream
CONSTANTS c1, c2, h1
MCChats == {c1, c2}
MCOneChat == {c1}
=============================================================================
