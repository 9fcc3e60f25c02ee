------------------------------- MODULE MCApp -------------------------------
(* Two chats on the list, one preference, two files an upload, one reload, *)
(* four message ids: a question and its reply after another one.           *)
EXTENDS App

MCSeeds == <<1, 2>>
=============================================================================
