--------------------------- MODULE MCChatPipeline ---------------------------
(* An instance of ChatPipeline for TLC.  The tags keep what matters of     *)
(* "<think>" and "</think>": a first character of their own, in common.    *)
EXTENDS ChatPipeline

MCOpenTag == <<"<", "t">>
MCCloseTag == <<"<", "/", "t">>
MCNoContext == <<"n">>
MCRejected == <<"r">>
=============================================================================
