--------------------------- MODULE MCConversation ---------------------------
(* A session with two primaries, an interactive child and a few answers. *)
EXTENDS Conversation
CONSTANTS auto, build, coder
MCAgents == {auto, build}
MCAnswers == {<<>>, <<Plain>>, <<Interactive, Plain>>, <<Plain, Delegation>>, <<"handoff">>,
               <<"jobs">>}
=============================================================================
