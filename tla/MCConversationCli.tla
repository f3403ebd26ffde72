------------------------- MODULE MCConversationCli -------------------------
(* ConversationCli for TLC: one terminal follows the stream while another    *)
(* one runs the other commands; or a short conversation of one participant.  *)
EXTENDS ConversationCli

CONSTANTS p1, p2

MCProcs == {p1, p2}
MCCommands ==
    [p \in MCProcs |->
       IF p = p1 THEN {"open", "renew", "revoke", "send", "flush", "messages",
                       "acknowledge"}
                 ELSE {"watch"}]

MCOneProc == {p1}
MCOneCommands ==
    [p \in MCOneProc |-> {"open", "send", "watch", "acknowledge"}]
=============================================================================
