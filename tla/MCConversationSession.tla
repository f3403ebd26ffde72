----------------------- MODULE MCConversationSession -----------------------
(***************************************************************************)
(* Instance of ConversationSession: service a has the certificates 1 and   *)
(* 2, service b the certificate 3.  Host 1 is an address, host 2 a name.   *)
(***************************************************************************)
EXTENDS ConversationSession

MCValidity == <<[from |-> 0, to |-> 6], [from |-> 3, to |-> 6],
                [from |-> 0, to |-> 6]>>
MCServices == {"a", "b"}
MCCerts == [s \in MCServices |-> IF s = "a" THEN {1, 2} ELSE {3}]

Advertise(s, interfaces) == [service |-> s, interfaces |-> interfaces]
Good(c) == Pin(c, MCValidity[c])
Wrong(c) == Pin(c, [from |-> 0, to |-> 5])

\* 1 is published at first; 2 prefers HTTPS; 3 and 4 rotate the certificate of a; 5 is
\* a move to b; 6 and 7 are mistakes.
MCProfile ==
    <<Advertise("a", <<ZinchaTlsV1(1, <<Good(1)>>), Https(2)>>),
      Advertise("a", <<Https(2), ZinchaTlsV1(1, <<Good(1)>>)>>),
      Advertise("a", <<ZinchaTlsV1(1, <<Good(1), Good(2)>>), Https(2)>>),
      Advertise("a", <<ZinchaTlsV1(1, <<Good(2)>>), Https(2)>>),
      Advertise("b", <<ZinchaTlsV1(1, <<Good(3)>>), Https(2)>>),
      Advertise("a", <<ZinchaTlsV1(1, <<Good(1), Good(1)>>), Https(2)>>),
      Advertise("a", <<ZinchaTlsV1(1, <<Wrong(1)>>)>>)>>

MCPeer == [id |-> 9, public |-> 9]
=============================================================================
