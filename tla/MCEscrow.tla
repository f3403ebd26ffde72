------------------------------ MODULE MCEscrow ------------------------------
(***************************************************************************)
(* Instance of Escrow: a payer (1), two agents (2 and 3), a third agent    *)
(* (4) that belongs to the payer, and three arbitrators, one of whom (6)   *)
(* is of the entity of agent 2 and never eligible for it.  Agent 3 and     *)
(* arbitrator 7 may join the entity of agent 2 at any time.                *)
(***************************************************************************)
EXTENDS Escrow

MCAddress == 1..7
MCEntity == <<1, 2, 3, 1, 5, 2, 7>>
MCLinks == {<<3, 2>>, <<7, 2>>}
MCArbitrators == {5, 6, 7}

Pay(r, b) == [recipient |-> r, bps |-> b]
Won(p) == [party |-> p, outcome |-> "Won"]
Lost(p) == [party |-> p, outcome |-> "Lost"]

\* The amounts 8 and 8 exceed the largest amount, 9; their sum modulo 10 is
\* the escrow of 6.
MCSchedules == {<<6>>, <<1, 5>>, <<8, 8>>, <<2, 2, 2>>, <<>>}

\* The parties of a deal and its settlement approver.
MCSides == {<<<<1, 2>>, None>>, <<<<1, 2, 3>>, 3>>, <<<<1, 2, 3>>, None>>,
            <<<<2, 3>>, 3>>, <<<<1, 2, 3, 4>>, 4>>}

MCShares == {<<>>, <<Pay(2, 3333), Pay(3, 6667)>>,
             <<Pay(3, 5000), Pay(1, 2500), Pay(2, 2500)>>,
             <<Pay(2, 5000), Pay(2, 5000)>>, <<Pay(2, 9999), Pay(1, 2)>>}

Offer(side, provider, x, s, h, e) ==
    [proposer |-> 1, parties |-> side[1], escrow |-> 6, arbitrator |-> x,
     milestones |-> s, provider |-> provider, shares |-> h,
     approver |-> side[2], expiresAt |-> e]

MCOffers ==
    {Offer(side, 2, x, s, h, 0) :
        side \in MCSides, x \in {None, 6}, s \in MCSchedules, h \in MCShares}
    \cup {Offer(side, 2, 7, <<1, 5>>, <<>>, 2) : side \in MCSides}
    \cup {Offer(<<<<1, 4>>, None>>, 4, None, <<6>>, <<>>, 0)}

MCVerdicts == {<<Pay(1, 5000), Pay(2, 5000)>>, <<Pay(2, 10000)>>,
               <<Pay(2, 5000)>>, <<Pay(1, 3333), Pay(3, 6667)>>}

MCEffectLists == {<<>>, <<Won(2), Lost(1)>>, <<Won(1)>>,
                  <<Won(1), Lost(2), Lost(3)>>}

MCPlans == {<<>>, <<3>>, <<1, 2>>, <<2, 2>>}
=============================================================================
