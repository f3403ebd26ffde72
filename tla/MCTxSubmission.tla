--------------------------- MODULE MCTxSubmission ---------------------------
EXTENDS TxSubmission

CONSTANTS i1

Online == [offline |-> FALSE, nonce |-> None, chain_id |-> FALSE, height |-> FALSE,
           hash |-> FALSE, ttl |-> None, submit |-> TRUE, wait |-> TRUE,
           signed_tx_out |-> TRUE, force |-> FALSE]
Offline == [Online EXCEPT !.offline = TRUE, !.nonce = 0, !.chain_id = TRUE,
                          !.submit = FALSE, !.wait = FALSE]

MCOptions ==
    {Online,
     [Online EXCEPT !.force = TRUE],
     [Online EXCEPT !.signed_tx_out = FALSE],
     [Online EXCEPT !.nonce = 1, !.wait = FALSE],
     [Online EXCEPT !.ttl = Ttl + 1],
     [Online EXCEPT !.height = TRUE, !.hash = TRUE, !.submit = FALSE],
     [Online EXCEPT !.height = TRUE],
     Offline,
     [Offline EXCEPT !.ttl = 1],
     [Offline EXCEPT !.height = TRUE, !.hash = TRUE, !.ttl = 2, !.submit = TRUE],
     [Offline EXCEPT !.nonce = None]}

MCIntents == {i1}
=============================================================================
