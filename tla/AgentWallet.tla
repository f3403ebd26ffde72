---------------------------- MODULE AgentWallet ----------------------------
(***************************************************************************)
(* The wallet of zincha-primitives (wallet/agent_wallet.rs).  A wallet is  *)
(* a record: the nonce of the next transaction and the validity window it  *)
(* stamps on what it signs.  A builder is what its body does besides       *)
(* serialising its arguments: whether it can refuse them, and whether the  *)
(* envelope's amount is an argument or zero.  All builders share one       *)
(* order: the arguments are checked, the nonce is taken inside the         *)
(* Transaction literal, and only then is the transaction signed.           *)
(***************************************************************************)
EXTENDS Integers, FiniteSets, TLC

\* max_valid_block_height = 0: the transaction never expires
NoWindow == -1

\* What a builder's body does: `checked` when it can refuse its arguments,
\* `amount` when the envelope carries an amount the caller gives.
Plain   == [checked |-> FALSE, amount |-> FALSE]
Checks  == [checked |-> TRUE,  amount |-> FALSE]
Carries == [checked |-> FALSE, amount |-> TRUE]
ChecksAndCarries == [checked |-> TRUE, amount |-> TRUE]

TransferBuilders ==
    "build_transfer" :> Carries @@ "build_entity_link" :> Plain
        @@ "build_transfer_with_priority_fee" :> Carries

AgentBuilders ==
    [b \in {"build_register_agent", "build_register_agent_full",
            "build_submit_task", "build_submit_task_with_prefs"} |-> Plain]

\* The VRF key a validator registers must be the wallet's own.
RegisterValidatorBuilders ==
    [b \in {"build_register_validator", "build_register_validator_with_update",
            "build_register_validator_with_vrf_public_key"} |-> ChecksAndCarries]

UpdateValidatorBuilders ==
    [b \in {"build_update_validator", "build_reactivate_validator"} |-> Plain]
        @@ [b \in {"build_update_validator_vrf_public_key", "build_validator_vrf_commit",
                   "build_validator_vrf_contribution"} |-> Checks]

CreateAgreementBuilder == "build_create_agreement" :> Carries

RegisterToolBuilders ==
    [b \in {"build_register_tool", "build_register_tool_result_escrowed",
            "build_register_tool_milestone_escrowed",
            "build_register_tool_metered_usage"} |-> Plain]

\* The other four end in this one.
RegisterToolBuilder == "build_register_tool_with_settlement" :> Plain

\* Reserves are named in the payload; the envelope carries no amount.
SubscriptionPlanBuilders ==
    [b \in {"build_create_tool_subscription_plan", "build_update_tool_subscription_plan",
            "build_start_tool_subscription"} |-> Plain]

SubscriptionBuilders ==
    [b \in {"build_top_up_tool_subscription", "build_cancel_tool_subscription",
            "build_resume_tool_subscription", "build_resume_tool_subscription_with_reserve",
            "build_renew_tool_subscription"} |-> Plain]

StakeBuilders ==
    [b \in {"build_stake", "build_requester_auto_match_bond", "build_unstake"} |-> Carries]
        @@ "build_exit_validator" :> Plain

FulfilTaskBuilders ==
    [b \in {"build_fulfill_task", "build_fulfill_task_verified", "build_accept_task",
            "build_dispute_task"} |-> Plain]

SettleTaskBuilders ==
    [b \in {"build_resolve_task", "build_finalize_task", "build_cancel_task",
            "build_decompose_task"} |-> Plain]

\* A batch has between one and sixteen operations; its own amount is zero.
BatchBuilder == "build_batch" :> Checks

UpdateAgentBuilders ==
    [b \in {"build_update_agent", "build_update_agent_full"} |-> Plain]

\* ReputationUpdateData::validate refuses a score outside its range.
ReputationBuilders ==
    [b \in {"build_update_reputation", "build_update_reputation_with_feedback"} |-> Checks]

InvokeToolBuilders ==
    [b \in {"build_purchase_tool_access", "build_invoke_tool",
            "build_invoke_metered_tool", "build_invoke_milestone_tool"} |-> Plain]

ToolResultBuilders ==
    [b \in {"build_submit_tool_result", "build_submit_tool_milestone_result",
            "build_accept_tool_result", "build_accept_tool_milestone_result"} |-> Plain]

ToolDisputeBuilders ==
    [b \in {"build_dispute_tool_result", "build_dispute_tool_milestone_result",
            "build_resolve_tool_result", "build_resolve_tool_milestone_result",
            "build_expire_tool_job"} |-> Plain]

ToolUsageBuilders ==
    [b \in {"build_report_tool_usage", "build_accept_tool_usage",
            "build_dispute_tool_usage", "build_resolve_tool_usage",
            "build_expire_tool_usage"} |-> Plain]

UpdateToolBuilder == "build_update_tool" :> Plain

AgreementBuilders ==
    [b \in {"build_execute_agreement", "build_execute_milestone",
            "build_dispute_agreement", "build_dispute_agreement_with_milestone",
            "build_accept_agreement"} |-> Plain]

\* A resolution with no payout is refused.
SettleAgreementBuilders ==
    "build_resolve_agreement" :> Checks @@ "build_cancel_agreement" :> Plain

ArbitratorBuilder == "build_register_arbitrator" :> Carries

CallContractBuilders ==
    [b \in {"build_deploy_contract", "build_call_contract",
            "build_call_contract_route"} |-> Carries]

PublishContractBuilders ==
    [b \in {"build_verify_contract_source", "build_publish_contract_abi",
            "build_update_contract_route"} |-> Plain]

\* Amounts of tokens are payload; the envelope carries no native amount.
TokenBuilders ==
    [b \in {"build_create_token", "build_transfer_token",
            "build_approve_token"} |-> Plain]

TokenSupplyBuilders ==
    [b \in {"build_mint_token", "build_update_token_mint_authority",
            "build_burn_token"} |-> Plain]

DeregisterBuilders ==
    [b \in {"build_deregister_agent", "build_deregister_tool",
            "build_deregister_arbitrator", "build_deactivate_contract",
            "build_destroy_token"} |-> Plain]

\* Slugs are normalised first, and a bad slug refused.
CapabilityBuilders ==
    [b \in {"build_propose_capability", "build_approve_capability",
            "build_reject_capability", "build_deprecate_capability"} |-> Checks]

\* A grant's service id and scope mask are validated; a revocation is not.
DelegationBuilders ==
    "build_rpc_read_delegation_grant" :> Checks
        @@ "build_rpc_read_delegation_revoke" :> Plain

Builders ==
    TransferBuilders @@ AgentBuilders @@ RegisterValidatorBuilders
        @@ UpdateValidatorBuilders @@ CreateAgreementBuilder @@ RegisterToolBuilders
        @@ RegisterToolBuilder
        @@ SubscriptionPlanBuilders @@ SubscriptionBuilders @@ StakeBuilders
        @@ FulfilTaskBuilders @@ SettleTaskBuilders @@ BatchBuilder @@ UpdateAgentBuilders
        @@ ReputationBuilders @@ InvokeToolBuilders @@ ToolResultBuilders
        @@ ToolDisputeBuilders @@ ToolUsageBuilders @@ UpdateToolBuilder
        @@ AgreementBuilders @@ SettleAgreementBuilders @@ ArbitratorBuilder
        @@ CallContractBuilders @@ PublishContractBuilders @@ TokenBuilders
        @@ TokenSupplyBuilders @@ DeregisterBuilders @@ CapabilityBuilders
        @@ DelegationBuilders
----------------------------------------------------------------------------
\* AgentWallet::new and its variants: nonce zero, no window.
NewWallet == [nonce |-> 0, window |-> NoWindow]

SetNonce(w, n) == [w EXCEPT !.nonce = n]

\* set_transaction_validity_window: `left` is how many more blocks may include
\* what the wallet signs (max_valid_block_height minus the chain's height).
SetWindow(w, left) == [w EXCEPT !.window = left]

NextNonce(w) == [w EXCEPT !.nonce = @ + 1]

\* sign_transaction: the transaction has no window of its own, so the wallet's
\* is stamped on it; an external signer can fail, and `signs` says whether.
SignTransaction(w, tx, signs) ==
    IF signs THEN {[tx EXCEPT !.left = w.window]} ELSE {}

\* The nonce is taken before the arguments are checked.
MutBuildNonceFirst(w, b, accepted, signs, owner, id, amount) ==
    IF b.checked /\ ~accepted
    THEN [wallet |-> NextNonce(w), refused |-> TRUE, signed |-> {}]
    ELSE LET tx == [by |-> owner, id |-> id, nonce |-> w.nonce, left |-> NoWindow,
                    amount |-> IF b.amount THEN amount ELSE 0]
         IN  [wallet |-> NextNonce(w), refused |-> FALSE,
              signed |-> SignTransaction(w, tx, signs)]

\* A builder: the wallet after the call, whether the arguments were refused, and
\* the signed transaction, if any.  A refusal comes before the nonce is taken, a
\* signer's failure after it.
Build(w, b, accepted, signs, owner, id, amount) ==
    IF b.checked /\ ~accepted
    THEN [wallet |-> w, refused |-> TRUE, signed |-> {}]
    ELSE LET tx == [by |-> owner, id |-> id, nonce |-> w.nonce, left |-> NoWindow,
                    amount |-> IF b.amount THEN amount ELSE 0]
         IN  [wallet |-> NextNonce(w), refused |-> FALSE,
              signed |-> SignTransaction(w, tx, signs)]
=============================================================================
