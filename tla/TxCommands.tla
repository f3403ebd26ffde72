----------------------------- MODULE TxCommands -----------------------------
(***************************************************************************)
(* The building commands of `zincha tx` (zincha-cli-core/src/tx.rs): the   *)
(* builders of the wallet each command can end in, and whether the command *)
(* takes an amount of the native currency.  Every command of the list      *)
(* parses its arguments and files, resolves a wallet for the run, calls    *)
(* one builder, and hands the signed transaction to finish_transaction;    *)
(* what it parses is data.                                                 *)
(***************************************************************************)
EXTENDS AgentWallet

\* The commands that take an amount of the native currency.
TransferAmounts == {"transfer"}
BondAmounts == {"bond-requester-auto-match"}
StakeAmounts == {"register-validator", "stake", "unstake"}
EscrowAmounts == {"create-agreement"}
ArbitratorAmounts == {"register-arbitrator"}
ContractAmounts == {"deploy-contract", "call-contract", "call-contract-route"}
AmountCommands ==
    TransferAmounts \cup BondAmounts \cup StakeAmounts \cup EscrowAmounts
        \cup ArbitratorAmounts \cup ContractAmounts

IdentityCommands ==
    "transfer" :> {"build_transfer", "build_transfer_with_priority_fee"}
        @@ "entity-link" :> {"build_entity_link"}
        @@ "register-agent" :> {"build_register_agent_full"}
        @@ "update-agent" :> {"build_update_agent_full"}
        @@ "deregister-agent" :> {"build_deregister_agent"}

CapabilityCommands ==
    "capability-propose" :> {"build_propose_capability"}
        @@ "capability-approve" :> {"build_approve_capability"}
        @@ "capability-reject" :> {"build_reject_capability"}
        @@ "capability-deprecate" :> {"build_deprecate_capability"}

TaskCommands ==
    "bond-requester-auto-match" :> {"build_requester_auto_match_bond"}
        @@ "submit-task" :> {"build_submit_task", "build_submit_task_with_prefs"}
        @@ "fulfill-task" :> {"build_fulfill_task"}
        @@ "accept-task" :> {"build_accept_task"}
        @@ "dispute-task" :> {"build_dispute_task"}
        @@ "resolve-task" :> {"build_resolve_task"}
        @@ "finalize-task" :> {"build_finalize_task"}
        @@ "cancel-task" :> {"build_cancel_task"}
        @@ "decompose-task" :> {"build_decompose_task"}

ValidatorCommands ==
    "update-reputation" :> {"build_update_reputation", "build_update_reputation_with_feedback"}
        @@ "register-validator" :> {"build_register_validator_with_update"}
        @@ "update-validator" :> {"build_update_validator"}
        @@ "reactivate-validator" :> {"build_reactivate_validator"}
        @@ "stake" :> {"build_stake"}
        @@ "unstake" :> {"build_unstake"}
        @@ "exit-validator" :> {"build_exit_validator"}

ToolCommands ==
    "register-tool" :> {"build_register_tool_with_settlement"}
        @@ "invoke-tool" :> {"build_invoke_tool"}
        @@ "invoke-metered-tool" :> {"build_invoke_metered_tool"}
        @@ "invoke-milestone-tool" :> {"build_invoke_milestone_tool"}
        @@ "submit-tool-result" :> {"build_submit_tool_result", "build_submit_tool_milestone_result"}

ToolSettlementCommands ==
    "accept-tool-result" :> {"build_accept_tool_result", "build_accept_tool_milestone_result"}
        @@ "dispute-tool-result" :>
               {"build_dispute_tool_result", "build_dispute_tool_milestone_result"}
        @@ "resolve-tool-result" :>
               {"build_resolve_tool_result", "build_resolve_tool_milestone_result"}
        @@ "report-tool-usage" :> {"build_report_tool_usage"}
        @@ "accept-tool-usage" :> {"build_accept_tool_usage"}
        @@ "dispute-tool-usage" :> {"build_dispute_tool_usage"}
        @@ "resolve-tool-usage" :> {"build_resolve_tool_usage"}

SubscriptionCommands ==
    "create-tool-subscription-plan" :> {"build_create_tool_subscription_plan"}
        @@ "update-tool-subscription-plan" :> {"build_update_tool_subscription_plan"}
        @@ "start-tool-subscription" :> {"build_start_tool_subscription"}
        @@ "top-up-tool-subscription" :> {"build_top_up_tool_subscription"}
        @@ "cancel-tool-subscription" :> {"build_cancel_tool_subscription"}
        @@ "resume-tool-subscription" :> {"build_resume_tool_subscription_with_reserve"}
        @@ "renew-tool-subscription" :> {"build_renew_tool_subscription"}

UpdateToolCommands ==
    "update-tool" :> {"build_update_tool"} @@ "deregister-tool" :> {"build_deregister_tool"}

AgreementCommands ==
    "create-agreement" :> {"build_create_agreement"}
        @@ "accept-agreement" :> {"build_accept_agreement"}
        @@ "execute-agreement" :> {"build_execute_agreement", "build_execute_milestone"}
        @@ "dispute-agreement" :> {"build_dispute_agreement_with_milestone"}
        @@ "resolve-agreement" :> {"build_resolve_agreement"}
        @@ "cancel-agreement" :> {"build_cancel_agreement"}

ArbitratorCommands ==
    "register-arbitrator" :> {"build_register_arbitrator"}
        @@ "deregister-arbitrator" :> {"build_deregister_arbitrator"}

ContractCommands ==
    "deploy-contract" :> {"build_deploy_contract"}
        @@ "call-contract" :> {"build_call_contract"}
        @@ "call-contract-route" :> {"build_call_contract_route"}
        @@ "update-contract-route" :> {"build_update_contract_route"}
        @@ "verify-contract-source" :> {"build_verify_contract_source"}
        @@ "publish-contract-abi" :> {"build_publish_contract_abi"}
        @@ "deactivate-contract" :> {"build_deactivate_contract"}

TokenCommands ==
    "create-token" :> {"build_create_token"}
        @@ "transfer-token" :> {"build_transfer_token"}
        @@ "approve-token" :> {"build_approve_token"}
        @@ "mint-token" :> {"build_mint_token"}
        @@ "update-token-mint-authority" :> {"build_update_token_mint_authority"}
        @@ "burn-token" :> {"build_burn_token"}
        @@ "destroy-token" :> {"build_destroy_token"}

\* `conversation authorize` and `conversation deauthorize` end in the same way.
DelegationCommands ==
    "conversation-authorize" :> {"build_rpc_read_delegation_grant"}
        @@ "conversation-deauthorize" :> {"build_rpc_read_delegation_revoke"}

Commands ==
    IdentityCommands @@ CapabilityCommands @@ TaskCommands @@ ValidatorCommands
        @@ ToolCommands @@ ToolSettlementCommands @@ SubscriptionCommands
        @@ UpdateToolCommands @@ AgreementCommands @@ ArbitratorCommands
        @@ ContractCommands @@ TokenCommands @@ DelegationCommands

\* What a command comes to: the amount it is given and the builder it calls.
CommandCalls ==
    UNION {[amount : {IF c \in AmountCommands THEN 1 ELSE 0},
            builder : {Builders[b] : b \in Commands[c]}] : c \in DOMAIN Commands}

\* The tables agree, which TLC decides by evaluating them: a command that takes an
\* amount ends in builders that put it into the envelope.
ASSUME AmountsReachTheEnvelope ==
    \A c \in CommandCalls :
        c.amount \in {0, 1} /\ (c.amount # 0 => c.builder.amount)
=============================================================================
