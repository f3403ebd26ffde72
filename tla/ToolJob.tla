------------------------------ MODULE ToolJob ------------------------------
(***************************************************************************)
(* The row of an escrowed tool invocation: one result, or a sequence of    *)
(* milestones that are opened one after the other.  While a milestone is   *)
(* open, submitted or disputed, the row repeats its deadlines and result.  *)
(* Every operator is a method of ToolJob; the module has no variables.     *)
(* Absent is an Option that is None; a result is its hash and metadata.    *)
(***************************************************************************)
EXTENDS Amounts, FiniteSetsExt, SequencesExt

Absent == -1

ToolJobStatus == {"Open", "Submitted", "Disputed"}
ToolMilestoneStatus == {"Pending", "Submitted", "Disputed", "Completed"}

\* impl From<ToolMilestoneDef> for ToolMilestone
ToolMilestone(amount) ==
    [amount |-> amount, status |-> "Pending", submitDeadline |-> Absent,
     result |-> FALSE, submittedAt |-> Absent, challengeDeadline |-> Absent,
     disputedAt |-> Absent]

\* The row ToolInvoke opens, with the terms of the tool frozen in it.
NewToolJob(requester, provider, price, plan, sla, window, feeBps, now) ==
    [requester |-> requester, provider |-> provider, arbitrator |-> Absent,
     escrow |-> price, sla |-> sla, window |-> window, feeBps |-> feeBps,
     status |-> "Open", submitDeadline |-> now + sla, result |-> FALSE,
     submittedAt |-> Absent, challengeDeadline |-> Absent, disputedAt |-> Absent,
     deadline |-> Absent, prior |-> {},
     milestones |-> [i \in DOMAIN plan |-> ToolMilestone(plan[i])]]

IsMilestoneJob(job) == job.milestones # <<>>

\* The position of the first milestone that is not completed, or 0.
CurrentMilestoneIndex(job) ==
    SelectInSeq(job.milestones, LAMBDA m : m.status # "Completed")

CompletedMilestoneAmount(job) ==
    TotalOf([i \in DOMAIN job.milestones |->
                IF job.milestones[i].status = "Completed"
                THEN job.milestones[i].amount ELSE 0])

UnpaidAmountFrom(job, start) ==
    TotalOf([i \in DOMAIN job.milestones |->
                IF i >= start /\ job.milestones[i].status # "Completed"
                THEN job.milestones[i].amount ELSE 0])

\* Mutant of ClearTransientResultState: the dispute that was just resolved
\* keeps its arbitration deadline.
ClearTransientResultStateExceptDeadline(job) ==
    [job EXCEPT !.result = FALSE, !.submittedAt = Absent,
                !.challengeDeadline = Absent, !.disputedAt = Absent,
                !.prior = {}]

ClearTransientResultState(job) ==
    [job EXCEPT !.result = FALSE, !.submittedAt = Absent,
                !.challengeDeadline = Absent, !.disputedAt = Absent,
                !.deadline = Absent, !.prior = {}]

OpenCurrentMilestone(job, now) ==
    LET i == CurrentMilestoneIndex(job)
        m == job.milestones[i]
    IN  IF i = 0 THEN job
        ELSE ClearTransientResultState(
                [job EXCEPT !.status = "Open",
                            !.submitDeadline = now + job.sla,
                            !.milestones[i] =
                                [ToolMilestone(m.amount) EXCEPT
                                    !.submitDeadline = now + job.sla]])
=============================================================================
