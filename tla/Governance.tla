------------------------------ MODULE Governance ------------------------------
(***************************************************************************)
(* The governance module of swaptoshi-core                                 *)
(* (src/app/modules/governance): proposals and the deposits that back      *)
(* them, votes, vote delegation, vote boosting, the vote score that goes   *)
(* by the stake commands of an account, and the queue that moves every     *)
(* proposal through its life at fixed block heights.                       *)
(*                                                                         *)
(* A block is executed in two phases. In phase "transactions" commands run *)
(* one at a time, each atomic. EndTransactions (afterTransactionsExecute)  *)
(* mints the treasury reward and loads the queue of this height into todo; *)
(* phase "queue" then works todo off, one entry a step, and NextBlock may  *)
(* come only when it is empty.                                             *)
(*                                                                         *)
(* The token module and PoS belong to the SDK. They appear as balances:    *)
(* available, locked (by this module) and staked (locked by PoS).          *)
(***************************************************************************)
EXTENDS VoteWeight, SequencesExt

CONSTANTS
    Accounts,           \* accounts that send commands
    Treasury,           \* config.treasuryAddress
    None,               \* the empty address, and "has not voted"
    MaxProposals,       \* bound: proposals created
    StartHeight,        \* the first block of the model
    MaxHeight,          \* bound: the last block of the model
    InitConfig,         \* the governance configuration at StartHeight
    InitAvailable,      \* free balances at StartHeight
    InitStaked,         \* stakes at StartHeight
    TreasuryMint,       \* what addTreasuryReward mints in a block
    Authors,            \* accounts that create proposals
    ActionLists,        \* lists of actions a proposal may carry
    AttributesArrays,   \* lists of attributes a proposal may be created with
    Attributes,         \* attributes of a set-attributes command: [key, data]
    StakeMoves,         \* [added, subtracted] of a stake command
    ScoreBounds,        \* bound: the scores a stake command may lead to
    BoostTargets,       \* target heights of a boost command
    DelegationPairs,    \* <<sender, delegatee>> of a delegate command
    VoteDecisions       \* decisions of a vote command

Addresses == Accounts \cup {Treasury}
ProposalIds == 0 .. MaxProposals - 1
Heights == StartHeight .. MaxHeight
Kinds == {"start", "quorum", "ends", "execute"}
Statuses == {"ABSENT", "CREATED", "ACTIVE", "ACCEPTED", "REJECTED", "EXECUTED",
             "EXECUTED_WITH_ERROR", "FAILED_QUORUM"}

Durations == {"votingDelayDuration", "quorumDuration", "voteDuration",
              "executionDuration"}

\* GovernanceGovernableConfig._verifyConfig; the schema makes a duration unsigned.
ValidConfig(c) ==
    /\ \A d \in Durations : c[d] \in Nat
    /\ c.executionDuration >= c.voteDuration
    /\ c.voteDuration >= c.quorumDuration
    /\ c.quorumDuration >= c.votingDelayDuration

ActionsAreLists == \A actions \in ActionLists : Len(actions) \in Nat

ASSUME GovernanceAssumption ==
    /\ IsFiniteSet(Accounts)
    /\ Treasury \notin Accounts /\ None \notin Addresses \cup Decisions
    /\ MaxProposals \in Nat /\ StartHeight \in Nat /\ MaxHeight \in Nat
    /\ StartHeight <= MaxHeight
    /\ TreasuryMint \in Nat
    /\ Authors \subseteq Accounts
    /\ ActionsAreLists
    /\ DelegationPairs \subseteq Accounts \X Accounts
    /\ VoteDecisions \subseteq Decisions
    /\ StakeMoves \subseteq [added : Nat, subtracted : Nat]     \* uint64
    /\ ScoreBounds \subseteq Int
    /\ BoostTargets \subseteq Nat
    /\ InitAvailable \in [Addresses -> Nat] /\ InitStaked \in [Accounts -> Nat]
    /\ ValidConfig(InitConfig)

VARIABLES
    height,      \* height of the block being executed
    phase,       \* "transactions" or "queue"
    todo,        \* queue entries of this block still to be executed
    executing,   \* whether the actions of the head of todo are being executed
    agenda,      \* the actions of that proposal still to be executed
    config,      \* the governable configuration of this module
    nextId,      \* nextAvailableProposalId store
    status,      \* status of each proposal
    schedule,    \* heights of each proposal (start, quorum, ends, execute)
    proposals,   \* the other fields of each proposal
    tally,       \* turnout and voteSummary of each proposal
    queue,       \* proposalQueue store: per height, a list of ids per kind
    casted,      \* castedVote store: what each account votes on each proposal
    voters,      \* proposalVoter store: who has voted on each proposal
    score,       \* voteScore store
    outgoing,    \* delegatedVote store: to whom an account delegates
    incoming,    \* delegatedVote store: who delegates to an account
    boost,       \* boostedAccount store: target height, 0 when never boosted
    available, locked, staked, supply

blockVars == <<height, phase, todo, executing, agenda>>
proposalVars == <<nextId, status, schedule, proposals, queue>>
voteVars == <<tally, casted, voters>>
accountVars == <<score, outgoing, incoming, boost>>
tokenVars == <<available, locked, staked, supply>>
vars == <<blockVars, config, proposalVars, voteVars, accountVars, tokenVars>>

-------------------------------------------------------------------------------
(* Vote accounting *)

NoDecision == [p \in ProposalIds |-> None]

\* The account whose casted votes carry the score of a: the end of its chain of
\* outgoing delegations.
Root(a) ==
    LET root[x \in Accounts] == IF outgoing[x] = None THEN x ELSE root[outgoing[x]]
    IN  root[a]

\* The accounts whose scores are read as the incoming delegation of a. A
\* delegator that has delegators of its own is replaced by these.
IncomingDelegators(a) ==
    LET leaves[x \in Accounts] ==
            UNION {IF incoming[i] = {} THEN {i} ELSE leaves[i] : i \in incoming[x]}
    IN  leaves[a]

\* Mutant: the boost of the owner is not read.
ScoresUnboosted(as) == [a \in as |-> [score |-> score[a], boostHeight |-> 0]]
\* The scores of a set of accounts, each with the height its owner boosts to.
ScoresOf(as) == [a \in as |-> [score |-> score[a], boostHeight |-> boost[a]]]

\* Proposal._calculateVoteScore
CalculateVoteScore(p, item) ==
    LET r == proposals[p] IN
    IF r.enableBoosting
    THEN BoostedScore(item.score, schedule[p].ends, item.boostHeight,
                      r.maxBoostDuration, r.boostFactor)
    ELSE item.score

\* Proposal.addVote (sign 1) and subtractVote (sign -1) of every item on every
\* proposal votes decides on; only an ACTIVE proposal is changed.
ShiftVote(t, votes, sign, items) ==
    [p \in ProposalIds |->
        IF status[p] # "ACTIVE" \/ votes[p] = None
        THEN t[p]
        ELSE LET base   == MapThenSumSet(LAMBDA a : items[a].score, DOMAIN items)
                 weight == MapThenSumSet(LAMBDA a : CalculateVoteScore(p, items[a]),
                                         DOMAIN items)
             IN  [t[p] EXCEPT !.turnout[votes[p]] = @ + sign * base,
                              !.voteSummary[votes[p]] = @ + sign * weight]]

AddVote(t, votes, items) == ShiftVote(t, votes, 1, items)

SubtractVote(t, votes, items) == ShiftVote(t, votes, -1, items)

-------------------------------------------------------------------------------
(* Commands *)

InTransactions == phase = "transactions"

\* A proposal the store does not hold cannot be read: getImmutableProposal throws.
Exists(p) == status[p] # "ABSENT"

IsProposalAuthor(a, p) == proposals[p].author = a

\* nextAvailableProposalId store: the id of this creation, and the next one.
IncreaseNextAvailableId == nextId' = nextId + 1

\* proposalVoter store
AddVoter(p, a) == voters' = [voters EXCEPT ![p] = @ \cup {a}]

\* TokenMethod.lock of the deposit by this module
LockDeposit(a, n) ==
    /\ available' = [available EXCEPT ![a] = @ - n]
    /\ locked' = [locked EXCEPT ![a] = @ + n]

\* Proposal.verifyCreate
VerifyCreate(a, actions) ==
    /\ config.maxProposalActions >= 0 => Len(actions) <= config.maxProposalActions
    /\ available[a] + staked[a] >=
           ParseBigintOrPercentage(config.proposalCreationMinBalance, supply)
    /\ available[a] >= config.proposalCreationDeposit
    /\ \A i \in 1 .. Len(actions) :
           actions[i].type = "config" =>
               ValidConfig([config EXCEPT ![actions[i].path] = actions[i].value])

\* Proposal._saveQueue for each kind given
SaveQueue(p, when, kinds) ==
    queue' = [h \in Heights |->
                 [k \in Kinds |->
                     IF k \in kinds /\ when[k] = h
                        /\ \A i \in 1 .. Len(queue[h][k]) : queue[h][k][i] # p
                     THEN Append(queue[h][k], p)
                     ELSE queue[h][k]]]

\* Mutants: a kind is not registered; the quorum is checked at the end height.
RegisterWithoutStart(p, when) == SaveQueue(p, when, Kinds \ {"start"})
RegisterWithoutEnds(p, when) == SaveQueue(p, when, Kinds \ {"ends"})
RegisterQuorumLate(p, when) == SaveQueue(p, [when EXCEPT !.quorum = when.ends], Kinds)
\* Proposal._registerQueue
RegisterQueue(p, when) == SaveQueue(p, when, Kinds)

\* Proposal.create: the deposit is locked, the proposal is queued and stored
\* under the next id with the parameters of the configuration of this moment.
CreateProposal(a, actions, attributes) ==
    LET p == nextId
        when == [start   |-> height + config.votingDelayDuration,
                 quorum  |-> height + config.quorumDuration,
                 ends    |-> height + config.voteDuration,
                 execute |-> height + config.executionDuration]
    IN  /\ InTransactions
        /\ nextId < MaxProposals /\ when.execute <= MaxHeight       \* bounds
        /\ VerifyCreate(a, actions)
        /\ config.proposalCreationDeposit \in Nat       \* a uint64 of the store
        /\ LockDeposit(a, config.proposalCreationDeposit)
        /\ status' = [status EXCEPT ![p] = "CREATED"]
        /\ schedule' = [schedule EXCEPT ![p] = when]
        /\ proposals' = [proposals EXCEPT ![p] =
               [author            |-> a,
                deposited         |-> config.proposalCreationDeposit,
                actions           |-> actions,
                attributes        |-> attributes,
                maxBoostDuration  |-> config.maxBoostDuration,
                boostFactor       |-> config.boostFactor,
                enableBoosting    |-> config.enableBoosting,
                enableTurnoutBias |-> config.enableTurnoutBias,
                quorumMode        |-> config.quorumMode,
                quorumTreshold    |-> config.quorumTreshold]]
        /\ RegisterQueue(p, when)
        /\ IncreaseNextAvailableId
        /\ UNCHANGED <<blockVars, config, voteVars, accountVars, staked, supply>>

\* Proposal.verifyVote
VerifyVote(a, p) == Exists(p) /\ status[p] = "ACTIVE" /\ outgoing[a] = None

\* Proposal._removeSenderDelegatedVoteFromProposal and _addSenderDelegatedVote...:
\* the incoming scores go through updateProposalVoteSummaryByVoter to every
\* proposal that votes decides on, not only to the one voted on.
RemoveReceivedVotes(t, votes, a) == SubtractVote(t, votes, ScoresOf(IncomingDelegators(a)))
AddReceivedVotes(t, votes, a) == AddVote(t, votes, ScoresOf(IncomingDelegators(a)))

\* Proposal.vote. The own score goes to this proposal only.
Vote(a, p, decision) ==
    LET old      == casted[a]
        new      == [old EXCEPT ![p] = decision]
        here(d)  == [NoDecision EXCEPT ![p] = d]
        own      == ScoresOf({a})
        withdrawn == IF old[p] = None
                     THEN tally
                     ELSE RemoveReceivedVotes(SubtractVote(tally, here(old[p]), own), old, a)
    IN  /\ InTransactions
        /\ VerifyVote(a, p)
        /\ tally' = AddReceivedVotes(AddVote(withdrawn, here(decision), own), new, a)
        /\ AddVoter(p, a)
        /\ casted' = [casted EXCEPT ![a] = new]
        /\ UNCHANGED <<blockVars, config, proposalVars, accountVars, tokenVars>>

\* The attribute replaces the first one with its key, or is appended.
WithAttribute(list, new) ==
    LET i == SelectInSeq(list, LAMBDA attribute : attribute.key = new.key)
    IN  IF i > 0 THEN [list EXCEPT ![i] = new] ELSE Append(list, new)

\* Proposal.verifySetAttributes and setAttributes: the author, at any time of the
\* life of the proposal.
SetAttributes(a, p, attribute) ==
    /\ InTransactions
    /\ Exists(p)
    /\ IsProposalAuthor(a, p)
    /\ proposals' = [proposals EXCEPT ![p].attributes = WithAttribute(@, attribute)]
    /\ UNCHANGED <<blockVars, config, nextId, status, schedule, queue, voteVars,
                   accountVars, tokenVars>>

\* Mutant: votes stay when their owner delegates.
KeepAllCastedVote(a) == casted' = casted
\* CastedVoteStore.removeAllCastedVote
RemoveAllCastedVote(a) == casted' = [casted EXCEPT ![a] = NoDecision]

\* Mutant: only the direct delegators are visited, not the account itself.
DirectDownstream(a) == incoming[a]
\* The delegators of a, theirs, and so on: what _checkForCycles visits.
Downstream(a) ==
    {b \in Accounts : \A S \in SUBSET Accounts :
        a \in S /\ (\A x \in S : incoming[x] \subseteq S) => b \in S}

\* DelegatedVote.verifyDelegateVote
VerifyDelegateVote(a, delegatee) ==
    /\ outgoing[a] = None
    /\ a \notin incoming[delegatee]
    /\ delegatee \notin Downstream(a)

\* What an account carries when it joins or leaves a delegatee
CarriedScores(a) == ScoresOf({a} \cup IncomingDelegators(a))

\* DelegatedVote._removeSenderVoteAndDelegatedVoteFromProposal (it forgets the
\* casted votes of the sender too) and _addDelegatedSenderVoteToProposal
RemoveCarriedVotes(a) == SubtractVote(tally, casted[Root(a)], CarriedScores(a))
AddCarriedVotes(t, a, delegatee) == AddVote(t, casted[Root(delegatee)], CarriedScores(a))

\* DelegatedVote.delegateVote
DelegateVote(a, delegatee) ==
    /\ InTransactions
    /\ VerifyDelegateVote(a, delegatee)
    /\ tally' = AddCarriedVotes(RemoveCarriedVotes(a), a, delegatee)
    /\ RemoveAllCastedVote(a)
    /\ outgoing' = [outgoing EXCEPT ![a] = delegatee]
    /\ incoming' = [incoming EXCEPT ![delegatee] = @ \cup {a}]
    /\ UNCHANGED <<blockVars, config, proposalVars, voters, score, boost, tokenVars>>

\* Mutant: a revoked delegation stays with the delegatee.
KeepIncoming(a) == incoming
\* The incoming delegations when a leaves its delegatee.
RemoveIncoming(a) == [incoming EXCEPT ![outgoing[a]] = @ \ {a}]

VerifyRevokeDelegatedVote(a) == outgoing[a] # None

\* DelegatedVote.revokeDelegatedVote
RevokeDelegatedVote(a) ==
    /\ InTransactions
    /\ VerifyRevokeDelegatedVote(a)
    /\ tally' = RemoveCarriedVotes(a)
    /\ RemoveAllCastedVote(a)
    /\ outgoing' = [outgoing EXCEPT ![a] = None]
    /\ incoming' = RemoveIncoming(a)
    /\ UNCHANGED <<blockVars, config, proposalVars, voters, score, boost, tokenVars>>

\* BoostedAccount.verifyBoostVote: the target, a height, is compared with
\* maxBoostDuration, a number of blocks.
VerifyBoostVote(a, target) ==
    /\ config.enableBoosting
    /\ target > 0
    /\ target <= config.maxBoostDuration
    /\ boost[a] = 0 \/ height >= boost[a]

\* BoostedAccount._removeSenderVoteFromProposal and _addSenderVoteToProposal
RemoveSenderVote(a) == SubtractVote(tally, casted[Root(a)], ScoresOf({a}))
AddSenderVote(t, a, target) ==
    AddVote(t, casted[Root(a)], [x \in {a} |-> [score |-> score[a], boostHeight |-> target]])

\* BoostedAccount.boostVote: the own score is counted again at the new boost.
BoostVote(a, target) ==
    /\ InTransactions
    /\ VerifyBoostVote(a, target)
    /\ boost' = [boost EXCEPT ![a] = target]
    /\ tally' = AddSenderVote(RemoveSenderVote(a), a, target)
    /\ UNCHANGED <<blockVars, config, proposalVars, casted, voters, score,
                   outgoing, incoming, tokenVars>>

\* BoostedAccount.isValidUnstake
IsValidUnstake(a, move) ==
    config.enableBoosting /\ move.subtracted > 0 => height >= boost[a]

NetStake(move) == move.added - move.subtracted

\* VoteScoreStore.addVoteScore
AddVoteScore(a, n) == score' = [score EXCEPT ![a] = @ + n]

\* Mutant: the tallies are left alone.
ScoreWithoutVotes(a, move) ==
    /\ score[a] + NetStake(move) \in ScoreBounds
    /\ tally' = tally
    /\ AddVoteScore(a, NetStake(move))
\* GovernanceInternalMethod.updateVoteScoreAfterStake, from afterCommandExecute: the
\* stakes are read from the parameters of the command, never from what came of it.
UpdateVoteScoreAfterStake(a, move) ==
    LET votes   == casted[Root(a)]
        part(n) == [x \in {a} |-> [score |-> n, boostHeight |-> boost[a]]]
    IN  /\ score[a] + NetStake(move) \in ScoreBounds        \* bound
        /\ tally' = SubtractVote(AddVote(tally, votes, part(move.added)),
                                 votes, part(move.subtracted))
        /\ AddVoteScore(a, NetStake(move))

\* A stake command of PoS that succeeds, with the hooks of this module around it.
\* The unlocking period of PoS is left out: what is unstaked is free at once.
Stake(a, move) ==
    /\ InTransactions
    /\ IsValidUnstake(a, move)
    /\ available[a] >= move.added /\ staked[a] >= move.subtracted
    /\ staked' = [staked EXCEPT ![a] = @ + move.added - move.subtracted]
    /\ available' = [available EXCEPT ![a] = @ - move.added + move.subtracted]
    /\ UpdateVoteScoreAfterStake(a, move)
    /\ UNCHANGED <<blockVars, config, proposalVars, casted, voters, outgoing,
                   incoming, boost, locked, supply>>

\* One that PoS refuses, for a reason of its own: no stake moves, and the hook runs.
FailedStake(a, move) ==
    /\ InTransactions
    /\ IsValidUnstake(a, move)
    /\ UpdateVoteScoreAfterStake(a, move)
    /\ UNCHANGED <<blockVars, config, proposalVars, casted, voters, outgoing,
                   incoming, boost, tokenVars>>

-------------------------------------------------------------------------------
(* Blocks and the proposal queue *)

Entries(kind, ids) == [i \in 1 .. Len(ids) |-> [kind |-> kind, id |-> ids[i]]]

\* afterTransactionsExecute: addTreasuryReward, then executeQueuedProposal,
\* which works through the queue of this height in the order of executeQueue.
EndTransactions ==
    LET q == queue[height] IN
    /\ InTransactions
    /\ phase' = "queue"
    /\ todo' = Entries("start", q.start) \o Entries("quorum", q.quorum)
                   \o Entries("ends", q.ends) \o Entries("execute", q.execute)
    /\ available' = [available EXCEPT ![Treasury] = @ + TreasuryMint]
    /\ supply' = supply + TreasuryMint
    /\ UNCHANGED <<height, executing, agenda, config, proposalVars, voteVars,
                   accountVars, locked, staked>>

NextEntry(kind) == phase = "queue" /\ todo # <<>> /\ Head(todo).kind = kind

\* ProposalQueue._executeStartedProposal
ExecuteStarted ==
    /\ NextEntry("start")
    /\ status' = [status EXCEPT ![Head(todo).id] = "ACTIVE"]
    /\ todo' = Tail(todo)
    /\ UNCHANGED <<height, phase, executing, agenda, config, nextId, schedule,
                   proposals, queue, voteVars, accountVars, tokenVars>>

\* Mutant: the votes of a proposal are kept.
KeepCastedVotes(p) == casted' = casted
\* ProposalQueue._removeProposalVoterCastedVote
RemoveCastedVotes(p) ==
    casted' = [a \in Accounts |-> IF a \in voters[p] THEN [casted[a] EXCEPT ![p] = None]
                                                     ELSE casted[a]]

\* TokenMethod.unlock of the deposit of a proposal by this module
UnlockDeposit(p) ==
    LET a == proposals[p].author IN
    /\ locked[a] >= proposals[p].deposited
    /\ locked' = [locked EXCEPT ![a] = @ - proposals[p].deposited]

\* What is unlocked becomes available to the author again.
CreditDeposit(p) ==
    available' = [available EXCEPT ![proposals[p].author] = @ + proposals[p].deposited]

HasQuorum(p) ==
    Participants(proposals[p].quorumMode, tally[p].turnout) >=
        ParseBigintOrPercentage(proposals[p].quorumTreshold, supply)

\* An entry of the given kind for a proposal that is no longer in the status the
\* handler works on: it returns at once.
SkipEntry ==
    /\ \/ (NextEntry("quorum") \/ NextEntry("ends")) /\ status[Head(todo).id] # "ACTIVE"
       \/ NextEntry("execute") /\ status[Head(todo).id] # "ACCEPTED"
    /\ ~executing
    /\ todo' = Tail(todo)
    /\ UNCHANGED <<height, phase, executing, agenda, config, proposalVars, voteVars,
                   accountVars, tokenVars>>

\* ProposalQueue._executeQuorumCheck with the quorum reached
PassQuorum ==
    /\ NextEntry("quorum") /\ status[Head(todo).id] = "ACTIVE"
    /\ HasQuorum(Head(todo).id)
    /\ todo' = Tail(todo)
    /\ UNCHANGED <<height, phase, executing, agenda, config, proposalVars, voteVars,
                   accountVars, tokenVars>>

\* ProposalQueue._executeQuorumCheck without it: the votes are removed and the
\* deposit goes to the deposit pool, or is burnt when there is none.
FailQuorum ==
    LET p == Head(todo).id
        n == proposals[p].deposited
        pool == config.depositPoolAddress
    IN  /\ NextEntry("quorum") /\ status[p] = "ACTIVE"
        /\ ~HasQuorum(p)
        /\ UnlockDeposit(p)
        /\ RemoveCastedVotes(p)
        /\ IF pool # None
           THEN available' = [available EXCEPT ![pool] = @ + n] /\ supply' = supply
           ELSE available' = available /\ supply' = supply - n
        /\ status' = [status EXCEPT ![p] = "FAILED_QUORUM"]
        /\ todo' = Tail(todo)
        /\ UNCHANGED <<height, phase, executing, agenda, config, nextId, schedule,
                       proposals, queue, tally, voters, accountVars, staked>>

\* Mutant: as many votes for as against are enough.
OutcomeByHalf(p) ==
    IF tally[p].voteSummary["for"] >= tally[p].voteSummary["against"]
    THEN "ACCEPTED" ELSE "REJECTED"
\* The status a vote ends with. A proposal that is neither accepted nor refused
\* by the turnout bias keeps the status it has.
Outcome(p) ==
    LET t == tally[p].turnout IN
    IF /\ proposals[p].enableTurnoutBias
       /\ ~SatisfiesTurnoutBias(t["for"], t["against"],
                                t["for"] + t["against"] + t["abstain"], supply)
    THEN "REJECTED"
    ELSE IF tally[p].voteSummary["for"] > tally[p].voteSummary["against"]
         THEN "ACCEPTED" ELSE "ACTIVE"

\* ProposalQueue._executeEndedProposal
ExecuteEnded ==
    LET p == Head(todo).id
    IN  /\ NextEntry("ends") /\ status[p] = "ACTIVE"
        /\ UnlockDeposit(p) /\ CreditDeposit(p)
        /\ status' = [status EXCEPT ![p] = Outcome(p)]
        /\ RemoveCastedVotes(p)
        /\ todo' = Tail(todo)
        /\ UNCHANGED <<height, phase, executing, agenda, config, nextId, schedule,
                       proposals, queue, tally, voters, accountVars, staked, supply>>

IsFunding(action) == action.type = "funding"
IsConfig(action) == action.type = "config"

\* Mutant: actions are executed as they were written.
UnsortedActions(actions) == actions
\* The actions of a type, in the order they were written
ActionsOfType(type, actions) ==
    LET kept[i \in 0 .. Len(actions)] ==
            IF i = 0 THEN <<>>
            ELSE IF actions[i].type = type THEN Append(kept[i - 1], actions[i]) ELSE kept[i - 1]
    IN  kept[Len(actions)]
\* Funding first, the order otherwise kept.
SortedActions(actions) == ActionsOfType("funding", actions) \o ActionsOfType("config", actions)

\* ProposalQueue._executeProposalOutcome of an accepted proposal: its actions are
\* executed one after another, funding first.
BeginOutcome ==
    /\ NextEntry("execute") /\ status[Head(todo).id] = "ACCEPTED"
    /\ ~executing
    /\ executing' = TRUE
    /\ agenda' = SortedActions(proposals[Head(todo).id].actions)
    /\ UNCHANGED <<height, phase, todo, config, proposalVars, voteVars, accountVars,
                   tokenVars>>

CanFund(action) == available[Treasury] >= action.amount
Updated(action) == [config EXCEPT ![action.path] = action.value]

\* ProposalQueue._executeFundingAction
ExecuteFunding ==
    /\ executing /\ agenda # <<>> /\ IsFunding(Head(agenda)) /\ CanFund(Head(agenda))
    /\ LET paid == [available EXCEPT ![Treasury] = @ - Head(agenda).amount]
       IN  available' = [paid EXCEPT ![Head(agenda).to] = @ + Head(agenda).amount]
    /\ agenda' = Tail(agenda)
    /\ UNCHANGED <<height, phase, todo, executing, config, proposalVars, voteVars,
                   accountVars, locked, staked, supply>>

\* ProposalQueue._executeConfigAction
ExecuteConfig ==
    /\ executing /\ agenda # <<>> /\ IsConfig(Head(agenda))
    /\ ValidConfig(Updated(Head(agenda)))
    /\ config' = Updated(Head(agenda))
    /\ agenda' = Tail(agenda)
    /\ UNCHANGED <<height, phase, todo, executing, proposalVars, voteVars, accountVars,
                   tokenVars>>

EndOutcome(s) ==
    /\ status' = [status EXCEPT ![Head(todo).id] = s]
    /\ todo' = Tail(todo)
    /\ executing' = FALSE
    /\ agenda' = <<>>
    /\ UNCHANGED <<height, phase, config, nextId, schedule, proposals, queue, voteVars,
                   accountVars, tokenVars>>

\* An action throws: the catch ends the execution, what was done stays done.
FailAction ==
    /\ executing /\ agenda # <<>>
    /\ \/ IsFunding(Head(agenda)) /\ ~CanFund(Head(agenda))
       \/ IsConfig(Head(agenda)) /\ ~ValidConfig(Updated(Head(agenda)))
    /\ EndOutcome("EXECUTED_WITH_ERROR")

FinishOutcome ==
    /\ executing /\ agenda = <<>>
    /\ EndOutcome("EXECUTED")

NextBlock ==
    /\ phase = "queue" /\ todo = <<>>
    /\ height < MaxHeight       \* bound
    /\ height' = height + 1
    /\ phase' = "transactions"
    /\ UNCHANGED <<todo, executing, agenda, config, proposalVars, voteVars,
                   accountVars, tokenVars>>

\* The model ends here; the chain does not.
Horizon ==
    /\ phase = "queue" /\ todo = <<>> /\ height = MaxHeight
    /\ UNCHANGED vars

-------------------------------------------------------------------------------

Init ==
    /\ height = StartHeight /\ phase = "transactions"
    /\ todo = <<>> /\ executing = FALSE /\ agenda = <<>>
    /\ config = InitConfig
    /\ nextId = 0
    /\ status = [p \in ProposalIds |-> "ABSENT"]
    /\ schedule = [p \in ProposalIds |-> [k \in Kinds |-> 0]]
    /\ proposals = [p \in ProposalIds |-> None]
    /\ tally = [p \in ProposalIds |-> [turnout |-> NoVotes, voteSummary |-> NoVotes]]
    /\ queue = [h \in Heights |-> [k \in Kinds |-> <<>>]]
    /\ casted = [a \in Accounts |-> NoDecision]
    /\ voters = [p \in ProposalIds |-> {}]
    /\ score = InitStaked /\ staked = InitStaked
    /\ outgoing = [a \in Accounts |-> None]
    /\ incoming = [a \in Accounts |-> {}]
    /\ boost = [a \in Accounts |-> 0]
    /\ available = InitAvailable
    /\ locked = [a \in Accounts |-> 0]
    /\ supply = MapThenSumSet(LAMBDA a : InitAvailable[a], Addresses)
                    + MapThenSumSet(LAMBDA a : InitStaked[a], Accounts)

CreateProposalCommand ==
    \E a \in Authors, actions \in ActionLists, attributes \in AttributesArrays :
        CreateProposal(a, actions, attributes)

VoteCommand == \E a \in Accounts, p \in ProposalIds, d \in VoteDecisions : Vote(a, p, d)

SetProposalAttributesCommand ==
    \E a \in Accounts, p \in ProposalIds, attribute \in Attributes :
        SetAttributes(a, p, attribute)

DelegateVoteCommand == \E pair \in DelegationPairs : DelegateVote(pair[1], pair[2])

RevokeDelegatedVoteCommand == \E a \in Accounts : RevokeDelegatedVote(a)

BoostVoteCommand == \E a \in Accounts, h \in BoostTargets : BoostVote(a, h)

\* A stake command of PoS and the afterCommandExecute hook that follows it
StakeCommand == \E a \in Accounts, m \in StakeMoves : Stake(a, m) \/ FailedStake(a, m)

Command ==
    \/ CreateProposalCommand
    \/ VoteCommand
    \/ SetProposalAttributesCommand
    \/ DelegateVoteCommand
    \/ RevokeDelegatedVoteCommand
    \/ BoostVoteCommand
    \/ StakeCommand

QueueStep ==
    \/ ExecuteStarted \/ SkipEntry \/ PassQuorum \/ FailQuorum \/ ExecuteEnded
    \/ BeginOutcome \/ ExecuteFunding \/ ExecuteConfig \/ FailAction \/ FinishOutcome

BlockStep == EndTransactions \/ QueueStep \/ NextBlock

Next == Command \/ BlockStep \/ Horizon

Spec == Init /\ [][Next]_vars

\* Blocks keep being produced and their hooks run to the end; nobody has to send
\* a command.
FairSpec == Spec /\ WF_vars(BlockStep)

-------------------------------------------------------------------------------
(* Properties *)

\* The delegation graph, the queue position and the ledger have their types.
StructureTypeOK ==
    /\ height \in Heights /\ phase \in {"transactions", "queue"}
    /\ todo \in Seq([kind : Kinds, id : ProposalIds])
    /\ executing \in BOOLEAN
    /\ nextId \in 0 .. MaxProposals
    /\ status \in [ProposalIds -> Statuses]
    /\ schedule \in [ProposalIds -> [Kinds -> Nat]]
    /\ queue \in [Heights -> [Kinds -> Seq(ProposalIds)]]
    /\ casted \in [Accounts -> [ProposalIds -> Decisions \cup {None}]]
    /\ voters \in [ProposalIds -> SUBSET Accounts]
    /\ outgoing \in [Accounts -> Accounts \cup {None}]
    /\ incoming \in [Accounts -> SUBSET Accounts]

\* The queue has executed the ends entry of p.
EndPassed(p) ==
    \/ height > schedule[p].ends
    \/ /\ height = schedule[p].ends /\ phase = "queue"
       /\ \A i \in 1 .. Len(todo) : todo[i] # [kind |-> "ends", id |-> p]

Pending(p) == status[p] \in {"CREATED", "ACTIVE"} /\ ~EndPassed(p)

\* The tokens this module holds locked for an account are exactly the deposits of
\* its proposals that are still pending: no deposit is lost, released twice or
\* left locked, so unlock in the queue can never throw and stop the chain.
DepositsMatchPending ==
    \A a \in Accounts :
        locked[a] = SumFunctionOnSet([p \in ProposalIds |-> proposals[p].deposited],
                        {p \in ProposalIds : Pending(p) /\ proposals[p].author = a})

\* A casted vote is on an active proposal, and its proposal knows the voter (or
\* the queue could not remove the vote).
NoVoteOutlivesProposal ==
    \A a \in Accounts, p \in ProposalIds :
        casted[a][p] # None => status[p] = "ACTIVE" /\ a \in voters[p]

\* An account that delegates holds no vote of its own.
DelegatorsHoldNoVote ==
    \A a \in Accounts : outgoing[a] # None => casted[a] = NoDecision

\* The two sides of the delegatedVote store agree.
DelegationSymmetric ==
    \A a, b \in Accounts : b \in incoming[a] <=> outgoing[b] = a

\* No set of accounts delegates only to itself: every chain of delegations ends,
\* and so do the recursions of the code that follow it.
DelegationAcyclic ==
    \A S \in SUBSET Accounts :
        S # {} => \E a \in S : outgoing[a] \notin S

\* The scores that vote with a when every delegation is direct.
Electors(a) == {a} \cup incoming[a]

\* While a proposal is pending, its turnout per decision is the score of the accounts
\* that voted so and of their delegators, each counted once, whatever boosts, delegations
\* and stakes did meanwhile. (Holds where delegations are direct and one proposal is open,
\* see the runs. The score itself follows the stake commands, not the stakes.)
TurnoutIsVotedScore ==
    \A p \in ProposalIds, d \in Decisions :
        Pending(p) => tally[p].turnout[d] =
            MapThenSumSet(LAMBDA a : score[a],
                UNION {Electors(v) : v \in {x \in Accounts : casted[x][p] = d}})

\* The same for voteSummary, where every score counts with the boost of its owner.
SummaryIsBoostedScore ==
    \A p \in ProposalIds, d \in Decisions :
        Pending(p) => tally[p].voteSummary[d] =
            MapThenSumSet(LAMBDA a : CalculateVoteScore(p,
                                [score |-> score[a], boostHeight |-> boost[a]]),
                UNION {Electors(v) : v \in {x \in Accounts : casted[x][p] = d}})

\* turnout and voteSummary are uint64 in the proposal store.
TalliesAreUnsigned ==
    \A p \in ProposalIds, d \in Decisions :
        tally[p].turnout[d] >= 0 /\ tally[p].voteSummary[d] >= 0

\* A vote score is a uint64 in its store: a command takes away no more than the account has.
ScoresAreUnsigned == \A a \in Accounts : score[a] >= 0

\* An accepted proposal has the majority of the boosted votes for as long as it
\* is stored, whatever its voters do afterwards.
AcceptedByMajority ==
    \A p \in ProposalIds :
        status[p] \in {"ACCEPTED", "EXECUTED", "EXECUTED_WITH_ERROR"} =>
            tally[p].voteSummary["for"] > tally[p].voteSummary["against"]

\* A configuration changes only by a proposal all of whose funding was paid (the comment
\* of _executeProposalOutcome, funding is executed first), and only to a valid one, even
\* if it was another one when the proposal was created.
ConfigAfterFunding ==
    [][config' # config =>
          /\ ValidConfig(config')
          /\ status[Head(todo).id] = "ACCEPTED"
          /\ \A i \in 1 .. Len(agenda) : ~IsFunding(agenda[i])]_vars

Settled(p) ==
    \/ status[p] \in {"REJECTED", "FAILED_QUORUM", "EXECUTED", "EXECUTED_WITH_ERROR"}
    \/ status[p] = "ACTIVE" /\ EndPassed(p)

\* Every proposal comes to the end of its life, whatever commands are sent.
EveryProposalSettles ==
    \A p \in ProposalIds : status[p] = "CREATED" ~> Settled(p)

\* The life of a proposal as the module promises it.
Lifecycle == INSTANCE ProposalLifecycle WITH plan <- schedule

ImplementsLifecycle == Lifecycle!Spec
===============================================================================
