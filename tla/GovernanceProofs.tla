--------------------------- MODULE GovernanceProofs ---------------------------
(***************************************************************************)
(* Theorems about the governance module, for every set of accounts, every  *)
(* number of proposals and heights and every configuration:                *)
(*                                                                         *)
(*   - the graph of delegations stays symmetric and free of cycles, and a  *)
(*     delegator holds no vote of its own;                                 *)
(*   - the structure of the module keeps its types, the queue only ever    *)
(*     names proposals that were created, and no casted vote outlives the  *)
(*     vote it was given in;                                               *)
(*   - the module takes each step of a proposal's life at the height that  *)
(*     was planned, keeps the deposit locked until the vote has ended, and *)
(*     can always release it;                                              *)
(*   - the configuration changes only after all the funding of a proposal; *)
(*   - the turnout of a decision is the sum of the vote scores of the      *)
(*     accounts whose voice has cast it, and the vote summary of a         *)
(*     proposal the same sum with the boosts.                              *)
(*                                                                         *)
(* The first two parts are independent inductive invariants, GraphInv and  *)
(* QueueInv. The third follows from LifeInv, which says that the queue     *)
(* still holds whatever lies ahead of a proposal and nothing of what lies  *)
(* behind it; the fourth from AgendaInv, the order of what is left to do.  *)
(*                                                                         *)
(* The code never adds up the scores of the last part: a vote, a           *)
(* delegation, a revocation, a boost and a stake each shift the tally by   *)
(* what they believe has changed. Ballots(c, f) is the reference: for each *)
(* decision the sum of f over the accounts whose ballot c is that          *)
(* decision. The inductive invariant says that both tallies of every       *)
(* proposal are the Ballots of what the accounts have now, for as long as  *)
(* the vote lasts. The theorems need that no delegatee delegates on        *)
(* (Direct), that an account votes on one proposal at a time (OneVote)     *)
(* and, for the summary, that a boost adds whole multiples (WholeBoosts):  *)
(* without them the module does count something else.                      *)
(***************************************************************************)
EXTENDS Governance, SequenceTheorems, SumProofs

-------------------------------------------------------------------------------
(* Delegation *)

GraphTypeOK ==
    /\ outgoing \in [Accounts -> Accounts \cup {None}]
    /\ incoming \in [Accounts -> SUBSET Accounts]

GraphInv == GraphTypeOK /\ DelegationSymmetric /\ DelegationAcyclic

\* Every step but DelegateVote and RevokeDelegatedVote leaves the graph alone.
LEMMA GraphUnchanged ==
    ASSUME Next,
           ~ DelegateVoteCommand,
           ~ RevokeDelegatedVoteCommand
    PROVE  UNCHANGED <<outgoing, incoming>>
<1>1. CASE Command
  BY <1>1 DEF Command, CreateProposalCommand, CreateProposal, VoteCommand, Vote,
     SetProposalAttributesCommand, SetAttributes, BoostVoteCommand, BoostVote, StakeCommand,
     Stake, FailedStake, accountVars
<1>2. CASE EndTransactions \/ NextBlock \/ Horizon
  BY <1>2 DEF EndTransactions, NextBlock, Horizon, accountVars, vars
<1>3. CASE QueueStep
  BY <1>3 DEF QueueStep, ExecuteStarted, SkipEntry, PassQuorum, FailQuorum, ExecuteEnded,
     BeginOutcome, ExecuteFunding, ExecuteConfig, FailAction, FinishOutcome, EndOutcome,
     accountVars
<1> QED BY <1>1, <1>2, <1>3 DEF Next, BlockStep

\* The set the code walks holds its start and is closed under delegators.
LEMMA DownstreamWitness ==
    ASSUME NEW a \in Accounts, NEW b \in Accounts, b \notin Downstream(a)
    PROVE  \E S \in SUBSET Accounts :
               a \in S /\ (\A x \in S : incoming[x] \subseteq S) /\ b \notin S
BY DEF Downstream

\* A delegation the check for cycles lets through closes no cycle.
LEMMA DelegateKeepsAcyclic ==
    ASSUME GraphInv, NEW a \in Accounts, NEW b \in Accounts,
           b \notin Downstream(a),
           outgoing' = [outgoing EXCEPT ![a] = b]
    PROVE  DelegationAcyclic'
<1> DEFINE Closed(S) == \A x \in S : outgoing'[x] \in S
<1> SUFFICES ASSUME NEW S \in SUBSET Accounts, S # {}, \A x \in S : outgoing'[x] \in S
             PROVE  FALSE
  BY DEF DelegationAcyclic
<1> USE DEF GraphInv, GraphTypeOK
<1>1. \A x \in Accounts : outgoing'[x] = IF x = a THEN b ELSE outgoing[x]
  OBVIOUS
<1>2. PICK T \in SUBSET Accounts :
          a \in T /\ (\A x \in T : incoming[x] \subseteq T) /\ b \notin T
  BY DownstreamWitness
<1>3. \A x \in Accounts : outgoing[x] \in T => x \in T
  BY <1>2 DEF DelegationSymmetric
<1>4. \A x \in S \ T : outgoing[x] \in S \ T
  BY <1>1, <1>2, <1>3
<1>5. S \ T # {}
  <2>1. CASE a \in S
    BY <1>1, <1>2, <2>1
  <2>2. CASE a \notin S
    <3>1. \A x \in S : outgoing[x] \in S
      BY <1>1, <2>2
    <3> QED BY <3>1 DEF DelegationAcyclic
  <2> QED BY <2>1, <2>2
<1> QED BY <1>4, <1>5 DEF DelegationAcyclic

\* A revocation removes an edge and so closes no cycle.
LEMMA RevokeKeepsAcyclic ==
    ASSUME GovernanceAssumption, GraphInv, NEW a \in Accounts,
           outgoing' = [outgoing EXCEPT ![a] = None]
    PROVE  DelegationAcyclic'
<1> SUFFICES ASSUME NEW S \in SUBSET Accounts, S # {}, \A x \in S : outgoing'[x] \in S
             PROVE  FALSE
  BY DEF DelegationAcyclic
<1>1. None \notin S
  BY DEF GovernanceAssumption, Addresses
<1>2. \A x \in S : outgoing[x] \in S
  BY <1>1 DEF GraphInv, GraphTypeOK
<1> QED BY <1>2 DEF GraphInv, DelegationAcyclic

LEMMA DelegateKeepsGraph ==
    ASSUME GovernanceAssumption, GraphInv, NEW pair \in DelegationPairs,
           DelegateVote(pair[1], pair[2])
    PROVE  GraphInv'
<1> DEFINE a == pair[1]
           b == pair[2]
<1>1. a \in Accounts /\ b \in Accounts
  BY DEF GovernanceAssumption
<1>2. /\ outgoing[a] = None /\ b \notin Downstream(a)
      /\ outgoing' = [outgoing EXCEPT ![a] = b]
      /\ incoming' = [incoming EXCEPT ![b] = @ \cup {a}]
  BY DEF DelegateVote, VerifyDelegateVote
<1>3. None \notin Accounts
  BY DEF GovernanceAssumption, Addresses
<1> HIDE DEF a, b
<1>4. GraphTypeOK'
  BY <1>1, <1>2 DEF GraphInv, GraphTypeOK
<1>5. DelegationSymmetric'
  BY <1>1, <1>2, <1>3 DEF GraphInv, GraphTypeOK, DelegationSymmetric
<1>6. DelegationAcyclic'
  BY <1>1, <1>2, DelegateKeepsAcyclic
<1> QED BY <1>4, <1>5, <1>6 DEF GraphInv

LEMMA RevokeKeepsGraph ==
    ASSUME GovernanceAssumption, GraphInv, NEW a \in Accounts, RevokeDelegatedVote(a)
    PROVE  GraphInv'
<1>1. /\ outgoing[a] # None
      /\ outgoing' = [outgoing EXCEPT ![a] = None]
      /\ incoming' = [incoming EXCEPT ![outgoing[a]] = @ \ {a}]
  BY DEF RevokeDelegatedVote, VerifyRevokeDelegatedVote, RemoveIncoming
<1>2. outgoing[a] \in Accounts
  BY <1>1 DEF GraphInv, GraphTypeOK
<1>3. None \notin Accounts
  BY DEF GovernanceAssumption, Addresses
<1>4. GraphTypeOK'
  BY <1>1, <1>2 DEF GraphInv, GraphTypeOK
<1>5. DelegationSymmetric'
  BY <1>1, <1>2, <1>3 DEF GraphInv, GraphTypeOK, DelegationSymmetric
<1>6. DelegationAcyclic'
  BY <1>1, RevokeKeepsAcyclic
<1> QED BY <1>4, <1>5, <1>6 DEF GraphInv

THEOREM GraphInductive == Spec => []GraphInv
<1>1. Init => GraphInv
  <2> SUFFICES ASSUME Init PROVE GraphInv
    OBVIOUS
  <2>1. None \notin Accounts
    BY GovernanceAssumption DEF GovernanceAssumption, Addresses
  <2>2. outgoing = [a \in Accounts |-> None] /\ incoming = [a \in Accounts |-> {}]
    BY DEF Init
  <2> QED BY <2>1, <2>2 DEF GraphInv, GraphTypeOK, DelegationSymmetric, DelegationAcyclic
<1>2. GraphInv /\ [Next]_vars => GraphInv'
  <2> SUFFICES ASSUME GraphInv, [Next]_vars PROVE GraphInv'
    OBVIOUS
  <2>1. ASSUME UNCHANGED <<outgoing, incoming>> PROVE GraphInv'
    BY <2>1 DEF GraphInv, GraphTypeOK, DelegationSymmetric, DelegationAcyclic
  <2>2. CASE DelegateVoteCommand
    BY <2>2, DelegateKeepsGraph, GovernanceAssumption DEF DelegateVoteCommand
  <2>3. CASE RevokeDelegatedVoteCommand
    BY <2>3, RevokeKeepsGraph, GovernanceAssumption DEF RevokeDelegatedVoteCommand
  <2>4. CASE UNCHANGED vars
    BY <2>1, <2>4 DEF vars, accountVars
  <2> QED BY <2>1, <2>2, <2>3, <2>4, GraphUnchanged
<1> QED BY <1>1, <1>2, PTL DEF Spec

\* Following delegations always ends: no account ever delegates, over any number
\* of others, to itself. The check of verifyDelegateVote walks incoming
\* delegations only, so it needs the symmetry to see every path.
THEOREM NoCycle == Spec => []DelegationAcyclic
<1>1. GraphInv => DelegationAcyclic
  BY DEF GraphInv
<1> QED BY <1>1, GraphInductive, PTL

\* The incoming and outgoing sides of the delegatedVote store always agree.
THEOREM SidesAgree == Spec => []DelegationSymmetric
<1>1. GraphInv => DelegationSymmetric
  BY DEF GraphInv
<1> QED BY <1>1, GraphInductive, PTL

-------------------------------------------------------------------------------
(* The queue and the votes *)

\* The proposals that were created.
Known == {p \in ProposalIds : status[p] # "ABSENT"}

QueueTypeOK ==
    /\ height \in Heights /\ phase \in {"transactions", "queue"}
    /\ executing \in BOOLEAN
    /\ nextId \in 0 .. MaxProposals
    /\ status \in [ProposalIds -> Statuses]
    /\ schedule \in [ProposalIds -> [Kinds -> Nat]]
    /\ casted \in [Accounts -> [ProposalIds -> Decisions \cup {None}]]
    /\ voters \in [ProposalIds -> SUBSET Accounts]
    /\ ValidConfig(config)

\* The queue names only proposals that were created.
QueuedKnown ==
    /\ queue \in [Heights -> [Kinds -> Seq(Known)]]
    /\ todo \in Seq([kind : Kinds, id : Known])

FreshIds == \A p \in ProposalIds : p >= nextId => status[p] = "ABSENT"

\* The actions that are being executed are those of an accepted proposal at the
\* head of the queue.
ExecutingAccepted ==
    executing => /\ phase = "queue" /\ todo # <<>>
                 /\ Head(todo).kind = "execute"
                 /\ status[Head(todo).id] = "ACCEPTED"

QueueInv ==
    QueueTypeOK /\ QueuedKnown /\ FreshIds /\ ExecutingAccepted /\ NoVoteOutlivesProposal

\* The head of the queue, and what is left of it.
LEMMA QueueHead ==
    ASSUME QueuedKnown, todo # <<>>
    PROVE  /\ Head(todo) \in [kind : Kinds, id : Known]
           /\ Head(todo).id \in Known /\ Head(todo).id \in ProposalIds
           /\ Tail(todo) \in Seq([kind : Kinds, id : Known])
<1>1. Head(todo) \in [kind : Kinds, id : Known] /\ Tail(todo) \in Seq([kind : Kinds, id : Known])
  BY HeadTailProperties DEF QueuedKnown
<1> QED BY <1>1 DEF Known

\* No step makes a proposal absent, so what is queued stays known.
LEMMA QueueStaysKnown ==
    ASSUME QueuedKnown, Known \subseteq Known', queue' = queue,
           todo' \in Seq([kind : Kinds, id : Known])
    PROVE  QueuedKnown'
<1>1. \A h \in Heights, k \in Kinds : queue[h][k] \in Seq(Known')
  BY SeqMonotonic DEF QueuedKnown
<1>2. queue \in [Heights -> [Kinds -> Seq(Known')]]
  BY <1>1 DEF QueuedKnown
<1>3. [kind : Kinds, id : Known] \subseteq [kind : Kinds, id : Known']
  OBVIOUS
<1>4. todo' \in Seq([kind : Kinds, id : Known'])
  BY <1>3, SeqMonotonic
<1> QED BY <1>2, <1>4 DEF QueuedKnown, Heights, Kinds

\* What afterTransactionsExecute loads.
LEMMA EntriesType ==
    ASSUME NEW S, NEW kind \in Kinds, NEW ids \in Seq(S)
    PROVE  Entries(kind, ids) \in Seq([kind : Kinds, id : S])
<1> DEFINE T == [kind : Kinds, id : S]
           e == Entries(kind, ids)
<1>1. Len(ids) \in Nat /\ \A i \in 1 .. Len(ids) : ids[i] \in S
  BY ElementOfSeq, LenProperties
<1>2. e \in [1 .. Len(ids) -> T]
  BY <1>1 DEF Entries
<1>3. e \in Seq(T)
  <2> HIDE DEF e, T
  <2> QED BY <1>1, <1>2, SeqDef
<1> QED BY <1>3

\* A step of the queue that moves the status of the head: the ids stay typed.
LEMMA HeadMoves ==
    ASSUME QueueTypeOK, QueuedKnown, FreshIds, todo # <<>>,
           NEW s \in Statuses \ {"ABSENT"},
           status' = [status EXCEPT ![Head(todo).id] = s],
           todo' = Tail(todo),
           UNCHANGED <<nextId, queue>>
    PROVE  status' \in [ProposalIds -> Statuses] /\ QueuedKnown' /\ FreshIds'
<1> DEFINE p == Head(todo).id
<1>1. p \in Known /\ p \in ProposalIds /\ Tail(todo) \in Seq([kind : Kinds, id : Known])
  BY QueueHead
<1>2. \A q \in ProposalIds : status'[q] = IF q = p THEN s ELSE status[q]
  BY DEF QueueTypeOK
<1>3. status' \in [ProposalIds -> Statuses]
  BY DEF QueueTypeOK
<1>4. QueuedKnown'
  BY <1>1, <1>2, QueueStaysKnown DEF Known
<1>5. FreshIds'
  BY <1>1, <1>2 DEF FreshIds, Known
<1> QED BY <1>3, <1>4, <1>5

\* Commands other than the creation of a proposal, and the steps of a block, that
\* leave every status alone.
LEMMA StatusUnchanged ==
    ASSUME QueueTypeOK, QueuedKnown, FreshIds,
           todo' \in Seq([kind : Kinds, id : Known]),
           UNCHANGED <<nextId, queue, status>>
    PROVE  QueuedKnown' /\ FreshIds'
<1>1. Known' = Known
  BY DEF Known
<1> QED BY <1>1, QueueStaysKnown DEF FreshIds

LEMMA InitQueue == GovernanceAssumption /\ Init => QueueInv
<1> SUFFICES ASSUME GovernanceAssumption, Init PROVE QueueInv
  OBVIOUS
<1>1. /\ height = StartHeight /\ phase = "transactions" /\ todo = <<>> /\ executing = FALSE
      /\ config = InitConfig /\ nextId = 0
      /\ status = [p \in ProposalIds |-> "ABSENT"]
      /\ schedule = [p \in ProposalIds |-> [k \in Kinds |-> 0]]
      /\ queue = [h \in Heights |-> [k \in Kinds |-> <<>>]]
      /\ casted = [a \in Accounts |-> NoDecision]
      /\ voters = [p \in ProposalIds |-> {}]
  BY DEF Init
<1>2. QueueTypeOK
  <2>1. ValidConfig(config)
    BY <1>1 DEF GovernanceAssumption, ValidConfig
  <2>2. height \in Heights /\ nextId \in 0 .. MaxProposals
    BY <1>1 DEF GovernanceAssumption, Heights
  <2>3. casted \in [Accounts -> [ProposalIds -> Decisions \cup {None}]]
    BY <1>1 DEF NoDecision
  <2>4. /\ status \in [ProposalIds -> Statuses] /\ voters \in [ProposalIds -> SUBSET Accounts]
        /\ schedule \in [ProposalIds -> [Kinds -> Nat]]
    BY <1>1 DEF Statuses
  <2> QED BY <1>1, <2>1, <2>2, <2>3, <2>4 DEF QueueTypeOK
<1>3. QueuedKnown
  BY <1>1, EmptySeq DEF QueuedKnown
<1>4. FreshIds /\ ExecutingAccepted
  BY <1>1 DEF FreshIds, ExecutingAccepted
<1>5. NoVoteOutlivesProposal
  BY <1>1 DEF NoVoteOutlivesProposal, NoDecision
<1> QED BY <1>2, <1>3, <1>4, <1>5 DEF QueueInv

LEMMA CreateKeepsQueue ==
    ASSUME GovernanceAssumption, QueueInv, NEW a \in Authors, NEW actions \in ActionLists,
           NEW attributes \in AttributesArrays, CreateProposal(a, actions, attributes)
    PROVE  QueueInv'
<1> DEFINE p == nextId
           when == [start   |-> height + config.votingDelayDuration,
                    quorum  |-> height + config.quorumDuration,
                    ends    |-> height + config.voteDuration,
                    execute |-> height + config.executionDuration]
<1>1. /\ phase = "transactions" /\ nextId < MaxProposals
      /\ status' = [status EXCEPT ![p] = "CREATED"]
      /\ schedule' = [schedule EXCEPT ![p] = when]
      /\ RegisterQueue(p, when)
      /\ nextId' = nextId + 1
      /\ UNCHANGED <<height, phase, todo, executing, config, casted, voters>>
  BY DEF CreateProposal, InTransactions, IncreaseNextAvailableId, blockVars, voteVars
<1>2. p \in ProposalIds /\ status[p] = "ABSENT"
  BY <1>1 DEF QueueInv, QueueTypeOK, FreshIds, ProposalIds, GovernanceAssumption
<1>3. \A q \in ProposalIds : status'[q] = IF q = p THEN "CREATED" ELSE status[q]
  BY <1>1 DEF QueueInv, QueueTypeOK
<1>4. Known' = Known \cup {p}
  BY <1>2, <1>3 DEF Known
<1>5. QueueTypeOK'
  <2>1. when \in [Kinds -> Nat]
    <3>1. \A d \in Durations : config[d] \in Nat
      BY DEF QueueInv, QueueTypeOK, ValidConfig
    <3>2. height \in Nat
      BY DEF QueueInv, QueueTypeOK, Heights, GovernanceAssumption
    <3> QED BY <3>1, <3>2 DEF Durations, Kinds
  <2>2. schedule' \in [ProposalIds -> [Kinds -> Nat]]
    BY <1>1, <2>1 DEF QueueInv, QueueTypeOK
  <2>3. status' \in [ProposalIds -> Statuses]
    BY <1>1 DEF QueueInv, QueueTypeOK, Statuses
  <2>4. nextId' \in 0 .. MaxProposals
    BY <1>1 DEF QueueInv, QueueTypeOK, GovernanceAssumption
  <2> QED BY <1>1, <2>2, <2>3, <2>4 DEF QueueInv, QueueTypeOK
<1>6. QueuedKnown'
  <2>1. \A h \in Heights, k \in Kinds :
            queue[h][k] \in Seq(Known') /\ Append(queue[h][k], p) \in Seq(Known')
    <3> SUFFICES ASSUME NEW h \in Heights, NEW k \in Kinds
                 PROVE  queue[h][k] \in Seq(Known') /\ Append(queue[h][k], p) \in Seq(Known')
      OBVIOUS
    <3>1. queue[h][k] \in Seq(Known')
      BY <1>4, SeqMonotonic DEF QueueInv, QueuedKnown
    <3> QED BY <3>1, <1>4, AppendProperties
  <2> HIDE DEF p, when
  <2>2. \A h \in Heights, k \in Kinds : queue'[h][k] \in {queue[h][k], Append(queue[h][k], p)}
    BY <1>1 DEF RegisterQueue, SaveQueue
  <2>3. queue' = [h \in Heights |-> [k \in Kinds |-> queue'[h][k]]]
    BY <1>1 DEF RegisterQueue, SaveQueue
  <2>4. queue' \in [Heights -> [Kinds -> Seq(Known')]]
    <3>1. \A h \in Heights, k \in Kinds : queue'[h][k] \in Seq(Known')
      BY <2>1, <2>2
    <3>2. PICK S : S = Seq(Known')
      OBVIOUS
    <3> QED BY ONLY <2>3, <3>1, <3>2
  <2>5. todo' \in Seq([kind : Kinds, id : Known'])
    <3>1. [kind : Kinds, id : Known] \subseteq [kind : Kinds, id : Known']
      BY <1>4
    <3> QED BY <1>1, <3>1, SeqMonotonic DEF QueueInv, QueuedKnown
  <2> QED BY <2>4, <2>5 DEF QueuedKnown, Heights, Kinds
<1>7. FreshIds'
  <2>1. nextId \in Nat /\ nextId' = nextId + 1
    BY <1>1 DEF QueueInv, QueueTypeOK, GovernanceAssumption
  <2>2. \A q \in ProposalIds : q \in Int /\ (q >= nextId => status[q] = "ABSENT")
    BY DEF QueueInv, FreshIds, ProposalIds, GovernanceAssumption
  <2> QED BY <1>3, <2>1, <2>2 DEF FreshIds
<1>8. ExecutingAccepted'
  BY <1>1 DEF QueueInv, ExecutingAccepted
<1>9. NoVoteOutlivesProposal'
  BY <1>1, <1>2, <1>3 DEF QueueInv, NoVoteOutlivesProposal
<1> QED BY <1>5, <1>6, <1>7, <1>8, <1>9 DEF QueueInv

\* Commands that only touch votes.
LEMMA VotesKeepQueue ==
    ASSUME QueueInv,
           UNCHANGED <<height, phase, todo, executing, config, nextId, status, schedule, queue>>,
           casted' \in [Accounts -> [ProposalIds -> Decisions \cup {None}]],
           voters' \in [ProposalIds -> SUBSET Accounts],
           NoVoteOutlivesProposal'
    PROVE  QueueInv'
<1>1. QueueTypeOK'
  BY DEF QueueInv, QueueTypeOK
<1>2. QueuedKnown' /\ FreshIds'
  BY StatusUnchanged DEF QueueInv, QueuedKnown
<1>3. ExecutingAccepted'
  BY DEF QueueInv, ExecutingAccepted
<1> QED BY <1>1, <1>2, <1>3 DEF QueueInv

LEMMA VoteKeepsQueue ==
    ASSUME GovernanceAssumption, QueueInv,
           NEW a \in Accounts, NEW p \in ProposalIds, NEW d \in VoteDecisions, Vote(a, p, d)
    PROVE  QueueInv'
<1>1. /\ status[p] = "ACTIVE"
      /\ casted' = [casted EXCEPT ![a] = [casted[a] EXCEPT ![p] = d]]
      /\ voters' = [voters EXCEPT ![p] = @ \cup {a}]
      /\ UNCHANGED <<height, phase, todo, executing, config, nextId, status, schedule, queue>>
  BY DEF Vote, VerifyVote, AddVoter, blockVars, proposalVars
<1>2. casted' \in [Accounts -> [ProposalIds -> Decisions \cup {None}]]
  BY <1>1 DEF QueueInv, QueueTypeOK, GovernanceAssumption
<1>3. voters' \in [ProposalIds -> SUBSET Accounts]
  BY <1>1 DEF QueueInv, QueueTypeOK
<1>4. NoVoteOutlivesProposal'
  BY <1>1 DEF QueueInv, QueueTypeOK, NoVoteOutlivesProposal
<1> QED BY <1>1, <1>2, <1>3, <1>4, VotesKeepQueue

\* DelegateVote and RevokeDelegatedVote take all the votes of the sender away.
LEMMA RemovalKeepsQueue ==
    ASSUME QueueInv, NEW a \in Accounts, RemoveAllCastedVote(a),
           UNCHANGED <<blockVars, config, proposalVars, voters>>
    PROVE  QueueInv'
<1>1. casted' = [casted EXCEPT ![a] = NoDecision]
  BY DEF RemoveAllCastedVote
<1>2. NoDecision \in [ProposalIds -> Decisions \cup {None}]
      /\ \A p \in ProposalIds : NoDecision[p] = None
  BY DEF NoDecision
<1>3. casted' \in [Accounts -> [ProposalIds -> Decisions \cup {None}]]
  BY <1>1, <1>2 DEF QueueInv, QueueTypeOK
<1>4. voters' \in [ProposalIds -> SUBSET Accounts]
  BY DEF QueueInv, QueueTypeOK
<1>5. NoVoteOutlivesProposal'
  BY <1>1, <1>2 DEF QueueInv, QueueTypeOK, NoVoteOutlivesProposal, proposalVars
<1> QED BY <1>3, <1>4, <1>5, VotesKeepQueue DEF blockVars, proposalVars

LEMMA CommandKeepsQueue ==
    ASSUME GovernanceAssumption, QueueInv, Command
    PROVE  QueueInv'
<1>1. CASE CreateProposalCommand
  BY <1>1, CreateKeepsQueue DEF CreateProposalCommand
<1>2. CASE VoteCommand
  BY <1>2, VoteKeepsQueue DEF VoteCommand
<1>3. CASE DelegateVoteCommand
  <2>1. PICK pair \in DelegationPairs : DelegateVote(pair[1], pair[2])
    BY <1>3 DEF DelegateVoteCommand
  <2>2. pair[1] \in Accounts
    BY DEF GovernanceAssumption
  <2> QED BY <2>1, <2>2, RemovalKeepsQueue DEF DelegateVote
<1>4. CASE RevokeDelegatedVoteCommand
  BY <1>4, RemovalKeepsQueue DEF RevokeDelegatedVoteCommand, RevokeDelegatedVote
<1>5. CASE SetProposalAttributesCommand \/ BoostVoteCommand \/ StakeCommand
  <2>1. UNCHANGED <<blockVars, config, nextId, status, schedule, queue, casted, voters>>
    BY <1>5 DEF SetProposalAttributesCommand, SetAttributes, BoostVoteCommand, BoostVote,
       StakeCommand, Stake, FailedStake, proposalVars, voteVars
  <2>2. NoVoteOutlivesProposal'
    BY <2>1 DEF QueueInv, NoVoteOutlivesProposal
  <2> QED BY <2>1, <2>2, VotesKeepQueue DEF QueueInv, QueueTypeOK, blockVars
<1> QED BY <1>1, <1>2, <1>3, <1>4, <1>5 DEF Command

LEMMA EndTransactionsKeepsQueue ==
    ASSUME QueueInv, EndTransactions
    PROVE  QueueInv'
<1> DEFINE q == queue[height]
           K == Known
<1>1. /\ phase = "transactions" /\ phase' = "queue"
      /\ todo' = Entries("start", q.start) \o Entries("quorum", q.quorum)
                     \o Entries("ends", q.ends) \o Entries("execute", q.execute)
      /\ UNCHANGED <<height, executing, config, nextId, status, schedule, queue, casted, voters>>
  BY DEF EndTransactions, InTransactions, proposalVars, voteVars
<1>2. q \in [Kinds -> Seq(K)]
  BY DEF QueueInv, QueueTypeOK, QueuedKnown
<1>3. todo' \in Seq([kind : Kinds, id : K])
  <2> HIDE DEF q, K
  <2>1. /\ q.start \in Seq(K) /\ q.quorum \in Seq(K)
        /\ q.ends \in Seq(K) /\ q.execute \in Seq(K)
        /\ "start" \in Kinds /\ "quorum" \in Kinds /\ "ends" \in Kinds /\ "execute" \in Kinds
    BY <1>2 DEF Kinds
  <2>2. /\ Entries("start", q.start) \in Seq([kind : Kinds, id : K])
        /\ Entries("quorum", q.quorum) \in Seq([kind : Kinds, id : K])
        /\ Entries("ends", q.ends) \in Seq([kind : Kinds, id : K])
        /\ Entries("execute", q.execute) \in Seq([kind : Kinds, id : K])
    BY <2>1, EntriesType
  <2> QED BY <1>1, <2>2, ConcatProperties
<1>4. QueueTypeOK'
  BY <1>1 DEF QueueInv, QueueTypeOK
<1>5. QueuedKnown' /\ FreshIds'
  BY <1>1, <1>3, StatusUnchanged DEF QueueInv
<1>6. ExecutingAccepted'
  BY <1>1 DEF QueueInv, ExecutingAccepted
<1>7. NoVoteOutlivesProposal'
  BY <1>1 DEF QueueInv, NoVoteOutlivesProposal
<1> QED BY <1>4, <1>5, <1>6, <1>7 DEF QueueInv

LEMMA StartedKeepsQueue ==
    ASSUME QueueInv, ExecuteStarted
    PROVE  QueueInv'
<1> DEFINE p == Head(todo).id
<1>1. /\ todo # <<>> /\ Head(todo).kind = "start" /\ todo' = Tail(todo)
      /\ status' = [status EXCEPT ![p] = "ACTIVE"]
      /\ UNCHANGED <<height, phase, executing, config, nextId, schedule, queue, casted, voters>>
  BY DEF ExecuteStarted, NextEntry, voteVars
<1>2. status' \in [ProposalIds -> Statuses] /\ QueuedKnown' /\ FreshIds'
  BY <1>1, HeadMoves DEF QueueInv, Statuses
<1>3. QueueTypeOK'
  BY <1>1, <1>2 DEF QueueInv, QueueTypeOK
<1>4. ~executing
  BY <1>1 DEF QueueInv, ExecutingAccepted
<1>5. ExecutingAccepted'
  BY <1>1, <1>4 DEF ExecutingAccepted
<1>6. NoVoteOutlivesProposal'
  BY <1>1 DEF QueueInv, QueueTypeOK, NoVoteOutlivesProposal
<1> QED BY <1>2, <1>3, <1>5, <1>6 DEF QueueInv

LEMMA SkippedKeepsQueue ==
    ASSUME QueueInv, SkipEntry \/ PassQuorum
    PROVE  QueueInv'
<1>1. /\ todo # <<>> /\ todo' = Tail(todo)
      /\ UNCHANGED <<height, phase, executing, config, nextId, status, schedule, queue,
                     casted, voters>>
  BY DEF SkipEntry, PassQuorum, NextEntry, proposalVars, voteVars
<1>2. QueuedKnown' /\ FreshIds'
  BY <1>1, QueueHead, StatusUnchanged DEF QueueInv
<1>3. QueueTypeOK' /\ NoVoteOutlivesProposal'
  BY <1>1 DEF QueueInv, QueueTypeOK, NoVoteOutlivesProposal
<1>4. ~executing
  BY DEF SkipEntry, PassQuorum, NextEntry, QueueInv, ExecutingAccepted
<1>5. ExecutingAccepted'
  BY <1>1, <1>4 DEF ExecutingAccepted
<1> QED BY <1>2, <1>3, <1>5 DEF QueueInv

\* FailQuorum and ExecuteEnded take the votes of a proposal away with its status.
LEMMA RemovedKeepsQueue ==
    ASSUME QueueInv, NEW s \in Statuses \ {"ABSENT"},
           NextEntry("quorum") \/ NextEntry("ends"),
           status' = [status EXCEPT ![Head(todo).id] = s],
           RemoveCastedVotes(Head(todo).id),
           todo' = Tail(todo),
           UNCHANGED <<height, phase, executing, config, nextId, schedule, queue, voters>>
    PROVE  QueueInv'
<1> DEFINE p == Head(todo).id
<1>1. /\ todo # <<>> /\ Head(todo).kind \in {"quorum", "ends"}
      /\ casted' = [a \in Accounts |-> IF a \in voters[p] THEN [casted[a] EXCEPT ![p] = None]
                                                          ELSE casted[a]]
  BY DEF NextEntry, RemoveCastedVotes
<1>2. status' \in [ProposalIds -> Statuses] /\ QueuedKnown' /\ FreshIds'
  BY <1>1, HeadMoves DEF QueueInv
<1>3. \A a \in Accounts, q \in ProposalIds :
          casted'[a][q] = IF a \in voters[p] /\ q = p THEN None ELSE casted[a][q]
  BY <1>1 DEF QueueInv, QueueTypeOK
<1>4. casted' \in [Accounts -> [ProposalIds -> Decisions \cup {None}]]
  BY <1>1 DEF QueueInv, QueueTypeOK
<1>5. QueueTypeOK'
  BY <1>2, <1>4 DEF QueueInv, QueueTypeOK
<1>6. ~executing
  BY <1>1 DEF QueueInv, ExecutingAccepted
<1>7. ExecutingAccepted'
  BY <1>6 DEF ExecutingAccepted
<1>8. \A q \in ProposalIds : q # p => status'[q] = status[q]
  BY DEF QueueInv, QueueTypeOK
<1>9. NoVoteOutlivesProposal'
  BY <1>3, <1>8 DEF QueueInv, NoVoteOutlivesProposal
<1> QED BY <1>2, <1>5, <1>7, <1>9 DEF QueueInv

\* The start, the steps and the end of the execution of actions.
LEMMA OutcomeKeepsQueue ==
    ASSUME QueueInv,
           BeginOutcome \/ ExecuteFunding \/ ExecuteConfig \/ FailAction \/ FinishOutcome
    PROVE  QueueInv'
<1>1. CASE BeginOutcome \/ ExecuteFunding \/ ExecuteConfig
  <2>1. /\ todo' = todo /\ executing'
        /\ UNCHANGED <<height, phase, nextId, status, schedule, queue, casted, voters>>
    BY <1>1 DEF BeginOutcome, ExecuteFunding, ExecuteConfig, QueueInv, QueueTypeOK,
       proposalVars, voteVars
  <2>2. ValidConfig(config)'
    BY <1>1 DEF BeginOutcome, ExecuteFunding, ExecuteConfig, QueueInv, QueueTypeOK, ValidConfig
  <2>3. executing' \in BOOLEAN
    BY <1>1 DEF BeginOutcome, ExecuteFunding, ExecuteConfig, QueueInv, QueueTypeOK
  <2>4. QueueTypeOK' /\ NoVoteOutlivesProposal'
    BY <2>1, <2>2, <2>3 DEF QueueInv, QueueTypeOK, NoVoteOutlivesProposal
  <2>5. QueuedKnown' /\ FreshIds'
    BY <2>1, StatusUnchanged DEF QueueInv, QueuedKnown
  <2>6. ExecutingAccepted
    BY DEF QueueInv
  <2>7. ExecutingAccepted'
    BY <1>1, <2>1, <2>6 DEF ExecutingAccepted, BeginOutcome, ExecuteFunding, ExecuteConfig,
       NextEntry
  <2> QED BY <2>4, <2>5, <2>7 DEF QueueInv
<1>2. CASE FailAction \/ FinishOutcome
  <2>1. PICK s \in {"EXECUTED", "EXECUTED_WITH_ERROR"} : EndOutcome(s)
    BY <1>2 DEF FailAction, FinishOutcome
  <2>2. /\ status' = [status EXCEPT ![Head(todo).id] = s]
        /\ todo' = Tail(todo) /\ executing' = FALSE
        /\ UNCHANGED <<height, phase, config, nextId, schedule, queue, casted, voters>>
    BY <2>1 DEF EndOutcome, voteVars
  <2>3. todo # <<>> /\ status[Head(todo).id] = "ACCEPTED"
    BY <1>2 DEF FailAction, FinishOutcome, QueueInv, ExecutingAccepted
  <2>4. status' \in [ProposalIds -> Statuses] /\ QueuedKnown' /\ FreshIds'
    BY <2>2, <2>3, HeadMoves DEF QueueInv, Statuses
  <2>5. QueueTypeOK' /\ ExecutingAccepted'
    BY <2>2, <2>4 DEF QueueInv, QueueTypeOK, ExecutingAccepted
  <2>6. NoVoteOutlivesProposal'
    BY <2>2, <2>3 DEF QueueInv, QueueTypeOK, NoVoteOutlivesProposal
  <2> QED BY <2>4, <2>5, <2>6 DEF QueueInv
<1> QED BY <1>1, <1>2

LEMMA QueueStepKeepsQueue ==
    ASSUME QueueInv, QueueStep
    PROVE  QueueInv'
<1>1. CASE ExecuteStarted
  BY <1>1, StartedKeepsQueue
<1>2. CASE SkipEntry \/ PassQuorum
  BY <1>2, SkippedKeepsQueue
<1>3. CASE FailQuorum
  BY <1>3, RemovedKeepsQueue DEF FailQuorum, Statuses
<1>4. CASE ExecuteEnded
  <2>1. Outcome(Head(todo).id) \in Statuses \ {"ABSENT"}
    BY DEF Outcome, Statuses
  <2> QED BY <1>4, <2>1, RemovedKeepsQueue DEF ExecuteEnded
<1>5. CASE BeginOutcome \/ ExecuteFunding \/ ExecuteConfig \/ FailAction \/ FinishOutcome
  BY <1>5, OutcomeKeepsQueue
<1> QED BY <1>1, <1>2, <1>3, <1>4, <1>5 DEF QueueStep

LEMMA NextBlockKeepsQueue ==
    ASSUME GovernanceAssumption, QueueInv, NextBlock
    PROVE  QueueInv'
<1>1. /\ todo = <<>> /\ height < MaxHeight /\ height' = height + 1 /\ phase' = "transactions"
      /\ UNCHANGED <<todo, executing, config, nextId, status, schedule, queue, casted, voters>>
  BY DEF NextBlock, proposalVars, voteVars
<1>2. height' \in Heights
  BY <1>1 DEF QueueInv, QueueTypeOK, Heights, GovernanceAssumption
<1>3. QueueTypeOK' /\ NoVoteOutlivesProposal'
  BY <1>1, <1>2 DEF QueueInv, QueueTypeOK, NoVoteOutlivesProposal
<1>4. QueuedKnown' /\ FreshIds'
  BY <1>1, StatusUnchanged DEF QueueInv, QueuedKnown
<1>5. ExecutingAccepted'
  BY <1>1 DEF QueueInv, ExecutingAccepted
<1> QED BY <1>3, <1>4, <1>5 DEF QueueInv

THEOREM QueueInductive == Spec => []QueueInv
<1>1. Init => QueueInv
  BY InitQueue, GovernanceAssumption
<1>2. QueueInv /\ [Next]_vars => QueueInv'
  <2> SUFFICES ASSUME QueueInv, [Next]_vars PROVE QueueInv'
    OBVIOUS
  <2>1. CASE UNCHANGED vars
    <3>1. NoVoteOutlivesProposal'
      BY <2>1 DEF QueueInv, NoVoteOutlivesProposal, vars, proposalVars, voteVars
    <3> QED BY <2>1, <3>1, VotesKeepQueue DEF QueueInv, QueueTypeOK, vars, blockVars,
               proposalVars, voteVars
  <2>2. CASE Command
    BY <2>2, CommandKeepsQueue, GovernanceAssumption
  <2>3. CASE EndTransactions
    BY <2>3, EndTransactionsKeepsQueue
  <2>4. CASE QueueStep
    BY <2>4, QueueStepKeepsQueue
  <2>5. CASE NextBlock
    BY <2>5, NextBlockKeepsQueue, GovernanceAssumption
  <2>6. CASE Horizon
    BY <2>1, <2>6 DEF Horizon
  <2> QED BY <2>1, <2>2, <2>3, <2>4, <2>5, <2>6 DEF Next, BlockStep
<1> QED BY <1>1, <1>2, PTL DEF Spec

\* A casted vote is on an active proposal whose voter list names its owner: the
\* queue, which only reads that list, leaves no vote behind to be subtracted later.
THEOREM VotesEndWithProposal == Spec => []NoVoteOutlivesProposal
<1>1. QueueInv => NoVoteOutlivesProposal
  BY DEF QueueInv
<1> QED BY <1>1, QueueInductive, PTL

\* The queue, the stores that it reads and the delegation graph keep their types.
THEOREM StructureTyped == Spec => []StructureTypeOK
<1>1. QueueInv /\ GraphInv => StructureTypeOK
  <2> SUFFICES ASSUME QueueInv, GraphInv PROVE StructureTypeOK
    OBVIOUS
  <2>1. Known \subseteq ProposalIds
    BY DEF Known
  <2>2. [kind : Kinds, id : Known] \subseteq [kind : Kinds, id : ProposalIds]
    BY <2>1
  <2>3. todo \in Seq([kind : Kinds, id : ProposalIds])
    BY <2>2, SeqMonotonic DEF QueueInv, QueuedKnown
  <2>4. \A h \in Heights, k \in Kinds : queue[h][k] \in Seq(ProposalIds)
    BY <2>1, SeqMonotonic DEF QueueInv, QueuedKnown
  <2>5. queue \in [Heights -> [Kinds -> Seq(ProposalIds)]]
    BY <2>4 DEF QueueInv, QueuedKnown
  <2> QED BY <2>3, <2>5 DEF StructureTypeOK, QueueInv, QueueTypeOK, GraphInv, GraphTypeOK
<1> QED BY <1>1, QueueInductive, GraphInductive, PTL

-------------------------------------------------------------------------------
(* Delegators and their votes *)

\* While an account delegates, none of its own votes is stored: its score counts
\* through its delegatee only.
THEOREM DelegatorsAreSilent == Spec => []DelegatorsHoldNoVote
<1> DEFINE Typed == QueueTypeOK /\ GraphTypeOK
<1>1. Init => DelegatorsHoldNoVote
  BY DEF Init, DelegatorsHoldNoVote
<1>2. Typed /\ DelegatorsHoldNoVote /\ [Next]_vars => DelegatorsHoldNoVote'
  <2> SUFFICES ASSUME Typed, DelegatorsHoldNoVote, [Next]_vars PROVE DelegatorsHoldNoVote'
    OBVIOUS
  <2>1. CASE UNCHANGED <<outgoing, casted>>
    BY <2>1 DEF DelegatorsHoldNoVote, NoDecision
  <2>2. CASE VoteCommand
    <3>1. PICK a \in Accounts, p \in ProposalIds, d \in VoteDecisions : Vote(a, p, d)
      BY <2>2 DEF VoteCommand
    <3>2. /\ outgoing[a] = None /\ outgoing' = outgoing
          /\ casted' = [casted EXCEPT ![a] = [casted[a] EXCEPT ![p] = d]]
      BY <3>1 DEF Vote, VerifyVote, accountVars
    <3> QED BY <3>2 DEF DelegatorsHoldNoVote, QueueTypeOK, NoDecision
  <2>3. CASE DelegateVoteCommand
    <3>1. PICK pair \in DelegationPairs : DelegateVote(pair[1], pair[2])
      BY <2>3 DEF DelegateVoteCommand
    <3>2. /\ casted' = [casted EXCEPT ![pair[1]] = NoDecision]
          /\ outgoing' = [outgoing EXCEPT ![pair[1]] = pair[2]]
      BY <3>1 DEF DelegateVote, RemoveAllCastedVote
    <3> QED BY <3>2 DEF DelegatorsHoldNoVote, QueueTypeOK, GraphTypeOK, NoDecision
  <2>4. CASE RevokeDelegatedVoteCommand
    <3>1. PICK a \in Accounts : RevokeDelegatedVote(a)
      BY <2>4 DEF RevokeDelegatedVoteCommand
    <3>2. /\ casted' = [casted EXCEPT ![a] = NoDecision]
          /\ outgoing' = [outgoing EXCEPT ![a] = None]
      BY <3>1 DEF RevokeDelegatedVote, RemoveAllCastedVote
    <3> QED BY <3>2 DEF DelegatorsHoldNoVote, QueueTypeOK, GraphTypeOK, NoDecision
  <2>5. CASE FailQuorum \/ ExecuteEnded
    <3>1. RemoveCastedVotes(Head(todo).id) /\ outgoing' = outgoing
      BY <2>5 DEF FailQuorum, ExecuteEnded, accountVars
    <3> DEFINE p == Head(todo).id
    <3>2. \A a \in Accounts : casted'[a] \in {casted[a], [casted[a] EXCEPT ![p] = None]}
      BY <3>1 DEF RemoveCastedVotes
    <3>3. [NoDecision EXCEPT ![p] = None] = NoDecision
      BY DEF NoDecision
    <3> QED BY <3>1, <3>2, <3>3 DEF DelegatorsHoldNoVote, NoDecision
  <2>6. CASE ~ (FailQuorum \/ ExecuteEnded) /\ QueueStep
    BY <2>1, <2>6 DEF QueueStep, ExecuteStarted, SkipEntry, PassQuorum, BeginOutcome,
       ExecuteFunding, ExecuteConfig, FailAction, FinishOutcome, EndOutcome, accountVars,
       voteVars
  <2>7. CASE EndTransactions \/ NextBlock \/ Horizon \/ UNCHANGED vars
    BY <2>1, <2>7 DEF EndTransactions, NextBlock, Horizon, vars, accountVars, voteVars
  <2>8. CASE \/ CreateProposalCommand \/ SetProposalAttributesCommand
             \/ BoostVoteCommand \/ StakeCommand
    BY <2>1, <2>8 DEF CreateProposalCommand, CreateProposal, SetProposalAttributesCommand,
       SetAttributes, BoostVoteCommand, BoostVote, StakeCommand, Stake, FailedStake, accountVars, voteVars
  <2> QED BY <2>2, <2>3, <2>4, <2>5, <2>6, <2>7, <2>8 DEF Next, Command, BlockStep
<1>3. QueueInv /\ GraphInv => Typed
  BY DEF QueueInv, GraphInv
<1> HIDE DEF Typed
<1> QED BY <1>1, <1>2, <1>3, QueueInductive, GraphInductive, PTL DEF Spec

-------------------------------------------------------------------------------
(* The outcome of a vote *)

\* Votes added to or taken from a proposal that is not active have no effect.
LEMMA ShiftOnlyActive ==
    ASSUME NEW t, NEW votes, NEW sign, NEW items,
           NEW p \in ProposalIds, status[p] # "ACTIVE"
    PROVE  ShiftVote(t, votes, sign, items)[p] = t[p]
BY DEF ShiftVote

LEMMA CommandKeepsTally ==
    ASSUME Command, NEW p \in ProposalIds, status[p] # "ACTIVE"
    PROVE  tally'[p] = tally[p]
<1> USE ShiftOnlyActive DEF AddVote, SubtractVote
<1>1. CASE CreateProposalCommand
  BY <1>1 DEF CreateProposalCommand, CreateProposal, voteVars
<1>2. CASE VoteCommand
  BY <1>2 DEF VoteCommand, Vote, RemoveReceivedVotes, AddReceivedVotes
<1>3. CASE SetProposalAttributesCommand
  BY <1>3 DEF SetProposalAttributesCommand, SetAttributes, voteVars
<1>4. CASE DelegateVoteCommand
  BY <1>4 DEF DelegateVoteCommand, DelegateVote, RemoveCarriedVotes, AddCarriedVotes
<1>5. CASE RevokeDelegatedVoteCommand
  BY <1>5 DEF RevokeDelegatedVoteCommand, RevokeDelegatedVote, RemoveCarriedVotes
<1>6. CASE BoostVoteCommand
  BY <1>6 DEF BoostVoteCommand, BoostVote, RemoveSenderVote, AddSenderVote
<1>7. CASE StakeCommand
  BY <1>7 DEF StakeCommand, Stake, FailedStake, UpdateVoteScoreAfterStake
<1> QED BY <1>1, <1>2, <1>3, <1>4, <1>5, <1>6, <1>7 DEF Command

Decided == {"ACCEPTED", "EXECUTED", "EXECUTED_WITH_ERROR"}

\* No command decides a proposal.
LEMMA CommandDecidesNothing ==
    ASSUME QueueInv, Command, NEW p \in ProposalIds, status'[p] \in Decided
    PROVE  status[p] \in Decided
<1>1. CreateProposalCommand \/ status' = status
  BY DEF Command, VoteCommand, Vote, SetProposalAttributesCommand, SetAttributes,
     DelegateVoteCommand, DelegateVote, RevokeDelegatedVoteCommand, RevokeDelegatedVote,
     BoostVoteCommand, BoostVote, StakeCommand, Stake, FailedStake, proposalVars
<1>2. CASE CreateProposalCommand
  <2>1. status' = [status EXCEPT ![nextId] = "CREATED"]
    BY <1>2 DEF CreateProposalCommand, CreateProposal
  <2> QED BY <2>1 DEF QueueInv, QueueTypeOK, Decided
<1> QED BY <1>1, <1>2

\* The queue accepts a proposal by the majority its tally shows, and executes
\* accepted proposals only.
LEMMA QueueDecides ==
    ASSUME QueueInv, QueueStep, NEW p \in ProposalIds, status'[p] \in Decided
    PROVE  /\ tally' = tally
           /\ \/ status[p] \in Decided
              \/ tally[p].voteSummary["for"] > tally[p].voteSummary["against"]
<1> USE DEF QueueInv, QueueTypeOK, Decided
<1>1. CASE ExecuteStarted \/ FailQuorum
  BY <1>1 DEF ExecuteStarted, FailQuorum, voteVars
<1>2. CASE SkipEntry \/ PassQuorum \/ BeginOutcome \/ ExecuteFunding \/ ExecuteConfig
  BY <1>2 DEF SkipEntry, PassQuorum, BeginOutcome, ExecuteFunding, ExecuteConfig, proposalVars,
     voteVars
<1>3. CASE ExecuteEnded
  BY <1>3 DEF ExecuteEnded, Outcome
<1>4. CASE FailAction \/ FinishOutcome
  <2>1. executing /\ tally' = tally /\ \A q \in ProposalIds : q # Head(todo).id => status'[q] = status[q]
    BY <1>4 DEF FailAction, FinishOutcome, EndOutcome, voteVars
  <2> QED BY <2>1 DEF ExecutingAccepted
<1> QED BY <1>1, <1>2, <1>3, <1>4 DEF QueueStep

\* A proposal that was accepted keeps the majority it was accepted with, whatever
\* its voters do to their votes, stakes, boosts and delegations later.
THEOREM MajorityStands == Spec => []AcceptedByMajority
<1>1. Init => AcceptedByMajority
  BY DEF Init, AcceptedByMajority
<1>2. QueueInv /\ AcceptedByMajority /\ [Next]_vars => AcceptedByMajority'
  <2> SUFFICES ASSUME QueueInv, AcceptedByMajority, [Next]_vars,
                      NEW p \in ProposalIds, status'[p] \in Decided
               PROVE  (tally[p].voteSummary["for"] > tally[p].voteSummary["against"])'
    BY DEF AcceptedByMajority, Decided
  <2>1. ASSUME status[p] \in Decided, tally'[p] = tally[p]
        PROVE  (tally[p].voteSummary["for"] > tally[p].voteSummary["against"])'
    BY <2>1 DEF AcceptedByMajority, Decided
  <2>2. CASE Command
    <3>1. status[p] \in Decided
      BY <2>2, CommandDecidesNothing
    <3> QED BY <2>1, <2>2, <3>1, CommandKeepsTally DEF Decided
  <2>3. CASE QueueStep
    BY <2>1, <2>3, QueueDecides
  <2>4. CASE EndTransactions \/ NextBlock \/ Horizon \/ UNCHANGED vars
    BY <2>1, <2>4 DEF EndTransactions, NextBlock, Horizon, vars, proposalVars, voteVars
  <2> QED BY <2>2, <2>3, <2>4 DEF Next, BlockStep
<1> QED BY <1>1, <1>2, QueueInductive, PTL DEF Spec

-------------------------------------------------------------------------------
(* The life of a proposal *)

\* The order in which a block works through the kinds of its queue
Rank == [k \in Kinds |-> CASE k = "start"  -> 1
                           [] k = "quorum" -> 2
                           [] k = "ends"   -> 3
                           [] k = "execute" -> 4]

Entry(k, p) == [kind |-> k, id |-> p]
InTodo(e) == \E i \in 1 .. Len(todo) : todo[i] = e

\* The step k of p is still to come: at a later height, or in what is left of
\* this block.
Ahead(k, p) ==
    \/ height < schedule[p][k]
    \/ height = schedule[p][k] /\ (phase = "transactions" \/ InTodo(Entry(k, p)))

Distinct(s) == \A i, j \in 1 .. Len(s) : s[i] = s[j] => i = j

SchedulesOrdered ==
    \A p \in Known :
        /\ schedule[p]["start"] <= schedule[p]["quorum"]
        /\ schedule[p]["quorum"] <= schedule[p]["ends"]
        /\ schedule[p]["ends"] <= schedule[p]["execute"]

\* Every proposal is in the queue of each of its heights, once, and nowhere else.
QueueComplete ==
    \A p \in Known, k \in Kinds :
        /\ schedule[p][k] \in Heights
        /\ \E i \in 1 .. Len(queue[schedule[p][k]][k]) : queue[schedule[p][k]][k][i] = p

QueueOnTime ==
    \A h \in Heights, k \in Kinds :
        /\ Distinct(queue[h][k])
        /\ \A i \in 1 .. Len(queue[h][k]) : schedule[queue[h][k][i]][k] = h

TodoOnTime ==
    /\ phase = "transactions" => todo = <<>>
    /\ Distinct(todo)
    /\ \A i \in 1 .. Len(todo) : schedule[todo[i].id][todo[i].kind] = height
    /\ \A i, j \in 1 .. Len(todo) : i <= j => Rank[todo[i].kind] <= Rank[todo[j].kind]

\* What follows an entry of this block is ahead of its proposal.
OrderAhead ==
    \A p \in Known, k, l \in Kinds :
        InTodo(Entry(k, p)) /\ Rank[k] <= Rank[l] => Ahead(l, p)

StatusFollowsQueue ==
    \A p \in Known :
        /\ status[p] = "CREATED" <=> Ahead("start", p)
        /\ status[p] = "ACCEPTED" => Ahead("execute", p)

LifeInv ==
    /\ SchedulesOrdered /\ QueueComplete /\ QueueOnTime /\ TodoOnTime
    /\ OrderAhead /\ StatusFollowsQueue

DepositsTyped ==
    /\ DOMAIN proposals = ProposalIds /\ DOMAIN locked = Accounts
    /\ \A p \in Known :
          /\ {"author", "deposited"} \subseteq DOMAIN proposals[p]
          /\ proposals[p].author \in Accounts /\ proposals[p].deposited \in Nat

-------------------------------------------------------------------------------
(* Taking an entry off the queue *)

\* The kinds are ranked one by one.
LEMMA RankFacts ==
    /\ Rank["start"] = 1 /\ Rank["quorum"] = 2 /\ Rank["ends"] = 3 /\ Rank["execute"] = 4
    /\ \A k \in Kinds : Rank[k] \in 1 .. 4
    /\ \A k, l \in Kinds : Rank[k] = Rank[l] => k = l
BY DEF Rank, Kinds

\* The first entry is left, and the others move up.
LEMMA TodoTail ==
    ASSUME QueuedKnown, todo # <<>>
    PROVE  /\ Len(todo) \in Nat /\ Len(todo) > 0 /\ Head(todo) = todo[1]
           /\ Len(Tail(todo)) = Len(todo) - 1
           /\ \A i \in 1 .. Len(todo) - 1 : Tail(todo)[i] = todo[i + 1]
           /\ \A i \in 1 .. Len(todo) : todo[i] \in [kind : Kinds, id : Known]
<1>1. todo \in Seq([kind : Kinds, id : Known])
  BY DEF QueuedKnown
<1>2. Len(todo) \in Nat \ {0}
  BY <1>1, EmptySeq
<1>3. \A i \in 1 .. Len(todo) : todo[i] \in [kind : Kinds, id : Known]
  BY <1>1, ElementOfSeq
<1> QED BY <1>1, <1>2, <1>3, HeadTailProperties

\* What a step of the queue leaves in todo when it takes the head off.
LEMMA TodoRest ==
    ASSUME QueuedKnown, TodoOnTime, todo # <<>>,
           todo' = Tail(todo), UNCHANGED <<height, phase, schedule>>
    PROVE  /\ TodoOnTime'
           /\ \A k, p : InTodo(Entry(k, p))' <=> InTodo(Entry(k, p)) /\ Entry(k, p) # Head(todo)
<1>1. /\ Len(todo) \in Nat /\ Len(todo) > 0 /\ Head(todo) = todo[1]
      /\ Len(todo') = Len(todo) - 1
      /\ \A i \in 1 .. Len(todo) - 1 : todo'[i] = todo[i + 1]
  BY TodoTail
<1>2. \A i, j \in 1 .. Len(todo) : todo[i] = todo[j] => i = j
  BY DEF TodoOnTime, Distinct
<1>3. Distinct(todo)'
  BY <1>1, <1>2 DEF Distinct
<1>4. \A i \in 1 .. Len(todo') : schedule'[todo'[i].id][todo'[i].kind] = height'
  BY <1>1 DEF TodoOnTime
<1>5. \A i, j \in 1 .. Len(todo') : i <= j => Rank[todo'[i].kind] <= Rank[todo'[j].kind]
  BY <1>1 DEF TodoOnTime
<1>6. phase' # "transactions"
  BY DEF TodoOnTime
<1>7. TodoOnTime'
  BY <1>3, <1>4, <1>5, <1>6 DEF TodoOnTime
<1>8. ASSUME NEW e
      PROVE  InTodo(e)' <=> InTodo(e) /\ e # Head(todo)
  <2>1. ASSUME NEW i \in 1 .. Len(todo'), todo'[i] = e
        PROVE  InTodo(e) /\ e # Head(todo)
    BY <1>1, <1>2, <2>1 DEF InTodo
  <2>2. ASSUME NEW i \in 1 .. Len(todo), todo[i] = e, e # Head(todo)
        PROVE  InTodo(e)'
    <3>1. i - 1 \in 1 .. Len(todo') /\ todo'[i - 1] = e
      BY <1>1, <2>2
    <3> QED BY <3>1 DEF InTodo
  <2> QED BY <2>1, <2>2 DEF InTodo
<1> QED BY <1>7, <1>8

\* The head is ahead of its proposal until it is taken, and then no longer.
LEMMA HeadTaken ==
    ASSUME QueueInv, LifeInv, todo # <<>>, Known' = Known,
           todo' = Tail(todo), UNCHANGED <<height, phase, schedule, queue>>
    PROVE  /\ Ahead(Head(todo).kind, Head(todo).id)
           /\ height = schedule[Head(todo).id][Head(todo).kind]
           /\ \A k, p : Ahead(k, p)' <=> Ahead(k, p) /\ Entry(k, p) # Head(todo)
           /\ (SchedulesOrdered /\ QueueComplete /\ QueueOnTime /\ TodoOnTime /\ OrderAhead)'
<1> USE DEF LifeInv, QueueInv
<1>1. /\ Len(todo) \in Nat /\ Len(todo) > 0 /\ Head(todo) = todo[1]
      /\ todo[1] \in [kind : Kinds, id : Known]
      /\ \A i \in 1 .. Len(todo) : todo[i] \in [kind : Kinds, id : Known]
  BY TodoTail
<1>2. /\ TodoOnTime'
      /\ \A k, p : InTodo(Entry(k, p))' <=> InTodo(Entry(k, p)) /\ Entry(k, p) # Head(todo)
  BY TodoRest
<1>3. phase = "queue" /\ height = schedule[Head(todo).id][Head(todo).kind]
  BY <1>1 DEF TodoOnTime, QueueTypeOK
<1>4. Head(todo) = Entry(Head(todo).kind, Head(todo).id)
  BY <1>1 DEF Entry
<1>5. InTodo(Head(todo))
  BY <1>1 DEF InTodo
<1>6. Ahead(Head(todo).kind, Head(todo).id)
  BY <1>3, <1>4, <1>5 DEF Ahead
<1>7. ASSUME NEW k, NEW p
      PROVE  Ahead(k, p)' <=> Ahead(k, p) /\ Entry(k, p) # Head(todo)
  <2>1. height \in Int
    BY DEF QueueTypeOK, Heights
  <2>2. CASE Entry(k, p) = Head(todo)
    <3>1. k = Head(todo).kind /\ p = Head(todo).id
      BY <2>2 DEF Entry
    <3>2. ~ InTodo(Entry(k, p))'
      BY <1>2, <2>2
    <3> QED BY <1>3, <2>1, <2>2, <3>1, <3>2 DEF Ahead
  <2>3. CASE Entry(k, p) # Head(todo)
    BY <1>2, <2>3 DEF Ahead
  <2> QED BY <2>2, <2>3
<1>8. OrderAhead'
  <2> SUFFICES ASSUME NEW p \in Known, NEW k \in Kinds, NEW l \in Kinds,
                      InTodo(Entry(k, p))', Rank[k] <= Rank[l]
               PROVE  Ahead(l, p)'
    BY DEF OrderAhead
  <2>1. InTodo(Entry(k, p)) /\ Entry(k, p) # Head(todo)
    BY <1>2
  <2>2. Ahead(l, p)
    BY <2>1 DEF OrderAhead
  <2>3. ASSUME Entry(l, p) = Head(todo) PROVE FALSE
    <3>1. PICK i \in 1 .. Len(todo) : todo[i] = Entry(k, p)
      BY <2>1 DEF InTodo
    <3>2. Rank[todo[1].kind] <= Rank[todo[i].kind]
      BY <1>1, <3>1 DEF TodoOnTime
    <3>3. Rank[l] <= Rank[k]
      BY <1>1, <2>3, <3>1, <3>2 DEF Entry
    <3>4. k = l
      BY <3>3, RankFacts
    <3> QED BY <2>1, <2>3, <3>4
  <2> QED BY <1>7, <2>2, <2>3
<1>9. (SchedulesOrdered /\ QueueComplete /\ QueueOnTime)'
  BY DEF SchedulesOrdered, QueueComplete, QueueOnTime
<1> QED BY <1>2, <1>3, <1>6, <1>7, <1>8, <1>9

-------------------------------------------------------------------------------
(* LifeInv is inductive *)

\* What the queue handlers change: the head leaves, and its status may move.
LEMMA DequeueKeepsLife ==
    ASSUME QueueInv, LifeInv, todo # <<>>, QueueInv',
           NEW s \in Statuses,
           status' = [status EXCEPT ![Head(todo).id] = s],
           todo' = Tail(todo), UNCHANGED <<height, phase, schedule, queue>>,
           s # "ABSENT",
           s = "CREATED" <=> status[Head(todo).id] = "CREATED" /\ Head(todo).kind # "start",
           s = "ACCEPTED" => Ahead("execute", Head(todo).id) /\ Head(todo).kind # "execute"
    PROVE  LifeInv'
<1> DEFINE p == Head(todo).id
<1>1. p \in Known /\ p \in ProposalIds /\ Head(todo) \in [kind : Kinds, id : Known]
  BY QueueHead DEF QueueInv
<1>2. \A q \in ProposalIds : status'[q] = IF q = p THEN s ELSE status[q]
  BY DEF QueueInv, QueueTypeOK
<1>3. Known' = Known
  BY <1>1, <1>2 DEF Known
<1>4. /\ Ahead(Head(todo).kind, p)
      /\ \A k, q : Ahead(k, q)' <=> Ahead(k, q) /\ Entry(k, q) # Head(todo)
      /\ (SchedulesOrdered /\ QueueComplete /\ QueueOnTime /\ TodoOnTime /\ OrderAhead)'
  BY <1>3, HeadTaken
<1>5. Head(todo) = Entry(Head(todo).kind, p)
  BY <1>1 DEF Entry
<1>6. ASSUME NEW q \in Known
      PROVE  /\ status'[q] = "CREATED" <=> Ahead("start", q)'
             /\ status'[q] = "ACCEPTED" => Ahead("execute", q)'
  <2>1. /\ status[q] = "CREATED" <=> Ahead("start", q)
        /\ status[q] = "ACCEPTED" => Ahead("execute", q)
    BY DEF LifeInv, StatusFollowsQueue
  <2>2. CASE q = p
    <3>1. \A k : Entry(k, q) = Head(todo) <=> k = Head(todo).kind
      BY <1>5, <2>2 DEF Entry
    <3> QED BY <1>1, <1>2, <1>4, <2>1, <2>2, <3>1
  <2>3. CASE q # p
    <3>1. \A k : Entry(k, q) # Head(todo)
      BY <2>3 DEF Entry
    <3>2. status'[q] = status[q]
      BY <1>2, <2>3 DEF Known
    <3> QED BY <1>4, <2>1, <3>1, <3>2
  <2> QED BY <2>2, <2>3
<1>7. StatusFollowsQueue'
  BY <1>3, <1>6 DEF StatusFollowsQueue
<1> QED BY <1>4, <1>7 DEF LifeInv

\* A step that leaves the queue and the statuses alone.
LEMMA LifeUnchanged ==
    ASSUME LifeInv, UNCHANGED <<height, phase, todo, schedule, queue, status>>
    PROVE  LifeInv'
BY DEF LifeInv, SchedulesOrdered, QueueComplete, QueueOnTime, TodoOnTime, OrderAhead,
   StatusFollowsQueue, Ahead, InTodo, Known, Distinct

\* The head of the queue, seen from its handler: the time is that of its kind,
\* an entry for the start is of a created proposal, and the end of the vote and
\* the execution are ahead of an entry that comes before them.
LEMMA AtHead ==
    ASSUME QueueInv, LifeInv, todo # <<>>
    PROVE  /\ Head(todo).id \in Known /\ Head(todo).kind \in Kinds
           /\ Head(todo) = Entry(Head(todo).kind, Head(todo).id)
           /\ height = schedule[Head(todo).id][Head(todo).kind]
           /\ Head(todo).kind = "start" => status[Head(todo).id] = "CREATED"
           /\ \A l \in Kinds : Rank[Head(todo).kind] <= Rank[l] => Ahead(l, Head(todo).id)
           /\ Head(todo).kind # "start" => status[Head(todo).id] # "CREATED"
<1> DEFINE p == Head(todo).id
           k == Head(todo).kind
<1>1. /\ Len(todo) \in Nat /\ Len(todo) > 0 /\ Head(todo) = todo[1]
      /\ todo[1] \in [kind : Kinds, id : Known]
  BY TodoTail DEF QueueInv
<1>2. p \in Known /\ k \in Kinds /\ Head(todo) = Entry(k, p)
  BY <1>1 DEF Entry
<1>3. height = schedule[p][k] /\ phase = "queue"
  BY <1>1 DEF LifeInv, TodoOnTime, QueueInv, QueueTypeOK
<1>4. InTodo(Entry(k, p))
  BY <1>1, <1>2 DEF InTodo
<1>5. \A l \in Kinds : Rank[k] <= Rank[l] => Ahead(l, p)
  BY <1>2, <1>4 DEF LifeInv, OrderAhead
<1>6. ASSUME k = "start" PROVE status[p] = "CREATED"
  <2>1. Ahead("start", p)
    BY <1>2, <1>5, <1>6, RankFacts
  <2> QED BY <1>2, <2>1 DEF LifeInv, StatusFollowsQueue
<1>7. ASSUME k # "start", status[p] = "CREATED" PROVE FALSE
  <2>1. Ahead("start", p)
    BY <1>2, <1>7 DEF LifeInv, StatusFollowsQueue
  <2>2. schedule[p]["start"] <= schedule[p][k] /\ schedule[p]["start"] \in Int /\ height \in Int
    <3>1. \A l \in Kinds : schedule[p][l] \in Int
      BY <1>2 DEF QueueInv, QueueTypeOK, Known
    <3> QED BY <1>2, <1>3, <3>1, SMTT(30) DEF LifeInv, SchedulesOrdered, Kinds
  <2>3. InTodo(Entry("start", p))
    BY <1>3, <2>1, <2>2 DEF Ahead
  <2>4. PICK i \in 1 .. Len(todo) : todo[i] = Entry("start", p)
    BY <2>3 DEF InTodo
  <2>5. Rank[todo[1].kind] <= Rank[todo[i].kind]
    BY <1>1, <2>4 DEF LifeInv, TodoOnTime
  <2>6. Rank[k] <= 1
    BY <1>1, <2>4, <2>5, RankFacts DEF Entry
  <2>7. k = "start"
    BY <1>2, <2>6, RankFacts DEF Kinds
  <2> QED BY <1>7, <2>7
<1> QED BY <1>2, <1>3, <1>5, <1>6, <1>7

LEMMA QueueStepKeepsLife ==
    ASSUME QueueInv, LifeInv, QueueStep, QueueInv'
    PROVE  LifeInv'
<1> DEFINE p == Head(todo).id
<1>1. CASE BeginOutcome \/ ExecuteFunding \/ ExecuteConfig
  BY <1>1, LifeUnchanged DEF BeginOutcome, ExecuteFunding, ExecuteConfig, proposalVars
<1>2. CASE ExecuteStarted
  <2>1. /\ todo # <<>> /\ Head(todo).kind = "start"
        /\ status' = [status EXCEPT ![p] = "ACTIVE"] /\ todo' = Tail(todo)
        /\ UNCHANGED <<height, phase, schedule, queue>>
    BY <1>2 DEF ExecuteStarted, NextEntry
  <2> QED BY <2>1, DequeueKeepsLife DEF Statuses
<1>3. CASE SkipEntry \/ PassQuorum
  <2>1. /\ todo # <<>> /\ todo' = Tail(todo) /\ Head(todo).kind # "start"
        /\ UNCHANGED <<height, phase, schedule, queue, status>>
        /\ Head(todo).kind = "execute" => status[p] # "ACCEPTED"
    BY <1>3 DEF SkipEntry, PassQuorum, NextEntry, proposalVars
  <2>2. p \in Known /\ p \in ProposalIds
    BY <2>1, QueueHead DEF QueueInv
  <2>3. status[p] \in Statuses /\ status[p] # "ABSENT" /\ status' = [status EXCEPT ![p] = status[p]]
    BY <2>1, <2>2 DEF Known, QueueInv, QueueTypeOK
  <2>4. status[p] = "ACCEPTED" => Ahead("execute", p)
    BY <2>2 DEF LifeInv, StatusFollowsQueue
  <2> QED BY <2>1, <2>3, <2>4, DequeueKeepsLife
<1>4. CASE FailQuorum \/ ExecuteEnded
  <2>1. /\ todo # <<>> /\ todo' = Tail(todo) /\ Head(todo).kind \in {"quorum", "ends"}
        /\ UNCHANGED <<height, phase, schedule, queue>>
        /\ status[p] = "ACTIVE"
    BY <1>4 DEF FailQuorum, ExecuteEnded, NextEntry
  <2>2. PICK s \in {"FAILED_QUORUM", "REJECTED", "ACCEPTED", "ACTIVE"} :
            status' = [status EXCEPT ![p] = s]
    BY <1>4 DEF FailQuorum, ExecuteEnded, Outcome
  <2>3. Ahead("execute", p)
    BY <2>1, AtHead, RankFacts DEF Kinds
  <2> QED BY <2>1, <2>2, <2>3, DequeueKeepsLife DEF Statuses
<1>5. CASE FailAction \/ FinishOutcome
  <2>1. PICK s \in {"EXECUTED", "EXECUTED_WITH_ERROR"} : EndOutcome(s)
    BY <1>5 DEF FailAction, FinishOutcome
  <2>2. /\ todo # <<>> /\ status[p] = "ACCEPTED"
    BY <1>5 DEF FailAction, FinishOutcome, QueueInv, ExecutingAccepted
  <2> QED BY <2>1, <2>2, DequeueKeepsLife DEF EndOutcome, Statuses
<1> QED BY <1>1, <1>2, <1>3, <1>4, <1>5 DEF QueueStep

\* What a block loads, up to the kinds of rank n: the entries of this height, each
\* once and in the order of their kinds.
Loaded(s, n) ==
    /\ s \in Seq([kind : Kinds, id : Known])
    /\ Distinct(s)
    /\ \A i, j \in 1 .. Len(s) : i <= j => Rank[s[i].kind] <= Rank[s[j].kind]
    /\ \A k \in Kinds, p \in Known :
          (\E i \in 1 .. Len(s) : s[i] = Entry(k, p))
              <=> /\ Rank[k] <= n
                  /\ \E i \in 1 .. Len(queue[height][k]) : queue[height][k][i] = p

LEMMA EntryFields ==
    /\ \A k, p : Entry(k, p).kind = k /\ Entry(k, p).id = p
    /\ \A k, p, l, q : Entry(k, p) = Entry(l, q) <=> k = l /\ p = q
BY DEF Entry

\* Where the elements of a concatenation are.
LEMMA ConcatIndex ==
    ASSUME NEW T, NEW s \in Seq(T), NEW t \in Seq(T)
    PROVE  /\ \A i \in 1 .. Len(s \o t) :
                  \/ i \in 1 .. Len(s) /\ (s \o t)[i] = s[i]
                  \/ \E j \in 1 .. Len(t) : i = Len(s) + j /\ (s \o t)[i] = t[j]
           /\ \A i \in 1 .. Len(s) : i \in 1 .. Len(s \o t) /\ (s \o t)[i] = s[i]
           /\ \A j \in 1 .. Len(t) :
                  Len(s) + j \in 1 .. Len(s \o t) /\ (s \o t)[Len(s) + j] = t[j]
<1> DEFINE r == s \o t
<1>1. /\ Len(s) \in Nat /\ Len(t) \in Nat /\ Len(r) = Len(s) + Len(t)
      /\ \A i \in 1 .. Len(s) + Len(t) : r[i] = IF i <= Len(s) THEN s[i] ELSE t[i - Len(s)]
  BY LenProperties, ConcatProperties
<1> HIDE DEF r
<1>2. ASSUME NEW i \in 1 .. Len(r), ~ (i \in 1 .. Len(s) /\ r[i] = s[i])
      PROVE  \E j \in 1 .. Len(t) : i = Len(s) + j /\ r[i] = t[j]
  <2>1. i - Len(s) \in 1 .. Len(t) /\ i = Len(s) + (i - Len(s)) /\ r[i] = t[i - Len(s)]
    BY <1>1, <1>2
  <2> QED BY <2>1
<1>3. \A i \in 1 .. Len(s) : i \in 1 .. Len(r) /\ r[i] = s[i]
  BY <1>1
<1>4. ASSUME NEW j \in 1 .. Len(t)
      PROVE  Len(s) + j \in 1 .. Len(r) /\ r[Len(s) + j] = t[j]
  <2>1. Len(s) + j \in 1 .. Len(s) + Len(t) /\ ~ (Len(s) + j <= Len(s)) /\ (Len(s) + j) - Len(s) = j
    BY <1>1
  <2> QED BY <1>1, <2>1
<1> QED BY <1>2, <1>3, <1>4 DEF r

LEMMA EntriesOf ==
    ASSUME NEW S, NEW kind \in Kinds, NEW ids \in Seq(S)
    PROVE  /\ Len(Entries(kind, ids)) = Len(ids)
           /\ \A i \in 1 .. Len(ids) : Entries(kind, ids)[i] = Entry(kind, ids[i]) /\ ids[i] \in S
<1> DEFINE E == Entries(kind, ids)
<1>1. Len(ids) \in Nat /\ \A i \in 1 .. Len(ids) : ids[i] \in S
  BY LenProperties, ElementOfSeq
<1>2. E = [i \in 1 .. Len(ids) |-> Entry(kind, ids[i])]
  BY DEF Entries, Entry
<1>3. DOMAIN E = 1 .. Len(E) /\ Len(E) \in Nat
  BY EntriesType, LenProperties
<1>4. Len(E) = Len(ids)
  BY <1>1, <1>2, <1>3
<1> QED BY <1>1, <1>2, <1>4

LEMMA LoadNext ==
    ASSUME QueueInv, LifeInv, NEW n \in Nat, NEW s, Loaded(s, n),
           NEW kind \in Kinds, Rank[kind] = n + 1
    PROVE  Loaded(s \o Entries(kind, queue[height][kind]), n + 1)
<1> DEFINE ids == queue[height][kind]
           E == Entries(kind, ids)
           T == [kind : Kinds, id : Known]
           r == s \o E
<1>1. height \in Heights /\ ids \in Seq(Known) /\ Distinct(ids)
  BY DEF QueueInv, QueueTypeOK, QueuedKnown, LifeInv, QueueOnTime
<1>2. /\ s \in Seq(T) /\ Distinct(s)
      /\ \A i, j \in 1 .. Len(s) : i <= j => Rank[s[i].kind] <= Rank[s[j].kind]
      /\ \A k \in Kinds, p \in Known :
            (\E i \in 1 .. Len(s) : s[i] = Entry(k, p))
                <=> Rank[k] <= n /\ \E i \in 1 .. Len(queue[height][k]) : queue[height][k][i] = p
  BY DEF Loaded
<1>3. E \in Seq(T)
  BY <1>1, EntriesType
<1>4. Len(E) = Len(ids) /\ \A i \in 1 .. Len(ids) : E[i] = Entry(kind, ids[i]) /\ ids[i] \in Known
  BY <1>1, EntriesOf
<1> HIDE DEF E
<1>5. \A i \in 1 .. Len(s) : s[i] \in T
  BY <1>2, ElementOfSeq
<1>6. /\ r \in Seq(T)
      /\ \A i \in 1 .. Len(r) :
            \/ i \in 1 .. Len(s) /\ r[i] = s[i]
            \/ \E j \in 1 .. Len(ids) : i = Len(s) + j /\ r[i] = Entry(kind, ids[j])
      /\ \A i \in 1 .. Len(s) : i \in 1 .. Len(r) /\ r[i] = s[i]
      /\ \A j \in 1 .. Len(ids) :
            Len(s) + j \in 1 .. Len(r) /\ r[Len(s) + j] = Entry(kind, ids[j])
  <2>1. r \in Seq(T)
    BY <1>2, <1>3, ConcatProperties
  <2>2. /\ \A i \in 1 .. Len(r) :
              \/ i \in 1 .. Len(s) /\ r[i] = s[i]
              \/ \E j \in 1 .. Len(E) : i = Len(s) + j /\ r[i] = E[j]
        /\ \A i \in 1 .. Len(s) : i \in 1 .. Len(r) /\ r[i] = s[i]
        /\ \A j \in 1 .. Len(E) : Len(s) + j \in 1 .. Len(r) /\ r[Len(s) + j] = E[j]
    BY <1>2, <1>3, ConcatIndex
  <2> HIDE DEF r
  <2> QED BY <1>4, <2>1, <2>2
<1>7. Len(s) \in Nat /\ Len(ids) \in Nat
  BY <1>1, <1>2, LenProperties
<1> HIDE DEF r, ids
<1>8. \A i \in 1 .. Len(s) : s[i].kind \in Kinds /\ Rank[s[i].kind] <= n
  <2> SUFFICES ASSUME NEW i \in 1 .. Len(s) PROVE s[i].kind \in Kinds /\ Rank[s[i].kind] <= n
    OBVIOUS
  <2>1. s[i] = Entry(s[i].kind, s[i].id) /\ s[i].kind \in Kinds /\ s[i].id \in Known
    BY <1>5 DEF Entry
  <2> QED BY <1>2, <2>1
<1>9. ASSUME NEW i \in 1 .. Len(s), NEW j \in 1 .. Len(ids)
      PROVE  s[i] # Entry(kind, ids[j]) /\ Rank[s[i].kind] <= Rank[kind]
  <2>1. Rank[s[i].kind] <= n /\ s[i].kind \in Kinds
    BY <1>8
  <2>2. s[i].kind # kind
    BY <2>1
  <2>3. Entry(kind, ids[j]).kind = kind
    BY EntryFields
  <2> QED BY SMTT(40), <2>1, <2>2, <2>3, RankFacts
<1>10. Distinct(r)
  <2> SUFFICES ASSUME NEW i \in 1 .. Len(r), NEW j \in 1 .. Len(r), r[i] = r[j]
               PROVE  i = j
    BY DEF Distinct
  <2>1. ASSUME NEW x \in 1 .. Len(ids), NEW y \in 1 .. Len(ids),
               Entry(kind, ids[x]) = Entry(kind, ids[y])
        PROVE  x = y
    BY <1>1, <2>1, EntryFields DEF Distinct
  <2>2. CASE i \in 1 .. Len(s) /\ r[i] = s[i] /\ j \in 1 .. Len(s) /\ r[j] = s[j]
    BY <1>2, <2>2 DEF Distinct
  <2>3. CASE /\ \E x \in 1 .. Len(ids) : i = Len(s) + x /\ r[i] = Entry(kind, ids[x])
             /\ \E y \in 1 .. Len(ids) : j = Len(s) + y /\ r[j] = Entry(kind, ids[y])
    BY <2>1, <2>3
  <2>4. CASE /\ i \in 1 .. Len(s) /\ r[i] = s[i]
             /\ \E y \in 1 .. Len(ids) : j = Len(s) + y /\ r[j] = Entry(kind, ids[y])
    BY <1>9, <2>4
  <2>5. CASE /\ j \in 1 .. Len(s) /\ r[j] = s[j]
             /\ \E x \in 1 .. Len(ids) : i = Len(s) + x /\ r[i] = Entry(kind, ids[x])
    BY <1>9, <2>5
  <2> QED BY <1>6, <2>2, <2>3, <2>4, <2>5
<1>11. ASSUME NEW i \in 1 .. Len(r), NEW j \in 1 .. Len(r), i <= j
       PROVE  Rank[r[i].kind] <= Rank[r[j].kind]
  <2>1. CASE i \in 1 .. Len(s) /\ r[i] = s[i] /\ j \in 1 .. Len(s) /\ r[j] = s[j]
    BY <1>2, <1>11, <2>1
  <2>2. ASSUME NEW y \in 1 .. Len(ids), j = Len(s) + y, r[j] = Entry(kind, ids[y])
        PROVE  Rank[r[i].kind] <= Rank[r[j].kind]
    <3>1. r[j].kind = kind
      BY <2>2, EntryFields
    <3>2. CASE i \in 1 .. Len(s) /\ r[i] = s[i]
      BY <1>9, <3>1, <3>2
    <3>3. CASE \E x \in 1 .. Len(ids) : i = Len(s) + x /\ r[i] = Entry(kind, ids[x])
      BY <3>1, <3>3, EntryFields, RankFacts
    <3> QED BY <1>6, <3>2, <3>3
  <2>3. ASSUME NEW x \in 1 .. Len(ids), i = Len(s) + x, j \in 1 .. Len(s)
        PROVE  FALSE
    BY <1>7, <1>11, <2>3
  <2> QED BY <1>6, <2>1, <2>2, <2>3
<1>12. ASSUME NEW k \in Kinds, NEW p \in Known
       PROVE  (\E i \in 1 .. Len(r) : r[i] = Entry(k, p))
                  <=> /\ Rank[k] <= n + 1
                      /\ \E i \in 1 .. Len(queue[height][k]) : queue[height][k][i] = p
  <2>1. (\E i \in 1 .. Len(r) : r[i] = Entry(k, p))
            <=> \/ \E i \in 1 .. Len(s) : s[i] = Entry(k, p)
                \/ k = kind /\ \E j \in 1 .. Len(ids) : ids[j] = p
    <3>1. ASSUME NEW i \in 1 .. Len(r), r[i] = Entry(k, p)
          PROVE  \/ \E x \in 1 .. Len(s) : s[x] = Entry(k, p)
                 \/ k = kind /\ \E j \in 1 .. Len(ids) : ids[j] = p
      <4>1. CASE i \in 1 .. Len(s) /\ r[i] = s[i]
        BY <3>1, <4>1
      <4>2. CASE \E j \in 1 .. Len(ids) : i = Len(s) + j /\ r[i] = Entry(kind, ids[j])
        BY <3>1, <4>2, EntryFields
      <4> QED BY <1>6, <4>1, <4>2
    <3>2. ASSUME NEW x \in 1 .. Len(s), s[x] = Entry(k, p)
          PROVE  \E i \in 1 .. Len(r) : r[i] = Entry(k, p)
      BY <1>6, <3>2
    <3>3. ASSUME k = kind, NEW j \in 1 .. Len(ids), ids[j] = p
          PROVE  \E i \in 1 .. Len(r) : r[i] = Entry(k, p)
      BY <1>6, <3>3
    <3> QED BY <3>1, <3>2, <3>3
  <2>2. Rank[k] <= n + 1 <=> Rank[k] <= n \/ k = kind
    BY RankFacts
  <2>3. CASE k = kind
    <3>1. ~ (Rank[k] <= n)
      BY <2>3
    <3> QED BY <1>2, <2>1, <2>2, <2>3, <3>1 DEF ids
  <2>4. CASE k # kind
    BY <1>2, <2>1, <2>2, <2>4
  <2> QED BY <2>3, <2>4
<1>13. Loaded(r, n + 1)
  BY <1>6, <1>10, <1>11, <1>12 DEF Loaded
<1> QED BY <1>13 DEF r, E, ids

\* afterTransactionsExecute loads what lies ahead at this height.
LEMMA EndTransactionsLoads ==
    ASSUME QueueInv, LifeInv, EndTransactions
    PROVE  /\ LifeInv'
           /\ \A k \in Kinds, p \in Known : Ahead(k, p)' <=> Ahead(k, p)
<1> DEFINE q == queue[height]
           s1 == Entries("start", q["start"])
           s2 == s1 \o Entries("quorum", q["quorum"])
           s3 == s2 \o Entries("ends", q["ends"])
           s4 == s3 \o Entries("execute", q["execute"])
<1>1. /\ phase = "transactions" /\ phase' = "queue"
      /\ todo' = s4
      /\ UNCHANGED <<height, status, schedule, queue>>
  BY DEF EndTransactions, InTransactions, proposalVars
<1>2. Loaded(<<>>, 0)
  BY RankFacts, EmptySeq DEF Loaded, Distinct
<1>3. Loaded(s1, 1)
  <2>0. "start" \in Kinds /\ q["start"] \in Seq(Known)
    BY DEF QueueInv, QueueTypeOK, QueuedKnown, Kinds
  <2>1. Loaded(<<>> \o s1, 0 + 1)
    <3>1. Rank["start"] = 0 + 1 /\ 0 \in Nat
      BY RankFacts
    <3> QED BY <1>2, <2>0, <3>1, LoadNext
  <2>2. s1 \in Seq([kind : Kinds, id : Known])
    BY <2>0, EntriesType
  <2>3. <<>> \o s1 = s1
    BY <2>2, ConcatEmptySeq
  <2> QED BY <2>1, <2>3
<1>4. Loaded(s2, 2)
  <2> HIDE DEF s1
  <2> QED BY <1>3, LoadNext, RankFacts DEF Kinds
<1>5. Loaded(s3, 3)
  <2> HIDE DEF s2
  <2> QED BY <1>4, LoadNext, RankFacts DEF Kinds
<1>6. Loaded(s4, 4)
  <2> HIDE DEF s3
  <2> QED BY <1>5, LoadNext, RankFacts DEF Kinds
<1> HIDE DEF s4
<1>7. Known' = Known
  BY <1>1 DEF Known
<1>8. \A i \in 1 .. Len(s4) :
          /\ s4[i].kind \in Kinds /\ s4[i].id \in Known
          /\ s4[i] = Entry(s4[i].kind, s4[i].id)
  <2>1. s4 \in Seq([kind : Kinds, id : Known])
    BY <1>6 DEF Loaded
  <2>2. \A i \in 1 .. Len(s4) : s4[i] \in [kind : Kinds, id : Known]
    BY <2>1, ElementOfSeq
  <2> QED BY <2>2 DEF Entry
<1>9. TodoOnTime'
  <2>1. \A i \in 1 .. Len(s4) : schedule[s4[i].id][s4[i].kind] = height
    <3> SUFFICES ASSUME NEW i \in 1 .. Len(s4)
                 PROVE  schedule[s4[i].id][s4[i].kind] = height
      OBVIOUS
    <3>1. \E j \in 1 .. Len(queue[height][s4[i].kind]) : queue[height][s4[i].kind][j] = s4[i].id
      BY <1>6, <1>8 DEF Loaded
    <3> QED BY <1>8, <3>1 DEF LifeInv, QueueOnTime, QueueInv, QueueTypeOK
  <2> QED BY <1>1, <1>6, <2>1 DEF TodoOnTime, Loaded
<1>10. \A k \in Kinds, p \in Known : Ahead(k, p)' <=> Ahead(k, p)
  <2> SUFFICES ASSUME NEW k \in Kinds, NEW p \in Known
               PROVE  Ahead(k, p)' <=> Ahead(k, p)
    OBVIOUS
  <2>1. CASE height = schedule[p][k]
    <3>1. \E i \in 1 .. Len(queue[height][k]) : queue[height][k][i] = p
      BY <2>1 DEF LifeInv, QueueComplete
    <3>2. \E i \in 1 .. Len(s4) : s4[i] = Entry(k, p)
      BY <1>6, <3>1, RankFacts DEF Loaded
    <3>3. InTodo(Entry(k, p))'
      BY <1>1, <3>2 DEF InTodo
    <3> QED BY <1>1, <2>1, <3>3 DEF Ahead
  <2>2. CASE height # schedule[p][k]
    BY <1>1, <2>2 DEF Ahead
  <2> QED BY <2>1, <2>2
<1>11. OrderAhead'
  <2> SUFFICES ASSUME NEW p \in Known, NEW k \in Kinds, NEW l \in Kinds,
                      InTodo(Entry(k, p))', Rank[k] <= Rank[l]
               PROVE  Ahead(l, p)'
    BY <1>7 DEF OrderAhead
  <2>1. PICK i \in 1 .. Len(s4) : s4[i] = Entry(k, p)
    BY <1>1 DEF InTodo
  <2>2. schedule[p][k] = height
    BY <1>1, <1>9, <2>1 DEF TodoOnTime, Entry
  <2>3. schedule[p][k] <= schedule[p][l]
    <3>1. \A m \in Kinds : schedule[p][m] \in Int
      BY DEF QueueInv, QueueTypeOK, Known
    <3>2. /\ schedule[p]["start"] <= schedule[p]["quorum"]
          /\ schedule[p]["quorum"] <= schedule[p]["ends"]
          /\ schedule[p]["ends"] <= schedule[p]["execute"]
      BY DEF LifeInv, SchedulesOrdered
    <3>3. k \in {"start", "quorum", "ends", "execute"} /\ l \in {"start", "quorum", "ends", "execute"}
      BY DEF Kinds
    <3>4. /\ schedule[p]["start"] \in Int /\ schedule[p]["quorum"] \in Int
          /\ schedule[p]["ends"] \in Int /\ schedule[p]["execute"] \in Int
      BY <3>1 DEF Kinds
    <3> QED BY SMTT(40), <3>2, <3>3, <3>4, RankFacts
  <2>4. schedule[p][l] \in Int /\ height \in Int
    BY DEF QueueInv, QueueTypeOK, Known, Heights
  <2>5. Ahead(l, p)
    BY <1>1, <2>2, <2>3, <2>4 DEF Ahead
  <2> QED BY <1>10, <2>5
<1>12. StatusFollowsQueue'
  BY <1>1, <1>7, <1>10 DEF LifeInv, StatusFollowsQueue, Kinds
<1>13. (SchedulesOrdered /\ QueueComplete /\ QueueOnTime)'
  BY <1>1, <1>7 DEF LifeInv, SchedulesOrdered, QueueComplete, QueueOnTime
<1> QED BY <1>9, <1>10, <1>11, <1>12, <1>13 DEF LifeInv

\* Nothing planned for a block is left when the next one begins.
LEMMA NextBlockKeepsLife ==
    ASSUME QueueInv, LifeInv, NextBlock
    PROVE  LifeInv'
<1>1. /\ phase = "queue" /\ todo = <<>> /\ todo' = <<>>
      /\ height' = height + 1 /\ phase' = "transactions"
      /\ UNCHANGED <<status, schedule, queue>>
  BY DEF NextBlock, proposalVars
<1>2. Known' = Known
  BY <1>1 DEF Known
<1>3. \A e : ~ InTodo(e) /\ ~ InTodo(e)'
  BY <1>1 DEF InTodo
<1>4. \A k \in Kinds, p \in Known : Ahead(k, p)' <=> Ahead(k, p)
  <2>1. \A k \in Kinds, p \in Known : schedule[p][k] \in Int
    BY DEF QueueInv, QueueTypeOK, Known
  <2>2. height \in Int
    BY DEF QueueInv, QueueTypeOK, Heights
  <2> QED BY <1>1, <1>3, <2>1, <2>2 DEF Ahead
<1>5. OrderAhead' /\ TodoOnTime'
  BY <1>1, <1>3 DEF OrderAhead, TodoOnTime, Distinct
<1>6. StatusFollowsQueue'
  BY <1>1, <1>2, <1>4 DEF LifeInv, StatusFollowsQueue, Kinds
<1>7. (SchedulesOrdered /\ QueueComplete /\ QueueOnTime)'
  BY <1>1, <1>2 DEF LifeInv, SchedulesOrdered, QueueComplete, QueueOnTime
<1> QED BY <1>5, <1>6, <1>7 DEF LifeInv

\* A new proposal is queued at each of its heights, and all of them lie ahead.
LEMMA CreateKeepsLife ==
    ASSUME GovernanceAssumption, QueueInv, LifeInv, NEW a \in Authors,
           NEW actions \in ActionLists, NEW attributes \in AttributesArrays,
           CreateProposal(a, actions, attributes), QueueInv'
    PROVE  LifeInv'
<1>0. PICK p : p = nextId
  OBVIOUS
<1> DEFINE when == [start   |-> height + config.votingDelayDuration,
                    quorum  |-> height + config.quorumDuration,
                    ends    |-> height + config.voteDuration,
                    execute |-> height + config.executionDuration]
<1>1. /\ phase = "transactions" /\ p < MaxProposals /\ when.execute <= MaxHeight
      /\ status' = [status EXCEPT ![p] = "CREATED"]
      /\ schedule' = [schedule EXCEPT ![p] = when]
      /\ RegisterQueue(p, when)
      /\ UNCHANGED <<height, phase, todo>>
  BY <1>0 DEF CreateProposal, InTransactions, blockVars
<1>2. p \in ProposalIds /\ p \notin Known
  BY <1>0, <1>1 DEF QueueInv, QueueTypeOK, FreshIds, ProposalIds, GovernanceAssumption, Known
<1>3. Known' = Known \cup {p} /\ \A q \in ProposalIds : status'[q] = IF q = p THEN "CREATED" ELSE status[q]
  BY <1>1, <1>2 DEF Known, QueueInv, QueueTypeOK
<1>4. /\ height \in Nat /\ height \in Heights
      /\ \A d \in Durations : config[d] \in Nat
      /\ config.executionDuration >= config.voteDuration
      /\ config.voteDuration >= config.quorumDuration
      /\ config.quorumDuration >= config.votingDelayDuration
  BY DEF QueueInv, QueueTypeOK, ValidConfig, Heights, GovernanceAssumption
<1>5. /\ when["start"] \in Nat /\ when["quorum"] \in Nat /\ when["ends"] \in Nat /\ when["execute"] \in Nat
      /\ height <= when["start"] /\ when["start"] <= when["quorum"]
      /\ when["quorum"] <= when["ends"] /\ when["ends"] <= when["execute"]
  BY SMTT(40), <1>4 DEF Durations
<1>6. \A k \in Kinds : when[k] \in Heights /\ height <= when[k]
  BY SMTT(40), <1>1, <1>4, <1>5 DEF Kinds, Heights, GovernanceAssumption
<1>7. schedule'[p] = when /\ \A q \in Known : schedule'[q] = schedule[q]
  BY <1>1, <1>2 DEF QueueInv, QueueTypeOK, Known
<1> HIDE DEF when
<1>8. \A h \in Heights, k \in Kinds : \A i \in 1 .. Len(queue[h][k]) :
          queue[h][k][i] \in Known /\ queue[h][k][i] # p
  BY <1>2, ElementOfSeq DEF QueueInv, QueuedKnown
<1>9. \A h \in Heights, k \in Kinds : when[k] # h => queue'[h][k] = queue[h][k]
  BY <1>1 DEF RegisterQueue, SaveQueue
<1>10. ASSUME NEW h \in Heights, NEW k \in Kinds, when[k] = h
       PROVE  /\ Len(queue[h][k]) \in Nat /\ Len(queue'[h][k]) = Len(queue[h][k]) + 1
              /\ \A i \in 1 .. Len(queue[h][k]) : queue'[h][k][i] = queue[h][k][i]
              /\ queue'[h][k][Len(queue[h][k]) + 1] = p
  <2>1. queue'[h][k] = Append(queue[h][k], p)
    BY <1>1, <1>8, <1>10 DEF RegisterQueue, SaveQueue
  <2>2. queue[h][k] \in Seq(Nat)
    <3>1. queue[h][k] \in Seq(Known) /\ Known \subseteq Nat
      BY DEF QueueInv, QueuedKnown, Known, ProposalIds
    <3> QED BY <3>1, SeqMonotonic
  <2>3. p \in Nat
    BY <1>0 DEF QueueInv, QueueTypeOK
  <2> QED BY <2>1, <2>2, <2>3, LenProperties, AppendProperties
<1>11. SchedulesOrdered'
  BY <1>3, <1>5, <1>7 DEF LifeInv, SchedulesOrdered
<1>12. QueueComplete'
  <2> SUFFICES ASSUME NEW q \in Known', NEW k \in Kinds
               PROVE  /\ schedule'[q][k] \in Heights
                      /\ \E i \in 1 .. Len(queue'[schedule'[q][k]][k]) : queue'[schedule'[q][k]][k][i] = q
    BY DEF QueueComplete, Heights, Kinds
  <2>1. CASE q = p
    <3> DEFINE h == when[k]
               n == Len(queue[h][k])
    <3>1. h \in Heights /\ schedule'[q][k] = h
      BY <1>6, <1>7, <2>1
    <3>2. n \in Nat /\ Len(queue'[h][k]) = n + 1 /\ queue'[h][k][n + 1] = q
      BY <1>10, <2>1, <3>1
    <3> HIDE DEF h, n
    <3>3. n + 1 \in 1 .. Len(queue'[h][k])
      BY <3>2
    <3> QED BY <3>1, <3>2, <3>3
  <2>2. CASE q \in Known
    <3> DEFINE h == schedule[q][k]
    <3>1. h \in Heights /\ schedule'[q][k] = h
      BY <1>7, <2>2 DEF LifeInv, QueueComplete
    <3>2. PICK i \in 1 .. Len(queue[h][k]) : queue[h][k][i] = q
      BY <2>2 DEF LifeInv, QueueComplete
    <3> HIDE DEF h
    <3>3. CASE when[k] = h
      <4>1. /\ Len(queue[h][k]) \in Nat /\ Len(queue'[h][k]) = Len(queue[h][k]) + 1
            /\ queue'[h][k][i] = q
        BY <1>10, <3>1, <3>2, <3>3
      <4>2. i \in 1 .. Len(queue'[h][k])
        BY <4>1
      <4> QED BY <3>1, <4>1, <4>2
    <3>4. CASE when[k] # h
      BY <1>9, <3>1, <3>2, <3>4
    <3> QED BY <3>3, <3>4
  <2> QED BY <1>3, <2>1, <2>2
<1>13. QueueOnTime'
  <2> SUFFICES ASSUME NEW h \in Heights, NEW k \in Kinds
               PROVE  /\ Distinct(queue'[h][k])
                      /\ \A i \in 1 .. Len(queue'[h][k]) : schedule'[queue'[h][k][i]][k] = h
    BY DEF QueueOnTime, Heights, Kinds, Distinct
  <2>1. Distinct(queue[h][k]) /\ \A i \in 1 .. Len(queue[h][k]) : schedule[queue[h][k][i]][k] = h
    BY DEF LifeInv, QueueOnTime
  <2>2. CASE when[k] # h
    BY <1>7, <1>8, <1>9, <2>1, <2>2
  <2>3. CASE when[k] = h
    <3> DEFINE n == Len(queue[h][k])
    <3>1. /\ n \in Nat /\ Len(queue'[h][k]) = n + 1
          /\ \A i \in 1 .. n : queue'[h][k][i] = queue[h][k][i]
          /\ queue'[h][k][n + 1] = p
      BY <1>10, <2>3
    <3>2. \A i \in 1 .. Len(queue'[h][k]) : i \in 1 .. n \/ i = n + 1
      BY <3>1
    <3>3. Distinct(queue'[h][k])
      <4> HIDE DEF n
      <4>1. \A i \in 1 .. n : queue'[h][k][i] # p
        BY <1>8, <3>1 DEF n
      <4>2. \A i, j \in 1 .. n : queue'[h][k][i] = queue'[h][k][j] => i = j
        BY <2>1, <3>1 DEF Distinct, n
      <4> QED BY <3>1, <3>2, <4>1, <4>2 DEF Distinct
    <3>4. \A i \in 1 .. n : schedule'[queue'[h][k][i]][k] = h
      BY <1>7, <1>8, <2>1, <3>1
    <3> QED BY <1>7, <2>3, <3>1, <3>2, <3>3, <3>4
  <2> QED BY <2>2, <2>3
<1>14. todo = <<>> /\ TodoOnTime' /\ \A e : ~ InTodo(e)'
  BY <1>1 DEF LifeInv, TodoOnTime, Distinct, InTodo
<1>15. OrderAhead'
  BY <1>14 DEF OrderAhead
<1>16. StatusFollowsQueue'
  <2>1. \A k, q : q \in Known => (Ahead(k, q)' <=> Ahead(k, q))
    BY <1>1, <1>7, <1>14 DEF Ahead
  <2>2. ASSUME NEW k \in Kinds PROVE Ahead(k, p)'
    <3>1. when[k] \in Int /\ height \in Int /\ height <= when[k]
      BY <1>6 DEF Heights, QueueInv, QueueTypeOK
    <3>2. schedule'[p][k] = when[k] /\ height' = height /\ phase' = "transactions"
      BY <1>1, <1>7
    <3> QED BY <3>1, <3>2 DEF Ahead
  <2>3. \A q \in Known : status'[q] = status[q]
    BY <1>2, <1>3 DEF Known
  <2>4. "start" \in Kinds /\ "execute" \in Kinds
    BY DEF Kinds
  <2>5. ASSUME NEW q \in Known'
        PROVE  /\ status'[q] = "CREATED" <=> Ahead("start", q)'
               /\ status'[q] = "ACCEPTED" => Ahead("execute", q)'
    <3>1. CASE q = p
      BY <1>2, <1>3, <2>2, <2>4, <3>1
    <3>2. CASE q \in Known
      BY <2>1, <2>3, <3>2 DEF LifeInv, StatusFollowsQueue
    <3> QED BY <1>3, <3>1, <3>2
  <2> QED BY <2>5 DEF StatusFollowsQueue
<1> QED BY <1>11, <1>12, <1>13, <1>14, <1>15, <1>16 DEF LifeInv

\* The other commands do not touch the queue or a status.
LEMMA CommandLeavesQueue ==
    ASSUME Command, ~ CreateProposalCommand
    PROVE  UNCHANGED <<blockVars, nextId, status, schedule, queue>>
BY DEF Command, VoteCommand, Vote, SetProposalAttributesCommand, SetAttributes,
   DelegateVoteCommand, DelegateVote, RevokeDelegatedVoteCommand, RevokeDelegatedVote,
   BoostVoteCommand, BoostVote, StakeCommand, Stake, FailedStake, proposalVars

\* The queue holds what lies ahead of every proposal, and nothing else.
THEOREM LifeInductive == Spec => []LifeInv
<1>1. Init => LifeInv
  <2> SUFFICES ASSUME Init PROVE LifeInv
    OBVIOUS
  <2>1. /\ phase = "transactions" /\ todo = <<>>
        /\ status = [p \in ProposalIds |-> "ABSENT"]
        /\ queue = [h \in Heights |-> [k \in Kinds |-> <<>>]]
    BY DEF Init
  <2>2. Known = {}
    BY <2>1 DEF Known
  <2>3. SchedulesOrdered /\ QueueComplete /\ OrderAhead /\ StatusFollowsQueue
    BY <2>2 DEF SchedulesOrdered, QueueComplete, OrderAhead, StatusFollowsQueue
  <2>4. QueueOnTime /\ TodoOnTime
    BY <2>1 DEF QueueOnTime, TodoOnTime, Distinct
  <2> QED BY <2>3, <2>4 DEF LifeInv
<1>2. QueueInv /\ QueueInv' /\ LifeInv /\ [Next]_vars => LifeInv'
  <2> SUFFICES ASSUME QueueInv, QueueInv', LifeInv, [Next]_vars PROVE LifeInv'
    OBVIOUS
  <2>1. CASE UNCHANGED vars
    BY <2>1, LifeUnchanged DEF vars, blockVars, proposalVars
  <2>2. CASE CreateProposalCommand
    BY <2>2, CreateKeepsLife, GovernanceAssumption DEF CreateProposalCommand
  <2>3. CASE Command /\ ~ CreateProposalCommand
    BY <2>3, CommandLeavesQueue, LifeUnchanged DEF blockVars
  <2>4. CASE EndTransactions
    BY <2>4, EndTransactionsLoads
  <2>5. CASE QueueStep
    BY <2>5, QueueStepKeepsLife
  <2>6. CASE NextBlock
    BY <2>6, NextBlockKeepsLife
  <2>7. CASE Horizon
    BY <2>1, <2>7 DEF Horizon
  <2> QED BY <2>1, <2>2, <2>3, <2>4, <2>5, <2>6, <2>7 DEF Next, BlockStep
<1> QED BY <1>1, <1>2, QueueInductive, PTL DEF Spec

-------------------------------------------------------------------------------
(* The module implements the life cycle *)

LEMMA CreateProposes ==
    ASSUME GovernanceAssumption, QueueInv, CreateProposalCommand
    PROVE  Lifecycle!Propose(nextId) /\ nextId \in ProposalIds
<1>1. PICK a \in Authors, actions \in ActionLists, attributes \in AttributesArrays :
          CreateProposal(a, actions, attributes)
  BY DEF CreateProposalCommand
<1> DEFINE p == nextId
           when == [start   |-> height + config.votingDelayDuration,
                    quorum  |-> height + config.quorumDuration,
                    ends    |-> height + config.voteDuration,
                    execute |-> height + config.executionDuration]
<1>2. /\ nextId < MaxProposals /\ when.execute <= MaxHeight
      /\ status' = [status EXCEPT ![p] = "CREATED"]
      /\ schedule' = [schedule EXCEPT ![p] = when]
      /\ height' = height
  BY <1>1 DEF CreateProposal, blockVars
<1>3. p \in ProposalIds /\ status[p] = "ABSENT"
  BY <1>2 DEF QueueInv, QueueTypeOK, FreshIds, ProposalIds, GovernanceAssumption
<1>4. /\ height \in Nat /\ height \in Heights
      /\ \A d \in Durations : config[d] \in Nat
      /\ config.executionDuration >= config.voteDuration
      /\ config.voteDuration >= config.quorumDuration
      /\ config.quorumDuration >= config.votingDelayDuration
  BY DEF QueueInv, QueueTypeOK, ValidConfig, Heights, GovernanceAssumption
<1>5. /\ when["start"] \in Nat /\ when["quorum"] \in Nat /\ when["ends"] \in Nat /\ when["execute"] \in Nat
      /\ height <= when["start"] /\ when["start"] <= when["quorum"]
      /\ when["quorum"] <= when["ends"] /\ when["ends"] <= when["execute"]
  BY SMTT(40), <1>4 DEF Durations
<1>6. when \in [Kinds -> Heights]
  BY SMTT(40), <1>2, <1>4, <1>5 DEF Kinds, Heights, GovernanceAssumption
<1>7. schedule'[p] = when
  BY <1>2, <1>3 DEF QueueInv, QueueTypeOK
<1> HIDE DEF when
<1> QED BY <1>2, <1>3, <1>5, <1>6, <1>7 DEF Lifecycle!Propose, Lifecycle!Kinds, Kinds

\* Each handler of the queue takes the step of the promise, at its height, or
\* leaves the life of the proposal where it is.
LEMMA QueueStepMoves ==
    ASSUME QueueInv, LifeInv, QueueStep
    PROVE  \/ \E p \in ProposalIds : Lifecycle!Step(p)
           \/ UNCHANGED <<height, status, schedule>>
<1> DEFINE p == Head(todo).id
<1>1. CASE SkipEntry \/ PassQuorum \/ BeginOutcome \/ ExecuteFunding \/ ExecuteConfig
  BY <1>1 DEF SkipEntry, PassQuorum, BeginOutcome, ExecuteFunding, ExecuteConfig, proposalVars
<1>2. ASSUME todo # <<>>
      PROVE  /\ p \in ProposalIds /\ height = schedule[p][Head(todo).kind]
             /\ Head(todo).kind = "start" => status[p] = "CREATED"
  BY <1>2, AtHead DEF Known
<1> HIDE DEF p
<1>3. CASE ExecuteStarted
  BY <1>2, <1>3 DEF ExecuteStarted, NextEntry, Lifecycle!Step, Lifecycle!Move, p
<1>4. CASE FailQuorum
  BY <1>2, <1>4 DEF FailQuorum, NextEntry, Lifecycle!Step, Lifecycle!Move, p
<1>5. CASE ExecuteEnded
  <2>1. /\ todo # <<>> /\ Head(todo).kind = "ends" /\ status[p] = "ACTIVE"
        /\ UNCHANGED <<height, schedule>>
    BY <1>5 DEF ExecuteEnded, NextEntry, p
  <2>2. \/ status' = [status EXCEPT ![p] = "ACCEPTED"]
        \/ status' = [status EXCEPT ![p] = "REJECTED"]
        \/ status' = [status EXCEPT ![p] = "ACTIVE"]
    BY <1>5 DEF ExecuteEnded, Outcome, p
  <2>3. CASE status' = [status EXCEPT ![p] = "ACTIVE"]
    BY <1>2, <2>1, <2>3 DEF QueueInv, QueueTypeOK
  <2>4. CASE status' # [status EXCEPT ![p] = "ACTIVE"]
    BY <1>2, <2>1, <2>2, <2>4 DEF Lifecycle!Step, Lifecycle!Move
  <2> QED BY <2>3, <2>4
<1>6. CASE FailAction \/ FinishOutcome
  <2>1. /\ todo # <<>> /\ Head(todo).kind = "execute" /\ status[p] = "ACCEPTED"
        /\ UNCHANGED <<height, schedule>>
    BY <1>6 DEF FailAction, FinishOutcome, EndOutcome, QueueInv, ExecutingAccepted, p
  <2>2. \/ status' = [status EXCEPT ![p] = "EXECUTED"]
        \/ status' = [status EXCEPT ![p] = "EXECUTED_WITH_ERROR"]
    BY <1>6 DEF FailAction, FinishOutcome, EndOutcome, p
  <2> QED BY <1>2, <2>1, <2>2 DEF Lifecycle!Step, Lifecycle!Move
<1> QED BY <1>1, <1>3, <1>4, <1>5, <1>6 DEF QueueStep

\* A block ends only when no step of a proposal is left behind.
LEMMA NextBlockAdvances ==
    ASSUME QueueInv, LifeInv, NextBlock
    PROVE  Lifecycle!Advance
<1>1. /\ phase = "queue" /\ todo = <<>> /\ height' = height + 1
      /\ UNCHANGED <<status, schedule>>
  BY DEF NextBlock, proposalVars
<1>2. \A k, p : Ahead(k, p) <=> height < schedule[p][k]
  BY <1>1 DEF Ahead, InTodo
<1>3. \A p \in ProposalIds :
          /\ status[p] = "CREATED" => height < schedule[p]["start"]
          /\ status[p] = "ACCEPTED" => height < schedule[p]["execute"]
  BY <1>2 DEF LifeInv, StatusFollowsQueue, Known
<1> QED BY <1>1, <1>3 DEF Lifecycle!Advance

\* Governance implements the promise of ProposalLifecycle: the status of every
\* proposal moves along its one path, each step of it at the height planned at
\* creation, and no block passes while a planned step is outstanding.
THEOREM LifecycleImplemented == Spec => ImplementsLifecycle
<1>1. Init => Lifecycle!Init
  BY DEF Init, Lifecycle!Init, Kinds, Lifecycle!Kinds
<1>2. QueueInv /\ LifeInv /\ [Next]_vars => [Lifecycle!Next]_(Lifecycle!vars)
  <2> SUFFICES ASSUME QueueInv, LifeInv, [Next]_vars
               PROVE  Lifecycle!Next \/ UNCHANGED <<height, status, schedule>>
    BY DEF Lifecycle!vars
  <2>1. CASE UNCHANGED vars \/ Horizon
    BY <2>1 DEF Horizon, vars, blockVars, proposalVars
  <2>2. CASE CreateProposalCommand
    BY <2>2, CreateProposes, GovernanceAssumption DEF Lifecycle!Next
  <2>3. CASE Command /\ ~ CreateProposalCommand
    BY <2>3, CommandLeavesQueue DEF blockVars
  <2>4. CASE EndTransactions
    BY <2>4 DEF EndTransactions, proposalVars
  <2>5. CASE QueueStep
    BY <2>5, QueueStepMoves DEF Lifecycle!Next
  <2>6. CASE NextBlock
    BY <2>6, NextBlockAdvances DEF Lifecycle!Next
  <2> QED BY <2>1, <2>2, <2>3, <2>4, <2>5, <2>6 DEF Next, BlockStep
<1> QED BY <1>1, <1>2, QueueInductive, LifeInductive, PTL
        DEF Spec, ImplementsLifecycle, Lifecycle!Spec

-------------------------------------------------------------------------------
(* Deposits *)

Deposits == [p \in ProposalIds |-> proposals[p].deposited]
PendingOf(a) == {p \in ProposalIds : Pending(p) /\ proposals[p].author = a}

DepositInv == DepositsTyped /\ DepositsMatchPending

\* A proposal is pending while the end of its vote is ahead, before a step and
\* after it.
LEMMA PendingIsAhead ==
    ASSUME QueueTypeOK, QueueTypeOK', NEW p \in ProposalIds
    PROVE  /\ Pending(p) <=> status[p] \in {"CREATED", "ACTIVE"} /\ Ahead("ends", p)
           /\ Pending(p)' <=> status'[p] \in {"CREATED", "ACTIVE"} /\ Ahead("ends", p)'
<1>1. height \in Int /\ schedule[p]["ends"] \in Int /\ phase \in {"transactions", "queue"}
  BY DEF QueueTypeOK, Heights, Kinds
<1>2. height' \in Int /\ schedule'[p]["ends"] \in Int /\ phase' \in {"transactions", "queue"}
  BY DEF QueueTypeOK, Heights, Kinds
<1>3. Pending(p) <=> status[p] \in {"CREATED", "ACTIVE"} /\ Ahead("ends", p)
  BY <1>1 DEF Pending, EndPassed, Ahead, InTodo, Entry
<1>4. Pending(p)' <=> status'[p] \in {"CREATED", "ACTIVE"} /\ Ahead("ends", p)'
  BY <1>2 DEF Pending, EndPassed, Ahead, InTodo, Entry
<1> QED BY <1>3, <1>4

LEMMA PendingKnown ==
    ASSUME NEW p \in ProposalIds, Pending(p)
    PROVE  p \in Known
BY DEF Pending, Known

\* The deposits of an account are finitely many numbers.
LEMMA DepositsFinite ==
    ASSUME GovernanceAssumption, DepositsTyped, NEW a
    PROVE  /\ IsFiniteSet(PendingOf(a)) /\ PendingOf(a) \subseteq Known
           /\ \A p \in PendingOf(a) : Deposits[p] \in Nat /\ Deposits[p] = proposals[p].deposited
<1>1. IsFiniteSet(ProposalIds)
  BY FS_Interval DEF ProposalIds, GovernanceAssumption
<1>2. IsFiniteSet(PendingOf(a))
  BY <1>1, FS_Subset DEF PendingOf
<1>3. PendingOf(a) \subseteq Known
  BY PendingKnown DEF PendingOf
<1> QED BY <1>2, <1>3 DEF Deposits, DepositsTyped, Known

LEMMA DepositsMatch ==
    DepositsMatchPending <=>
        \A a \in Accounts : locked[a] = SumFunctionOnSet(Deposits, PendingOf(a))
BY DEF DepositsMatchPending, Deposits, PendingOf

\* What a step must leave alone of the proposals that were created.
FieldsKept ==
    \A p \in Known : /\ proposals'[p].author = proposals[p].author
                     /\ proposals'[p].deposited = proposals[p].deposited

\* No proposal starts or stops being pending.
LEMMA PendingKept ==
    ASSUME GovernanceAssumption, DepositInv, DepositsTyped', FieldsKept,
           \A p \in ProposalIds : Pending(p)' <=> Pending(p),
           locked' = locked
    PROVE  DepositsMatchPending'
<1> SUFFICES ASSUME NEW a \in Accounts
             PROVE  locked[a] = SumFunctionOnSet(Deposits', PendingOf(a)')
  BY DEF DepositsMatchPending, Deposits, PendingOf
<1>1. /\ IsFiniteSet(PendingOf(a)) /\ PendingOf(a) \subseteq Known
      /\ PendingOf(a)' = PendingOf(a)
  BY DepositsFinite, PendingKnown DEF DepositInv, PendingOf, FieldsKept
<1>2. \A p \in PendingOf(a) : Deposits'[p] = Deposits[p]
  BY <1>1 DEF Deposits, FieldsKept, Known
<1>3. SumFunctionOnSet(Deposits, PendingOf(a)) = SumFunctionOnSet(Deposits', PendingOf(a))
  BY <1>1, <1>2, SumCongruence
<1> QED BY <1>1, <1>3, DepositsMatch DEF DepositInv

\* The vote of p ends, or its quorum fails, and its deposit is unlocked.
LEMMA PendingReleased ==
    ASSUME GovernanceAssumption, DepositInv, DepositsTyped', FieldsKept,
           NEW p \in Known, Pending(p), ~ Pending(p)',
           \A q \in ProposalIds : q # p => (Pending(q)' <=> Pending(q)),
           locked' = [locked EXCEPT ![proposals[p].author] = @ - proposals[p].deposited]
    PROVE  DepositsMatchPending'
<1> SUFFICES ASSUME NEW a \in Accounts
             PROVE  locked'[a] = SumFunctionOnSet(Deposits', PendingOf(a)')
  BY DEF DepositsMatchPending, Deposits, PendingOf
<1>1. /\ IsFiniteSet(PendingOf(a)) /\ PendingOf(a) \subseteq Known
      /\ \A q \in PendingOf(a) : Deposits[q] \in Nat /\ Deposits[q] = proposals[q].deposited
  BY DepositsFinite DEF DepositInv
<1>2. PendingOf(a)' = PendingOf(a) \ {p}
  BY PendingKnown DEF PendingOf, FieldsKept
<1>3. SumFunctionOnSet(Deposits, PendingOf(a) \ {p}) = SumFunctionOnSet(Deposits', PendingOf(a) \ {p})
  <2>1. IsFiniteSet(PendingOf(a) \ {p})
    BY <1>1, FS_Subset
  <2>2. \A q \in PendingOf(a) : Deposits'[q] = Deposits[q]
    BY <1>1 DEF Deposits, FieldsKept, Known
  <2> QED BY <2>1, <2>2, SumCongruence
<1>4. locked[a] = SumFunctionOnSet(Deposits, PendingOf(a))
  BY DepositsMatch DEF DepositInv
<1>5. CASE a = proposals[p].author
  <2>1. p \in PendingOf(a)
    BY <1>5 DEF PendingOf, Known
  <2>2. SumFunctionOnSet(Deposits, PendingOf(a)) =
            Deposits[p] + SumFunctionOnSet(Deposits, PendingOf(a) \ {p})
    BY <1>1, <2>1, SumRemove, SMTT(40)
  <2>3. SumFunctionOnSet(Deposits, PendingOf(a) \ {p}) \in Int
    BY <1>1, FS_Subset, SumInt
  <2>4. locked'[a] = locked[a] - proposals[p].deposited
    BY <1>5 DEF DepositInv, DepositsTyped
  <2> QED BY <1>1, <1>2, <1>3, <1>4, <2>1, <2>2, <2>3, <2>4
<1>6. CASE a # proposals[p].author
  <2>1. PendingOf(a) \ {p} = PendingOf(a)
    BY <1>6 DEF PendingOf
  <2>2. locked'[a] = locked[a]
    BY <1>6 DEF DepositInv, DepositsTyped
  <2> QED BY <1>2, <1>3, <1>4, <2>1, <2>2
<1> QED BY <1>5, <1>6

\* A proposal is created and its deposit locked.
LEMMA PendingAdded ==
    ASSUME GovernanceAssumption, DepositInv, DepositsTyped', FieldsKept,
           NEW p \in ProposalIds, ~ Pending(p), Pending(p)', p \notin Known,
           \A q \in ProposalIds : q # p => (Pending(q)' <=> Pending(q)),
           proposals'[p].deposited \in Nat,
           locked' = [locked EXCEPT ![proposals'[p].author] = @ + proposals'[p].deposited]
    PROVE  DepositsMatchPending'
<1> SUFFICES ASSUME NEW a \in Accounts
             PROVE  locked'[a] = SumFunctionOnSet(Deposits', PendingOf(a)')
  BY DEF DepositsMatchPending, Deposits, PendingOf
<1>1. /\ IsFiniteSet(PendingOf(a)) /\ PendingOf(a) \subseteq Known
      /\ \A q \in PendingOf(a) : Deposits[q] \in Nat /\ Deposits[q] = proposals[q].deposited
  BY DepositsFinite DEF DepositInv
<1>2. \A q \in PendingOf(a) : Deposits'[q] = Deposits[q]
  BY <1>1 DEF Deposits, FieldsKept, Known
<1>3. /\ SumFunctionOnSet(Deposits, PendingOf(a)) = SumFunctionOnSet(Deposits', PendingOf(a))
      /\ SumFunctionOnSet(Deposits, PendingOf(a)) \in Int
  BY <1>1, <1>2, SumCongruence, SumInt
<1>4. locked[a] = SumFunctionOnSet(Deposits, PendingOf(a))
  BY DepositsMatch DEF DepositInv
<1>5. Deposits'[p] = proposals'[p].deposited
  BY DEF Deposits
<1>6. CASE a = proposals'[p].author
  <2>1. PendingOf(a)' = PendingOf(a) \cup {p}
    BY <1>6, PendingKnown DEF PendingOf, FieldsKept
  <2>2. p \notin PendingOf(a)
    BY <1>1
  <2>3. \A q \in PendingOf(a) \cup {p} : Deposits'[q] \in Int
    BY <1>1, <1>2, <1>5
  <2>4. SumFunctionOnSet(Deposits', PendingOf(a) \cup {p}) =
            Deposits'[p] + SumFunctionOnSet(Deposits', PendingOf(a))
    BY <1>1, <2>2, <2>3, SumAdd
  <2>5. locked'[a] = locked[a] + proposals'[p].deposited
    BY <1>6 DEF DepositInv, DepositsTyped
  <2> QED BY <1>3, <1>4, <1>5, <2>1, <2>4, <2>5
<1>7. CASE a # proposals'[p].author
  <2>1. PendingOf(a)' = PendingOf(a)
    BY <1>7, PendingKnown DEF PendingOf, FieldsKept
  <2>2. locked'[a] = locked[a]
    BY <1>7 DEF DepositInv, DepositsTyped
  <2> QED BY <1>3, <1>4, <2>1, <2>2
<1> QED BY <1>6, <1>7

\* Steps that leave the stores of the proposals alone.
LEMMA TypedKept ==
    ASSUME DepositsTyped, Known' = Known, proposals' = proposals, DOMAIN locked' = Accounts
    PROVE  DepositsTyped' /\ FieldsKept
BY DEF DepositsTyped, FieldsKept

\* Ahead, and so Pending, is left alone with the queue.
LEMMA PendingUnchanged ==
    ASSUME UNCHANGED <<height, phase, todo, status, schedule>>
    PROVE  \A p \in ProposalIds : Pending(p)' <=> Pending(p)
BY DEF Pending, EndPassed

LEMMA CreateKeepsDeposits ==
    ASSUME GovernanceAssumption, QueueInv, DepositInv, CreateProposalCommand, QueueInv', LifeInv'
    PROVE  DepositInv'
<1>1. PICK a \in Authors, actions \in ActionLists, attributes \in AttributesArrays :
          CreateProposal(a, actions, attributes)
  BY DEF CreateProposalCommand
<1>2. PICK p : p = nextId
  OBVIOUS
<1>3. PICK record, when :
          /\ {"author", "deposited"} \subseteq DOMAIN record
          /\ record.author = a /\ record.deposited = config.proposalCreationDeposit
          /\ proposals' = [proposals EXCEPT ![p] = record]
          /\ schedule' = [schedule EXCEPT ![p] = when]
  BY <1>1, <1>2 DEF CreateProposal
<1>4. /\ phase = "transactions" /\ p < MaxProposals
      /\ config.proposalCreationDeposit \in Nat
      /\ locked' = [locked EXCEPT ![a] = @ + config.proposalCreationDeposit]
      /\ status' = [status EXCEPT ![p] = "CREATED"]
      /\ UNCHANGED <<height, phase, todo>>
  BY <1>1, <1>2 DEF CreateProposal, LockDeposit, InTransactions, blockVars
<1>5. p \in ProposalIds /\ p \notin Known /\ a \in Accounts
  BY <1>2, <1>4 DEF QueueInv, QueueTypeOK, FreshIds, ProposalIds, GovernanceAssumption, Known
<1>6. /\ status'[p] = "CREATED" /\ proposals'[p] = record
      /\ \A q \in ProposalIds : q # p =>
            /\ status'[q] = status[q] /\ proposals'[q] = proposals[q] /\ schedule'[q] = schedule[q]
  BY <1>3, <1>4, <1>5 DEF QueueInv, QueueTypeOK, DepositInv, DepositsTyped
<1>7. Known' = Known \cup {p}
  BY <1>5, <1>6 DEF Known
<1>8. DepositsTyped' /\ FieldsKept
  BY <1>3, <1>4, <1>5, <1>6, <1>7 DEF DepositInv, DepositsTyped, FieldsKept, Known
<1>9. \A q \in ProposalIds : q # p => (Pending(q)' <=> Pending(q))
  BY <1>4, <1>6 DEF Pending, EndPassed
<1>10. ~ Pending(p)
  BY <1>5, PendingKnown
<1>11. Pending(p)'
  <2>1. p \in Known' /\ schedule'[p]["ends"] \in Int /\ schedule'[p]["start"] \in Int /\ height' \in Int
    BY <1>5, <1>7 DEF QueueInv, QueueTypeOK, Heights, Kinds
  <2>2. schedule'[p]["start"] <= schedule'[p]["quorum"] /\ schedule'[p]["quorum"] <= schedule'[p]["ends"]
    BY <2>1 DEF LifeInv, SchedulesOrdered
  <2>3. Ahead("start", p)'
    BY <1>6, <2>1 DEF LifeInv, StatusFollowsQueue
  <2>4. height' <= schedule'[p]["start"]
    BY <2>1, <2>3 DEF Ahead
  <2>5. schedule'[p]["quorum"] \in Int
    BY <1>5 DEF QueueInv, QueueTypeOK, Kinds
  <2>6. ~ (height' > schedule'[p].ends) /\ phase' # "queue"
    BY <1>4, <2>1, <2>2, <2>4, <2>5
  <2> QED BY <1>6, <2>6 DEF Pending, EndPassed
<1>12. DepositsMatchPending'
  BY <1>3, <1>4, <1>5, <1>6, <1>8, <1>9, <1>10, <1>11, PendingAdded
<1> QED BY <1>8, <1>12 DEF DepositInv

\* The handlers of the queue: the deposit of the head is unlocked exactly when the
\* head stops being pending.
LEMMA QueueStepKeepsDeposits ==
    ASSUME GovernanceAssumption, QueueInv, LifeInv, DepositInv, QueueStep, QueueInv'
    PROVE  DepositInv'
<1>0. PICK p : p = Head(todo).id
  OBVIOUS
<1>5. QueueTypeOK /\ QueueTypeOK'
  BY DEF QueueInv
<1>1. CASE BeginOutcome \/ ExecuteFunding \/ ExecuteConfig
  <2>1. UNCHANGED <<height, phase, todo, status, schedule, proposals, locked>>
    BY <1>1 DEF BeginOutcome, ExecuteFunding, ExecuteConfig, proposalVars, tokenVars
  <2>2. Known' = Known
    BY <2>1 DEF Known
  <2> QED BY <2>1, <2>2, TypedKept, PendingUnchanged, PendingKept DEF DepositInv, DepositsTyped
<1>2. ASSUME todo # <<>>, todo' = Tail(todo), UNCHANGED <<height, phase, schedule, queue>>,
             \A q \in ProposalIds : q # p => status'[q] = status[q],
             status'[p] # "ABSENT"
      PROVE  /\ p \in Known /\ Known' = Known
             /\ \A q \in ProposalIds : q # p => (Pending(q)' <=> Pending(q))
             /\ Pending(p) <=> status[p] \in {"CREATED", "ACTIVE"} /\ Ahead("ends", p)
             /\ Pending(p)' <=> /\ status'[p] \in {"CREATED", "ACTIVE"}
                                /\ Ahead("ends", p) /\ Head(todo).kind # "ends"
             /\ \A l \in Kinds : Rank[Head(todo).kind] <= Rank[l] => Ahead(l, p)
  <2>1. /\ p \in Known /\ Head(todo) = Entry(Head(todo).kind, p)
        /\ \A l \in Kinds : Rank[Head(todo).kind] <= Rank[l] => Ahead(l, p)
    BY <1>0, <1>2, AtHead
  <2>2. Known' = Known
    BY <1>2, <2>1 DEF Known
  <2>3. \A q : Ahead("ends", q)' <=> Ahead("ends", q) /\ Entry("ends", q) # Head(todo)
    BY <1>2, <2>2, HeadTaken
  <2>4. \A q : Entry("ends", q) = Head(todo) <=> q = p /\ Head(todo).kind = "ends"
    BY <2>1, EntryFields
  <2>5. \A q \in ProposalIds :
            /\ Pending(q) <=> status[q] \in {"CREATED", "ACTIVE"} /\ Ahead("ends", q)
            /\ Pending(q)' <=> status'[q] \in {"CREATED", "ACTIVE"} /\ Ahead("ends", q)'
    BY <1>5, PendingIsAhead
  <2>6. p \in ProposalIds
    BY <2>1 DEF Known
  <2>7. \A q \in ProposalIds : q # p => (Pending(q)' <=> Pending(q))
    BY <1>2, <2>3, <2>4, <2>5
  <2>8. /\ Pending(p) <=> status[p] \in {"CREATED", "ACTIVE"} /\ Ahead("ends", p)
        /\ Pending(p)' <=> /\ status'[p] \in {"CREATED", "ACTIVE"}
                           /\ Ahead("ends", p) /\ Head(todo).kind # "ends"
    BY <2>3, <2>4, <2>5, <2>6
  <2> QED BY <2>1, <2>2, <2>7, <2>8
<1>3. CASE ExecuteStarted \/ SkipEntry \/ PassQuorum
  <2>1. /\ todo # <<>> /\ todo' = Tail(todo)
        /\ UNCHANGED <<height, phase, schedule, queue, proposals, locked>>
        /\ \/ Head(todo).kind = "start" /\ status' = [status EXCEPT ![p] = "ACTIVE"]
           \/ Head(todo).kind = "quorum" /\ status' = status
           \/ Head(todo).kind = "ends" /\ status[p] # "ACTIVE" /\ status' = status
           \/ Head(todo).kind = "execute" /\ status' = status
    BY <1>0, <1>3 DEF ExecuteStarted, SkipEntry, PassQuorum, NextEntry, proposalVars, tokenVars
  <2>2. /\ p \in Known /\ (Head(todo).kind = "start" => status[p] = "CREATED")
        /\ Head(todo).kind # "start" => status[p] # "CREATED"
    BY <1>0, <2>1, AtHead
  <2>3. \A q \in ProposalIds : q # p => status'[q] = status[q]
    BY <2>1 DEF QueueInv, QueueTypeOK
  <2>4. /\ status'[p] \in {"CREATED", "ACTIVE"} <=> status[p] \in {"CREATED", "ACTIVE"}
        /\ status'[p] # "ABSENT"
    BY <2>1, <2>2 DEF QueueInv, QueueTypeOK, Known
  <2>5. /\ Known' = Known /\ (Pending(p)' <=> Pending(p))
        /\ \A q \in ProposalIds : q # p => (Pending(q)' <=> Pending(q))
    <3>1. Head(todo).kind = "ends" => status[p] \notin {"CREATED", "ACTIVE"}
      BY <2>1, <2>2
    <3> QED BY <1>2, <2>1, <2>3, <2>4, <3>1
  <2> QED BY <2>1, <2>5, TypedKept, PendingKept DEF DepositInv, DepositsTyped
<1>4. CASE FailQuorum \/ ExecuteEnded
  <2>1. /\ todo # <<>> /\ todo' = Tail(todo) /\ status[p] = "ACTIVE"
        /\ UNCHANGED <<height, phase, schedule, queue, proposals>>
        /\ locked' = [locked EXCEPT ![proposals[p].author] = @ - proposals[p].deposited]
        /\ \/ Head(todo).kind = "quorum" /\ status' = [status EXCEPT ![p] = "FAILED_QUORUM"]
           \/ Head(todo).kind = "ends" /\ status' = [status EXCEPT ![p] = Outcome(p)]
    BY <1>0, <1>4 DEF FailQuorum, ExecuteEnded, NextEntry, UnlockDeposit
  <2>2. p \in Known
    BY <1>0, <2>1, AtHead
  <2>3. \A q \in ProposalIds : q # p => status'[q] = status[q]
    BY <2>1 DEF QueueInv, QueueTypeOK
  <2>4. /\ status'[p] # "ABSENT"
        /\ Head(todo).kind = "quorum" => status'[p] = "FAILED_QUORUM"
    BY <2>1, <2>2 DEF QueueInv, QueueTypeOK, Known, Outcome
  <2>5. Rank[Head(todo).kind] <= Rank["ends"] /\ "ends" \in Kinds
    BY <2>1, RankFacts DEF Kinds
  <2>6. /\ Known' = Known /\ Pending(p) /\ ~ Pending(p)'
        /\ \A q \in ProposalIds : q # p => (Pending(q)' <=> Pending(q))
    BY <1>2, <2>1, <2>3, <2>4, <2>5
  <2>7. DOMAIN locked' = Accounts
    BY <2>1 DEF DepositInv, DepositsTyped
  <2>8. DepositsTyped' /\ FieldsKept
    BY <2>1, <2>6, <2>7, TypedKept DEF DepositInv
  <2>9. DepositsMatchPending'
    BY <2>1, <2>2, <2>6, <2>8, PendingReleased
  <2> QED BY <2>8, <2>9 DEF DepositInv
<1>6. CASE FailAction \/ FinishOutcome
  <2>1. PICK s \in {"EXECUTED", "EXECUTED_WITH_ERROR"} : EndOutcome(s)
    BY <1>6 DEF FailAction, FinishOutcome
  <2>2. /\ todo # <<>> /\ status[p] = "ACCEPTED" /\ todo' = Tail(todo)
        /\ status' = [status EXCEPT ![p] = s]
        /\ UNCHANGED <<height, phase, schedule, queue, proposals, locked>>
    BY <1>0, <1>6, <2>1 DEF QueueInv, NextEntry, FailAction, FinishOutcome, EndOutcome, ExecutingAccepted, tokenVars
  <2>3. p \in Known
    BY <1>0, <2>2, AtHead
  <2>4. \A q \in ProposalIds : status'[q] = IF q = p THEN s ELSE status[q]
    BY <2>2 DEF QueueInv, QueueTypeOK
  <2>5. p \in ProposalIds
    BY <2>3 DEF Known
  <2>6. Known' = Known /\ \A q \in ProposalIds : Pending(q)' <=> Pending(q)
    BY <1>2, <2>2, <2>4, <2>5
  <2> QED BY <2>2, <2>6, TypedKept, PendingKept DEF DepositInv, DepositsTyped
<1> QED BY <1>1, <1>3, <1>4, <1>6 DEF QueueStep

\* The other commands and the steps of a block
LEMMA OthersKeepDeposits ==
    ASSUME GovernanceAssumption, QueueInv, LifeInv, DepositInv, QueueInv',
           \/ Command /\ ~ CreateProposalCommand
           \/ EndTransactions \/ NextBlock
           \/ UNCHANGED vars
    PROVE  DepositInv'
<1>1. /\ status' = status /\ schedule' = schedule /\ locked' = locked
      /\ Known' = Known
  <2>1. CASE Command /\ ~ CreateProposalCommand
    BY <2>1, CommandLeavesQueue DEF Command, VoteCommand, Vote, SetProposalAttributesCommand,
       SetAttributes, DelegateVoteCommand, DelegateVote, RevokeDelegatedVoteCommand,
       RevokeDelegatedVote, BoostVoteCommand, BoostVote, StakeCommand, Stake, FailedStake, tokenVars, Known
  <2>2. CASE EndTransactions \/ NextBlock \/ UNCHANGED vars
    BY <2>2 DEF EndTransactions, NextBlock, vars, proposalVars, tokenVars, Known
  <2> QED BY <2>1, <2>2
<1>2. \/ proposals' = proposals
      \/ SetProposalAttributesCommand
  BY DEF Command, VoteCommand, Vote, DelegateVoteCommand, DelegateVote,
     RevokeDelegatedVoteCommand, RevokeDelegatedVote, BoostVoteCommand, BoostVote,
     StakeCommand, Stake, FailedStake, EndTransactions, NextBlock, vars, proposalVars
<1>3. DepositsTyped' /\ FieldsKept
  <2>1. CASE proposals' = proposals
    BY <1>1, <2>1, TypedKept DEF DepositInv, DepositsTyped
  <2>2. CASE SetProposalAttributesCommand
    <3>1. PICK p \in ProposalIds :
          \E attributes :
              proposals' = [proposals EXCEPT ![p] = [proposals[p] EXCEPT !.attributes = attributes]]
      BY <2>2 DEF SetProposalAttributesCommand, SetAttributes
    <3>0. PICK attributes :
              proposals' = [proposals EXCEPT ![p] = [proposals[p] EXCEPT !.attributes = attributes]]
      BY <3>1
    <3>2. \A q \in ProposalIds :
              proposals'[q] = IF q = p THEN [proposals[p] EXCEPT !.attributes = attributes]
                                       ELSE proposals[q]
      BY <3>0 DEF DepositInv, DepositsTyped
    <3>3. \A q \in Known :
              /\ DOMAIN proposals'[q] = DOMAIN proposals[q]
              /\ proposals'[q].author = proposals[q].author
              /\ proposals'[q].deposited = proposals[q].deposited
      BY <3>2 DEF DepositInv, DepositsTyped, Known
    <3>4. DOMAIN proposals' = ProposalIds
      BY <3>0 DEF DepositInv, DepositsTyped
    <3> QED BY <1>1, <3>3, <3>4 DEF DepositInv, DepositsTyped, FieldsKept
  <2> QED BY <1>2, <2>1, <2>2
<1>4. \A p \in ProposalIds : Pending(p)' <=> Pending(p)
  <2>1. CASE Command /\ ~ CreateProposalCommand
    BY <2>1, CommandLeavesQueue, PendingUnchanged DEF blockVars
  <2>2. CASE UNCHANGED vars
    BY <2>2, PendingUnchanged DEF vars, blockVars, proposalVars
  <2>3. CASE NextBlock
    <3>1. /\ phase = "queue" /\ todo = <<>> /\ todo' = <<>> /\ height' = height + 1
          /\ phase' = "transactions"
      BY <2>3 DEF NextBlock
    <3>2. \A p \in ProposalIds : height \in Int /\ schedule[p]["ends"] \in Int
      BY DEF QueueInv, QueueTypeOK, Heights, Kinds
    <3>3. \A p \in ProposalIds : Ahead("ends", p)' <=> Ahead("ends", p)
      BY <1>1, <3>1, <3>2 DEF Ahead, InTodo
    <3> QED BY <1>1, <3>3, PendingIsAhead DEF QueueInv
  <2>4. CASE EndTransactions
    <3>1. \A p \in Known : Ahead("ends", p)' <=> Ahead("ends", p)
      BY <2>4, EndTransactionsLoads DEF Kinds
    <3> QED BY <1>1, <3>1, PendingIsAhead, PendingKnown DEF QueueInv, Known
  <2> QED BY <2>1, <2>2, <2>3, <2>4
<1> QED BY <1>1, <1>3, <1>4, PendingKept DEF DepositInv

\* Every active proposal that is ahead in the queue has its deposit locked, and only those.
THEOREM DepositsInductive == Spec => []DepositInv
<1>1. Init => DepositInv
  <2> SUFFICES ASSUME Init PROVE DepositInv
    OBVIOUS
  <2>1. /\ status = [p \in ProposalIds |-> "ABSENT"]
        /\ locked = [a \in Accounts |-> 0] /\ proposals = [p \in ProposalIds |-> None]
    BY DEF Init
  <2>2. DepositsTyped
    BY <2>1 DEF DepositsTyped, Known
  <2>3. \A a : PendingOf(a) = {}
    BY <2>1 DEF PendingOf, Pending
  <2>4. DepositsMatchPending
    BY <2>1, <2>3, SumEmpty, DepositsMatch
  <2> QED BY <2>2, <2>4 DEF DepositInv
<1>2. QueueInv /\ QueueInv' /\ LifeInv /\ LifeInv' /\ DepositInv /\ [Next]_vars => DepositInv'
  <2> SUFFICES ASSUME QueueInv, QueueInv', LifeInv, LifeInv', DepositInv, [Next]_vars
               PROVE  DepositInv'
    OBVIOUS
  <2>1. CASE CreateProposalCommand
    BY <2>1, CreateKeepsDeposits, GovernanceAssumption
  <2>2. CASE QueueStep
    BY <2>2, QueueStepKeepsDeposits, GovernanceAssumption
  <2>3. CASE (Command /\ ~ CreateProposalCommand) \/ EndTransactions \/ NextBlock \/ UNCHANGED vars
    BY <2>3, OthersKeepDeposits, GovernanceAssumption
  <2> QED BY <2>1, <2>2, <2>3 DEF Next, BlockStep, Horizon
<1> QED BY <1>1, <1>2, QueueInductive, LifeInductive, PTL DEF Spec

\* What the module holds locked for an account is the sum of the deposits of its
\* pending proposals, for any number of proposals and heights.
THEOREM DepositsBacked == Spec => []DepositsMatchPending
<1>1. DepositInv => DepositsMatchPending
  BY DEF DepositInv
<1> QED BY <1>1, DepositsInductive, PTL

\* What the handlers of a failed quorum and of the end of a vote unlock is locked.
UnlockSucceeds ==
    todo # <<>> /\ Head(todo).kind \in {"quorum", "ends"} /\ status[Head(todo).id] = "ACTIVE" =>
        locked[proposals[Head(todo).id].author] >= proposals[Head(todo).id].deposited

\* TokenMethod.unlock never throws in the queue: a block hook that throws would
\* stop the chain, and the next proposal of the author cannot have used the tokens.
THEOREM UnlockNeverThrows == Spec => []UnlockSucceeds
<1>1. QueueInv /\ LifeInv /\ DepositInv => UnlockSucceeds
  <2> SUFFICES ASSUME QueueInv, LifeInv, DepositInv, todo # <<>>,
                      Head(todo).kind \in {"quorum", "ends"}, status[Head(todo).id] = "ACTIVE"
               PROVE  locked[proposals[Head(todo).id].author] >= proposals[Head(todo).id].deposited
    BY DEF UnlockSucceeds
  <2> DEFINE p == Head(todo).id
             a == proposals[p].author
  <2>1. p \in Known /\ Ahead("ends", p)
    BY AtHead, RankFacts DEF Kinds
  <2>2. p \in ProposalIds /\ a \in Accounts
    BY <2>1 DEF DepositInv, DepositsTyped, Known
  <2>3. Pending(p)
    <3>1. height \in Int /\ schedule[p]["ends"] \in Int /\ phase \in {"transactions", "queue"}
      BY <2>2 DEF QueueInv, QueueTypeOK, Heights, Kinds
    <3> QED BY <2>1, <3>1 DEF Pending, EndPassed, Ahead, InTodo, Entry
  <2>4. p \in PendingOf(a)
    BY <2>2, <2>3 DEF PendingOf
  <2>5. Deposits[p] <= SumFunctionOnSet(Deposits, PendingOf(a))
    BY <2>4, DepositsFinite, SumBounds, GovernanceAssumption DEF DepositInv
  <2>6. locked[a] = SumFunctionOnSet(Deposits, PendingOf(a))
    BY <2>2, DepositsMatch DEF DepositInv
  <2>7. /\ Deposits[p] = proposals[p].deposited /\ Deposits[p] \in Nat
        /\ SumFunctionOnSet(Deposits, PendingOf(a)) \in Int
    BY SMTT(40), <2>4, DepositsFinite, SumInt, GovernanceAssumption DEF DepositInv
  <2> QED BY <2>5, <2>6, <2>7
<1> QED BY <1>1, QueueInductive, LifeInductive, DepositsInductive, PTL

-------------------------------------------------------------------------------
(* The configuration *)

\* The recursion that ActionsOfType is written as
Kept(type, actions, n, kept) ==
    kept = [i \in 0 .. n |->
               IF i = 0 THEN <<>>
               ELSE IF actions[i].type = type THEN Append(kept[i - 1], actions[i]) ELSE kept[i - 1]]

LEMMA KeptExists ==
    ASSUME NEW type, NEW actions, NEW n \in Nat
    PROVE  \E kept : Kept(type, actions, n, kept)
<1> DEFINE Good == {k \in 0 .. n : \E kept : Kept(type, actions, k, kept)}
<1>1. 0 \in Good
  <2>1. Kept(type, actions, 0, [i \in 0 .. 0 |-> <<>>])
    BY DEF Kept
  <2> QED BY <2>1
<1>2. ASSUME NEW k \in 0 .. n - 1, k \in Good PROVE k + 1 \in Good
  <2>1. PICK kept : Kept(type, actions, k, kept)
    BY <1>2
  <2>2. PICK last : last = IF actions[k + 1].type = type THEN Append(kept[k], actions[k + 1]) ELSE kept[k]
    OBVIOUS
  <2>3. PICK next : next = [i \in 0 .. k + 1 |-> IF i = k + 1 THEN last ELSE kept[i]]
    OBVIOUS
  <2>4. ASSUME NEW i \in 0 .. k + 1
        PROVE  next[i] = IF i = 0 THEN <<>>
                         ELSE IF actions[i].type = type THEN Append(next[i - 1], actions[i]) ELSE next[i - 1]
    <3>1. CASE i = k + 1
      <4>1. i # 0 /\ i - 1 = k /\ k \in 0 .. k + 1 /\ next[k] = kept[k] /\ next[i] = last
        BY <2>3, <3>1
      <4> QED BY <2>2, <3>1, <4>1
    <3>2. CASE i \in 1 .. k
      <4>1. /\ i # 0 /\ i \in 0 .. k /\ i - 1 \in 0 .. k + 1
            /\ next[i] = kept[i] /\ next[i - 1] = kept[i - 1]
        BY <2>3, <3>2
      <4> QED BY <2>1, <4>1 DEF Kept
    <3>3. CASE i = 0
      <4>1. next[0] = kept[0] /\ 0 \in 0 .. k
        BY <2>3
      <4> QED BY <2>1, <3>3, <4>1 DEF Kept
    <3> QED BY <3>1, <3>2, <3>3
  <2>5. DOMAIN next = 0 .. k + 1 /\ next = [i \in 0 .. k + 1 |-> next[i]]
    BY <2>3
  <2>6. Kept(type, actions, k + 1, next)
    <3> HIDE <2>3
    <3> QED BY <2>4, <2>5 DEF Kept
  <2> QED BY <2>6
<1>3. n \in Good
  <2> HIDE DEF Good
  <2> QED BY <1>1, <1>2, UpTo
<1> QED BY <1>3

\* The actions of a type are actions of the list, all of that type.
LEMMA ActionsOfTypeAre ==
    ASSUME NEW type, NEW actions, Len(actions) \in Nat, NEW A,
           \A i \in 1 .. Len(actions) : actions[i] \in A
    PROVE  ActionsOfType(type, actions) \in Seq({a \in A : a.type = type})
<1>a. PICK n \in Nat : n = Len(actions)
  OBVIOUS
<1> DEFINE S == {a \in A : a.type = type}
           kept == CHOOSE k : Kept(type, actions, n, k)
<1>1. Kept(type, actions, n, kept)
  BY KeptExists
<1>2. ActionsOfType(type, actions) = kept[n]
  BY <1>a DEF ActionsOfType, Kept
<1>3. \A i \in 0 .. n : kept[i] = IF i = 0 THEN <<>>
             ELSE IF actions[i].type = type THEN Append(kept[i - 1], actions[i]) ELSE kept[i - 1]
  <2> HIDE DEF kept
  <2> QED BY <1>1 DEF Kept
<1> HIDE DEF kept
<1> DEFINE Good == {i \in 0 .. n : kept[i] \in Seq(S)}
<1>4. 0 \in Good
  <2>1. kept[0] = <<>> /\ 0 \in 0 .. n
    BY <1>3
  <2> HIDE DEF S
  <2>2. <<>> \in Seq(S)
    OBVIOUS
  <2>3. kept[0] \in Seq(S)
    BY <2>1, <2>2
  <2> QED BY <2>1, <2>3
<1>5. ASSUME NEW m \in 0 .. n - 1, m \in Good PROVE m + 1 \in Good
  <2>1. m + 1 \in 0 .. n /\ m + 1 # 0 /\ (m + 1) - 1 = m /\ m + 1 \in 1 .. Len(actions)
    BY <1>a
  <2>2. kept[m + 1] = IF actions[m + 1].type = type THEN Append(kept[m], actions[m + 1]) ELSE kept[m]
    BY <1>3, <2>1
  <2>3. kept[m] \in Seq(S)
    BY <1>5
  <2>4. CASE actions[m + 1].type = type
    <3>1. actions[m + 1] \in S
      BY <2>1, <2>4
    <3> HIDE DEF S
    <3>2. Append(kept[m], actions[m + 1]) \in Seq(S)
      BY <2>3, <3>1
    <3> QED BY <2>1, <2>2, <2>4, <3>2
  <2>5. CASE actions[m + 1].type # type
    BY <2>1, <2>2, <2>3, <2>5
  <2> QED BY <2>4, <2>5
<1>6. n \in Good
  <2> HIDE DEF Good
  <2>1. \A m \in 0 .. n - 1 : m \in Good => m + 1 \in Good
    BY <1>5
  <2>2. \A m \in 0 .. n : m \in Good
    BY ONLY <1>4, <2>1, n \in Nat, UpTo
  <2> QED BY <2>2
<1> QED BY <1>2, <1>6

\* The actions that a proposal can carry
AllActions == UNION {{actions[i] : i \in 1 .. Len(actions)} : actions \in ActionLists}

ActionsStored ==
    /\ DOMAIN proposals = ProposalIds
    /\ \A p \in Known : "actions" \in DOMAIN proposals[p] /\ proposals[p].actions \in ActionLists

\* What is left to execute has its funding in front.
FundingFirst(s) == \A i, j \in 1 .. Len(s) : i <= j /\ IsFunding(s[j]) => IsFunding(s[i])

AgendaInv == ActionsStored /\ agenda \in Seq(AllActions) /\ FundingFirst(agenda)

LEMMA SortedPutsFundingFirst ==
    ASSUME GovernanceAssumption, NEW actions \in ActionLists
    PROVE  SortedActions(actions) \in Seq(AllActions) /\ FundingFirst(SortedActions(actions))
<1>1. Len(actions) \in Nat /\ \A i \in 1 .. Len(actions) : actions[i] \in AllActions
  BY DEF GovernanceAssumption, AllActions, ActionsAreLists
<1>2. PICK F, C : F = {a \in AllActions : a.type = "funding"} /\ C = {a \in AllActions : a.type = "config"}
  OBVIOUS
<1>3. PICK f, c : f = ActionsOfType("funding", actions) /\ c = ActionsOfType("config", actions)
  OBVIOUS
<1>4. f \in Seq(F) /\ c \in Seq(C)
  BY <1>1, <1>2, <1>3, ActionsOfTypeAre
<1>5. F \subseteq AllActions /\ C \subseteq AllActions
  BY <1>2
<1>6. PICK s : s = f \o c
  OBVIOUS
<1>7. s \in Seq(AllActions) /\ Len(s) = Len(f) + Len(c) /\ Len(f) \in Nat /\ Len(c) \in Nat
  BY <1>4, <1>5, <1>6
<1>8. \A i \in 1 .. Len(s) : s[i] = IF i <= Len(f) THEN f[i] ELSE c[i - Len(f)]
  BY <1>4, <1>6
<1>9. \A i \in 1 .. Len(f) : IsFunding(f[i])
  BY <1>2, <1>4 DEF IsFunding
<1>10. \A i \in 1 .. Len(c) : ~IsFunding(c[i])
  BY <1>2, <1>4 DEF IsFunding
<1>11. FundingFirst(s)
  <2> SUFFICES ASSUME NEW i \in 1 .. Len(s), NEW j \in 1 .. Len(s), i <= j, IsFunding(s[j])
               PROVE  IsFunding(s[i])
    BY DEF FundingFirst
  <2>1. j <= Len(f)
    <3> SUFFICES ASSUME j > Len(f) PROVE FALSE
      BY <1>7
    <3>1. s[j] = c[j - Len(f)] /\ j - Len(f) \in 1 .. Len(c)
      BY <1>7, <1>8
    <3> QED BY <1>10, <3>1
  <2>2. i \in 1 .. Len(f) /\ s[i] = f[i]
    BY <1>7, <1>8, <2>1
  <2> QED BY <1>9, <2>2
<1> QED BY <1>3, <1>6, <1>7, <1>11 DEF SortedActions

LEMMA TailKeepsFundingFirst ==
    ASSUME NEW s \in Seq(AllActions), s # <<>>, FundingFirst(s)
    PROVE  Tail(s) \in Seq(AllActions) /\ FundingFirst(Tail(s))
<1>1. /\ Tail(s) \in Seq(AllActions) /\ Len(s) \in Nat /\ Len(Tail(s)) = Len(s) - 1
      /\ \A i \in 1 .. Len(Tail(s)) : Tail(s)[i] = s[i + 1]
  OBVIOUS
<1>2. ASSUME NEW i \in 1 .. Len(Tail(s)), NEW j \in 1 .. Len(Tail(s)), i <= j, IsFunding(Tail(s)[j])
      PROVE  IsFunding(Tail(s)[i])
  <2>1. /\ i + 1 \in 1 .. Len(s) /\ j + 1 \in 1 .. Len(s) /\ i + 1 <= j + 1
        /\ Tail(s)[i] = s[i + 1] /\ Tail(s)[j] = s[j + 1]
    BY <1>1, <1>2
  <2> QED BY <1>2, <2>1 DEF FundingFirst
<1> QED BY <1>1, <1>2 DEF FundingFirst
\* The actions of a proposal stay what they were when it was created.
LEMMA ActionsStay ==
    ASSUME GovernanceAssumption, QueueInv, ActionsStored, [Next]_vars
    PROVE  ActionsStored'
<1>1. CASE CreateProposalCommand
  <2>1. PICK a \in Authors, actions \in ActionLists, attributes \in AttributesArrays :
            CreateProposal(a, actions, attributes)
    BY <1>1 DEF CreateProposalCommand
  <2>2. PICK r : /\ proposals' = [proposals EXCEPT ![nextId] = r]
                 /\ r.actions = actions /\ "actions" \in DOMAIN r
    <3>1. PICK r : r = [author            |-> a,
                        deposited         |-> config.proposalCreationDeposit,
                        actions           |-> actions,
                        attributes        |-> attributes,
                        maxBoostDuration  |-> config.maxBoostDuration,
                        boostFactor       |-> config.boostFactor,
                        enableBoosting    |-> config.enableBoosting,
                        enableTurnoutBias |-> config.enableTurnoutBias,
                        quorumMode        |-> config.quorumMode,
                        quorumTreshold    |-> config.quorumTreshold]
      OBVIOUS
    <3>2. proposals' = [proposals EXCEPT ![nextId] = r]
      BY <2>1, <3>1, Zenon DEF CreateProposal
    <3>3. r.actions = actions /\ "actions" \in DOMAIN r
      BY <3>1
    <3> QED BY <3>2, <3>3
  <2>3. status' = [status EXCEPT ![nextId] = "CREATED"]
    BY <2>1 DEF CreateProposal
  <2>4. \A p \in Known' : p = nextId \/ p \in Known
    BY <2>3 DEF Known, QueueInv, QueueTypeOK
  <2>5. Known \subseteq ProposalIds /\ Known' \subseteq ProposalIds
    BY DEF Known
  <2> QED BY <2>2, <2>4, <2>5 DEF ActionsStored
<1>2. CASE SetProposalAttributesCommand
  <2>1. PICK a, p, attribute : SetAttributes(a, p, attribute)
    BY <1>2 DEF SetProposalAttributesCommand
  <2>2. PICK v : proposals' = [proposals EXCEPT ![p] = [@ EXCEPT !.attributes = v]]
    BY <2>1 DEF SetAttributes
  <2>3. Known' = Known
    BY <2>1 DEF SetAttributes, Known
  <2>4. Known \subseteq ProposalIds
    BY DEF Known
  <2>5. DOMAIN proposals' = DOMAIN proposals
    BY <2>2
  <2>6. \A q \in Known : /\ proposals'[q].actions = proposals[q].actions
                         /\ DOMAIN proposals'[q] = DOMAIN proposals[q]
    BY <2>2, <2>4 DEF ActionsStored
  <2> QED BY <2>3, <2>5, <2>6 DEF ActionsStored
<1>3. CASE VoteCommand \/ DelegateVoteCommand \/ RevokeDelegatedVoteCommand
           \/ BoostVoteCommand \/ StakeCommand
  <2>1. proposals' = proposals /\ status' = status
    BY <1>3 DEF VoteCommand, Vote, DelegateVoteCommand, DelegateVote, RevokeDelegatedVoteCommand,
       RevokeDelegatedVote, BoostVoteCommand, BoostVote, StakeCommand, Stake, FailedStake, proposalVars
  <2> QED BY <2>1 DEF ActionsStored, Known
<1>4. CASE QueueStep
  <2>1. proposals' = proposals
    BY <1>4 DEF QueueStep, ExecuteStarted, SkipEntry, PassQuorum, FailQuorum, ExecuteEnded,
       BeginOutcome, ExecuteFunding, ExecuteConfig, FailAction, FinishOutcome, EndOutcome,
       proposalVars
  <2>2. Known' \subseteq Known
    <3>1. todo # <<>> => Head(todo).id \in Known
      BY QueueHead DEF QueueInv
    <3>2. status' = status \/ (todo # <<>> /\ \E s : status' = [status EXCEPT ![Head(todo).id] = s])
      BY <1>4 DEF QueueStep, ExecuteStarted, SkipEntry, PassQuorum, FailQuorum, ExecuteEnded,
         BeginOutcome, ExecuteFunding, ExecuteConfig, FailAction, FinishOutcome, EndOutcome,
         proposalVars, NextEntry, QueueInv, ExecutingAccepted
    <3> QED BY <3>1, <3>2 DEF Known, QueueInv, QueueTypeOK
  <2> QED BY <2>1, <2>2 DEF ActionsStored
<1>5. CASE EndTransactions \/ NextBlock \/ Horizon \/ UNCHANGED vars
  <2>1. proposals' = proposals /\ status' = status
    BY <1>5 DEF EndTransactions, NextBlock, Horizon, vars, proposalVars
  <2> QED BY <2>1 DEF ActionsStored, Known
<1> QED BY <1>1, <1>2, <1>3, <1>4, <1>5 DEF Next, Command, BlockStep

LEMMA AgendaNext ==
    ASSUME GovernanceAssumption, QueueInv, AgendaInv, [Next]_vars
    PROVE  AgendaInv'
<1>1. ActionsStored'
  BY ActionsStay DEF AgendaInv
<1>2. ASSUME agenda' = agenda PROVE AgendaInv'
  BY <1>1, <1>2 DEF AgendaInv, FundingFirst
<1>3. CASE Command \/ EndTransactions \/ NextBlock \/ Horizon \/ UNCHANGED vars
  <2>1. agenda' = agenda
    BY <1>3 DEF Command, CreateProposalCommand, CreateProposal, VoteCommand, Vote,
       SetProposalAttributesCommand, SetAttributes, DelegateVoteCommand, DelegateVote,
       RevokeDelegatedVoteCommand, RevokeDelegatedVote, BoostVoteCommand, BoostVote, StakeCommand,
       Stake, FailedStake, EndTransactions, NextBlock, Horizon, vars, blockVars
  <2> QED BY <1>2, <2>1
<1>4. CASE BeginOutcome
  <2>1. PICK p : p = Head(todo).id
    OBVIOUS
  <2>2. p \in Known
    BY <1>4, <2>1, QueueHead DEF BeginOutcome, NextEntry, QueueInv
  <2>3. PICK actions \in ActionLists : actions = proposals[p].actions
    BY <2>2 DEF AgendaInv, ActionsStored
  <2>4. agenda' = SortedActions(actions)
    BY <1>4, <2>1, <2>3 DEF BeginOutcome
  <2>5. PICK s : s = SortedActions(actions) /\ s \in Seq(AllActions) /\ FundingFirst(s)
    BY SortedPutsFundingFirst
  <2> QED BY <1>1, <2>4, <2>5 DEF AgendaInv, FundingFirst
<1>5. CASE ExecuteFunding \/ ExecuteConfig
  <2>1. agenda # <<>> /\ agenda' = Tail(agenda)
    BY <1>5 DEF ExecuteFunding, ExecuteConfig
  <2>2. PICK s, t : s = agenda /\ t = Tail(agenda)
    OBVIOUS
  <2>3. t \in Seq(AllActions) /\ FundingFirst(t)
    BY <2>1, <2>2, TailKeepsFundingFirst DEF AgendaInv
  <2> QED BY <1>1, <2>1, <2>2, <2>3 DEF AgendaInv, FundingFirst
<1>6. CASE FailAction \/ FinishOutcome
  <2>1. agenda' = <<>>
    BY <1>6 DEF FailAction, FinishOutcome, EndOutcome
  <2> QED BY <1>1, <2>1 DEF AgendaInv, FundingFirst
<1>7. CASE ExecuteStarted \/ SkipEntry \/ PassQuorum \/ FailQuorum \/ ExecuteEnded
  <2>1. agenda' = agenda
    BY <1>7 DEF ExecuteStarted, SkipEntry, PassQuorum, FailQuorum, ExecuteEnded
  <2> QED BY <1>2, <2>1
<1> QED BY <1>3, <1>4, <1>5, <1>6, <1>7 DEF Next, BlockStep, QueueStep

\* The configuration changes only as the action of an accepted proposal, to a valid one,
\* and only when no funding of that proposal is left: whatever actions it carries, in
\* whatever order they were written, and whatever else was executed since it was created.
THEOREM ConfigFollowsFunding == Spec => ConfigAfterFunding
<1> DEFINE Allowed == config' # config =>
              /\ ValidConfig(config')
              /\ status[Head(todo).id] = "ACCEPTED"
              /\ \A i \in 1 .. Len(agenda) : ~IsFunding(agenda[i])
<1>1. Init => AgendaInv
  <2> SUFFICES ASSUME Init PROVE AgendaInv
    OBVIOUS
  <2>1. Known = {} /\ agenda = <<>> /\ DOMAIN proposals = ProposalIds
    BY DEF Init, Known
  <2> QED BY <2>1 DEF AgendaInv, ActionsStored, FundingFirst
<1>2. QueueInv /\ AgendaInv /\ [Next]_vars => AgendaInv'
  BY AgendaNext, GovernanceAssumption
<1>3. ASSUME QueueInv, AgendaInv, [Next]_vars PROVE [Allowed]_vars
  <2> SUFFICES ASSUME config' # config PROVE Allowed
    OBVIOUS
  <2>1. ExecuteConfig
    BY <1>3 DEF Next, BlockStep, QueueStep, Command, CreateProposalCommand, CreateProposal,
       VoteCommand, Vote, SetProposalAttributesCommand, SetAttributes, DelegateVoteCommand,
       DelegateVote, RevokeDelegatedVoteCommand, RevokeDelegatedVote, BoostVoteCommand, BoostVote,
       StakeCommand, Stake, FailedStake, EndTransactions, NextBlock, Horizon, vars, ExecuteStarted, SkipEntry,
       PassQuorum, FailQuorum, ExecuteEnded, BeginOutcome, ExecuteFunding, FailAction,
       FinishOutcome, EndOutcome
  <2>2. /\ executing /\ agenda # <<>> /\ Head(agenda).type = "config"
        /\ ValidConfig(Updated(Head(agenda))) /\ config' = Updated(Head(agenda))
    BY <2>1 DEF ExecuteConfig, IsConfig
  <2>3. status[Head(todo).id] = "ACCEPTED"
    BY <1>3, <2>2 DEF QueueInv, ExecutingAccepted
  <2>4. ValidConfig(config')
    BY <2>2 DEF ValidConfig
  <2>5. Head(agenda) = agenda[1] /\ 1 \in 1 .. Len(agenda) /\ Len(agenda) \in Nat
    BY <1>3, <2>2 DEF AgendaInv
  <2>6. ~IsFunding(agenda[1])
    BY <2>2, <2>5 DEF IsFunding
  <2>7. \A i \in 1 .. Len(agenda) : ~IsFunding(agenda[i])
    BY <1>3, <2>5, <2>6 DEF AgendaInv, FundingFirst
  <2> QED BY <2>3, <2>4, <2>7
<1> QED BY <1>1, <1>2, <1>3, QueueInductive, PTL DEF Spec, ConfigAfterFunding

-------------------------------------------------------------------------------
(* What a proposal has counted *)

\* What a fold takes of a function of records
LEMMA FoldOfScores ==
    ASSUME NEW items
    PROVE  MapThenSumSet(LAMBDA a : items[a].score, DOMAIN items) =
               SumFunctionOnSet([a \in DOMAIN items |-> items[a].score], DOMAIN items)
<1> DEFINE S == DOMAIN items
           f == [a \in S |-> items[a].score]
<1>1. ASSUME NEW iter
      PROVE  [s \in SUBSET S |-> IF s = {} THEN 0 ELSE items[Picked(s)].score + iter[s \ {Picked(s)}]]
           = [s \in SUBSET S |-> IF s = {} THEN 0 ELSE f[Picked(s)] + iter[s \ {Picked(s)}]]
  <2>1. \A s \in SUBSET S : s # {} => Picked(s) \in S
    BY DEF Picked
  <2> QED BY <2>1
<1>2. MapThenSumSet(LAMBDA a : items[a].score, S) =
        (CHOOSE iter : iter = [s \in SUBSET S |-> IF s = {} THEN 0 ELSE items[Picked(s)].score + iter[s \ {Picked(s)}]])[S]
  BY DEF MapThenSumSet, MapThenFoldSet, Picked
<1>3. SumFunctionOnSet(f, S) = (CHOOSE iter : Iterates(f, S, iter))[S]
  BY SumDef
<1>4. \A iter : iter = [s \in SUBSET S |-> IF s = {} THEN 0 ELSE items[Picked(s)].score + iter[s \ {Picked(s)}]]
          <=> Iterates(f, S, iter)
  BY <1>1 DEF Iterates
<1> HIDE DEF f, S
<1>5. (CHOOSE iter : iter = [s \in SUBSET S |-> IF s = {} THEN 0 ELSE items[Picked(s)].score + iter[s \ {Picked(s)}]])
     = (CHOOSE iter : Iterates(f, S, iter))
  BY <1>4
<1> QED BY <1>2, <1>3, <1>5 DEF f, S

LEMMA FoldOfWeights ==
    ASSUME NEW items, NEW p
    PROVE  MapThenSumSet(LAMBDA a : CalculateVoteScore(p, items[a]), DOMAIN items) =
               SumFunctionOnSet([a \in DOMAIN items |-> CalculateVoteScore(p, items[a])], DOMAIN items)
<1> DEFINE S == DOMAIN items
           f == [a \in S |-> CalculateVoteScore(p, items[a])]
           Folds(iter) == iter = [s \in SUBSET S |->
               IF s = {} THEN 0 ELSE CalculateVoteScore(p, items[Picked(s)]) + iter[s \ {Picked(s)}]]
<1>1. \A s \in SUBSET S : s # {} => f[Picked(s)] = CalculateVoteScore(p, items[Picked(s)])
  BY DEF Picked
<1>2. MapThenSumSet(LAMBDA a : CalculateVoteScore(p, items[a]), S) = (CHOOSE iter : Folds(iter))[S]
  BY DEF MapThenSumSet, MapThenFoldSet, Picked
<1>3. SumFunctionOnSet(f, S) = (CHOOSE iter : Iterates(f, S, iter))[S]
  BY SumDef
<1> HIDE DEF f, S
<1>4. \A iter : Folds(iter) <=> Iterates(f, S, iter)
  BY <1>1 DEF Iterates
<1> HIDE DEF Folds
<1>5. (CHOOSE iter : Folds(iter)) = (CHOOSE iter : Iterates(f, S, iter))
  BY <1>4
<1> QED BY <1>2, <1>3, <1>5 DEF f, S

-------------------------------------------------------------------------------
(* The two measures of a tally *)

Measures == {"turnout", "voteSummary"}

\* What an item counts in each: its score, or its boosted score
Measure(K, p, item) == IF K = "turnout" THEN item.score ELSE CalculateVoteScore(p, item)

MeasureOf(K, p) ==
    [a \in Accounts |-> Measure(K, p, [score |-> score[a], boostHeight |-> boost[a]])]

ItemSum(K, p, items) ==
    SumFunctionOnSet([a \in DOMAIN items |-> Measure(K, p, items[a])], DOMAIN items)

\* Numbers per decision, of which one has moved, or none
Moved(n, c, k) == [d \in Decisions |-> IF d = c THEN n[d] + k ELSE n[d]]

TallyShaped(t) ==
    DOMAIN t = ProposalIds /\ \A p \in ProposalIds : DOMAIN t[p] = Measures

\* ShiftVote moves the numbers of the decision that the votes name.
LEMMA ShiftMoves ==
    ASSUME NEW t, TallyShaped(t), NEW votes, NEW sign \in Int, NEW items, NEW K \in Measures,
           NEW p \in ProposalIds, t[p][K] \in [Decisions -> Int], None \notin Decisions,
           votes[p] # None => status[p] = "ACTIVE" /\ votes[p] \in Decisions
    PROVE  ShiftVote(t, votes, sign, items)[p][K] = Moved(t[p][K], votes[p], sign * ItemSum(K, p, items))
<1> DEFINE base == MapThenSumSet(LAMBDA a : items[a].score, DOMAIN items)
           weight == MapThenSumSet(LAMBDA a : CalculateVoteScore(p, items[a]), DOMAIN items)
<1>1. base = ItemSum("turnout", p, items)
  BY FoldOfScores DEF ItemSum, Measure
<1>2. weight = ItemSum("voteSummary", p, items)
  <2>1. \A a : Measure("voteSummary", p, items[a]) = CalculateVoteScore(p, items[a])
    BY DEF Measure
  <2>2. [a \in DOMAIN items |-> Measure("voteSummary", p, items[a])] =
            [a \in DOMAIN items |-> CalculateVoteScore(p, items[a])]
    BY <2>1
  <2> QED BY <2>2, FoldOfWeights DEF ItemSum
<1>3. CASE votes[p] = None
  <2>1. ShiftVote(t, votes, sign, items)[p] = t[p]
    BY <1>3 DEF ShiftVote
  <2> QED BY <1>3, <2>1 DEF Moved
<1>4. CASE votes[p] # None
  <2>1. ShiftVote(t, votes, sign, items)[p] =
            [t[p] EXCEPT !.turnout[votes[p]] = @ + sign * base,
                         !.voteSummary[votes[p]] = @ + sign * weight]
    BY <1>4 DEF ShiftVote
  <2> HIDE DEF base, weight
  <2>2. CASE K = "turnout"
    <3>1. ShiftVote(t, votes, sign, items)[p][K] = [t[p][K] EXCEPT ![votes[p]] = @ + sign * base]
      BY <2>1, <2>2 DEF TallyShaped, Measures
    <3> QED BY <1>1, <1>4, <2>2, <3>1 DEF Moved
  <2>3. CASE K = "voteSummary"
    <3>1. ShiftVote(t, votes, sign, items)[p][K] = [t[p][K] EXCEPT ![votes[p]] = @ + sign * weight]
      BY <2>1, <2>3 DEF TallyShaped, Measures
    <3> QED BY <1>2, <1>4, <2>3, <3>1 DEF Moved
  <2> QED BY <2>2, <2>3 DEF Measures
<1> QED BY <1>3, <1>4

LEMMA ShiftShaped ==
    ASSUME NEW t, TallyShaped(t), NEW votes, NEW sign, NEW items
    PROVE  TallyShaped(ShiftVote(t, votes, sign, items))
BY DEF ShiftVote, TallyShaped

-------------------------------------------------------------------------------
(* Who counts where *)

\* The sums per decision of f over the accounts whose ballot v is on it
Ballot(v, f, d) == [x \in Accounts |-> IF v[x] = d THEN f[x] ELSE 0]
Ballots(v, f) == [d \in Decisions |-> SumFunctionOnSet(Ballot(v, f, d), Accounts)]

Part(f, M) == [x \in Accounts |-> IF x \in M THEN f[x] ELSE 0]

LEMMA PartSum ==
    ASSUME IsFiniteSet(Accounts), NEW f, \A x \in Accounts : f[x] \in Int, NEW M \in SUBSET Accounts
    PROVE  /\ SumFunctionOnSet(f, M) = SumFunctionOnSet(Part(f, M), Accounts)
           /\ SumFunctionOnSet(f, M) \in Int
<1>1. SumFunctionOnSet(Part(f, M), Accounts) = SumFunctionOnSet(Part(f, M), M)
  BY SumDrop DEF Part
<1>2. IsFiniteSet(M)
  BY FS_Subset
<1>3. SumFunctionOnSet(Part(f, M), M) = SumFunctionOnSet(f, M)
  BY <1>2, SumCongruence DEF Part
<1> QED BY <1>1, <1>2, <1>3, SumInt

LEMMA BallotsTyped ==
    ASSUME IsFiniteSet(Accounts), NEW f, \A x \in Accounts : f[x] \in Int, NEW v
    PROVE  /\ Ballots(v, f) \in [Decisions -> Int]
           /\ \A d \in Decisions : \A x \in Accounts : Ballot(v, f, d)[x] \in Int
<1>1. \A d \in Decisions : \A x \in Accounts : Ballot(v, f, d)[x] \in Int
  BY DEF Ballot
<1>2. \A d \in Decisions : SumFunctionOnSet(Ballot(v, f, d), Accounts) \in Int
  BY <1>1, SumInt
<1> QED BY <1>1, <1>2 DEF Ballots

\* The accounts of M, whose ballots are on c, turn to e.
LEMMA BallotsMoved ==
    ASSUME IsFiniteSet(Accounts), NEW f, \A x \in Accounts : f[x] \in Int, NEW v, NEW w,
           NEW M \in SUBSET Accounts, NEW c, NEW e,
           \A x \in M : v[x] = c /\ w[x] = e,
           \A x \in Accounts : x \notin M => w[x] = v[x]
    PROVE  Ballots(w, f) = Moved(Moved(Ballots(v, f), c, -SumFunctionOnSet(f, M)), e, SumFunctionOnSet(f, M))
<1>1. /\ SumFunctionOnSet(f, M) = SumFunctionOnSet(Part(f, M), Accounts)
      /\ SumFunctionOnSet(f, M) \in Int
      /\ \A x \in Accounts : Part(f, M)[x] \in Int
  BY PartSum DEF Part
<1>2. ASSUME NEW d \in Decisions
      PROVE  Ballots(w, f)[d] = Moved(Moved(Ballots(v, f), c, -SumFunctionOnSet(f, M)), e, SumFunctionOnSet(f, M))[d]
  <2> DEFINE V == Ballot(v, f, d)
             W == Ballot(w, f, d)
             P == Part(f, M)
  <2>1. \A x \in Accounts : V[x] \in Int /\ W[x] \in Int /\ P[x] \in Int
    BY <1>1, BallotsTyped
  <2>2. SumFunctionOnSet(V, Accounts) \in Int /\ SumFunctionOnSet(W, Accounts) \in Int
    BY <2>1, SumInt
  <2>3. /\ Ballots(w, f)[d] = SumFunctionOnSet(W, Accounts)
        /\ Ballots(v, f)[d] = SumFunctionOnSet(V, Accounts)
    BY DEF Ballots
  <2>4. CASE d = c /\ d = e
    <3>1. \A x \in Accounts : V[x] = W[x]
      BY <2>4 DEF Ballot
    <3> HIDE DEF V, W
    <3>2. SumFunctionOnSet(V, Accounts) = SumFunctionOnSet(W, Accounts)
      BY <3>1, SumCongruence
    <3> QED BY <1>1, <2>2, <2>3, <2>4, <3>2 DEF Moved
  <2>5. CASE d = c /\ d # e
    <3>1. \A x \in Accounts : V[x] = W[x] + P[x]
      BY <2>5 DEF Ballot, Part
    <3> HIDE DEF V, W, P
    <3>2. SumFunctionOnSet(V, Accounts) = SumFunctionOnSet(W, Accounts) + SumFunctionOnSet(P, Accounts)
      BY <2>1, <3>1, SumPlus
    <3> QED BY <1>1, <2>2, <2>3, <2>5, <3>2 DEF Moved, P
  <2>6. CASE d # c /\ d = e
    <3>1. \A x \in Accounts : W[x] = V[x] + P[x]
      BY <2>6 DEF Ballot, Part
    <3> HIDE DEF V, W, P
    <3>2. SumFunctionOnSet(W, Accounts) = SumFunctionOnSet(V, Accounts) + SumFunctionOnSet(P, Accounts)
      BY <2>1, <3>1, SumPlus
    <3> QED BY <1>1, <2>2, <2>3, <2>6, <3>2 DEF Moved, P
  <2>7. CASE d # c /\ d # e
    <3>1. \A x \in Accounts : V[x] = W[x]
      BY <2>7 DEF Ballot
    <3> HIDE DEF V, W
    <3>2. SumFunctionOnSet(V, Accounts) = SumFunctionOnSet(W, Accounts)
      BY <3>1, SumCongruence
    <3> QED BY <2>3, <2>7, <3>2 DEF Moved
  <2> QED BY <2>4, <2>5, <2>6, <2>7
<1> QED BY <1>2 DEF Ballots, Moved

\* What a counts changes.
LEMMA BallotsReweighed ==
    ASSUME IsFiniteSet(Accounts), NEW f, NEW g, \A x \in Accounts : f[x] \in Int /\ g[x] \in Int,
           NEW v, NEW a \in Accounts, \A x \in Accounts : x # a => g[x] = f[x]
    PROVE  Ballots(v, g) = Moved(Moved(Ballots(v, f), v[a], -f[a]), v[a], g[a])
<1>1. ASSUME NEW d \in Decisions
      PROVE  Ballots(v, g)[d] = Moved(Moved(Ballots(v, f), v[a], -f[a]), v[a], g[a])[d]
  <2> DEFINE V == Ballot(v, f, d)
             W == Ballot(v, g, d)
  <2>1. \A x \in Accounts : V[x] \in Int /\ W[x] \in Int
    BY BallotsTyped
  <2>2. \A x \in Accounts : x # a => W[x] = V[x]
    BY DEF Ballot
  <2>3. /\ V[a] = IF v[a] = d THEN f[a] ELSE 0
        /\ W[a] = IF v[a] = d THEN g[a] ELSE 0
    BY DEF Ballot
  <2>4. /\ Ballots(v, g)[d] = SumFunctionOnSet(W, Accounts)
        /\ Ballots(v, f)[d] = SumFunctionOnSet(V, Accounts)
    BY DEF Ballots
  <2> HIDE DEF V, W
  <2>5. SumFunctionOnSet(W, Accounts) = SumFunctionOnSet(V, Accounts) - V[a] + W[a]
    BY <2>1, <2>2, SumUpdate
  <2>6. SumFunctionOnSet(V, Accounts) \in Int
    BY <2>1, SumInt
  <2> QED BY <2>3, <2>4, <2>5, <2>6 DEF Moved
<1> QED BY <1>1 DEF Ballots, Moved

LEMMA MovedTyped ==
    ASSUME NEW n \in [Decisions -> Int], NEW c, NEW k \in Int
    PROVE  Moved(n, c, k) \in [Decisions -> Int]
BY DEF Moved

-------------------------------------------------------------------------------
(* The invariant *)

\* No delegatee delegates.
Direct == \A a \in Accounts : outgoing[a] # None => outgoing[outgoing[a]] = None

\* No account votes on two proposals that are open at the same time.
OneVote == \A a \in Accounts : \A p, q \in ProposalIds :
               casted[a][p] # None /\ casted[a][q] # None => p = q

\* The account whose votes carry the score of a
Voice(a) == IF outgoing[a] = None THEN a ELSE outgoing[a]
BallotOf(p) == [a \in Accounts |-> casted[Voice(a)][p]]

ScoresTyped ==
    /\ score \in [Accounts -> Int]
    /\ boost \in [Accounts -> Nat]

\* The fields of a proposal that the measures read
ProposalsShaped ==
    /\ DOMAIN proposals = ProposalIds
    /\ \A p \in Known : {"enableBoosting", "maxBoostDuration", "boostFactor"} \subseteq DOMAIN proposals[p]

UnopenedEmpty ==
    \A p \in ProposalIds : status[p] \in {"ABSENT", "CREATED"} =>
        \A K \in Measures : tally[p][K] = [d \in Decisions |-> 0]

VoteTypes == ScoresTyped /\ ProposalsShaped /\ TallyShaped(tally) /\ UnopenedEmpty

\* The measure counts every score where its voice votes.
Counted(K, p) == tally[p][K] = Ballots(BallotOf(p), MeasureOf(K, p))
AllCounted(K) == \A p \in ProposalIds : Pending(p) => Counted(K, p)

\* A measure is a multiple of the score.
Whole(K, p) ==
    \A a \in Accounts : \E k \in Nat : \A n \in Int :
        Measure(K, p, [score |-> n, boostHeight |-> boost[a]]) = k * n

Graph == QueueInv /\ GraphInv /\ DelegatorsHoldNoVote

-------------------------------------------------------------------------------
(* Delegations that are direct *)

\* Root is a recursion, which has a solution if every delegatee is a root.
Follows(root) == root = [x \in Accounts |-> IF outgoing[x] = None THEN x ELSE root[outgoing[x]]]

LEMMA RootIsVoice ==
    ASSUME GovernanceAssumption, GraphInv, Direct, NEW a \in Accounts
    PROVE  Root(a) = Voice(a)
<1> DEFINE voice == [x \in Accounts |-> Voice(x)]
<1>1. \A x \in Accounts : outgoing[x] # None => outgoing[x] \in Accounts
  BY DEF GraphInv, GraphTypeOK
<1>2. Follows(voice)
  <2>1. \A x \in Accounts : voice[x] = IF outgoing[x] = None THEN x ELSE voice[outgoing[x]]
    BY <1>1 DEF Direct, Voice
  <2>2. voice = [x \in Accounts |-> voice[x]]
    OBVIOUS
  <2> HIDE DEF voice
  <2> QED BY <2>1, <2>2 DEF Follows
<1>3. PICK root : root = (CHOOSE r : Follows(r))
  OBVIOUS
<1>4. Follows(root)
  BY <1>2, <1>3
<1>5. Root(a) = root[a]
  BY <1>3 DEF Root, Follows
<1>6. \A x \in Accounts : root[x] = IF outgoing[x] = None THEN x ELSE root[outgoing[x]]
  <2> HIDE DEF voice
  <2> QED BY <1>4 DEF Follows
<1>7. outgoing[a] # None => outgoing[outgoing[a]] = None
  BY DEF Direct
<1> HIDE DEF voice
<1> QED BY <1>1, <1>5, <1>6, <1>7 DEF Voice

\* So is IncomingDelegators.
Leaves(f, x) == UNION {IF incoming[i] = {} THEN {i} ELSE f[i] : i \in incoming[x]}
Collects(leaves) == leaves = [x \in Accounts |-> Leaves(leaves, x)]

LEMMA DelegatorsAreDirect ==
    ASSUME GovernanceAssumption, GraphInv, Direct, NEW a \in Accounts
    PROVE  IncomingDelegators(a) = incoming[a]
<1> DEFINE direct == [x \in Accounts |-> incoming[x]]
<1>1. \A x \in Accounts : \A i \in incoming[x] : i \in Accounts /\ outgoing[i] = x
  BY DEF GraphInv, GraphTypeOK, DelegationSymmetric
<1>2. None \notin Accounts
  BY DEF GovernanceAssumption, Addresses
<1>3. \A x \in Accounts : \A i \in incoming[x] : incoming[i] = {}
  <2> SUFFICES ASSUME NEW x \in Accounts, NEW i \in incoming[x], NEW j \in incoming[i] PROVE FALSE
    OBVIOUS
  <2>1. i \in Accounts /\ j \in Accounts /\ outgoing[j] = i /\ outgoing[i] = x
    BY <1>1
  <2> QED BY <1>2, <2>1 DEF Direct
<1>4. \A f : \A x \in Accounts : Leaves(f, x) = incoming[x]
  <2> SUFFICES ASSUME NEW f, NEW x \in Accounts PROVE Leaves(f, x) = incoming[x]
    OBVIOUS
  <2>1. ASSUME NEW e \in Leaves(f, x) PROVE e \in incoming[x]
    <3>1. PICK i \in incoming[x] : e \in IF incoming[i] = {} THEN {i} ELSE f[i]
      BY <2>1 DEF Leaves
    <3>2. e = i
      BY <1>3, <3>1
    <3> QED BY <3>2
  <2>2. ASSUME NEW e \in incoming[x] PROVE e \in Leaves(f, x)
    <3>1. e \in IF incoming[e] = {} THEN {e} ELSE f[e]
      BY <1>3
    <3> QED BY <2>2, <3>1 DEF Leaves
  <2> QED BY <2>1, <2>2
<1>5. Collects(direct)
  <2>1. \A x \in Accounts : direct[x] = Leaves(direct, x)
    BY <1>4
  <2>2. direct = [x \in Accounts |-> direct[x]]
    OBVIOUS
  <2> HIDE DEF direct
  <2> QED BY <2>1, <2>2 DEF Collects
<1>6. PICK leaves : leaves = (CHOOSE l : Collects(l))
  OBVIOUS
<1>7. Collects(leaves)
  BY <1>5, <1>6
<1>8. IncomingDelegators(a) = leaves[a]
  BY <1>6 DEF IncomingDelegators, Collects, Leaves
<1>9. leaves[a] = Leaves(leaves, a)
  <2> HIDE DEF direct
  <2> QED BY <1>7 DEF Collects
<1> QED BY <1>4, <1>8, <1>9

\* What the items of a set of accounts count
LEMMA ScoresSum ==
    ASSUME NEW M \in SUBSET Accounts, IsFiniteSet(Accounts), NEW K, NEW p
    PROVE  ItemSum(K, p, ScoresOf(M)) = SumFunctionOnSet(MeasureOf(K, p), M)
<1>1. IsFiniteSet(M)
  BY FS_Subset
<1>2. DOMAIN ScoresOf(M) = M
  BY DEF ScoresOf
<1>3. \A a \in M : ScoresOf(M)[a] = [score |-> score[a], boostHeight |-> boost[a]]
  BY DEF ScoresOf
<1> DEFINE f == [a \in M |-> Measure(K, p, ScoresOf(M)[a])]
<1>4. \A a \in M : f[a] = MeasureOf(K, p)[a]
  BY <1>3 DEF MeasureOf
<1>5. ItemSum(K, p, ScoresOf(M)) = SumFunctionOnSet(f, M)
  BY <1>2 DEF ItemSum
<1> HIDE DEF f
<1> QED BY <1>1, <1>4, <1>5, SumCongruence
-------------------------------------------------------------------------------
(* What a vote, a delegation, a boost or a stake moves *)

\* What the commands keep of a measure of a proposal that is not theirs
MeasureKept(p) ==
    /\ schedule'[p] = schedule[p]
    /\ proposals'[p].enableBoosting = proposals[p].enableBoosting
    /\ proposals'[p].maxBoostDuration = proposals[p].maxBoostDuration
    /\ proposals'[p].boostFactor = proposals[p].boostFactor

LEMMA MeasureStays ==
    ASSUME NEW K, NEW p, MeasureKept(p), NEW item
    PROVE  Measure(K, p, item)' = Measure(K, p, item)
BY DEF MeasureKept, Measure, CalculateVoteScore

LEMMA CountedKept ==
    ASSUME NEW K, NEW p, MeasureKept(p), Counted(K, p), tally'[p] = tally[p],
           GraphTypeOK, \A x \in Accounts : casted'[x][p] = casted[x][p],
           UNCHANGED <<outgoing, score, boost>>
    PROVE  Counted(K, p)'
<1>1. \A x \in Accounts : Voice(x)' = Voice(x) /\ Voice(x) \in Accounts
  BY DEF Voice, GraphTypeOK
<1>2. BallotOf(p)' = BallotOf(p)
  BY <1>1 DEF BallotOf
<1>3. MeasureOf(K, p)' = MeasureOf(K, p)
  BY MeasureStays DEF MeasureOf
<1> QED BY <1>2, <1>3 DEF Counted

\* A vote that is on a proposal is on one that is active.
LEMMA VotesActive ==
    ASSUME QueueInv, NEW x \in Accounts, NEW p \in ProposalIds, casted[x][p] # None
    PROVE  status[p] = "ACTIVE" /\ casted[x][p] \in Decisions
BY DEF QueueInv, QueueTypeOK, NoVoteOutlivesProposal

LEMMA WholeTyped ==
    ASSUME ScoresTyped, NEW K, NEW p, Whole(K, p)
    PROVE  \A x \in Accounts : MeasureOf(K, p)[x] \in Int
<1> SUFFICES ASSUME NEW x \in Accounts PROVE MeasureOf(K, p)[x] \in Int
  OBVIOUS
<1>1. PICK k \in Nat : \A n \in Int : Measure(K, p, [score |-> n, boostHeight |-> boost[x]]) = k * n
  BY DEF Whole
<1>2. MeasureOf(K, p)[x] = k * score[x]
  BY <1>1 DEF MeasureOf, ScoresTyped
<1> QED BY <1>2 DEF ScoresTyped

LEMMA CountedTyped ==
    ASSUME GovernanceAssumption, ScoresTyped, NEW K, NEW p, Whole(K, p), Counted(K, p)
    PROVE  tally[p][K] \in [Decisions -> Int]
BY WholeTyped, BallotsTyped DEF GovernanceAssumption, Counted

LEMMA ShiftTyped ==
    ASSUME GovernanceAssumption, NEW t, TallyShaped(t), NEW votes, NEW sign \in {1, -1}, NEW items,
           NEW K \in Measures, NEW p \in ProposalIds, t[p][K] \in [Decisions -> Int],
           votes[p] # None => status[p] = "ACTIVE" /\ votes[p] \in Decisions,
           ItemSum(K, p, items) \in Int
    PROVE  /\ TallyShaped(ShiftVote(t, votes, sign, items))
           /\ ShiftVote(t, votes, sign, items)[p][K] =
                  Moved(t[p][K], votes[p], sign * ItemSum(K, p, items))
           /\ ShiftVote(t, votes, sign, items)[p][K] \in [Decisions -> Int]
<1>1. None \notin Decisions
  BY DEF GovernanceAssumption
<1>a. sign \in Int
  OBVIOUS
<1>2. ShiftVote(t, votes, sign, items)[p][K] = Moved(t[p][K], votes[p], sign * ItemSum(K, p, items))
  BY SMTT(60), <1>1, <1>a, ShiftMoves
<1>3. sign * ItemSum(K, p, items) \in Int
  OBVIOUS
<1> QED BY <1>2, <1>3, MovedTyped, ShiftShaped

LEMMA MovedTwice ==
    ASSUME NEW n \in [Decisions -> Int], NEW c, NEW k \in Int, NEW l \in Int
    PROVE  Moved(Moved(n, c, k), c, l) = Moved(n, c, k + l)
BY DEF Moved

LEMMA MovedNowhere ==
    ASSUME GovernanceAssumption, NEW n \in [Decisions -> Int], NEW k \in Int
    PROVE  Moved(n, None, k) = n
BY DEF Moved, GovernanceAssumption

LEMMA SumOne ==
    ASSUME NEW f, NEW a, f[a] \in Int
    PROVE  SumFunctionOnSet(f, {a}) = f[a]
<1>1. IsFiniteSet({a})
  BY FS_Singleton
<1>2. SumFunctionOnSet(f, {a}) = f[a] + SumFunctionOnSet(f, {a} \ {a})
  BY <1>1, SumRemove
<1>3. {a} \ {a} = {} /\ SumFunctionOnSet(f, {}) = 0
  BY SumEmpty
<1> QED BY <1>2, <1>3

\* The accounts of M take their scores from c to e.
LEMMA CountedMoved ==
    ASSUME GovernanceAssumption, NEW K, NEW p, Counted(K, p), Whole(K, p), ScoresTyped,
           MeasureKept(p), UNCHANGED <<score, boost>>,
           NEW M \in SUBSET Accounts, NEW c, NEW e,
           \A x \in M : BallotOf(p)[x] = c /\ BallotOf(p)'[x] = e,
           \A x \in Accounts : x \notin M => BallotOf(p)'[x] = BallotOf(p)[x],
           tally'[p][K] = Moved(Moved(tally[p][K], c, -SumFunctionOnSet(MeasureOf(K, p), M)),
                                e, SumFunctionOnSet(MeasureOf(K, p), M))
    PROVE  Counted(K, p)'
<1>1. MeasureOf(K, p)' = MeasureOf(K, p)
  BY MeasureStays DEF MeasureOf
<1>2. \A x \in Accounts : MeasureOf(K, p)[x] \in Int
  BY WholeTyped
<1>3. IsFiniteSet(Accounts)
  BY DEF GovernanceAssumption
<1>4. PICK f, v, w : f = MeasureOf(K, p) /\ v = BallotOf(p) /\ w = BallotOf(p)'
  OBVIOUS
<1>5. Ballots(w, f) = Moved(Moved(Ballots(v, f), c, -SumFunctionOnSet(f, M)), e, SumFunctionOnSet(f, M))
  BY <1>2, <1>3, <1>4, BallotsMoved
<1> QED BY <1>1, <1>4, <1>5 DEF Counted

\* What the scores of a vote are added to
LEMMA ScoresShift ==
    ASSUME GovernanceAssumption, NEW t, TallyShaped(t), NEW votes, NEW sign \in {1, -1},
           NEW M \in SUBSET Accounts,
           NEW K \in Measures, NEW p \in ProposalIds, t[p][K] \in [Decisions -> Int],
           votes[p] # None => status[p] = "ACTIVE" /\ votes[p] \in Decisions,
           ScoresTyped, Whole(K, p)
    PROVE  /\ TallyShaped(ShiftVote(t, votes, sign, ScoresOf(M)))
           /\ ShiftVote(t, votes, sign, ScoresOf(M))[p][K] =
                  Moved(t[p][K], votes[p], sign * SumFunctionOnSet(MeasureOf(K, p), M))
           /\ ShiftVote(t, votes, sign, ScoresOf(M))[p][K] \in [Decisions -> Int]
           /\ SumFunctionOnSet(MeasureOf(K, p), M) \in Int
<1>1. IsFiniteSet(Accounts)
  BY DEF GovernanceAssumption
<1>2. ItemSum(K, p, ScoresOf(M)) = SumFunctionOnSet(MeasureOf(K, p), M)
  BY <1>1, ScoresSum
<1>3. SumFunctionOnSet(MeasureOf(K, p), M) \in Int
  BY <1>1, WholeTyped, PartSum
<1>4. PICK items : items = ScoresOf(M)
  OBVIOUS
<1>5. /\ TallyShaped(ShiftVote(t, votes, sign, items))
      /\ ShiftVote(t, votes, sign, items)[p][K] =
             Moved(t[p][K], votes[p], sign * ItemSum(K, p, items))
      /\ ShiftVote(t, votes, sign, items)[p][K] \in [Decisions -> Int]
  BY <1>2, <1>3, <1>4, ShiftTyped
<1> QED BY <1>2, <1>3, <1>4, <1>5

\* What a command of a voter finds
Setting(K, p) ==
    /\ GovernanceAssumption /\ QueueInv /\ GraphInv /\ DelegatorsHoldNoVote /\ Direct
    /\ VoteTypes /\ Counted(K, p) /\ Whole(K, p)

LEMMA VoteKeepsCount ==
    ASSUME NEW K \in Measures, NEW p \in ProposalIds, Setting(K, p), OneVote',
           NEW a \in Accounts, NEW q \in ProposalIds, NEW d \in VoteDecisions, Vote(a, q, d)
    PROVE  Counted(K, p)'
<1> USE DEF Setting
<1>1. /\ status[q] = "ACTIVE" /\ outgoing[a] = None
      /\ casted' = [casted EXCEPT ![a] = [casted[a] EXCEPT ![q] = d]]
      /\ UNCHANGED <<status, schedule, proposals, score, boost, outgoing, incoming, staked>>
  BY DEF Vote, VerifyVote, proposalVars, accountVars, tokenVars
<1>2. casted[a] \in [ProposalIds -> Decisions \cup {None}] /\ d \in Decisions /\ None \notin Decisions
  BY DEF QueueInv, QueueTypeOK, GovernanceAssumption
<1>3. \A x \in Accounts : \A r \in ProposalIds :
          casted'[x][r] = IF x = a /\ r = q THEN d ELSE casted[x][r]
  BY <1>1, <1>2 DEF QueueInv, QueueTypeOK
<1>4. MeasureKept(p)
  BY <1>1 DEF MeasureKept
<1>5. PICK old, new, own, recv :
          /\ old = casted[a] /\ new = [casted[a] EXCEPT ![q] = d]
          /\ own = {a} /\ recv = incoming[a]
  OBVIOUS
<1>6. PICK hereOld, hereNew : /\ hereOld = [NoDecision EXCEPT ![q] = old[q]]
                              /\ hereNew = [NoDecision EXCEPT ![q] = d]
  OBVIOUS
<1>7. recv \in SUBSET Accounts /\ own \in SUBSET Accounts /\ IncomingDelegators(a) = recv
  BY <1>5, DelegatorsAreDirect DEF GraphInv, GraphTypeOK
<1>8. PICK t : t = IF old[q] = None THEN tally
                   ELSE ShiftVote(ShiftVote(tally, hereOld, -1, ScoresOf(own)), old, -1, ScoresOf(recv))
  OBVIOUS
<1>9. tally' = ShiftVote(ShiftVote(t, hereNew, 1, ScoresOf(own)), new, 1, ScoresOf(recv))
  BY <1>5, <1>6, <1>7, <1>8 DEF Vote, AddVote, SubtractVote, AddReceivedVotes, RemoveReceivedVotes
<1>10. CASE p # q
  <2>1. old[p] = None
    <3>1. casted'[a][p] = old[p] /\ casted'[a][q] = d
      BY <1>3, <1>5, <1>10
    <3> QED BY <1>2, <1>10, <3>1 DEF OneVote
  <2>2. hereOld[p] = None /\ hereNew[p] = None /\ new[p] = None
    BY <1>2, <1>5, <1>6, <1>10, <2>1 DEF NoDecision
  <2>3. \A s, votes, sign, items : votes[p] = None => ShiftVote(s, votes, sign, items)[p] = s[p]
    BY DEF ShiftVote
  <2>4. t[p] = tally[p]
    BY <1>8, <2>1, <2>2, <2>3
  <2>5. tally'[p] = tally[p]
    BY <1>9, <2>2, <2>3, <2>4
  <2> QED BY <1>1, <1>3, <1>4, <1>10, <2>5, CountedKept DEF GraphInv
<1>11. CASE p = q
  <2>1. PICK f, n, c : f = MeasureOf(K, p) /\ n = tally[p][K] /\ c = old[p]
    OBVIOUS
  <2>2. /\ hereOld[p] = c /\ old[p] = c /\ hereNew[p] = d /\ new[p] = d
        /\ c # None => status[p] = "ACTIVE" /\ c \in Decisions
    BY <1>1, <1>2, <1>5, <1>6, <1>11, <2>1 DEF NoDecision
  <2>3. n \in [Decisions -> Int] /\ TallyShaped(tally)
    BY <2>1, CountedTyped DEF VoteTypes
  <2>4. PICK kOwn, kRecv : kOwn = SumFunctionOnSet(f, own) /\ kRecv = SumFunctionOnSet(f, recv)
    OBVIOUS
  <2>5. kOwn \in Int /\ kRecv \in Int
    BY <1>7, <2>1, <2>4, WholeTyped, PartSum DEF VoteTypes, GovernanceAssumption
  <2>6. TallyShaped(t) /\ t[p][K] = Moved(n, c, -(kOwn + kRecv))
    <3>1. CASE c = None
      <4>1. t = tally
        BY <1>8, <1>11, <2>1, <3>1
      <4> QED BY <2>1, <2>3, <2>5, <3>1, <4>1, MovedNowhere
    <3>2. CASE c # None
      <4>1. PICK s : s = ShiftVote(tally, hereOld, -1, ScoresOf(own))
        OBVIOUS
      <4>2. /\ TallyShaped(s) /\ s[p][K] = Moved(n, c, -1 * kOwn) /\ s[p][K] \in [Decisions -> Int]
        BY <1>7, <2>1, <2>2, <2>3, <2>4, <4>1, ScoresShift DEF VoteTypes
      <4>3. t = ShiftVote(s, old, -1, ScoresOf(recv))
        BY <1>8, <1>11, <2>1, <3>2, <4>1
      <4>4. TallyShaped(t) /\ t[p][K] = Moved(s[p][K], c, -1 * kRecv)
        BY <1>7, <2>1, <2>2, <2>4, <4>2, <4>3, ScoresShift, SMTT(40) DEF VoteTypes
      <4>5. -1 * kOwn \in Int /\ -1 * kRecv \in Int /\ -1 * kOwn + -1 * kRecv = -(kOwn + kRecv)
        BY <2>5
      <4> QED BY <2>3, <4>2, <4>4, <4>5, MovedTwice
    <3> QED BY <3>1, <3>2
  <2>7. t[p][K] \in [Decisions -> Int]
    BY <2>3, <2>5, <2>6, MovedTyped
  <2>8. tally'[p][K] = Moved(t[p][K], d, kOwn + kRecv)
    <3>1. PICK s : s = ShiftVote(t, hereNew, 1, ScoresOf(own))
      OBVIOUS
    <3>2. d # None => status[p] = "ACTIVE" /\ d \in Decisions
      BY <1>1, <1>2, <1>11
    <3>3. /\ TallyShaped(s) /\ s[p][K] = Moved(t[p][K], d, 1 * kOwn) /\ s[p][K] \in [Decisions -> Int]
      <4>1. GovernanceAssumption /\ ScoresTyped /\ Whole(K, p) /\ 1 \in {1, -1}
        BY DEF VoteTypes
      <4>2. hereNew[p] # None => status[p] = "ACTIVE" /\ hereNew[p] \in Decisions
        BY <2>2, <3>2
      <4>3. /\ TallyShaped(ShiftVote(t, hereNew, 1, ScoresOf(own)))
            /\ ShiftVote(t, hereNew, 1, ScoresOf(own))[p][K] =
                   Moved(t[p][K], hereNew[p], 1 * SumFunctionOnSet(MeasureOf(K, p), own))
            /\ ShiftVote(t, hereNew, 1, ScoresOf(own))[p][K] \in [Decisions -> Int]
        BY ONLY <1>7, <2>6, <2>7, <4>1, <4>2, K \in Measures, p \in ProposalIds, ScoresShift
      <4> QED BY <2>1, <2>2, <2>4, <3>1, <4>3
    <3>4. tally'[p][K] = Moved(s[p][K], d, 1 * kRecv)
      <4>1. tally' = ShiftVote(s, new, 1, ScoresOf(recv))
        BY <1>9, <3>1
      <4>2. ShiftVote(s, new, 1, ScoresOf(recv))[p][K] = Moved(s[p][K], d, 1 * kRecv)
        BY <1>7, <2>1, <2>2, <2>4, <3>2, <3>3, ScoresShift DEF VoteTypes
      <4> QED BY <4>1, <4>2
    <3>5. 1 * kOwn = kOwn /\ 1 * kRecv = kRecv
      BY <2>5
    <3> QED BY <2>5, <2>7, <3>3, <3>4, <3>5, MovedTwice
  <2>9. SumFunctionOnSet(f, own \cup recv) = kOwn + kRecv
    <3>1. a \notin recv /\ IsFiniteSet(recv)
      <4>1. a \notin recv
        BY <1>1, <1>5 DEF GraphInv, DelegationSymmetric, GovernanceAssumption, Addresses
      <4>2. IsFiniteSet(recv)
        BY <1>7, FS_Subset DEF GovernanceAssumption
      <4> QED BY <4>1, <4>2
    <3>2. \A x \in Accounts : f[x] \in Int
      BY <2>1, WholeTyped DEF VoteTypes
    <3>3. SumFunctionOnSet(f, recv \cup {a}) = f[a] + SumFunctionOnSet(f, recv)
      BY <1>7, <3>1, <3>2, SumAdd
    <3>4. kOwn = f[a]
      BY <1>5, <2>4, <3>2, SumOne
    <3>5. own \cup recv = recv \cup {a}
      BY <1>5
    <3> QED BY <2>4, <3>3, <3>4, <3>5
  <2>10. PICK M \in SUBSET Accounts : M = own \cup recv
    BY <1>7
  <2>11. \A x \in Accounts : x \in M <=> Voice(x) = a
    <3>1. a # None
      BY DEF GovernanceAssumption, Addresses
    <3>2. \A x \in Accounts : x \in recv <=> outgoing[x] = a
      BY <1>5 DEF GraphInv, DelegationSymmetric
    <3> QED BY <1>1, <1>5, <2>10, <3>1, <3>2 DEF Voice
  <2>12. \A x \in Accounts : Voice(x)' = Voice(x) /\ Voice(x) \in Accounts
    BY <1>1 DEF Voice, GraphInv, GraphTypeOK
  <2>13. \A x \in M : BallotOf(p)[x] = c /\ BallotOf(p)'[x] = d
    BY <1>3, <1>5, <1>11, <2>1, <2>11, <2>12 DEF BallotOf
  <2>14. \A x \in Accounts : x \notin M => BallotOf(p)'[x] = BallotOf(p)[x]
    BY <1>3, <2>11, <2>12 DEF BallotOf
  <2>15. tally'[p][K] = Moved(Moved(n, c, -SumFunctionOnSet(f, M)), d, SumFunctionOnSet(f, M))
    BY <2>6, <2>8, <2>9, <2>10
  <2> QED BY <1>1, <1>4, <2>1, <2>13, <2>14, <2>15, CountedMoved DEF VoteTypes
<1> QED BY <1>10, <1>11
LEMMA DelegationKeepsCount ==
    ASSUME NEW K \in Measures, NEW p \in ProposalIds, Setting(K, p), Direct',
           NEW a \in Accounts, NEW b \in Accounts, DelegateVote(a, b)
    PROVE  Counted(K, p)'
<1> USE DEF Setting
<1>1. /\ outgoing[a] = None /\ b \notin Downstream(a)
      /\ casted' = [casted EXCEPT ![a] = NoDecision]
      /\ outgoing' = [outgoing EXCEPT ![a] = b]
      /\ UNCHANGED <<status, schedule, proposals, score, boost, staked>>
  BY DEF DelegateVote, VerifyDelegateVote, RemoveAllCastedVote, proposalVars, tokenVars
<1>2. b # a /\ a # None /\ b # None
  BY <1>1 DEF Downstream, GovernanceAssumption, Addresses
<1>3. \A x \in Accounts : outgoing'[x] = IF x = a THEN b ELSE outgoing[x]
  BY <1>1 DEF GraphInv, GraphTypeOK
<1>4. outgoing[b] = None
  BY <1>2, <1>3 DEF Direct
<1>5. \A x \in Accounts : outgoing[x] # a
  <2> SUFFICES ASSUME NEW x \in Accounts, outgoing[x] = a PROVE FALSE
    OBVIOUS
  <2>1. outgoing'[x] = a /\ outgoing'[a] = b
    BY <1>1, <1>2, <1>3
  <2> QED BY <1>2, <2>1 DEF Direct
<1>6. incoming[a] = {} /\ IncomingDelegators(a) = {}
  <2>1. incoming[a] \subseteq Accounts
    BY DEF GraphInv, GraphTypeOK
  <2>2. incoming[a] = {}
    BY <1>5, <2>1 DEF GraphInv, DelegationSymmetric
  <2> QED BY <2>2, DelegatorsAreDirect
<1>7. Root(a) = a /\ Root(b) = b
  BY <1>1, <1>4, RootIsVoice DEF Voice
<1>8. PICK M \in SUBSET Accounts : M = {a}
  OBVIOUS
<1>9. PICK f, n, c, e, t :
          /\ f = MeasureOf(K, p) /\ n = tally[p][K] /\ c = casted[a][p] /\ e = casted[b][p]
          /\ t = ShiftVote(tally, casted[a], -1, ScoresOf(M))
  OBVIOUS
<1>10. tally' = ShiftVote(t, casted[b], 1, ScoresOf(M))
  <2>1. {a} \cup IncomingDelegators(a) = M
    BY <1>6, <1>8
  <2> QED BY <1>7, <1>9, <2>1 DEF DelegateVote, RemoveCarriedVotes, AddCarriedVotes, AddVote,
             SubtractVote, CarriedScores
<1>11. /\ c # None => status[p] = "ACTIVE" /\ c \in Decisions
       /\ e # None => status[p] = "ACTIVE" /\ e \in Decisions
  BY <1>9, VotesActive
<1>12. n \in [Decisions -> Int] /\ TallyShaped(tally)
  BY <1>9, CountedTyped DEF VoteTypes
<1>13. /\ TallyShaped(t) /\ t[p][K] = Moved(n, c, -1 * SumFunctionOnSet(f, M))
       /\ t[p][K] \in [Decisions -> Int] /\ SumFunctionOnSet(f, M) \in Int
  BY <1>9, <1>11, <1>12, ScoresShift, SMTT(40) DEF VoteTypes
<1>14. tally'[p][K] = Moved(t[p][K], e, 1 * SumFunctionOnSet(f, M))
  <2>1. ShiftVote(t, casted[b], 1, ScoresOf(M))[p][K] = Moved(t[p][K], e, 1 * SumFunctionOnSet(f, M))
    BY SMTT(40), <1>9, <1>11, <1>13, ScoresShift DEF VoteTypes
  <2> QED BY <1>10, <2>1
<1>15. tally'[p][K] = Moved(Moved(n, c, -SumFunctionOnSet(f, M)), e, SumFunctionOnSet(f, M))
  <2>1. -1 * SumFunctionOnSet(f, M) = -SumFunctionOnSet(f, M) /\ 1 * SumFunctionOnSet(f, M) = SumFunctionOnSet(f, M)
    BY <1>13
  <2> QED BY <1>13, <1>14, <2>1
<1>16. \A x \in Accounts : x # a => casted'[x] = casted[x]
  BY <1>1 DEF QueueInv, QueueTypeOK
<1>17. \A x \in M : BallotOf(p)[x] = c /\ BallotOf(p)'[x] = e
  BY <1>1, <1>2, <1>3, <1>8, <1>9, <1>16 DEF BallotOf, Voice
<1>18. \A x \in Accounts : x \notin M => BallotOf(p)'[x] = BallotOf(p)[x]
  <2>1. \A x \in Accounts : x \notin M => Voice(x)' = Voice(x) /\ Voice(x) \in Accounts /\ Voice(x) # a
    BY <1>3, <1>5, <1>8 DEF Voice, GraphInv, GraphTypeOK
  <2> QED BY <1>16, <2>1 DEF BallotOf
<1>19. MeasureKept(p)
  BY <1>1 DEF MeasureKept
<1> QED BY <1>1, <1>9, <1>15, <1>17, <1>18, <1>19, CountedMoved, SMTT(40) DEF VoteTypes

LEMMA RevocationKeepsCount ==
    ASSUME NEW K \in Measures, NEW p \in ProposalIds, Setting(K, p),
           NEW a \in Accounts, RevokeDelegatedVote(a)
    PROVE  Counted(K, p)'
<1> USE DEF Setting
<1>1. /\ outgoing[a] # None
      /\ casted' = [casted EXCEPT ![a] = NoDecision]
      /\ outgoing' = [outgoing EXCEPT ![a] = None]
      /\ UNCHANGED <<status, schedule, proposals, score, boost, staked>>
  BY DEF RevokeDelegatedVote, VerifyRevokeDelegatedVote, RemoveAllCastedVote, proposalVars, tokenVars
<1>2. PICK b \in Accounts : b = outgoing[a]
  BY <1>1 DEF GraphInv, GraphTypeOK
<1>3. \A x \in Accounts : outgoing'[x] = IF x = a THEN None ELSE outgoing[x]
  BY <1>1 DEF GraphInv, GraphTypeOK
<1>4. a # None /\ None \notin Decisions
  BY DEF GovernanceAssumption, Addresses
<1>5. \A x \in Accounts : outgoing[x] # a
  BY <1>1, <1>4 DEF Direct
<1>6. incoming[a] = {} /\ IncomingDelegators(a) = {}
  <2>1. incoming[a] \subseteq Accounts
    BY DEF GraphInv, GraphTypeOK
  <2>2. incoming[a] = {}
    BY <1>5, <2>1 DEF GraphInv, DelegationSymmetric
  <2> QED BY <2>2, DelegatorsAreDirect
<1>7. Root(a) = b
  BY <1>1, <1>2, RootIsVoice DEF Voice
<1>8. PICK M \in SUBSET Accounts : M = {a}
  OBVIOUS
<1>9. PICK f, n, c : f = MeasureOf(K, p) /\ n = tally[p][K] /\ c = casted[b][p]
  OBVIOUS
<1>10. tally' = ShiftVote(tally, casted[b], -1, ScoresOf(M))
  <2>1. {a} \cup IncomingDelegators(a) = M
    BY <1>6, <1>8
  <2> QED BY <1>7, <2>1 DEF RevokeDelegatedVote, RemoveCarriedVotes, SubtractVote, CarriedScores
<1>11. c # None => status[p] = "ACTIVE" /\ c \in Decisions
  BY <1>9, VotesActive
<1>12. n \in [Decisions -> Int] /\ TallyShaped(tally)
  BY <1>9, CountedTyped DEF VoteTypes
<1>13. /\ tally'[p][K] = Moved(n, c, -1 * SumFunctionOnSet(f, M))
       /\ SumFunctionOnSet(f, M) \in Int
  <2>1. PICK t, votes : t = tally /\ votes = casted[b]
    OBVIOUS
  <2>2. /\ ShiftVote(t, votes, -1, ScoresOf(M))[p][K] =
               Moved(t[p][K], votes[p], -1 * SumFunctionOnSet(MeasureOf(K, p), M))
        /\ SumFunctionOnSet(MeasureOf(K, p), M) \in Int
    <3>1. /\ TallyShaped(t) /\ t[p][K] \in [Decisions -> Int]
          /\ votes[p] # None => status[p] = "ACTIVE" /\ votes[p] \in Decisions
      BY <1>9, <1>11, <1>12, <2>1
    <3>2. ScoresTyped /\ Whole(K, p) /\ -1 \in {1, -1}
      BY DEF VoteTypes
    <3> QED BY <3>1, <3>2, ScoresShift, SMTT(40)
  <2> QED BY <1>9, <1>10, <2>1, <2>2
<1>15. tally'[p][K] = Moved(Moved(n, c, -SumFunctionOnSet(f, M)), None, SumFunctionOnSet(f, M))
  <2>1. -1 * SumFunctionOnSet(f, M) = -SumFunctionOnSet(f, M) /\ -SumFunctionOnSet(f, M) \in Int
    BY <1>13
  <2> QED BY <1>12, <1>13, <2>1, MovedTyped, MovedNowhere
<1>16. \A x \in Accounts : x # a => casted'[x] = casted[x]
  BY <1>1 DEF QueueInv, QueueTypeOK
<1>17. \A x \in M : BallotOf(p)[x] = c /\ BallotOf(p)'[x] = None
  <2>1. casted'[a][p] = None
    BY <1>1 DEF QueueInv, QueueTypeOK, NoDecision
  <2> QED BY <1>1, <1>2, <1>3, <1>8, <1>9, <2>1 DEF BallotOf, Voice
<1>18. \A x \in Accounts : x \notin M => BallotOf(p)'[x] = BallotOf(p)[x]
  <2>1. \A x \in Accounts : x \notin M => Voice(x)' = Voice(x) /\ Voice(x) \in Accounts /\ Voice(x) # a
    BY <1>3, <1>5, <1>8 DEF Voice, GraphInv, GraphTypeOK
  <2> QED BY <1>16, <2>1 DEF BallotOf
<1>19. MeasureKept(p)
  BY <1>1 DEF MeasureKept
<1> QED BY <1>1, <1>9, <1>15, <1>17, <1>18, <1>19, CountedMoved, SMTT(40) DEF VoteTypes
\* What a counts changes.
LEMMA CountedReweighed ==
    ASSUME GovernanceAssumption, NEW K, NEW p, Counted(K, p),
           \A x \in Accounts : MeasureOf(K, p)[x] \in Int /\ MeasureOf(K, p)'[x] \in Int,
           NEW a \in Accounts,
           \A x \in Accounts : x # a => MeasureOf(K, p)'[x] = MeasureOf(K, p)[x],
           BallotOf(p)' = BallotOf(p),
           tally'[p][K] = Moved(Moved(tally[p][K], BallotOf(p)[a], -MeasureOf(K, p)[a]),
                                BallotOf(p)[a], MeasureOf(K, p)'[a])
    PROVE  Counted(K, p)'
<1>1. IsFiniteSet(Accounts)
  BY DEF GovernanceAssumption
<1>2. PICK f, g, v : f = MeasureOf(K, p) /\ g = MeasureOf(K, p)' /\ v = BallotOf(p)
  OBVIOUS
<1>3. /\ \A x \in Accounts : f[x] \in Int /\ g[x] \in Int
      /\ \A x \in Accounts : x # a => g[x] = f[x]
  BY <1>2
<1>4. Ballots(v, g) = Moved(Moved(Ballots(v, f), v[a], -f[a]), v[a], g[a])
  BY ONLY <1>1, <1>3, BallotsReweighed, a \in Accounts
<1>5. tally[p][K] = Ballots(v, f)
  BY <1>2 DEF Counted
<1>6. tally'[p][K] = Ballots(v, g)
  BY <1>2, <1>4, <1>5
<1> QED BY <1>2, <1>6 DEF Counted

LEMMA MeasureNext ==
    ASSUME NEW K, NEW p, MeasureKept(p), NEW x \in Accounts
    PROVE  MeasureOf(K, p)'[x] = Measure(K, p, [score |-> score'[x], boostHeight |-> boost'[x]])
BY DEF MeasureOf, Measure, CalculateVoteScore, MeasureKept

LEMMA WholeTypedNext ==
    ASSUME ScoresTyped', NEW K, NEW p, Whole(K, p)'
    PROVE  \A x \in Accounts : MeasureOf(K, p)'[x] \in Int
<1> SUFFICES ASSUME NEW x \in Accounts PROVE MeasureOf(K, p)'[x] \in Int
  OBVIOUS
<1>1. PICK k \in Nat : \A n \in Int : Measure(K, p, [score |-> n, boostHeight |-> boost[x]])' = k * n
  BY DEF Whole
<1>2. score'[x] \in Int
  BY DEF ScoresTyped
<1>3. MeasureOf(K, p)'[x] = Measure(K, p, [score |-> score[x], boostHeight |-> boost[x]])'
  BY DEF MeasureOf
<1>4. MeasureOf(K, p)'[x] = k * score'[x]
  BY <1>1, <1>2, <1>3
<1> QED BY <1>2, <1>4

LEMMA OneItem ==
    ASSUME NEW K, NEW p, NEW a, NEW item, Measure(K, p, item) \in Int
    PROVE  ItemSum(K, p, [x \in {a} |-> item]) = Measure(K, p, item)
<1>1. PICK items : items = [x \in {a} |-> item]
  OBVIOUS
<1>2. PICK f : f = [x \in DOMAIN items |-> Measure(K, p, items[x])]
  OBVIOUS
<1>3. DOMAIN items = {a} /\ items[a] = item
  BY <1>1
<1>4. f[a] = Measure(K, p, item)
  BY <1>2, <1>3
<1>5. SumFunctionOnSet(f, {a}) = f[a]
  BY <1>4, SumOne
<1> QED BY <1>1, <1>2, <1>3, <1>4, <1>5 DEF ItemSum

\* The votes that carry the score of a
LEMMA RootVotes ==
    ASSUME QueueInv, GraphInv, Direct, NEW a \in Accounts, NEW p \in ProposalIds, GovernanceAssumption
    PROVE  /\ casted[Root(a)][p] = BallotOf(p)[a]
           /\ BallotOf(p)[a] # None => status[p] = "ACTIVE" /\ BallotOf(p)[a] \in Decisions
<1>1. Root(a) = Voice(a) /\ Voice(a) \in Accounts
  BY RootIsVoice DEF Voice, GraphInv, GraphTypeOK
<1>2. casted[Root(a)][p] = BallotOf(p)[a]
  BY <1>1 DEF BallotOf
<1> QED BY <1>1, <1>2, VotesActive

LEMMA BoostKeepsCount ==
    ASSUME NEW K \in Measures, NEW p \in ProposalIds, Setting(K, p),
           ScoresTyped', Whole(K, p)', NEW a \in Accounts, NEW h \in BoostTargets, BoostVote(a, h)
    PROVE  Counted(K, p)'
<1> USE DEF Setting
<1>1. /\ boost' = [boost EXCEPT ![a] = h]
      /\ UNCHANGED <<status, schedule, proposals, score, staked, casted, outgoing, incoming>>
  BY DEF BoostVote, proposalVars, tokenVars
<1>2. \A x \in Accounts : boost'[x] = IF x = a THEN h ELSE boost[x]
  BY <1>1 DEF VoteTypes, ScoresTyped
<1>3. MeasureKept(p)
  BY <1>1 DEF MeasureKept
<1>4. PICK f, g, c, votes, old, new :
          /\ f = MeasureOf(K, p) /\ g = MeasureOf(K, p)' /\ c = BallotOf(p)[a]
          /\ votes = casted[Root(a)]
          /\ old = [score |-> score[a], boostHeight |-> boost[a]]
          /\ new = [score |-> score[a], boostHeight |-> h]
  OBVIOUS
<1>5. \A x \in Accounts : g[x] = Measure(K, p, [score |-> score[x], boostHeight |-> boost'[x]])
  BY <1>1, <1>3, <1>4, MeasureNext
<1>6. f[a] = Measure(K, p, old) /\ g[a] = Measure(K, p, new)
  BY <1>2, <1>4, <1>5 DEF MeasureOf
<1>7. \A x \in Accounts : x # a => g[x] = f[x]
  BY <1>2, <1>4, <1>5 DEF MeasureOf
<1>8. \A x \in Accounts : f[x] \in Int /\ g[x] \in Int
  BY <1>4, WholeTyped, WholeTypedNext DEF VoteTypes
<1>9. votes[p] = c /\ (c # None => status[p] = "ACTIVE" /\ c \in Decisions)
  BY <1>4, RootVotes
<1>10. PICK t, n : t = ShiftVote(tally, votes, -1, ScoresOf({a})) /\ n = tally[p][K]
  OBVIOUS
<1>11. n \in [Decisions -> Int] /\ TallyShaped(tally)
  BY <1>10, CountedTyped DEF VoteTypes
<1>12. tally' = ShiftVote(t, votes, 1, [x \in {a} |-> new])
  BY <1>4, <1>10 DEF BoostVote, RemoveSenderVote, AddSenderVote, SubtractVote, AddVote
<1>13. TallyShaped(t) /\ t[p][K] = Moved(n, c, -f[a]) /\ t[p][K] \in [Decisions -> Int]
  <2>1. PICK items : items = ScoresOf({a})
    OBVIOUS
  <2>2. items = [x \in {a} |-> old]
    BY <1>4, <2>1 DEF ScoresOf
  <2>3. f[a] \in Int /\ -1 * f[a] = -f[a]
    BY <1>8
  <2>4. ItemSum(K, p, items) = f[a]
    BY ONLY <1>6, <2>2, <2>3, OneItem
  <2>5. PICK u : u = tally
    OBVIOUS
  <2>6. /\ TallyShaped(u) /\ u[p][K] \in [Decisions -> Int] /\ u[p][K] = n
        /\ votes[p] # None => status[p] = "ACTIVE" /\ votes[p] \in Decisions
        /\ ItemSum(K, p, items) \in Int /\ -1 \in {1, -1} /\ votes[p] = c
        /\ t = ShiftVote(u, votes, -1, items)
    BY <1>9, <1>10, <1>11, <2>1, <2>3, <2>4, <2>5
  <2>7. /\ TallyShaped(ShiftVote(u, votes, -1, items))
        /\ ShiftVote(u, votes, -1, items)[p][K] = Moved(u[p][K], votes[p], -1 * ItemSum(K, p, items))
        /\ ShiftVote(u, votes, -1, items)[p][K] \in [Decisions -> Int]
    BY SMTT(40), <2>6, ShiftTyped
  <2> QED BY <2>3, <2>4, <2>6, <2>7
<1>14. tally'[p][K] = Moved(t[p][K], c, g[a])
  <2>1. PICK items : items = [x \in {a} |-> new]
    OBVIOUS
  <2>0. g[a] \in Int
    BY <1>8
  <2>2. ItemSum(K, p, items) = g[a]
    <3>1. ItemSum(K, p, [x \in {a} |-> new]) = Measure(K, p, new)
      BY ONLY <1>6, <2>0, OneItem
    <3> QED BY ONLY <1>6, <2>1, <3>1
  <2>3. ItemSum(K, p, items) \in Int /\ 1 * g[a] = g[a]
    BY <1>8, <2>2
  <2>4. ShiftVote(t, votes, 1, items)[p][K] = Moved(t[p][K], votes[p], 1 * ItemSum(K, p, items))
    BY SMTT(40), <1>9, <1>13, <2>3, ShiftTyped
  <2> QED BY <1>9, <1>12, <2>1, <2>2, <2>3, <2>4
<1>15. BallotOf(p)' = BallotOf(p)
  BY <1>1 DEF BallotOf, Voice
<1>16. tally'[p][K] = Moved(Moved(n, c, -f[a]), c, g[a])
  BY <1>13, <1>14
<1> QED BY <1>4, <1>7, <1>8, <1>10, <1>15, <1>16, CountedReweighed
LEMMA StakeKeepsCount ==
    ASSUME NEW K \in Measures, NEW p \in ProposalIds, Setting(K, p), ScoresTyped',
           NEW a \in Accounts, NEW m \in StakeMoves, Stake(a, m) \/ FailedStake(a, m)
    PROVE  Counted(K, p)'
<1> USE DEF Setting
<1>1. /\ score' = [score EXCEPT ![a] = @ + (m.added - m.subtracted)]
      /\ UNCHANGED <<status, schedule, proposals, boost, casted, outgoing, incoming>>
  BY DEF Stake, FailedStake, UpdateVoteScoreAfterStake, AddVoteScore, NetStake, proposalVars
<1>2. m.added \in Nat /\ m.subtracted \in Nat
  BY DEF GovernanceAssumption
<1>3. /\ \A x \in Accounts : x # a => score'[x] = score[x]
      /\ score[a] \in Int /\ score'[a] \in Int /\ score'[a] = score[a] + m.added - m.subtracted
  BY <1>1, <1>2 DEF VoteTypes, ScoresTyped
<1>4. MeasureKept(p)
  BY <1>1 DEF MeasureKept
<1>5. PICK k \in Nat : \A n \in Int : Measure(K, p, [score |-> n, boostHeight |-> boost[a]]) = k * n
  BY DEF Whole
<1>6. PICK f, g, c, votes, added, subtracted :
          /\ f = MeasureOf(K, p) /\ g = MeasureOf(K, p)' /\ c = BallotOf(p)[a]
          /\ votes = casted[Root(a)]
          /\ added = [score |-> m.added, boostHeight |-> boost[a]]
          /\ subtracted = [score |-> m.subtracted, boostHeight |-> boost[a]]
  OBVIOUS
<1>a. PICK x \in Int, y \in Int : x = k * m.added /\ y = k * m.subtracted
  BY <1>2
<1>7. Measure(K, p, added) = x /\ Measure(K, p, subtracted) = y
  BY <1>2, <1>5, <1>6, <1>a
<1>8. \A z \in Accounts : g[z] = Measure(K, p, [score |-> score'[z], boostHeight |-> boost[z]])
  BY <1>1, <1>4, <1>6, MeasureNext
<1>9. f[a] = k * score[a] /\ g[a] = k * score'[a]
  BY <1>3, <1>5, <1>6, <1>8 DEF MeasureOf
<1>10. \A z \in Accounts : z # a => g[z] = f[z]
  BY <1>3, <1>6, <1>8 DEF MeasureOf
<1>11. \A z \in Accounts : f[z] \in Int /\ g[z] \in Int
  <2>1. \A z \in Accounts : f[z] \in Int
    BY <1>6, WholeTyped DEF VoteTypes
  <2>2. g[a] \in Int
    BY <1>3, <1>9
  <2> QED BY <1>10, <2>1, <2>2
<1>12. votes[p] = c /\ (c # None => status[p] = "ACTIVE" /\ c \in Decisions)
  BY <1>6, RootVotes
<1>13. PICK t, n, u, more, less :
           /\ u = tally /\ n = tally[p][K]
           /\ more = [z \in {a} |-> added] /\ less = [z \in {a} |-> subtracted]
           /\ t = ShiftVote(u, votes, 1, more)
  OBVIOUS
<1>14. n \in [Decisions -> Int] /\ TallyShaped(u) /\ u[p][K] = n
  BY <1>13, CountedTyped DEF VoteTypes
<1>15. tally' = ShiftVote(t, votes, -1, less)
  BY <1>6, <1>13 DEF Stake, FailedStake, UpdateVoteScoreAfterStake, SubtractVote, AddVote
<1>16. ItemSum(K, p, more) = x
  <2>1. Measure(K, p, added) \in Int
    BY ONLY <1>7
  <2>2. ItemSum(K, p, [z \in {a} |-> added]) = Measure(K, p, added)
    BY ONLY <2>1, OneItem
  <2> QED BY ONLY <1>7, <1>13, <2>2
<1>17. ItemSum(K, p, less) = y
  <2>1. Measure(K, p, subtracted) \in Int
    BY ONLY <1>7
  <2>2. ItemSum(K, p, [z \in {a} |-> subtracted]) = Measure(K, p, subtracted)
    BY ONLY <2>1, OneItem
  <2> QED BY ONLY <1>7, <1>13, <2>2
<1>18. ItemSum(K, p, more) \in Int /\ ItemSum(K, p, less) \in Int
  BY <1>7, <1>16, <1>17
<1>19. votes[p] # None => status[p] = "ACTIVE" /\ votes[p] \in Decisions
  BY <1>12
<1>20. TallyShaped(t) /\ t[p][K] = Moved(n, c, x) /\ t[p][K] \in [Decisions -> Int]
  <2>1. /\ TallyShaped(ShiftVote(u, votes, 1, more))
        /\ ShiftVote(u, votes, 1, more)[p][K] = Moved(u[p][K], votes[p], 1 * ItemSum(K, p, more))
        /\ ShiftVote(u, votes, 1, more)[p][K] \in [Decisions -> Int]
    BY <1>14, <1>18, <1>19, ShiftTyped
  <2>2. 1 * ItemSum(K, p, more) = x
    BY <1>16, <1>18
  <2> QED BY <1>12, <1>13, <1>14, <2>1, <2>2
<1>21. tally'[p][K] = Moved(t[p][K], c, -y)
  <2>1. ShiftVote(t, votes, -1, less)[p][K] = Moved(t[p][K], votes[p], -1 * ItemSum(K, p, less))
    <3>1. GovernanceAssumption /\ -1 \in {1, -1}
      OBVIOUS
    <3> QED BY ONLY <1>18, <1>19, <1>20, <3>1, K \in Measures, p \in ProposalIds, ShiftTyped
  <2>2. -1 * ItemSum(K, p, less) = -y
    BY <1>17, <1>18
  <2> QED BY <1>12, <1>15, <2>1, <2>2
<1>22. tally'[p][K] = Moved(Moved(n, c, -f[a]), c, g[a])
  <2>1. tally'[p][K] = Moved(n, c, x + -y)
    <3>1. Moved(Moved(n, c, x), c, -y) = Moved(n, c, x + -y)
      BY ONLY <1>14, x \in Int, y \in Int, MovedTwice
    <3> QED BY <1>20, <1>21, <3>1
  <2>2. g[a] = f[a] + x - y
    <3>1. score'[a] \in Int /\ m.added \in Int /\ m.subtracted \in Int /\ score[a] \in Int
      BY <1>2, <1>3
    <3>2. k * (score[a] + m.added - m.subtracted) = k * score[a] + k * m.added - k * m.subtracted
      BY <3>1
    <3> QED BY <1>3, <1>9, <1>a, <3>2
  <2>3. -f[a] \in Int /\ g[a] \in Int /\ -f[a] + g[a] = x + -y
    BY <1>7, <1>11, <2>2
  <2>4. Moved(Moved(n, c, -f[a]), c, g[a]) = Moved(n, c, -f[a] + g[a])
    BY ONLY <1>14, <2>3, MovedTwice
  <2> QED BY <2>1, <2>3, <2>4
<1>23. BallotOf(p)' = BallotOf(p)
  BY <1>1 DEF BallotOf, Voice
<1>24. GovernanceAssumption /\ Counted(K, p)
  OBVIOUS
<1> QED BY ONLY <1>6, <1>10, <1>11, <1>13, <1>22, <1>23, <1>24, a \in Accounts, CountedReweighed
-------------------------------------------------------------------------------
(* The other steps *)

LEMMA NoBallots ==
    ASSUME GovernanceAssumption, NEW f, NEW v, \A x \in Accounts : v[x] = None
    PROVE  Ballots(v, f) = [d \in Decisions |-> 0]
<1>1. \A d \in Decisions : \A x \in Accounts : Ballot(v, f, d)[x] = 0
  BY DEF Ballot, GovernanceAssumption
<1>2. \A d \in Decisions : SumFunctionOnSet(Ballot(v, f, d), Accounts) = 0
  BY <1>1, SumZero DEF GovernanceAssumption
<1> QED BY <1>2 DEF Ballots

\* What a proposal is created with
LEMMA CreationWrites ==
    ASSUME GovernanceAssumption, QueueInv, VoteTypes, CreateProposalCommand
    PROVE  /\ nextId \in ProposalIds /\ status[nextId] = "ABSENT"
           /\ \A q \in ProposalIds : q # nextId => /\ status'[q] = status[q]
                                                   /\ schedule'[q] = schedule[q]
                                                   /\ proposals'[q] = proposals[q]
           /\ {"enableBoosting", "maxBoostDuration", "boostFactor"} \subseteq DOMAIN proposals'[nextId]
           /\ DOMAIN proposals' = ProposalIds
           /\ UNCHANGED <<blockVars, voteVars, accountVars, staked>>
<1>1. PICK a \in Authors, actions \in ActionLists, attributes \in AttributesArrays :
          CreateProposal(a, actions, attributes)
  BY DEF CreateProposalCommand
<1>2. PICK p : p = nextId
  OBVIOUS
<1>3. PICK record, when :
          /\ {"enableBoosting", "maxBoostDuration", "boostFactor"} \subseteq DOMAIN record
          /\ proposals' = [proposals EXCEPT ![p] = record]
          /\ schedule' = [schedule EXCEPT ![p] = when]
  BY <1>1, <1>2 DEF CreateProposal
<1>4. /\ p < MaxProposals /\ status' = [status EXCEPT ![p] = "CREATED"]
      /\ UNCHANGED <<blockVars, voteVars, accountVars, staked>>
  BY <1>1, <1>2 DEF CreateProposal
<1>5. p \in ProposalIds /\ status[p] = "ABSENT"
  BY <1>2, <1>4 DEF QueueInv, QueueTypeOK, FreshIds, ProposalIds, GovernanceAssumption
<1>6. DOMAIN proposals = ProposalIds
  BY DEF VoteTypes, ProposalsShaped
<1>7. proposals'[p] = record /\ DOMAIN proposals' = ProposalIds
  BY <1>3, <1>5, <1>6
<1>8. \A q \in ProposalIds : q # p =>
          status'[q] = status[q] /\ schedule'[q] = schedule[q] /\ proposals'[q] = proposals[q]
  BY <1>3, <1>4, <1>5, <1>6 DEF QueueInv, QueueTypeOK
<1> QED BY <1>2, <1>3, <1>4, <1>5, <1>7, <1>8

\* A proposal begins with no vote and an empty tally.
LEMMA CreationCounts ==
    ASSUME GovernanceAssumption, QueueInv, GraphTypeOK, VoteTypes,
           NEW K \in Measures, NEW p, p = nextId, CreateProposalCommand
    PROVE  Counted(K, p)'
<1>1. p \in ProposalIds /\ status[p] = "ABSENT" /\ UNCHANGED <<tally, casted, outgoing>>
  BY CreationWrites DEF voteVars, accountVars
<1>2. \A x \in Accounts : BallotOf(p)'[x] = None
  <2>1. \A x \in Accounts : Voice(x)' = Voice(x) /\ Voice(x) \in Accounts
    BY <1>1 DEF Voice, GraphTypeOK
  <2>2. \A x \in Accounts : casted'[x][p] = None
    <3>1. \A x \in Accounts : casted[x][p] = None
      BY <1>1, VotesActive
    <3> QED BY <1>1, <3>1
  <2> QED BY <2>1, <2>2 DEF BallotOf
<1>3. PICK v, f : v = BallotOf(p)' /\ f = MeasureOf(K, p)'
  OBVIOUS
<1>4. Ballots(v, f) = [d \in Decisions |-> 0]
  <2>1. \A x \in Accounts : v[x] = None
    BY <1>2, <1>3
  <2> QED BY <2>1, NoBallots
<1>5. tally'[p][K] = [d \in Decisions |-> 0]
  BY <1>1 DEF VoteTypes, UnopenedEmpty
<1> QED BY <1>3, <1>4, <1>5 DEF Counted

\* The other commands leave of the proposals what is measured.
LEMMA CommandKeepsMeasures ==
    ASSUME VoteTypes, Command, ~ CreateProposalCommand
    PROVE  /\ \A p \in Known : MeasureKept(p)
           /\ Known' = Known /\ ProposalsShaped'
<1>1. status' = status /\ schedule' = schedule /\ Known' = Known
  BY CommandLeavesQueue DEF Known
<1>2. CASE proposals' = proposals
  BY <1>1, <1>2 DEF MeasureKept, VoteTypes, ProposalsShaped
<1>3. CASE SetProposalAttributesCommand
  <2>1. PICK p \in ProposalIds :
        \E attributes :
            proposals' = [proposals EXCEPT ![p] = [proposals[p] EXCEPT !.attributes = attributes]]
    BY <1>3 DEF SetProposalAttributesCommand, SetAttributes
  <2>2. PICK attributes :
            proposals' = [proposals EXCEPT ![p] = [proposals[p] EXCEPT !.attributes = attributes]]
    BY <2>1
  <2>3. \A q \in ProposalIds :
            proposals'[q] = IF q = p THEN [proposals[p] EXCEPT !.attributes = attributes]
                                     ELSE proposals[q]
    BY <2>2 DEF VoteTypes, ProposalsShaped
  <2>4. DOMAIN proposals' = ProposalIds
    BY <2>2 DEF VoteTypes, ProposalsShaped
  <2>5. \A q \in Known :
            /\ DOMAIN proposals'[q] = DOMAIN proposals[q]
            /\ proposals'[q].enableBoosting = proposals[q].enableBoosting
            /\ proposals'[q].maxBoostDuration = proposals[q].maxBoostDuration
            /\ proposals'[q].boostFactor = proposals[q].boostFactor
    BY <2>3 DEF VoteTypes, ProposalsShaped, Known
  <2> QED BY <1>1, <2>4, <2>5 DEF MeasureKept, VoteTypes, ProposalsShaped
<1>4. proposals' = proposals \/ SetProposalAttributesCommand
  BY DEF Command, VoteCommand, Vote, DelegateVoteCommand, DelegateVote,
     RevokeDelegatedVoteCommand, RevokeDelegatedVote, BoostVoteCommand, BoostVote,
     StakeCommand, Stake, FailedStake, proposalVars
<1> QED BY <1>2, <1>3, <1>4

\* The steps of a block leave the votes of what stays pending, and a proposal does not
\* become pending again.
LEMMA BlockKeepsVotes ==
    ASSUME QueueInv, QueueInv', LifeInv, BlockStep
    PROVE  /\ UNCHANGED <<tally, proposals, schedule, outgoing, score, boost, staked>>
           /\ Known' = Known
           /\ \A p \in ProposalIds : status'[p] = "CREATED" => status[p] = "CREATED"
           /\ \A p \in ProposalIds : Pending(p)' =>
                  Pending(p) /\ \A x \in Accounts : casted'[x][p] = casted[x][p]
<1> USE DEF QueueInv
<1>1. UNCHANGED <<tally, proposals, schedule, outgoing, score, boost, staked>>
  BY DEF BlockStep, EndTransactions, NextBlock, QueueStep, ExecuteStarted, SkipEntry, PassQuorum,
     FailQuorum, ExecuteEnded, BeginOutcome, ExecuteFunding, ExecuteConfig, FailAction,
     FinishOutcome, EndOutcome, proposalVars, voteVars, accountVars, tokenVars
<1>2. \A p \in ProposalIds : height \in Int /\ schedule[p]["ends"] \in Int
  BY DEF QueueTypeOK, Heights, Kinds
<1>3. CASE EndTransactions
  <2>1. /\ phase = "transactions" /\ UNCHANGED <<height, status, casted>>
    BY <1>3 DEF EndTransactions, InTransactions, proposalVars, voteVars
  <2>2. \A p \in ProposalIds : EndPassed(p) => EndPassed(p)'
    BY <1>1, <2>1 DEF EndPassed
  <2> QED BY <1>1, <2>1, <2>2 DEF Pending, Known
<1>4. CASE NextBlock
  <2>1. height' = height + 1 /\ phase' = "transactions" /\ UNCHANGED <<status, casted>>
    BY <1>4 DEF NextBlock, proposalVars, voteVars
  <2>2. \A p \in ProposalIds : EndPassed(p) => EndPassed(p)'
    BY <1>1, <1>2, <2>1 DEF EndPassed
  <2> QED BY <1>1, <2>1, <2>2 DEF Pending, Known
<1>5. CASE QueueStep
  <2>1. PICK h : h = Head(todo).id
    OBVIOUS
  <2>2. CASE BeginOutcome \/ ExecuteFunding \/ ExecuteConfig
    <3>1. UNCHANGED <<height, phase, todo, status, casted>>
      BY <2>2 DEF BeginOutcome, ExecuteFunding, ExecuteConfig, proposalVars, voteVars
    <3> QED BY <1>1, <3>1 DEF Pending, EndPassed, Known
  <2>3. CASE ~ (BeginOutcome \/ ExecuteFunding \/ ExecuteConfig)
    <3>1. /\ todo # <<>> /\ todo' = Tail(todo) /\ UNCHANGED <<height, phase>>
          /\ status' = status \/ \E s \in Statuses \ {"CREATED", "ABSENT"} : status' = [status EXCEPT ![h] = s]
      <4>1. CASE FailAction \/ FinishOutcome
        <5>1. executing
          BY <4>1 DEF FailAction, FinishOutcome
        <5>2. todo # <<>>
          BY <5>1 DEF ExecutingAccepted
        <5>3. PICK s \in {"EXECUTED", "EXECUTED_WITH_ERROR"} : EndOutcome(s)
          BY <4>1 DEF FailAction, FinishOutcome
        <5> QED BY <2>1, <5>2, <5>3 DEF EndOutcome, Statuses
      <4>2. CASE ExecuteStarted \/ SkipEntry \/ PassQuorum \/ FailQuorum
        BY <2>1, <4>2 DEF ExecuteStarted, SkipEntry, PassQuorum, FailQuorum, NextEntry, Statuses, proposalVars
      <4>3. CASE ExecuteEnded
        <5>1. todo # <<>> /\ todo' = Tail(todo) /\ UNCHANGED <<height, phase>> /\ status' = [status EXCEPT ![h] = Outcome(h)]
          BY <2>1, <4>3 DEF ExecuteEnded, NextEntry
        <5>2. Outcome(h) \in Statuses \ {"CREATED", "ABSENT"}
          BY DEF Outcome, Statuses
        <5> QED BY <5>1, <5>2
      <4> QED BY <1>5, <2>3, <4>1, <4>2, <4>3 DEF QueueStep
    <3>2. /\ h \in Known /\ Head(todo) = Entry(Head(todo).kind, h) /\ Head(todo).kind \in Kinds
          /\ height = schedule[h][Head(todo).kind]
          /\ Head(todo).kind = "start" => status[h] = "CREATED"
          /\ Head(todo).kind # "start" => status[h] # "CREATED"
      BY <2>1, <3>1, AtHead
    <3>3. \A p \in ProposalIds : p # h => status'[p] = status[p]
      BY <3>1 DEF QueueTypeOK
    <3>4. status'[h] # "ABSENT" /\ (status'[h] = "CREATED" => status[h] = "CREATED")
      BY <3>1, <3>2 DEF QueueTypeOK, Known
    <3>5. Known' = Known
      BY <3>2, <3>3, <3>4 DEF Known
    <3>6. \A k, p : Ahead(k, p)' <=> Ahead(k, p) /\ Entry(k, p) # Head(todo)
      <4>1. schedule' = schedule /\ queue' = queue
        BY <1>1, <1>5 DEF QueueStep, ExecuteStarted, SkipEntry, PassQuorum,
           FailQuorum, ExecuteEnded, BeginOutcome, ExecuteFunding, ExecuteConfig, FailAction,
           FinishOutcome, EndOutcome, proposalVars
      <4> QED BY <3>1, <3>5, <4>1, HeadTaken
    <3>7. ASSUME NEW p \in ProposalIds, Pending(p)'
          PROVE  Pending(p) /\ (FailQuorum \/ ExecuteEnded => p # h)
      <4>1. Ahead("ends", p) /\ Entry("ends", p) # Head(todo)
        BY <3>6, <3>7, PendingIsAhead
      <4>2. status'[p] \in {"CREATED", "ACTIVE"}
        BY <3>7 DEF Pending
      <4>3. CASE p # h
        BY <3>3, <4>1, <4>2, <4>3, PendingIsAhead
      <4>4. CASE p = h
        <5>1. Head(todo).kind # "ends"
          BY <3>2, <4>1, <4>4
        <5>2. ~ FailQuorum /\ ~ ExecuteEnded
          <6>1. ~ ExecuteEnded
            BY <5>1 DEF ExecuteEnded, NextEntry
          <6>2. FailQuorum => status'[h] = "FAILED_QUORUM"
            BY <2>1, <3>2 DEF FailQuorum, QueueTypeOK, Known
          <6> QED BY <4>2, <4>4, <6>1, <6>2
        <5>3. status[h] \in {"CREATED", "ACTIVE"}
          <6>1. CASE Head(todo).kind = "start"
            BY <3>2, <6>1
          <6>2. CASE Head(todo).kind # "start"
            <7>1. ~ ExecuteStarted
              BY <6>2 DEF ExecuteStarted, NextEntry
            <7>2. CASE FailAction \/ FinishOutcome
              <8>1. status'[h] \in {"EXECUTED", "EXECUTED_WITH_ERROR"}
                BY <2>1, <3>2, <7>2 DEF FailAction, FinishOutcome, EndOutcome, QueueTypeOK, Known
              <8> QED BY <4>2, <4>4, <8>1
            <7>3. CASE SkipEntry \/ PassQuorum
              <8>1. status' = status
                BY <7>3 DEF SkipEntry, PassQuorum, proposalVars
              <8> QED BY <4>2, <4>4, <8>1
            <7> QED BY <1>5, <2>3, <5>2, <7>1, <7>2, <7>3 DEF QueueStep
          <6> QED BY <6>1, <6>2
        <5> QED BY <4>1, <4>4, <5>2, <5>3, PendingIsAhead
      <4> QED BY <4>3, <4>4
    <3>8. ASSUME NEW p \in ProposalIds, FailQuorum \/ ExecuteEnded => p # h, NEW x \in Accounts
          PROVE  casted'[x][p] = casted[x][p]
      <4>1. CASE FailQuorum \/ ExecuteEnded
        <5>1. p # h /\ RemoveCastedVotes(h)
          BY <2>1, <3>8, <4>1 DEF FailQuorum, ExecuteEnded
        <5>2. casted[x] \in [ProposalIds -> Decisions \cup {None}]
          BY DEF QueueTypeOK
        <5> QED BY <5>1, <5>2 DEF RemoveCastedVotes
      <4>2. CASE ~ (FailQuorum \/ ExecuteEnded)
        <5>1. casted' = casted
          BY <1>5, <4>2 DEF QueueStep, ExecuteStarted, SkipEntry, PassQuorum, BeginOutcome,
             ExecuteFunding, ExecuteConfig, FailAction, FinishOutcome, EndOutcome, voteVars
        <5> QED BY <5>1
      <4> QED BY <4>1, <4>2
    <3> QED BY <1>1, <3>3, <3>4, <3>5, <3>7, <3>8
  <2> QED BY <2>2, <2>3
<1> QED BY <1>3, <1>4, <1>5 DEF BlockStep
-------------------------------------------------------------------------------
(* The tally is the vote *)

AllWhole(K) == \A p \in ProposalIds : Pending(p) => Whole(K, p)

LEMMA VoteTypesKept ==
    ASSUME GovernanceAssumption, QueueInv, QueueInv', LifeInv, VoteTypes, [Next]_vars
    PROVE  VoteTypes'
<1>1. CASE UNCHANGED vars
  BY <1>1 DEF vars, proposalVars, voteVars, accountVars, tokenVars, VoteTypes, ScoresTyped,
     ProposalsShaped, TallyShaped, UnopenedEmpty, Known
<1>2. CASE CreateProposalCommand
  <2>1. /\ nextId \in ProposalIds /\ status[nextId] = "ABSENT"
        /\ \A q \in ProposalIds : q # nextId => status'[q] = status[q] /\ proposals'[q] = proposals[q]
        /\ {"enableBoosting", "maxBoostDuration", "boostFactor"} \subseteq DOMAIN proposals'[nextId]
        /\ DOMAIN proposals' = ProposalIds
        /\ UNCHANGED <<voteVars, accountVars, staked>>
    BY <1>2, CreationWrites
  <2>2. ScoresTyped' /\ TallyShaped(tally)'
    BY <2>1 DEF VoteTypes, ScoresTyped, TallyShaped, voteVars, accountVars
  <2>3. ProposalsShaped'
    BY <2>1 DEF VoteTypes, ProposalsShaped, Known
  <2>4. UnopenedEmpty'
    BY <2>1 DEF VoteTypes, UnopenedEmpty, voteVars
  <2> QED BY <2>2, <2>3, <2>4 DEF VoteTypes
<1>3. CASE Command /\ ~ CreateProposalCommand
  <2>1. ProposalsShaped' /\ status' = status
    BY <1>3, CommandKeepsMeasures, CommandLeavesQueue
  <2>2. UnopenedEmpty'
    BY <1>3, <2>1, CommandKeepsTally DEF VoteTypes, UnopenedEmpty
  <2>3. TallyShaped(tally)'
    <3> USE ShiftShaped DEF VoteTypes, AddVote, SubtractVote
    <3>1. CASE VoteCommand
      BY <3>1 DEF VoteCommand, Vote, RemoveReceivedVotes, AddReceivedVotes
    <3>2. CASE SetProposalAttributesCommand
      BY <3>2 DEF SetProposalAttributesCommand, SetAttributes, voteVars
    <3>3. CASE DelegateVoteCommand
      BY <3>3 DEF DelegateVoteCommand, DelegateVote, RemoveCarriedVotes, AddCarriedVotes
    <3>4. CASE RevokeDelegatedVoteCommand
      BY <3>4 DEF RevokeDelegatedVoteCommand, RevokeDelegatedVote, RemoveCarriedVotes
    <3>5. CASE BoostVoteCommand
      BY <3>5 DEF BoostVoteCommand, BoostVote, RemoveSenderVote, AddSenderVote
    <3>6. CASE StakeCommand
      BY <3>6 DEF StakeCommand, Stake, FailedStake, UpdateVoteScoreAfterStake
    <3> QED BY <1>3, <3>1, <3>2, <3>3, <3>4, <3>5, <3>6 DEF Command
  <2>4. ScoresTyped'
    <3>1. CASE StakeCommand
      <4>1. PICK a \in Accounts, m \in StakeMoves : Stake(a, m) \/ FailedStake(a, m)
        BY <3>1 DEF StakeCommand
      <4>2. m.added \in Nat /\ m.subtracted \in Nat
        BY DEF GovernanceAssumption
      <4>3. score' = [score EXCEPT ![a] = @ + (m.added - m.subtracted)] /\ boost' = boost
        BY <4>1 DEF Stake, FailedStake, UpdateVoteScoreAfterStake, AddVoteScore, NetStake
      <4> QED BY <4>2, <4>3 DEF VoteTypes, ScoresTyped
    <3>2. CASE BoostVoteCommand
      <4>1. PICK a \in Accounts, h \in BoostTargets : BoostVote(a, h)
        BY <3>2 DEF BoostVoteCommand
      <4>2. h \in Nat
        BY DEF GovernanceAssumption
      <4>3. score' = score /\ boost' = [boost EXCEPT ![a] = h]
        BY <4>1 DEF BoostVote
      <4> QED BY <4>2, <4>3 DEF VoteTypes, ScoresTyped
    <3>3. CASE ~ StakeCommand /\ ~ BoostVoteCommand
      <4>1. UNCHANGED <<score, boost>>
        BY <1>3, <3>3 DEF Command, VoteCommand, Vote, SetProposalAttributesCommand, SetAttributes,
           DelegateVoteCommand, DelegateVote, RevokeDelegatedVoteCommand, RevokeDelegatedVote,
           accountVars, tokenVars
      <4> QED BY <4>1 DEF VoteTypes, ScoresTyped
    <3> QED BY <3>1, <3>2, <3>3
  <2> QED BY <2>1, <2>2, <2>3, <2>4 DEF VoteTypes
<1>4. CASE BlockStep
  <2>1. /\ UNCHANGED <<tally, proposals, score, boost, staked>> /\ Known' = Known
        /\ \A p \in ProposalIds : status'[p] = "CREATED" => status[p] = "CREATED"
    BY <1>4, BlockKeepsVotes
  <2>2. \A p \in ProposalIds : status'[p] = "ABSENT" => status[p] = "ABSENT"
    BY <2>1 DEF Known
  <2> QED BY <2>1, <2>2 DEF VoteTypes, ScoresTyped, ProposalsShaped, TallyShaped, UnopenedEmpty
<1> QED BY <1>1, <1>2, <1>3, <1>4 DEF Next, Horizon

\* Under direct delegation and one vote per account the tallies stay what is voted.
LEMMA CountsKept ==
    ASSUME GovernanceAssumption, QueueInv, QueueInv', LifeInv, GraphInv, DelegatorsHoldNoVote,
           VoteTypes, VoteTypes', Direct, Direct', OneVote',
           NEW K \in Measures, AllWhole(K), AllWhole(K)', AllCounted(K), [Next]_vars
    PROVE  AllCounted(K)'
<1> SUFFICES ASSUME NEW p \in ProposalIds, Pending(p)'
             PROVE  Counted(K, p)'
  BY DEF AllCounted
<1>1. CASE UNCHANGED vars
  <2>1. UNCHANGED <<height, phase, todo, status, schedule, proposals, tally, casted, outgoing, score, boost>>
    BY <1>1 DEF vars, blockVars, proposalVars, voteVars, accountVars
  <2>2. Pending(p)
    BY <2>1 DEF Pending, EndPassed
  <2>3. Counted(K, p) /\ MeasureKept(p) /\ tally'[p] = tally[p]
    BY <2>1, <2>2 DEF AllCounted, MeasureKept
  <2>4. \A x \in Accounts : casted'[x][p] = casted[x][p]
    BY <2>1
  <2> QED BY <2>1, <2>3, <2>4, CountedKept DEF GraphInv
<1>2. CASE BlockStep
  <2>1. /\ UNCHANGED <<tally, proposals, schedule, outgoing, score, boost>>
        /\ Pending(p) /\ \A x \in Accounts : casted'[x][p] = casted[x][p]
    BY <1>2, BlockKeepsVotes
  <2>2. Counted(K, p) /\ MeasureKept(p)
    BY <2>1 DEF AllCounted, MeasureKept
  <2>3. tally'[p] = tally[p]
    BY <2>1
  <2> QED BY <2>1, <2>2, <2>3, CountedKept DEF GraphInv
<1>3. CASE CreateProposalCommand
  <2>1. /\ \A q \in ProposalIds : q # nextId => /\ status'[q] = status[q]
                                                /\ schedule'[q] = schedule[q]
                                                /\ proposals'[q] = proposals[q]
        /\ UNCHANGED <<blockVars, voteVars, accountVars, staked>>
    BY <1>3, CreationWrites
  <2>2. CASE p = nextId
    BY <1>3, <2>2, CreationCounts DEF GraphInv
  <2>3. CASE p # nextId
    <3>1. MeasureKept(p) /\ Pending(p)
      BY <2>1, <2>3 DEF MeasureKept, Pending, EndPassed, blockVars
    <3>2. Counted(K, p) /\ tally'[p] = tally[p] /\ UNCHANGED <<outgoing, score, boost>>
      BY <2>1, <3>1 DEF AllCounted, voteVars, accountVars
    <3>3. \A x \in Accounts : casted'[x][p] = casted[x][p]
      BY <2>1 DEF voteVars
    <3> QED BY <3>1, <3>2, <3>3, CountedKept DEF GraphInv
  <2> QED BY <2>2, <2>3
<1>4. CASE Command /\ ~ CreateProposalCommand
  <2>1. UNCHANGED <<blockVars, status, schedule>>
    BY <1>4, CommandLeavesQueue
  <2>2. Pending(p) /\ p \in Known
    BY <2>1, PendingKnown DEF Pending, EndPassed, blockVars
  <2>3. Counted(K, p) /\ Whole(K, p) /\ MeasureKept(p) /\ Whole(K, p)'
    BY <1>4, <2>2, CommandKeepsMeasures DEF AllCounted, AllWhole
  <2>4. Setting(K, p)
    BY <2>3 DEF Setting
  <2>5. CASE VoteCommand
    <3>1. PICK a \in Accounts, q \in ProposalIds, d \in VoteDecisions : Vote(a, q, d)
      BY <2>5 DEF VoteCommand
    <3> QED BY <2>4, <3>1, VoteKeepsCount
  <2>6. CASE SetProposalAttributesCommand
    <3>1. UNCHANGED <<tally, casted, outgoing, score, boost>>
      BY <2>6 DEF SetProposalAttributesCommand, SetAttributes, voteVars, accountVars
    <3>2. tally'[p] = tally[p] /\ \A x \in Accounts : casted'[x][p] = casted[x][p]
      BY <3>1
    <3> QED BY <2>3, <3>1, <3>2, CountedKept DEF GraphInv
  <2>7. CASE DelegateVoteCommand
    <3>1. PICK pair \in DelegationPairs : DelegateVote(pair[1], pair[2])
      BY <2>7 DEF DelegateVoteCommand
    <3>2. pair[1] \in Accounts /\ pair[2] \in Accounts
      BY DEF GovernanceAssumption
    <3> QED BY <2>4, <3>1, <3>2, DelegationKeepsCount
  <2>8. CASE RevokeDelegatedVoteCommand
    <3>1. PICK a \in Accounts : RevokeDelegatedVote(a)
      BY <2>8 DEF RevokeDelegatedVoteCommand
    <3> QED BY <2>4, <3>1, RevocationKeepsCount
  <2>9. CASE BoostVoteCommand
    <3>1. PICK a \in Accounts, h \in BoostTargets : BoostVote(a, h)
      BY <2>9 DEF BoostVoteCommand
    <3>2. ScoresTyped'
      BY DEF VoteTypes
    <3> QED BY <2>3, <2>4, <3>1, <3>2, BoostKeepsCount
  <2>10. CASE StakeCommand
    <3>1. PICK a \in Accounts, m \in StakeMoves : Stake(a, m) \/ FailedStake(a, m)
      BY <2>10 DEF StakeCommand
    <3>2. ScoresTyped'
      BY DEF VoteTypes
    <3> QED BY <2>4, <3>1, <3>2, StakeKeepsCount
  <2> QED BY <1>4, <2>5, <2>6, <2>7, <2>8, <2>9, <2>10 DEF Command
<1> QED BY <1>1, <1>2, <1>3, <1>4 DEF Next, Horizon

\* The electors of the voters of d are the accounts whose voice is on d.
LEMMA ElectorsVoice ==
    ASSUME GovernanceAssumption, GraphInv, DelegatorsHoldNoVote, NEW p \in ProposalIds, NEW d \in Decisions
    PROVE  UNION {Electors(v) : v \in {x \in Accounts : casted[x][p] = d}} =
               {x \in Accounts : BallotOf(p)[x] = d}
<1>1. None \notin Decisions /\ None \notin Accounts
  BY DEF GovernanceAssumption, Addresses
<1>2. \A x \in Accounts : Voice(x) \in Accounts
  BY DEF Voice, GraphInv, GraphTypeOK
<1>3. \A v \in Accounts : casted[v][p] = d => outgoing[v] = None
  BY <1>1 DEF DelegatorsHoldNoVote, NoDecision
<1>4. \A v, x \in Accounts : casted[v][p] = d => (x \in Electors(v) <=> Voice(x) = v)
  BY <1>1, <1>3 DEF Electors, Voice, GraphInv, DelegationSymmetric
<1>5. \A v \in Accounts : Electors(v) \subseteq Accounts
  BY DEF Electors, GraphInv, GraphTypeOK
<1>6. PICK V : V = {x \in Accounts : casted[x][p] = d}
  OBVIOUS
<1>7. ASSUME NEW x \in UNION {Electors(v) : v \in V}
      PROVE  x \in Accounts /\ BallotOf(p)[x] = d
  <2>1. PICK v \in V : x \in Electors(v)
    BY <1>7
  <2> QED BY <1>4, <1>5, <1>6, <2>1 DEF BallotOf
<1>8. ASSUME NEW x \in Accounts, BallotOf(p)[x] = d
      PROVE  x \in UNION {Electors(v) : v \in V}
  <2>1. PICK v \in Accounts : v = Voice(x)
    BY <1>2
  <2>2. v \in V
    BY <1>6, <1>8, <2>1 DEF BallotOf
  <2>3. x \in Electors(v)
    BY <1>4, <1>6, <2>1, <2>2
  <2> QED BY <2>2, <2>3
<1> QED BY <1>6, <1>7, <1>8
LEMMA FoldOfValues ==
    ASSUME NEW S, NEW f
    PROVE  MapThenSumSet(LAMBDA a : f[a], S) = SumFunctionOnSet(f, S)
<1> DEFINE Folds(iter) == iter = [s \in SUBSET S |->
               IF s = {} THEN 0 ELSE f[Picked(s)] + iter[s \ {Picked(s)}]]
<1>1. MapThenSumSet(LAMBDA a : f[a], S) = (CHOOSE iter : Folds(iter))[S]
  BY DEF MapThenSumSet, MapThenFoldSet, Picked
<1>2. SumFunctionOnSet(f, S) = (CHOOSE iter : Iterates(f, S, iter))[S]
  BY SumDef
<1>3. \A iter : Folds(iter) <=> Iterates(f, S, iter)
  BY DEF Iterates
<1> HIDE DEF Folds
<1>4. (CHOOSE iter : Folds(iter)) = (CHOOSE iter : Iterates(f, S, iter))
  BY <1>3
<1> QED BY <1>1, <1>2, <1>4

LEMMA FoldOfBoosts ==
    ASSUME NEW S \in SUBSET Accounts, NEW p
    PROVE  MapThenSumSet(LAMBDA a : CalculateVoteScore(p,
                                        [score |-> score[a], boostHeight |-> boost[a]]), S) =
               SumFunctionOnSet(MeasureOf("voteSummary", p), S)
<1> DEFINE f == MeasureOf("voteSummary", p)
           Weight(a) == CalculateVoteScore(p, [score |-> score[a], boostHeight |-> boost[a]])
           Folds(iter) == iter = [s \in SUBSET S |->
               IF s = {} THEN 0 ELSE Weight(Picked(s)) + iter[s \ {Picked(s)}]]
<1>1. \A s \in SUBSET S : s # {} => f[Picked(s)] = Weight(Picked(s))
  <2>1. \A s \in SUBSET S : s # {} => Picked(s) \in Accounts
    BY DEF Picked
  <2> QED BY <2>1 DEF MeasureOf, Measure
<1>2. MapThenSumSet(Weight, S) = (CHOOSE iter : Folds(iter))[S]
  BY DEF MapThenSumSet, MapThenFoldSet, Picked
<1>3. SumFunctionOnSet(f, S) = (CHOOSE iter : Iterates(f, S, iter))[S]
  BY SumDef
<1> HIDE DEF f
<1>4. \A iter : Folds(iter) <=> Iterates(f, S, iter)
  <2> HIDE DEF Weight
  <2> QED BY <1>1 DEF Iterates
<1>5. (CHOOSE iter : Folds(iter)) = (CHOOSE iter : Iterates(f, S, iter))
  <2> HIDE DEF Folds
  <2> QED BY <1>4
<1> QED BY <1>2, <1>3, <1>5 DEF f

\* The accounts that are heard for d: those that voted so and whoever delegates to them
Heard(p, d) == UNION {Electors(v) : v \in {x \in Accounts : casted[x][p] = d}}

LEMMA CountedSums ==
    ASSUME GovernanceAssumption, GraphInv, DelegatorsHoldNoVote, ScoresTyped,
           NEW K, NEW p \in ProposalIds, NEW d \in Decisions, Whole(K, p), Counted(K, p)
    PROVE  /\ Heard(p, d) \in SUBSET Accounts
           /\ tally[p][K][d] = SumFunctionOnSet(MeasureOf(K, p), Heard(p, d))
<1>1. PICK M \in SUBSET Accounts : M = {x \in Accounts : BallotOf(p)[x] = d}
  OBVIOUS
<1>2. M = Heard(p, d)
  BY <1>1, ElectorsVoice DEF Heard
<1>3. PICK f : f = MeasureOf(K, p)
  OBVIOUS
<1>4. tally[p][K][d] = SumFunctionOnSet(Ballot(BallotOf(p), f, d), Accounts)
  BY <1>3 DEF Counted, Ballots
<1>5. Ballot(BallotOf(p), f, d) = Part(f, M)
  BY <1>1 DEF Ballot, Part
<1>6. SumFunctionOnSet(f, M) = SumFunctionOnSet(Part(f, M), Accounts)
  BY <1>3, WholeTyped, PartSum DEF GovernanceAssumption
<1> QED BY <1>2, <1>3, <1>4, <1>5, <1>6

LEMMA TurnoutWhole == ASSUME NEW p PROVE Whole("turnout", p)
<1>1. \A h : \A n \in Int : Measure("turnout", p, [score |-> n, boostHeight |-> h]) = 1 * n
  BY DEF Measure
<1>2. 1 \in Nat
  OBVIOUS
<1> QED BY <1>1, <1>2 DEF Whole

LEMMA QuotientOf ==
    ASSUME NEW b \in Nat \ {0}, NEW q \in Int, NEW r \in Nat, r < b
    PROVE  (b * q + r) \div b = q
OBVIOUS

\* Of the boosts of this moment, each multiplies the scores for an open proposal by a
\* whole number.
WholeBoosts ==
    \A p \in ProposalIds : Pending(p) /\ proposals[p].enableBoosting =>
        /\ proposals[p].maxBoostDuration \in Nat \ {0} /\ proposals[p].boostFactor \in Nat
        /\ \A a \in Accounts :
              (NonNegative(boost[a] - schedule[p].ends) * NonNegative(proposals[p].boostFactor - 100))
                  % (100 * proposals[p].maxBoostDuration) = 0

LEMMA SummaryWhole ==
    ASSUME QueueInv, ScoresTyped, WholeBoosts, NEW p \in ProposalIds, Pending(p)
    PROVE  Whole("voteSummary", p)
<1> SUFFICES ASSUME NEW a \in Accounts
             PROVE  \E k \in Nat : \A n \in Int :
                        Measure("voteSummary", p, [score |-> n, boostHeight |-> boost[a]]) = k * n
  BY DEF Whole
<1>1. \A n : Measure("voteSummary", p, [score |-> n, boostHeight |-> boost[a]]) =
                 CalculateVoteScore(p, [score |-> n, boostHeight |-> boost[a]])
  BY DEF Measure
<1>2. CASE ~ proposals[p].enableBoosting
  <2>1. \A n \in Int : Measure("voteSummary", p, [score |-> n, boostHeight |-> boost[a]]) = 1 * n
    BY <1>1, <1>2 DEF CalculateVoteScore
  <2>2. 1 \in Nat
    OBVIOUS
  <2> QED BY <2>1, <2>2
<1>3. CASE proposals[p].enableBoosting
  <2>1. PICK base, bonus :
            /\ base = 100 * proposals[p].maxBoostDuration
            /\ bonus = NonNegative(boost[a] - schedule[p].ends) * NonNegative(proposals[p].boostFactor - 100)
    OBVIOUS
  <2>2. base \in Nat \ {0} /\ bonus \in Nat /\ bonus % base = 0
    <3>1. /\ proposals[p].maxBoostDuration \in Nat \ {0} /\ proposals[p].boostFactor \in Nat
          /\ bonus % base = 0
      BY <1>3, <2>1 DEF WholeBoosts
    <3>2. boost[a] \in Nat /\ schedule[p].ends \in Nat
      BY DEF ScoresTyped, QueueInv, QueueTypeOK, Kinds
    <3>3. /\ NonNegative(boost[a] - schedule[p].ends) \in Nat
          /\ NonNegative(proposals[p].boostFactor - 100) \in Nat
      BY <3>1, <3>2 DEF NonNegative
    <3> QED BY <2>1, <3>1, <3>3
  <2>3. PICK m \in Nat : bonus = base * m
    <3>1. bonus \div base \in Nat /\ bonus = base * (bonus \div base) + (bonus % base)
      BY <2>2
    <3> QED BY <2>2, <3>1
  <2>4. ASSUME NEW n \in Int
        PROVE  Measure("voteSummary", p, [score |-> n, boostHeight |-> boost[a]]) = (1 + m) * n
    <3>1. Measure("voteSummary", p, [score |-> n, boostHeight |-> boost[a]]) = RoundHalfUp(n * (base + bonus), base)
      BY <1>1, <1>3, <2>1 DEF CalculateVoteScore, BoostedScore
    <3>2. 2 * (n * (base + bonus)) + base = (2 * base) * ((1 + m) * n) + base
      BY <2>2, <2>3
    <3>3. (1 + m) * n \in Int /\ 2 * base \in Nat \ {0} /\ base < 2 * base
      BY <2>2, <2>3
    <3>4. ((2 * base) * ((1 + m) * n) + base) \div (2 * base) = (1 + m) * n
      BY <2>2, <3>3, QuotientOf
    <3> QED BY <3>1, <3>2, <3>4 DEF RoundHalfUp
  <2>5. 1 + m \in Nat
    BY <2>3
  <2> QED BY <2>4, <2>5
<1> QED BY <1>2, <1>3

\* Scores are numbers, and what is read of a proposal is there.
THEOREM VoteTypesInductive == Spec => []VoteTypes
<1>1. Init => VoteTypes
  <2> SUFFICES ASSUME Init PROVE VoteTypes
    OBVIOUS
  <2>1. ScoresTyped
    BY GovernanceAssumption DEF Init, ScoresTyped, GovernanceAssumption
  <2>2. ProposalsShaped
    BY DEF Init, ProposalsShaped, Known
  <2>3. TallyShaped(tally) /\ UnopenedEmpty
    BY DEF Init, TallyShaped, UnopenedEmpty, Measures, NoVotes
  <2> QED BY <2>1, <2>2, <2>3 DEF VoteTypes
<1>2. QueueInv /\ QueueInv' /\ LifeInv /\ VoteTypes /\ [Next]_vars => VoteTypes'
  BY VoteTypesKept, GovernanceAssumption
<1> QED BY <1>1, <1>2, QueueInductive, LifeInductive, PTL DEF Spec

LEMMA NoneCounted == ASSUME Init, NEW K PROVE AllCounted(K)
BY DEF Init, AllCounted, Pending

\* Where no delegatee delegates and no account votes on two proposals at a time, the
\* turnout of a pending proposal is the score of the accounts that voted so and of their
\* delegators, each counted once, however votes, delegations, boosts and stake commands,
\* those that fail among them, interleave.
THEOREM TurnoutCounted == Spec /\ []Direct /\ []OneVote => []TurnoutIsVotedScore
<1>1. Init => AllCounted("turnout")
  BY NoneCounted
<1>2. QueueInv /\ QueueInv' /\ LifeInv /\ GraphInv /\ DelegatorsHoldNoVote
      /\ VoteTypes /\ VoteTypes' /\ Direct /\ Direct' /\ OneVote'
      /\ AllWhole("turnout") /\ AllWhole("turnout")' /\ AllCounted("turnout") /\ [Next]_vars
          => AllCounted("turnout")'
  <2>1. "turnout" \in Measures
    BY DEF Measures
  <2> QED BY <2>1, CountsKept, GovernanceAssumption
<1>3. AllWhole("turnout")
  BY TurnoutWhole DEF AllWhole
<1>4. GraphInv /\ DelegatorsHoldNoVote /\ VoteTypes /\ AllCounted("turnout") => TurnoutIsVotedScore
  <2> SUFFICES ASSUME GraphInv, DelegatorsHoldNoVote, VoteTypes, AllCounted("turnout"),
                      NEW p \in ProposalIds, NEW d \in Decisions, Pending(p)
               PROVE  tally[p].turnout[d] = MapThenSumSet(LAMBDA a : score[a],
                          UNION {Electors(v) : v \in {x \in Accounts : casted[x][p] = d}})
    BY DEF TurnoutIsVotedScore
  <2>1. MeasureOf("turnout", p) = score
    BY DEF VoteTypes, ScoresTyped, MeasureOf, Measure
  <2>2. Counted("turnout", p) /\ Whole("turnout", p) /\ ScoresTyped
    BY TurnoutWhole DEF VoteTypes, AllCounted
  <2>3. GovernanceAssumption
    BY GovernanceAssumption
  <2>4. tally[p]["turnout"][d] = SumFunctionOnSet(score, Heard(p, d))
    BY <2>1, <2>2, <2>3, CountedSums
  <2>5. MapThenSumSet(LAMBDA a : score[a], Heard(p, d)) = SumFunctionOnSet(score, Heard(p, d))
    BY FoldOfValues
  <2> QED BY <2>4, <2>5 DEF Heard
<1> QED BY <1>1, <1>2, <1>3, <1>4, QueueInductive, LifeInductive, GraphInductive,
           DelegatorsAreSilent, VoteTypesInductive, PTL DEF Spec

\* Where moreover every boost multiplies by a whole number, voteSummary is the boosted
\* score of the accounts that voted so and of their delegators: no command counts a score
\* at another boost than it was counted at before.
THEOREM SummaryCounted ==
    Spec /\ []Direct /\ []OneVote /\ []WholeBoosts => []SummaryIsBoostedScore
<1>1. Init => AllCounted("voteSummary")
  BY NoneCounted
<1>2. QueueInv /\ QueueInv' /\ LifeInv /\ GraphInv /\ DelegatorsHoldNoVote
      /\ VoteTypes /\ VoteTypes' /\ Direct /\ Direct' /\ OneVote'
      /\ AllWhole("voteSummary") /\ AllWhole("voteSummary")'
      /\ AllCounted("voteSummary") /\ [Next]_vars => AllCounted("voteSummary")'
  <2>1. "voteSummary" \in Measures
    BY DEF Measures
  <2> QED BY <2>1, CountsKept, GovernanceAssumption
<1>3. QueueInv /\ VoteTypes /\ WholeBoosts => AllWhole("voteSummary")
  BY SummaryWhole DEF AllWhole, VoteTypes
<1>4. GraphInv /\ DelegatorsHoldNoVote /\ VoteTypes /\ AllWhole("voteSummary")
      /\ AllCounted("voteSummary") => SummaryIsBoostedScore
  <2> SUFFICES ASSUME GraphInv, DelegatorsHoldNoVote, VoteTypes, AllWhole("voteSummary"),
                      AllCounted("voteSummary"),
                      NEW p \in ProposalIds, NEW d \in Decisions, Pending(p)
               PROVE  tally[p].voteSummary[d] =
                          MapThenSumSet(LAMBDA a : CalculateVoteScore(p,
                                            [score |-> score[a], boostHeight |-> boost[a]]),
                              UNION {Electors(v) : v \in {x \in Accounts : casted[x][p] = d}})
    BY DEF SummaryIsBoostedScore
  <2>1. Counted("voteSummary", p) /\ Whole("voteSummary", p) /\ ScoresTyped
    BY DEF VoteTypes, AllCounted, AllWhole
  <2>2. GovernanceAssumption
    BY GovernanceAssumption
  <2>3. /\ Heard(p, d) \in SUBSET Accounts
        /\ tally[p]["voteSummary"][d] = SumFunctionOnSet(MeasureOf("voteSummary", p), Heard(p, d))
    BY <2>1, <2>2, CountedSums
  <2>4. MapThenSumSet(LAMBDA a : CalculateVoteScore(p,
                          [score |-> score[a], boostHeight |-> boost[a]]), Heard(p, d)) =
            SumFunctionOnSet(MeasureOf("voteSummary", p), Heard(p, d))
    BY <2>3, FoldOfBoosts
  <2> QED BY <2>3, <2>4 DEF Heard
<1> QED BY <1>1, <1>2, <1>3, <1>4, QueueInductive, LifeInductive, GraphInductive,
           DelegatorsAreSilent, VoteTypesInductive, PTL DEF Spec

-------------------------------------------------------------------------------
(* Where the two conditions hold *)

\* The pairs that may delegate never make a delegatee a delegator. An account may try to
\* delegate to itself.
DirectPairs == \A x, y \in DelegationPairs : x[2] = y[1] => y[1] = y[2]

AlongPairs == \A a \in Accounts : outgoing[a] # None => <<a, outgoing[a]>> \in DelegationPairs

\* Delegations stay direct if the pairs are: the code itself refuses self-delegation.
THEOREM DirectStays == DirectPairs => (Spec => []Direct)
<1> SUFFICES ASSUME DirectPairs PROVE Spec => []Direct
  OBVIOUS
<1>1. Init => AlongPairs
  BY DEF Init, AlongPairs
<1>2. GraphTypeOK /\ AlongPairs /\ [Next]_vars => AlongPairs'
  <2> SUFFICES ASSUME GraphTypeOK, AlongPairs, [Next]_vars PROVE AlongPairs'
    OBVIOUS
  <2>1. CASE DelegateVoteCommand
    <3>1. PICK pair \in DelegationPairs : DelegateVote(pair[1], pair[2])
      BY <2>1 DEF DelegateVoteCommand
    <3>2. outgoing' = [outgoing EXCEPT ![pair[1]] = pair[2]]
      BY <3>1 DEF DelegateVote
    <3>3. pair = <<pair[1], pair[2]>>
      BY GovernanceAssumption DEF GovernanceAssumption
    <3> QED BY <3>2, <3>3 DEF AlongPairs, GraphTypeOK
  <2>2. CASE RevokeDelegatedVoteCommand
    <3>1. PICK a \in Accounts : outgoing' = [outgoing EXCEPT ![a] = None]
      BY <2>2 DEF RevokeDelegatedVoteCommand, RevokeDelegatedVote
    <3> QED BY <3>1 DEF AlongPairs, GraphTypeOK
  <2>3. CASE UNCHANGED vars \/ (Next /\ ~ DelegateVoteCommand /\ ~ RevokeDelegatedVoteCommand)
    <3>1. outgoing' = outgoing
      BY <2>3, GraphUnchanged DEF vars, accountVars
    <3> QED BY <3>1 DEF AlongPairs
  <2> QED BY <2>1, <2>2, <2>3
<1>3. GraphInv /\ AlongPairs => Direct
  <2> SUFFICES ASSUME GraphInv, AlongPairs, NEW a \in Accounts, outgoing[a] # None,
                      outgoing[outgoing[a]] # None
               PROVE  FALSE
    BY DEF Direct
  <2>1. PICK b \in Accounts : b = outgoing[a]
    BY DEF GraphInv, GraphTypeOK
  <2>2. <<a, b>> \in DelegationPairs /\ <<b, outgoing[b]>> \in DelegationPairs
    BY <2>1 DEF AlongPairs
  <2>3. outgoing[b] = b
    BY <2>2 DEF DirectPairs
  <2>4. {b} \in SUBSET Accounts /\ {b} # {}
    OBVIOUS
  <2> QED BY <2>3, <2>4 DEF GraphInv, DelegationAcyclic
<1>4. GraphInv => GraphTypeOK
  BY DEF GraphInv
<1> QED BY <1>1, <1>2, <1>3, <1>4, GraphInductive, PTL DEF Spec

\* With one proposal at a time there is no other to vote on.
THEOREM OneProposalOneVote == MaxProposals = 1 => (Spec => []OneVote)
<1> SUFFICES ASSUME MaxProposals = 1 PROVE Spec => []OneVote
  OBVIOUS
<1>1. OneVote
  BY DEF OneVote, ProposalIds
<1> QED BY <1>1, PTL
===============================================================================
