---------------------------- MODULE ConfiguredNodes ----------------------------
(***************************************************************************)
(* Nodes that execute a chain whose blocks change configurations. What a   *)
(* configuration is lies in the state store, which the engine reverts and  *)
(* keeps over a restart; the handlers of fee conversion lie in the memory  *)
(* of the node (fee_conversion/registry.ts), which afterSetConfig changes  *)
(* and the engine knows nothing of.                                        *)
(*                                                                         *)
(* A block is what the heights before it planned and what its transactions *)
(* need: the configuration actions of the proposal its queue executes, and *)
(* whether one of its swaps pays its fee by a conversion. The queue itself *)
(* is modelled in Governance, conversions in FeeConversion.                *)
(***************************************************************************)
EXTENDS TreasuryReward

CONSTANTS Nodes,            \* the nodes
          OwnFiles,         \* configuration files of operators: what is not the default
          ActionLists,      \* the actions of proposals, the n-th of which a block may execute
          NeedyAt,          \* heights at which a sender without the native token wants to swap
          BlockReward,      \* [1 .. MaxHeight -> Nat], by the dynamic reward module
          MaxHeight,        \* bounds: the length of the chain,
          MaxForks,         \* blocks that are replaced by another,
          MaxRestarts       \* [Nodes -> Nat], and restarts of each node

ASSUME ConstantsAssumption ==
    /\ MaxHeight \in Nat /\ MaxForks \in Nat /\ MaxRestarts \in [Nodes -> Nat]
    /\ BlockReward \in [1 .. MaxHeight -> Nat]
    /\ \A own \in OwnFiles : DOMAIN own = Modules /\ \A m \in Modules : DOMAIN own[m] \subseteq Leaves[m]
    /\ \A proposal \in DOMAIN ActionLists :
           /\ Len(ActionLists[proposal]) \in Nat
           /\ \A i \in 1 .. Len(ActionLists[proposal]) : ActionLists[proposal][i].module \in Modules

\* The configurations that nodes come with
Files == {InitialConfigs(own) : own \in OwnFiles}

VARIABLES chain,      \* the blocks the network agrees on, the last of which may be replaced
          nodes,      \* node -> its process, memory and state store
          forks, restarts

vars == <<chain, nodes, forks, restarts>>

Init ==
    /\ chain = <<>>
    /\ \E file \in Files :
         nodes = [n \in Nodes |->
             [file |-> file, running |-> FALSE, handlers |-> NoHandlers,
              executed |-> <<>>, stores |-> <<>>, steady |-> TRUE]]
    /\ forks = 0
    /\ restarts = [n \in Nodes |-> 0]

Height(node) == Len(node.executed)

\* initGenesisState: no node gets past its genesis block with a configuration
\* that the first block could not store.
VerifyGovernableConfig(file) == \A m \in Modules : Verify(m, file[m])

Start(n) ==
    /\ ~nodes[n].running
    /\ Height(nodes[n]) = 0 => VerifyGovernableConfig(nodes[n].file)
    /\ nodes' = [nodes EXCEPT ![n].running = TRUE, ![n].handlers = NoHandlers]
    /\ UNCHANGED <<chain, forks, restarts>>

-----------------------------------------------------------------------------
(* Executing a block *)

\* A mutant: a node that was started initializes again, to have its handlers registered.
ConfiguredAtStart(node) ==
    LET minted == IF Height(node) = 0 THEN [treasury |-> 0, generator |-> 0] ELSE Last(node.stores)
        again  == Height(node) = 0 \/ node.handlers = NoHandlers
    IN  [configs |-> IF again THEN node.file ELSE Last(node.stores).configs,
         handlers |-> IF again THEN AfterInit(node.handlers, node.file) ELSE node.handlers,
         treasury |-> minted.treasury, generator |-> minted.generator, failed |-> FALSE]

\* initializeGovernableConfig: what is in the store before the transactions of
\* a block, and the handlers that are registered by then.
Configured(node) ==
    IF Height(node) = 0
    THEN [configs |-> node.file, handlers |-> AfterInit(node.handlers, node.file),
          treasury |-> 0, generator |-> 0, failed |-> FALSE]
    ELSE LET store == Last(node.stores)
         IN  [configs |-> store.configs, handlers |-> node.handlers,
              treasury |-> store.treasury, generator |-> store.generator, failed |-> FALSE]

\* The first block can be executed.
Initializes(node) == Height(node) = 0 => \A m \in Modules : Verify(m, node.file[m])

\* addTreasuryReward, before the queue; the dynamic reward module mints what is left.
Rewarded(state, height) ==
    LET config == state.configs["governance"]
        reward == BlockReward[height]
    IN  [state EXCEPT !.treasury = @ + TreasuryGets(config, height, reward),
                      !.generator = @ + NonNegative(RewardContext(config, height, reward))]

Applied(state, m, new) ==
    [state EXCEPT !.configs[m] = new, !.handlers = AfterSetConfig(@, m, new)]

\* The actions of an accepted proposal, up to the first that throws; what went
\* before it stays. States are in sets of one.
RunAction(state, action) ==
    LET accepted == IF state.failed THEN {} ELSE SetConfigWithPath(state.configs[action.module], action)
    IN  IF accepted = {} THEN {[state EXCEPT !.failed = TRUE]}
        ELSE {Applied(state, action.module, new) : new \in accepted}

AfterAction(states, action) == UNION {RunAction(state, action) : state \in states}

RunActions(start, actions) ==
    LET run[i \in 0 .. Len(actions)] ==
            IF i = 0 THEN {start} ELSE AfterAction(run[i - 1], actions[i])
    IN  run[Len(actions)]

\* What the node can come to by the block, in a set: one state.
Executed(node, block) ==
    UNION {RunActions(Rewarded(state, Height(node) + 1), ActionLists[block.proposal])
              : state \in {Configured(node)}}

\* The store of the block is kept with it, to be taken back with it.
WithBlock(node, block, after) ==
    [node EXCEPT !.handlers = after.handlers,
                 !.executed = Append(@, block),
                 !.stores = Append(@, [configs |-> after.configs, treasury |-> after.treasury,
                                       generator |-> after.generator])]

\* A swap without the native token for its fee goes through where conversion is registered.
Converts(node) == Configured(node).handlers[Swap] # <<>>

\* A node follows the chain: its next block is the chain's.
OnChain(node) == IsPrefix(node.executed, chain)

-----------------------------------------------------------------------------
(* The chain *)

\* A node whose memory never parted from its store generates the next block. It
\* runs the hooks once to make the block, and again to execute it.
Forge(n, proposal) ==
    LET node == nodes[n]
        block == [proposal |-> proposal, converts |-> Height(node) + 1 \in NeedyAt /\ Converts(node)]
    IN  /\ node.running /\ node.steady
        /\ node.executed = chain /\ Len(chain) < MaxHeight
        /\ Initializes(node)
        /\ chain' = Append(chain, block)
        /\ \E made \in Executed(node, block) :
           \E after \in Executed([node EXCEPT !.handlers = made.handlers], block) :
              nodes' = [nodes EXCEPT ![n] = WithBlock(node, block, after)]
        /\ UNCHANGED <<forks, restarts>>

\* A node executes the next block of the chain; where a swap of the block cannot
\* pay its fee the node comes to another state and rejects the block.
Execute(n) ==
    LET node == nodes[n]
    IN  /\ node.running
        /\ OnChain(node) /\ Height(node) < Len(chain)
        /\ Initializes(node)
        /\ chain[Height(node) + 1].converts => Converts(node)
        /\ \E after \in Executed(node, chain[Height(node) + 1]) :
              nodes' = [nodes EXCEPT ![n] = WithBlock(node, chain[Height(node) + 1], after)]
        /\ UNCHANGED <<chain, forks, restarts>>

\* The network settles on another last block than some nodes have executed.
Fork(proposal) ==
    /\ forks < MaxForks
    /\ Len(chain) > 1
    /\ proposal # Last(chain).proposal
    /\ chain' = [chain EXCEPT ![Len(chain)] = [proposal |-> proposal, converts |-> FALSE]]
    /\ forks' = forks + 1
    /\ UNCHANGED <<nodes, restarts>>

\* The engine takes a block back: its state goes, the memory stays.
Revert(n) ==
    /\ nodes[n].running
    /\ ~OnChain(nodes[n])
    /\ nodes' = [nodes EXCEPT ![n].executed = Front(@), ![n].stores = Front(@), ![n].steady = FALSE]
    /\ UNCHANGED <<chain, forks, restarts>>

\* A node stops, and its operator may change the file once the configuration is
\* on the chain. It comes back through Start.
Restart(n, file) ==
    /\ restarts[n] < MaxRestarts[n]
    /\ nodes[n].running
    /\ file = nodes[n].file \/ Height(nodes[n]) > 0
    /\ nodes' = [nodes EXCEPT ![n].running = FALSE, ![n].handlers = NoHandlers, ![n].file = file,
                              ![n].steady = Height(nodes[n]) = 0]
    /\ restarts' = [restarts EXCEPT ![n] = @ + 1]
    /\ UNCHANGED <<chain, forks>>

Next ==
    \/ \E n \in Nodes : Start(n)
    \/ \E n \in Nodes, proposal \in DOMAIN ActionLists : Forge(n, proposal)
    \/ \E n \in Nodes : Execute(n)
    \/ \E proposal \in DOMAIN ActionLists : Fork(proposal)
    \/ \E n \in Nodes : Revert(n)
    \/ \E n \in Nodes, file \in Files : Restart(n, file)

\* Nodes are started and follow the chain, one step at a time, and generators have slots.
Fairness ==
    /\ \A n \in Nodes : WF_vars(Start(n) \/ Execute(n) \/ Revert(n))
    /\ WF_vars(\E n \in Nodes, proposal \in DOMAIN ActionLists : Forge(n, proposal))

Spec == Init /\ [][Next]_vars /\ Fairness

-----------------------------------------------------------------------------
(* Properties *)

\* What executed blocks left in a store.
StoresOf(n) == {nodes[n].stores[i] : i \in 1 .. Height(nodes[n])}

\* The heights are those of the stores, and every configuration that any sequence
\* of actions, also of proposals that fail half way, leaves in a store is one
\* that verify() accepts, with nothing changed that no proposal may change.
TypeOK ==
    /\ Len(chain) <= MaxHeight
    /\ \A n \in Nodes :
        /\ Len(nodes[n].stores) = Height(nodes[n])
        /\ \A store \in StoresOf(n), m \in Modules :
            /\ DOMAIN store.configs[m] = Leaves[m]
            /\ Verify(m, store.configs[m])
        /\ \A store \in StoresOf(n), leaf \in NotGovernable :
            store.configs["governance"][leaf] = nodes[n].stores[1].configs["governance"][leaf]

\* Nodes that executed the same blocks have the same stores, whatever they were
\* reverted from before, and whatever their restarts and their files.
NodesAgreeOnConfig ==
    \A n1, n2 \in Nodes : \A height \in 1 .. Height(nodes[n1]) :
        (/\ height <= Height(nodes[n2])
         /\ SubSeq(nodes[n1].executed, 1, height) = SubSeq(nodes[n2].executed, 1, height))
        => nodes[n1].stores[height] = nodes[n2].stores[height]

\* The schedule of the configuration: bracket i is for the i-th period of the
\* distance from the offset on; the first also for the heights before, and the
\* last for those after.
ScheduledFor(config, i, periods, height) ==
    /\ i > 1 => height >= config[Offset] + (i - 1) * config[Distance]
    /\ i < periods => height < config[Offset] + i * config[Distance]
Scheduled(config, brackets, height, reward) ==
    IF config[brackets] = <<>> THEN 0
    ELSE LET periods == Len(config[brackets])
         IN  ParseBigintOrPercentage(
                 config[brackets][CHOOSE i \in 1 .. periods : ScheduledFor(config, i, periods, height)],
                 reward)

\* A block mints what the configuration before its own queue schedules for its
\* height; the tax comes out of the generator's reward, all of which is minted.
RewardsOnSchedule ==
    \A n \in Nodes : \A height \in 2 .. Height(nodes[n]) :
        LET before == nodes[n].stores[height - 1]
            after  == nodes[n].stores[height]
            config == before.configs["governance"]
            reward == BlockReward[height]
            tax    == Scheduled(config, TaxBracket, height, reward)
        IN  /\ after.treasury - before.treasury
                   = tax + Scheduled(config, MintBracket, height, reward)
            /\ tax <= reward => after.generator - before.generator = reward - tax

\* Fee conversion is registered for the commands of just the modules whose
\* configuration asks for it.
HandlersMatch(node) ==
    \A k \in Keys :
        Range(node.handlers[k]) =
            {m \in Modules : k \in KeysOf(m) /\ Enables(m, Last(node.stores).configs[m])}

\* While a node neither restarts nor reverts, its handlers are those of its
\* configuration, each once: also if the actions of a proposal fail half way, and
\* if it ran the blocks twice to generate them.
HandlersFollowWhileSteady ==
    \A n \in Nodes :
        nodes[n].steady /\ Height(nodes[n]) > 0 =>
            HandlersMatch(nodes[n]) /\ \A k \in Keys : IsInjective(nodes[n].handlers[k])

\* Every running node's handlers are those of its configuration
\* (base_governable_config.ts: "Hook called after on-chain config is changed").
HandlersFollowConfig ==
    \A n \in Nodes : nodes[n].running /\ Height(nodes[n]) > 0 => HandlersMatch(nodes[n])

\* If a node starts at all the chain begins, and a node that goes on without a restart
\* above genesis and without reverting a block comes to execute the whole chain.
EveryNodeCatchesUp ==
    /\ (\E n \in Nodes : nodes[n].running) ~> chain # <<>>
    /\ \A n \in Nodes : <>[](nodes[n].steady => nodes[n].executed = chain)
===============================================================================
