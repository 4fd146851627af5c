--------------------------- MODULE GovernableConfig ---------------------------
(***************************************************************************)
(* Governable configurations (governance/base_governable_config.ts): how a *)
(* module's configuration is read, checked and changed by a path, and what *)
(* a change does to the handlers of fee conversion that a node keeps in    *)
(* memory (fee_conversion/registry.ts).                                    *)
(*                                                                         *)
(* A configuration is a function from the paths of its leaves to values; an*)
(* array is one leaf, whose elements have paths of their own. Of the leaves*)
(* those stay that a rule of the code is about.                            *)
(***************************************************************************)
EXTENDS Integers, SequencesExt

\* The registry of configurations, in the order in which the modules register.
Configurations == <<"governance", "token_factory", "dex">>
Modules == Range(Configurations)

\* Paths of single values
Durations == <<"votingDelayDuration", "quorumDuration", "voteDuration", "executionDuration">>
QuorumMode == <<"quorumMode">>
Offset == <<"treasuryReward", "offset">>
Distance == <<"treasuryReward", "distance">>
FeeProtocol == <<"feeProtocol">>
FeeConversionEnabled == <<"feeConversionEnabled">>
IcoFeeConversionEnabled == <<"icoFeeConversionEnabled">>
NotGovernable == {<<"governGovernanceConfig">>}
GovernanceAmounts == {<<"quorumTreshold">>, <<"proposalCreationMinBalance">>}
GovernanceAddresses == {<<"treasuryAddress">>, <<"depositPoolAddress">>}

\* Of arrays
MintBracket == <<"treasuryReward", "mintBracket">>
TaxBracket == <<"treasuryReward", "blockRewardTaxBracket">>
SkippedTokenID == <<"skippedTokenID">>
FeeAmountTickSpacing == <<"feeAmountTickSpacing">>
ColorRange(part) == <<"nftPositionColorRange", part>>
ColorRanges == {ColorRange(part) : part \in {"hue", "saturation", "lightness"}}
Arrays == {MintBracket, TaxBracket, SkippedTokenID, FeeAmountTickSpacing} \cup ColorRanges

\* Of tables that have a fee for each command of a module
FeeTables == {<<"minTransactionFee">>, <<"baseFee">>}
GovernanceCommands ==
    {"createProposal", "vote", "boostVote", "delegateVote", "revokeDelegatedVote", "setProposalAttributes"}
TokenFactoryCommands ==
    {"factoryTransferOwnership", "tokenCreate", "tokenMint", "tokenBurn", "icoCreate",
     "icoChangePrice", "icoTreasurify", "icoDeposit", "icoWithdraw", "icoExactInput",
     "icoExactInputSingle", "icoExactOutput", "icoExactOutputSingle", "airdropCreate",
     "airdropEditRecipients", "airdropDistribute", "factorySetAttributes"}
\* There is none for collectTreasury.
DexCommands ==
    {"createPool", "mint", "burn", "collect", "increaseLiquidity", "decreaseLiquidity", "exactInput",
     "exactInputSingle", "exactOutput", "exactOutputSingle", "treasurify"}

\* The schemas
GovernanceLeaves ==
    NotGovernable \cup {<<d>> : d \in Range(Durations)} \cup {QuorumMode, Offset, Distance}
        \cup GovernanceAmounts \cup GovernanceAddresses \cup {MintBracket, TaxBracket} \cup FeeTables
TokenFactoryLeaves ==
    {SkippedTokenID, <<"icoLeftOverAddress">>, IcoFeeConversionEnabled, <<"icoDexPathEnabled">>}
        \cup FeeTables
DexLeaves ==
    {FeeAmountTickSpacing, FeeProtocol, <<"feeProtocolPool">>, FeeConversionEnabled, <<"supportAllTokens">>}
        \cup ColorRanges \cup FeeTables

Leaves == [m \in Modules |->
    CASE m = "governance" -> GovernanceLeaves
      [] m = "token_factory" -> TokenFactoryLeaves
      [] m = "dex" -> DexLeaves]

-----------------------------------------------------------------------------
(* The configuration a node comes with *)

\* Amounts, which may be percentages, and addresses, which may be none
Amount(n) == [percent |-> FALSE, value |-> n]
Percent(n) == [percent |-> TRUE, value |-> n]
NoAddress == "none"
Malformed == "malformed"
IsAddress(value) == value \notin {NoAddress, Malformed}

NoFees(commands) == [c \in commands |-> 0]

\* The defaults, but that 28 days are two blocks. Only createProposal burns a fee.
DefaultGovernance ==
    [leaf \in GovernanceLeaves |->
        CASE leaf \in NotGovernable -> TRUE
          [] leaf = <<"votingDelayDuration">> -> 0
          [] leaf \in {<<d>> : d \in Range(Durations) \ {"votingDelayDuration"}} -> 2
          [] leaf = QuorumMode -> 0
          [] leaf \in {Offset, Distance} -> 1
          [] leaf \in {MintBracket, TaxBracket} -> <<>>
          [] leaf = <<"quorumTreshold">> -> Percent(5)
          [] leaf = <<"proposalCreationMinBalance">> -> Amount(10)
          [] leaf \in GovernanceAddresses -> "treasury"
          [] leaf = <<"minTransactionFee">> -> NoFees(GovernanceCommands)
          [] leaf = <<"baseFee">> -> [NoFees(GovernanceCommands) EXCEPT !["createProposal"] = 10]]

DefaultTokenFactory ==
    [leaf \in TokenFactoryLeaves |->
        CASE leaf = SkippedTokenID -> <<>>
          [] leaf = <<"icoLeftOverAddress">> -> "leftover"
          [] leaf \in {IcoFeeConversionEnabled, <<"icoDexPathEnabled">>} -> FALSE
          [] leaf \in FeeTables -> NoFees(TokenFactoryCommands)]

DefaultDex ==
    [leaf \in DexLeaves |->
        CASE leaf = FeeAmountTickSpacing ->
                <<[fee |-> 100, tickSpacing |-> 1], [fee |-> 500, tickSpacing |-> 10],
                  [fee |-> 3000, tickSpacing |-> 60], [fee |-> 10000, tickSpacing |-> 200]>>
          [] leaf = FeeProtocol -> 0
          [] leaf = <<"feeProtocolPool">> -> "treasury"
          [] leaf \in {FeeConversionEnabled, <<"supportAllTokens">>} -> TRUE
          [] leaf = ColorRange("hue") -> <<0, 360>>
          [] leaf = ColorRange("saturation") -> <<70, 100>>
          [] leaf = ColorRange("lightness") -> <<50, 60>>
          [] leaf \in FeeTables -> NoFees(DexCommands)]

Default == [m \in Modules |->
    CASE m = "governance" -> DefaultGovernance
      [] m = "token_factory" -> DefaultTokenFactory
      [] m = "dex" -> DefaultDex]

\* mergeDeep: what the operator's file has of a configuration goes before the default.
Over(own, default) == [x \in DOMAIN default |-> IF x \in DOMAIN own THEN own[x] ELSE default[x]]
MergeDeep(own, default) ==
    Over([leaf \in DOMAIN own |->
             IF leaf \in FeeTables THEN Over(own[leaf], default[leaf]) ELSE own[leaf]], default)

\* init() of the configurations, in the memory of the node
InitialConfigs(own) == [m \in Modules |-> MergeDeep(own[m], Default[m])]

-----------------------------------------------------------------------------
(* Paths *)

\* The part of a path that names an element of an array, and its position.
Position == [digit \in {"0", "1", "2", "3"} |->
    CASE digit = "0" -> 1 [] digit = "1" -> 2 [] digit = "2" -> 3 [] digit = "3" -> 4]

IsElement(config, path) ==
    /\ Len(path) > 1
    /\ Front(path) \in Arrays \cap DOMAIN config
    /\ Last(path) \in DOMAIN Position
    /\ Position[Last(path)] <= Len(config[Front(path)])

\* The part of a path that names the fee of a command.
IsFee(config, path) ==
    /\ Len(path) > 1
    /\ Front(path) \in FeeTables \cap DOMAIN config
    /\ Last(path) \in DOMAIN config[Front(path)]

\* A leaf, an object that leaves are part of, or an entry of an array or a table.
PathExists(config, path) ==
    (\E leaf \in DOMAIN config : IsPrefix(path, leaf)) \/ IsElement(config, path) \/ IsFee(config, path)

\* The configuration with the value at the path; the value of an object is
\* a function of the rest of the path.
UpdateValueFromPath(config, path, value) ==
    CASE path \in DOMAIN config  -> [config EXCEPT ![path] = value]
      [] IsElement(config, path) -> [config EXCEPT ![Front(path)][Position[Last(path)]] = value]
      [] IsFee(config, path)     -> [config EXCEPT ![Front(path)][Last(path)] = value]
      [] OTHER -> [leaf \in DOMAIN config |->
                      IF IsPrefix(path, leaf) THEN value[SubSeq(leaf, Len(path) + 1, Len(leaf))]
                      ELSE config[leaf]]

\* The paths of what changed; arrays and tables are compared as a whole.
UpdatedProperties(old, new) == {leaf \in DOMAIN new : old[leaf] # new[leaf]}

-----------------------------------------------------------------------------
(* Setting a configuration *)

\* An amount, or a percentage of something
Brackets == [percent : BOOLEAN, value : Nat]

\* verifyNumberString and verifyPositiveNumber, of every command
VerifyFees(config, commands) == \A table \in FeeTables : config[table] \in [commands -> Nat]

\* What verify() and the schema of each module ask of its configuration.
VerifyGovernance(config) ==
    /\ IsAddress(config[<<"treasuryAddress">>])
    /\ config[<<"depositPoolAddress">>] # Malformed
    /\ \A d \in Range(Durations) : config[<<d>>] \in Nat
    /\ \A i \in 1 .. Len(Durations) - 1 : config[<<Durations[i]>>] <= config[<<Durations[i + 1]>>]
    /\ \A leaf \in GovernanceAmounts : config[leaf] \in Brackets
    /\ config[QuorumMode] \in 0 .. 2
    /\ \A leaf \in {Offset, Distance} : config[leaf] \in Nat /\ config[leaf] >= 1
    /\ \A leaf \in {MintBracket, TaxBracket} : config[leaf] \in Seq(Brackets)
    /\ \A leaf \in NotGovernable : config[leaf] \in BOOLEAN
    /\ VerifyFees(config, GovernanceCommands)

\* Ids of skipped tokens: the whole one of this chain, or the part after the chain's
VerifyTokenFactory(config) ==
    /\ IsAddress(config[<<"icoLeftOverAddress">>])
    /\ {config[IcoFeeConversionEnabled], config[<<"icoDexPathEnabled">>]} \subseteq BOOLEAN
    /\ config[SkippedTokenID] \in Seq([length : {8}, hex : {TRUE}] \cup [length : {16}, ours : {TRUE}])
    /\ VerifyFees(config, TokenFactoryCommands)

\* Where colors of positions begin; they may end above.
ColorsUpTo(part) == IF part = "hue" THEN 360 ELSE 100
VerifyDex(config) ==
    /\ config[FeeAmountTickSpacing] \in Seq([fee : Nat, tickSpacing : Nat])
    /\ config[FeeProtocol] \in Nat
    /\ config[<<"feeProtocolPool">>] # Malformed
    /\ {config[FeeConversionEnabled], config[<<"supportAllTokens">>]} \subseteq BOOLEAN
    /\ VerifyFees(config, DexCommands)
    /\ \A part \in {"hue", "saturation", "lightness"} :
          LET range == config[ColorRange(part)]
          IN  /\ range \in Seq(Nat) /\ Len(range) >= 2
              /\ range[1] <= ColorsUpTo(part) /\ range[1] <= range[2]

Verify(m, config) ==
    CASE m = "governance" -> VerifyGovernance(config)
      [] m = "token_factory" -> VerifyTokenFactory(config)
      [] m = "dex" -> VerifyDex(config)

\* A mutant: what the module itself asks for is not verified.
CanSetGovernable(m, config, new) == UpdatedProperties(config, new) \cap NotGovernable = {}

\* _setConfigHandler with the check of governability, which looks at the
\* paths of what changed and not at the path that was asked for.
CanSet(m, config, new) ==
    /\ Verify(m, new)
    /\ UpdatedProperties(config, new) \cap NotGovernable = {}

\* setConfigWithPath: the configuration that takes the place of the old one, in a
\* set that is empty if the action throws.
SetConfigWithPath(config, action) ==
    IF PathExists(config, action.path)
    THEN {new \in {UpdateValueFromPath(config, action.path, action.value)} :
             CanSet(action.module, config, new)}
    ELSE {}

-----------------------------------------------------------------------------
(* The handlers of fee conversion, by module and command *)

Transfer == "token:transfer"
Swap == "dex:exactInput"
Purchase == "token_factory:icoExactInput"
Keys == {Transfer, Swap, Purchase}
NoHandlers == [k \in Keys |-> <<>>]

\* Mutants: a handler is added again, or taken out where it should be replaced.
RegisterAgain(methods, name) == Append(methods, name)
RegisterToggles(methods, name) ==
    IF name \in Range(methods) THEN RemoveFirst(methods, name) ELSE Append(methods, name)

\* Replaced in place, or added at the end.
Register(methods, name) ==
    IF name \in Range(methods) THEN methods ELSE Append(methods, name)

Unregister(methods, name) == RemoveFirst(methods, name)

\* The commands a module converts fees for, and the leaf that switches it on.
KeysOf(m) == CASE m = "dex" -> {Transfer, Swap}
               [] m = "token_factory" -> {Transfer, Purchase}
               [] m = "governance" -> {}
Enables(m, config) == CASE m = "dex" -> config[FeeConversionEnabled]
                        [] m = "token_factory" -> config[IcoFeeConversionEnabled]
                        [] m = "governance" -> FALSE

\* afterSetConfig, of the dex and of token_factory: for the transfers and for the
\* commands of their own.
AfterSetConfig(handlers, m, config) ==
    LET Changed(methods) == IF Enables(m, config) THEN Register(methods, m) ELSE Unregister(methods, m)
    IN  CASE m = "dex" -> [handlers EXCEPT ![Transfer] = Changed(@), ![Swap] = Changed(@)]
          [] m = "token_factory" -> [handlers EXCEPT ![Transfer] = Changed(@), ![Purchase] = Changed(@)]
          [] m = "governance" -> handlers

\* initRegisteredConfig of every configuration in the registry.
AfterInit(handlers, configs) ==
    LET after[i \in 0 .. Len(Configurations)] ==
            IF i = 0 THEN handlers
            ELSE AfterSetConfig(after[i - 1], Configurations[i], configs[Configurations[i]])
    IN  after[Len(Configurations)]
===============================================================================
