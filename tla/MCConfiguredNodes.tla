--------------------------- MODULE MCConfiguredNodes ---------------------------
(***************************************************************************)
(* Instances of ConfiguredNodes for TLC.                                   *)
(***************************************************************************)
EXTENDS ConfiguredNodes

CONSTANTS n1, n2

OneRestarts == (n1 :> 1) @@ (n2 :> 0)

\* A file with two brackets of one block each from height 2 on; conversion by the dex.
File(delay, ico) ==
    [m \in Modules |->
        CASE m = "dex" -> <<>>
          [] m = "token_factory" -> (IcoFeeConversionEnabled :> ico)
          [] m = "governance" ->
               (Offset :> 2) @@ (MintBracket :> <<Amount(3), Percent(10)>>) @@ (TaxBracket :> <<Percent(25)>>)
                   @@ (<<"votingDelayDuration">> :> delay)
                   @@ (<<"baseFee">> :> ("vote" :> 1))]
\* One that no node starts with: its voting delay is longer than its votes.
SomeFiles == {File(1, FALSE), File(3, TRUE)}

Set(module, path, value) == [module |-> module, path |-> path, value |-> value]
Rewards == (<<"offset">> :> 1) @@ (<<"distance">> :> 2)
               @@ (<<"mintBracket">> :> <<Amount(5)>>)
               @@ (<<"blockRewardTaxBracket">> :> <<Amount(0), Percent(50)>>)
\* Proposals that fail, at once or after their first actions: at what verify() refuses,
\* at an element of an array that is not there any more, and at what cannot be governed.
SomeActions == <<
    <<Set("dex", ColorRange("hue") \o <<"0">>, 361), Set("dex", FeeConversionEnabled, FALSE)>>,
    <<Set("dex", FeeConversionEnabled, FALSE), Set("governance", <<"treasuryReward">>, Rewards),
      Set("token_factory", IcoFeeConversionEnabled, FALSE), Set("dex", <<"baseFee", "mint">>, 7),
      Set("governance", MintBracket \o <<"1">>, Amount(8)), Set("dex", FeeConversionEnabled, TRUE)>>,
    <<Set("token_factory", IcoFeeConversionEnabled, TRUE), Set("dex", FeeConversionEnabled, TRUE),
      Set("governance", MintBracket \o <<"0">>, Amount(8)), Set("governance", <<"governGovernanceConfig">>, FALSE)>> >>
SomeRewards == <<10, 22, 40>>
===============================================================================
