----------------------------- MODULE TokenLedger -----------------------------
(***************************************************************************)
(* The token module of the SDK, as the modules of swaptoshi use it: tokens *)
(* are initialised once, minted, burnt and transferred. What a module      *)
(* locks is kept by the specification of that module. A method that throws *)
(* undoes the whole transaction, so its condition is a guard.              *)
(***************************************************************************)
EXTENDS Integers, FiniteSetsExt, Functions

CONSTANTS
    Holders,        \* the addresses that hold tokens
    Users,          \* those that can sign a transaction
    TokenIds,       \* the local token ids
    GenesisTokens,  \* the tokens that exist from the genesis block on
    InitBalance,    \* available at genesis, per token and holder
    MaxSupply,      \* stands for 2^64 - 1, the limit of a supply
    Transfers       \* the amounts that holders send to each other

ASSUME LedgerAssumption ==
    /\ IsFiniteSet(Holders)
    /\ Users \subseteq Holders
    /\ GenesisTokens \subseteq TokenIds
    /\ InitBalance \in [TokenIds -> [Holders -> Nat]]
    /\ \A id \in TokenIds \ GenesisTokens, a \in Holders : InitBalance[id][a] = 0
    /\ MaxSupply \in Nat
    /\ Transfers \subseteq Nat

VARIABLES
    initialized,    \* the tokens that exist
    supply,         \* the total supply of a token
    available       \* the available balance, per token and holder

ledgerVars == <<initialized, supply, available>>

SumOver(f) == SumFunctionOnSet(f, Holders)

LedgerInit ==
    /\ initialized = GenesisTokens
    /\ available = InitBalance

IsTokenIDAvailable(id) == id \notin initialized

\* What is available after a transfer; a transfer to oneself changes nothing.
Transferred(id, from, to, n) == [available EXCEPT ![id][from] = @ - n, ![id][to] = @ + n]

\* The transfer command of the token module.
TokenTransfer(id, from, to) ==
    \E n \in Transfers :
        /\ id \in initialized
        /\ available[id][from] >= n
        /\ available' = Transferred(id, from, to, n)
        /\ UNCHANGED <<initialized, supply>>
===============================================================================
