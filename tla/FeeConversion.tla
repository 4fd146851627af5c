----------------------------- MODULE FeeConversion -----------------------------
(***************************************************************************)
(* A transaction on its way through the hooks of the modules. If its       *)
(* sender lacks the native token for the fee, fee_conversion buys what is  *)
(* missing with the token that the sender gives, before the fee is taken   *)
(* and the command runs. The transactions here are the swap commands of    *)
(* the dex, the purchase commands of token_factory and the transfers of    *)
(* the token module, with their handlers registered. A transfer to a pool  *)
(* is a swap: after the command the pool swaps what it has been sent.      *)
(***************************************************************************)
EXTENDS IcoRouter

CONSTANTS
    Native,             \* the token of fees
    FeeTiers,           \* config.feeAmountTickSpacing of the dex, its fees in order
    ConversionPaths,    \* config.conversionPath, in order
    Commands,           \* what is sent: [name, exactInput, payer, path, amount,
                        \* recipient, bound, limit, tokenOut]
                        \* tokenOut: what an ICO sells, or None
    TxFees,             \* fees of transactions
    ByteFee,            \* what the fee module asks for the bytes of one
    MinTransactionFee, BaseFee,     \* config of the module, by name of the command
    Donations,          \* <<account, token, amount>>
    MaxTransactions,    \* bound of transactions
    MaxEvents           \* bound of donations and the like in between

\* FeeConversionGovernableConfig.verify
AcceptedPath(path) == path[1] = Native /\ Len(path) >= 3 /\ (Len(path) - 3) % 2 = 0

SwapNames == {"exactInput", "exactInputSingle", "exactOutput", "exactOutputSingle"}
PurchaseNames == {"icoExactInput", "icoExactInputSingle", "icoExactOutput", "icoExactOutputSingle"}

\* A path of a purchase may be a token alone, and that of a transfer is what it sends.
IsPath(path) == path \in Seq(Nat) /\ Len(path) % 2 = 1
IsCommand(c) ==
    /\ c \in [name : SwapNames \cup PurchaseNames \cup {"transfer"}, exactInput : BOOLEAN,
              payer : {Sender}, path : Seq(Nat), amount : Nat, recipient : Accounts \cup {Zero},
              bound : Nat, limit : Nat \cup {None}, tokenOut : Tokens \cup {None}]
    /\ IsPath(c.path)
    /\ c.exactInput <=> c.name \notin {"exactOutput", "exactOutputSingle",
                                       "icoExactOutput", "icoExactOutputSingle"}
    /\ c.name \in SwapNames => Len(c.path) >= 3
    /\ c.name \notin SwapNames => c.recipient \in Accounts
    /\ c.name = "transfer" => Len(c.path) = 1 /\ c.path[1] \in Tokens
CommandsAre == \A c \in Commands : IsCommand(c)

\* The configurations of the dex and of the module
TiersAre == FeeTiers \in Seq(0 .. FeeUnit - 1)
ConversionPathsAre ==
    /\ ConversionPaths \in Seq(Seq(Nat))
    /\ \A i \in DOMAIN ConversionPaths : AcceptedPath(ConversionPaths[i])
BaseFeesAre ==
    /\ BaseFee \in [DOMAIN MinTransactionFee -> Nat]
    /\ \A name \in DOMAIN MinTransactionFee : MinTransactionFee[name] \in Nat

ASSUME FeeConversionAssumption ==
    /\ CommandsAre /\ TiersAre /\ ConversionPathsAre /\ BaseFeesAre
    /\ Native \in Tokens
    /\ TxFees \subseteq Nat /\ ByteFee \in Nat /\ MaxTransactions \in Nat /\ MaxEvents \in Nat
    /\ Donations \subseteq (PoolKeys \cup {Router}) \X Tokens \X (Nat \ {0})

VARIABLES
    tx,         \* the transaction that is executed, or None
    events      \* how many transactions there have been, and other events

vars == <<routerVars, icoVars, tx, events>>

Init == /\ RouterInit
        /\ purchase = None /\ bought = None
        /\ tx = None
        /\ events = [transactions |-> 0, others |-> 0]

-------------------------------------------------------------------------------
(* The handlers: what a transaction gives, and how much *)

IsPurchase(command) == command.name \in PurchaseNames
IsTransfer(command) == command.name = "transfer"

\* isSwapByTransfer of the dex and of token_factory
IsSwapAtPool(command) == IsTransfer(command) /\ command.recipient \in PoolKeys
IsSwapAtIco(command) == IsTransfer(command) /\ command.recipient \in DOMAIN ICOs

\* Of transfers, only those that are swaps have something to say.
HasHandler(command) == IsTransfer(command) => IsSwapAtPool(command) \/ IsSwapAtIco(command)

TokenIn(command) == IF command.exactInput THEN command.path[1] ELSE LastToken(command.path)

\* What a swap is expected to take
SwapTxAmount(command) ==
    IF command.exactInput THEN command.amount
    ELSE QuoteExactOutput(pools, command.path, command.amount, command.limit)

\* What a purchase is expected to take
PurchaseTxAmount(command) ==
    IF command.exactInput THEN command.amount
    ELSE IF command.name = "icoExactOutput" THEN IcoQuoteExactOutput(pools, command)
    ELSE IF IcoPathExists(command) THEN IcoAmountIn(command) ELSE Error

TxAmount(command) ==
    IF IsTransfer(command) THEN command.amount
    ELSE IF IsPurchase(command) THEN PurchaseTxAmount(command) ELSE SwapTxAmount(command)

LacksFee(fee) == balance[Sender][Native] < fee

-------------------------------------------------------------------------------
(* executeHandlers: how to buy what is missing *)

PoolExists(tokenA, tokenB, fee) == PoolKey(tokenA, tokenB, fee) \in PoolKeys
FirstPoolExists(path) == PoolExists(path[1], path[3], path[2])

\* _verifyPath goes on after all of a pool, its second token included: what it reads next
\* begins with a fee, and there is no such pool.
VerifyPath(path) == FirstPoolExists(path) /\ ~HasMultiplePools(path)

\* Of a path of two pools a fee and a token are left then: the pool that it asks for has
\* no second token, and PoolAddress throws.
VerifyThrows(path) == FirstPoolExists(path) /\ NumPools(path) = 2

\* PoolAddress throws as well when it is asked for the pool of a token with itself.
HandlerThrows(token) ==
    \E fee \in Range(FeeTiers) :
        \/ token = Native
        \/ \E path \in Range(ConversionPaths) :
              \/ token = LastToken(path)
              \/ PoolExists(token, LastToken(path), fee) /\ VerifyThrows(path)

\* The paths that are tried, and when; a pool of the native token for each tier
NativePaths(token) ==
    {[custom |-> 0, at |-> i, path |-> <<Native, FeeTiers[i], token>>] :
        i \in {n \in DOMAIN FeeTiers : PoolExists(token, Native, FeeTiers[n])}}

\* The configured paths, each with a last hop to the token, by tier and then by path
CustomPaths(token) ==
    LET Usable(fee, path) == PoolExists(token, LastToken(path), fee) /\ VerifyPath(path)
    IN  {[custom |-> 1, at |-> n[1] * Len(ConversionPaths) + n[2],
          path |-> ConversionPaths[n[2]] \o <<FeeTiers[n[1]], token>>] :
            n \in {m \in (DOMAIN FeeTiers) \X (DOMAIN ConversionPaths) :
                      Usable(FeeTiers[m[1]], ConversionPaths[m[2]])}}

\* What is bought
AmountMissing(fee) == fee - balance[Sender][Native]

\* A pool of the native token comes before any path, then what is cheaper, then what has
\* been found first.
Prefers(q, r) ==
    \/ q.custom < r.custom
    \/ q.custom = r.custom /\ q.amountIn < r.amountIn
    \/ q.custom = r.custom /\ q.amountIn = r.amountIn /\ q.at <= r.at

\* What a transaction converts, or None, or Error
Conversion(command, fee) ==
    LET quotes == {[custom |-> p.custom, at |-> p.at, path |-> p.path,
                    amountIn |-> QuoteExactOutput(pools, p.path, AmountMissing(fee), None)] :
                   p \in NativePaths(TokenIn(command)) \cup CustomPaths(TokenIn(command))}
        found == {q \in quotes : q.amountIn # Error}
    IN  IF HandlerThrows(TokenIn(command)) THEN Error
        ELSE IF found = {} THEN None ELSE CHOOSE q \in found : \A r \in found : Prefers(q, r)

\* What comes of the handler, which has nothing to say when the fee is there
Plan(command, fee) ==
    LET converts == HasHandler(command) /\ LacksFee(fee)
    IN  [command |-> command, fee |-> fee,
         conversion |-> IF converts THEN Conversion(command, fee) ELSE None,
         txAmount |-> IF converts THEN TxAmount(command) ELSE 0]

\* Mutant: the amount of the transaction itself is not counted.
ConversionOnly(plan) == plan.conversion.amountIn
\* What verify demands of the token that is converted
Demanded(plan) == plan.conversion.amountIn + plan.txAmount

\* verifyMinimumFee and verifyBaseFee, of the modules that know the command
HasMinimumFee(plan) ==
    plan.command.name \in DOMAIN MinTransactionFee =>
        plan.fee >= MinTransactionFee[plan.command.name]
HasBaseFee(plan) ==
    plan.command.name \in DOMAIN BaseFee => plan.fee >= BaseFee[plan.command.name]

\* verifyValidTransfer: nothing is sent to the router.
IsValidTransfer(command) == IsTransfer(command) => command.recipient # Router

\* verifySwapByTransfer of the dex and of token_factory: a pool takes its own tokens, an
\* ICO only what it is paid with.
SuitsPool(command) ==
    IsSwapAtPool(command) => command.path[1] \in {command.recipient[1], command.recipient[2]}
SuitsIco(command) == IsSwapAtIco(command) => command.path[1] = command.recipient[1]

\* The fee module looks at the bytes only, the token module at the amount.
OthersAgree(plan) ==
    /\ plan.fee >= ByteFee
    /\ IsTransfer(plan.command) => balance[Sender][plan.command.path[1]] >= plan.command.amount

\* The modules, in the order in which they verify a transaction
ModulesAgree(plan) ==
    /\ OthersAgree(plan)
    /\ SuitsIco(plan.command)
    /\ HasMinimumFee(plan) /\ HasBaseFee(plan)
    /\ IsValidTransfer(plan.command)
    /\ SuitsPool(plan.command)

\* InternalFeeConversionMethod.verify, the other modules, and verify of the command. The
\* handler throws also if it cannot quote.
Verified(plan) ==
    /\ ModulesAgree(plan)
    /\ IsPurchase(plan.command) => IcoPathExists(plan.command)
    /\ plan.txAmount # Error
    /\ plan.conversion # Error
    /\ IF plan.conversion # None
       THEN balance[Sender][TokenIn(plan.command)] >= Demanded(plan)
       ELSE ~LacksFee(plan.fee)

-------------------------------------------------------------------------------
(* A transaction, from its verification to the end of its command *)

Idle == tx = None /\ call = None /\ purchase = None
Sent == events.transactions < MaxTransactions /\ events' = [events EXCEPT !.transactions = @ + 1]
Event == events.others < MaxEvents /\ events' = [events EXCEPT !.others = @ + 1]

Reject(plan) ==
    /\ ~Verified(plan)
    /\ UNCHANGED <<routerVars, icoVars, tx>>

\* beforeCommandExecute: a conversion is an exact output with the quote as its maximum.
Convert(plan) ==
    /\ Verified(plan)
    /\ plan.conversion # None
    /\ ExactOutput(plan.conversion.path, AmountMissing(plan.fee), Sender,
                   plan.conversion.amountIn, None)
    /\ tx' = [plan |-> plan, stage |-> "converting", start |-> Now]
    /\ bought' = None
    /\ UNCHANGED purchase

\* Nothing is missing.
NoConversion(plan) ==
    /\ Verified(plan)
    /\ plan.conversion = None
    /\ tx' = [plan |-> plan, stage |-> "fee", start |-> Now]
    /\ result' = None
    /\ bought' = None
    /\ UNCHANGED <<pools, balance, locked, hasTreasury, call, before, purchase>>

Converted ==
    /\ tx # None /\ tx.stage = "converting" /\ call = None
    /\ tx' = IF result.ok THEN [tx EXCEPT !.stage = "fee"] ELSE None
    /\ UNCHANGED <<routerVars, icoVars, events>>

FeeIsThere == balance[Sender][Native] >= tx.plan.fee

\* The fee module comes next: it takes the fee.
TakeFee ==
    /\ tx # None /\ tx.stage = "fee"
    /\ FeeIsThere
    /\ balance' = [balance EXCEPT ![Sender][Native] = @ - tx.plan.fee]
    /\ result' = None
    /\ tx' = [tx EXCEPT !.stage = "base"]
    /\ UNCHANGED <<pools, locked, hasTreasury, call, before, icoVars, events>>

\* What is left of the fee for modules: beforeCommandExecute of fee_conversion has taken
\* what the bytes cost.
AvailableFee == tx.plan.fee - ByteFee
PaysBaseFee == tx.plan.command.name \in DOMAIN BaseFee => AvailableFee >= BaseFee[tx.plan.command.name]

\* executeBaseFee, though verifyBaseFee has looked at the whole fee
ExecuteBaseFee ==
    /\ tx # None /\ tx.stage = "base"
    /\ PaysBaseFee
    /\ tx' = [tx EXCEPT !.stage = "command"]
    /\ UNCHANGED <<routerVars, icoVars, events>>

\* The commands. If one fails, the fee and the conversion stay.
RunsNow(command, name) ==
    /\ tx # None /\ tx.stage = "command"
    /\ command = tx.plan.command /\ command.name = name
    /\ tx' = [tx EXCEPT !.stage = "running"]
    /\ UNCHANGED <<events>>

SwapsInput(c) ==
    /\ ExactInput(c.path, c.amount, c.recipient, c.bound, c.limit)
    /\ bought' = None /\ UNCHANGED purchase
SwapsOutput(c) ==
    /\ ExactOutput(c.path, c.amount, c.recipient, c.bound, c.limit)
    /\ bought' = None /\ UNCHANGED purchase

ExactInputCommand == \E c \in Commands : RunsNow(c, "exactInput") /\ SwapsInput(c)
ExactInputSingleCommand == \E c \in Commands : RunsNow(c, "exactInputSingle") /\ SwapsInput(c)
ExactOutputCommand == \E c \in Commands : RunsNow(c, "exactOutput") /\ SwapsOutput(c)
ExactOutputSingleCommand == \E c \in Commands : RunsNow(c, "exactOutputSingle") /\ SwapsOutput(c)

IcoExactInputCommand == \E c \in Commands : RunsNow(c, "icoExactInput") /\ Purchase(c, Now)
IcoExactInputSingleCommand == \E c \in Commands : RunsNow(c, "icoExactInputSingle") /\ Purchase(c, Now)
IcoExactOutputCommand == \E c \in Commands : RunsNow(c, "icoExactOutput") /\ Purchase(c, Now)
IcoExactOutputSingleCommand == \E c \in Commands : RunsNow(c, "icoExactOutputSingle") /\ Purchase(c, Now)

EndCommand ==
    /\ tx # None /\ tx.stage = "running" /\ call = None /\ purchase = None
    /\ tx' = None
    /\ UNCHANGED <<routerVars, icoVars, events>>

\* The transfer command of the token module, which fails if the fee has taken too much
TransferCommand ==
    /\ tx # None /\ tx.stage = "command" /\ IsTransfer(tx.plan.command)
    /\ \E c \in {tx.plan.command} :
          balance' = IF balance[Sender][c.path[1]] >= c.amount
                     THEN Transferred(balance, Sender, c.recipient, c.path[1], c.amount) ELSE balance
    /\ before' = Now
    /\ tx' = [tx EXCEPT !.stage = "after"]
    /\ UNCHANGED <<pools, locked, hasTreasury, call, result, icoVars, events>>

-------------------------------------------------------------------------------
(* afterCommandExecute: the hooks of a transfer, whatever has come of it *)

Hooks == tx # None /\ tx.stage = "after"
Swapping == tx' = [tx EXCEPT !.stage = "swapping"] /\ UNCHANGED <<events>>

\* executeSwapByTransfer of token_factory: the ICO pays itself, and sells to the sender.
SwapAtIco ==
    /\ Hooks /\ IsSwapAtIco(tx.plan.command)
    /\ Purchase([tx.plan.command EXCEPT !.payer = tx.plan.command.recipient, !.recipient = Sender,
                                        !.tokenOut = tx.plan.command.recipient[2]], before)
    /\ Swapping

\* executeSwapByTransfer of the dex: the pool is the payer of an exactInputSingle without
\* bounds, to the sender of the transaction.
SwapAtPool ==
    /\ Hooks /\ IsSwapAtPool(tx.plan.command)
    /\ \E c \in {tx.plan.command} : \E other \in {c.recipient[1], c.recipient[2]} \ {c.path[1]} :
          ExactInputOf(c.recipient, before, <<c.path[1], c.recipient[3], other>>, c.amount,
                       Sender, 0, None)
    /\ Swapping
    /\ bought' = None /\ UNCHANGED purchase

NoSwap ==
    /\ Hooks /\ ~HasHandler(tx.plan.command)
    /\ tx' = None
    /\ UNCHANGED <<routerVars, icoVars, events>>

HookEnds == tx # None /\ tx.stage = "swapping" /\ call = None /\ purchase = None
HookFailed == (result # None /\ ~result.ok) \/ (bought # None /\ ~bought.ok)

EndHook ==
    /\ HookEnds /\ ~HookFailed
    /\ tx' = None
    /\ UNCHANGED <<routerVars, icoVars, events>>

\* A hook that throws makes the transaction invalid: nothing of it stays, not even its fee.
Invalid ==
    /\ (HookEnds /\ HookFailed) \/ (tx # None /\ tx.stage = "base" /\ ~PaysBaseFee)
    /\ pools' = tx.start.pools
    /\ balance' = tx.start.balance
    /\ locked' = tx.start.locked
    /\ result' = None
    /\ bought' = None
    /\ tx' = None
    /\ UNCHANGED <<hasTreasury, call, before, purchase, events>>

Transaction(command, fee) ==
    /\ Idle /\ Sent
    /\ \E plan \in {Plan(command, fee)} : Reject(plan) \/ Convert(plan) \/ NoConversion(plan)

Execution ==
    \/ RouteStep /\ UNCHANGED <<icoVars, tx, events>>
    \/ (IcoSwapInternal \/ IcoRevert) /\ UNCHANGED <<tx, events>>
    \/ Converted \/ TakeFee \/ ExecuteBaseFee
    \/ ExactInputCommand \/ ExactInputSingleCommand
    \/ ExactOutputCommand \/ ExactOutputSingleCommand
    \/ IcoExactInputCommand \/ IcoExactInputSingleCommand
    \/ IcoExactOutputCommand \/ IcoExactOutputSingleCommand
    \/ EndCommand
    \/ TransferCommand \/ SwapAtIco \/ SwapAtPool \/ NoSwap \/ EndHook
    \/ Invalid

\* What others do in between
Meanwhile ==
    /\ Idle /\ Event
    /\ \/ \E donation \in Donations : Donate(donation[1], donation[2], donation[3])
       \/ \E a \in PoolKeys \cup {Router}, t \in Tokens : Treasurify(a, t)
       \/ SetFeeProtocolPool
    /\ bought' = None
    /\ UNCHANGED <<purchase, tx>>

Next ==
    \/ \E command \in Commands, fee \in TxFees : Transaction(command, fee)
    \/ Execution
    \/ Meanwhile

Spec == Init /\ [][Next]_vars

-------------------------------------------------------------------------------
(* Properties *)

\* The route that has just ended
Route == result.route
Completed == result # None /\ result.ok

Gain(a, t) == balance[a][t] - before.balance[a][t]

\* The purchase that has just ended
Order == bought.order
Purchased == bought # None /\ bought.ok

\* What the quoter said before the route
QuoteOf(route) ==
    IF route.exactInput
    THEN QuoteExactInput(before.pools, route.path, route.specified, route.limit)
    ELSE QuoteExactOutput(before.pools, route.path, route.specified, route.limit)

\* The quoter tells what a route will take or give, and a route that it can quote, within
\* the bound of the sender and paid by its balance, does not fail. (A path that goes
\* through a pool twice is quoted as if it had two.) So it is with a purchase of an exact
\* input; what the ICO quoter says of an exact output is about another pool.
RouteMatchesQuote ==
    /\ result # None /\ ~Repeats(Route.path) =>
        \A quote \in {QuoteOf(Route)} :
            /\ result.ok => Route.amount = quote
            /\ quote # Error /\ WithinBound(Route, quote)
                 /\ before.balance[Sender][TokenIn(Route)]
                        >= (IF Route.exactInput THEN Route.specified ELSE quote) => result.ok
    /\ Purchased /\ Order.exactInput /\ HasPath(Order) /\ ~Repeats(Order.path) =>
        bought.amountOut = IcoQuoteExactInput(before.pools, Order)

Total(b, l, t) ==
    SumFunctionOnSet([a \in Accounts |-> b[a][t] + l[a][t]], Accounts)

AllIsThere == \A t \in Tokens : Total(balance, locked, t) = Total(before.balance, before.locked, t)

\* A route takes from its sender no more of the first token than the sender allowed, leaves
\* nothing at the router and touches no pool off the path but that it may be the recipient.
\* If the sender is the recipient and the price has no limit, it gets at least what it asked.
SwapSettles ==
    LET in == TokenIn(Route)
        out == IF Route.exactInput THEN LastToken(Route.path) ELSE Route.path[1]
        most == IF Route.exactInput THEN Route.specified ELSE Route.bound
        least == IF Route.exactInput THEN Route.bound ELSE Route.specified
    IN  /\ in # out => Gain(Sender, in) >= -most
        /\ in # out /\ Route.receiver = Sender /\ Route.limit = None => Gain(Sender, out) >= least
        /\ \A t \in Tokens \ {in, out} : Gain(Sender, t) = 0
        /\ \A t \in TokensOf(Route.path) : balance[Router][t] = 0
        /\ \A k \in PoolKeys \ PoolsOf(Route.path) :
               /\ pools[k] = before.pools[k]
               /\ k # Route.receiver => balance[k] = before.balance[k]

\* A purchase by transfer is with what was sent. The hook does not ask whether the transfer
\* has succeeded: after one that has failed, the ICO pays its provider with tokens of its own.
BuysWithWhatWasSent ==
    Order.payer # Sender => before.balance[Sender][TokenIn(Order)] >= Order.amount

\* A purchase takes from the sender no more of the first token than the bound of its path,
\* and keeps nothing in between, not even with the ICO, whose provider is paid the price but
\* for the rounding of the quote; the recipient gets what was asked for, or what the ICO
\* quotes for the least that was to come along the path.
PurchaseSettles ==
    LET in == TokenIn(Order)
        pool == IcoPool(Order)
        price == ICOs[pool].price
        most == IF ~HasPath(Order) THEN bought.amountIn
                ELSE IF Order.exactInput THEN Order.amount ELSE Order.bound
    IN  /\ Gain(Sender, in) >= -most
        /\ \A t \in Tokens \ {in, Order.tokenOut} : Gain(Sender, t) = 0
        /\ BuysWithWhatWasSent => Gain(pool, pool[1]) = 0
        /\ WithinRounding(price, price.den * Gain(ICOs[pool].providerAddress, pool[1])
                                     + price.num * Gain(pool, pool[2]), 1,
                          IF Order.exactInput THEN BeyondNumber(bought.amountIn, price.den)
                          ELSE BeyondNumber(Order.amount, price.num))
        /\ bought.amountIn <= MaxAmount =>
              Gain(Order.recipient, Order.tokenOut)
                  >= IF ~Order.exactInput THEN Order.amount
                     ELSE QuoteExactInputSingle(price,
                              IF HasPath(Order) THEN Order.bound ELSE Order.amount)

\* Whatever happens in the callbacks, routes and purchases that succeed settle, those that
\* fail leave no trace of any of their hops and legs, and no token is lost.
RouteSettles ==
    /\ Completed => SwapSettles /\ AllIsThere
    /\ Purchased => PurchaseSettles /\ AllIsThere
    /\ bought # None /\ ~bought.ok =>
           pools = before.pools /\ balance = before.balance /\ locked = before.locked

\* What a pool owes to its position for one token: liquidity and fees
Owed(p, key, side) ==
    PositionWorth(key, p[key].sqrtPrice, side, FALSE)
    + MulDiv(p[key].feeGrowth[side], Liquidity[key], Q128)

\* A swap by transfer is for what was sent. The hook does not ask whether the transfer
\* has succeeded: after one that has failed, the pool swaps what it never got.
SwapsWhatWasSent ==
    Route.payer \in PoolKeys => before.balance[Sender][TokenIn(Route)] >= Route.specified

\* A route leaves no pool with less to spare than it had, beyond what it owes to those
\* who provide liquidity, and so does a transfer with its swap. An exact output that goes
\* through a pool twice is left out: the outer swap stores the pool as it read it, over
\* what the inner one stored. So is the swap by a transfer that has failed.
RoutesKeepPoolsBacked ==
    Completed /\ (Route.exactInput \/ ~Repeats(Route.path)) /\ SwapsWhatWasSent =>
        \A k \in PoolKeys, side \in {0, 1} :
            balance[k][k[side + 1]] - Owed(pools, k, side)
                >= before.balance[k][k[side + 1]] - Owed(before.pools, k, side)

\* Once a transaction has been verified its conversion cannot fail, and then the fee can
\* be taken and the token of the swap is there, as verify has promised.
ConversionPaysFee ==
    tx # None /\ tx.stage = "converting" /\ call = None =>
        /\ result.ok
        /\ balance[Sender][Native] >= tx.plan.fee
        /\ balance[Sender][TokenIn(tx.plan.command)] >= tx.plan.txAmount
===============================================================================
