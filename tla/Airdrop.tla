------------------------------- MODULE Airdrop -------------------------------
(***************************************************************************)
(* The airdrops of token_factory: the owner of a token opens a list for a  *)
(* provider, who edits it and pays everybody on it at once.                *)
(***************************************************************************)
EXTENDS TokenFactory, SequencesExt

CONSTANTS
    RecipientLists, \* the lists that airdrops are created with
    RecipientEdits  \* the lists of changes

ASSUME AirdropAssumption ==
    /\ RecipientLists \cup RecipientEdits \subseteq Seq([address : Holders, amountDelta : Int])
    /\ None \notin Seq([address : Holders, amount : Int])  \* no list is None

VARIABLES
    airdrop,    \* AirdropStore: the recipients, per token and provider, or None
    due         \* history: promised and not yet paid, per token, provider and recipient

airdropVars == <<airdrop, due>>

AirdropKeys == TokenIds \X Holders

AirdropInit ==
    /\ airdrop = [k \in AirdropKeys |-> None]
    /\ due = [k \in AirdropKeys |-> [a \in Holders |-> 0]]

\* The entries of a list that are for a.
EntriesOf(list, a) == {i \in DOMAIN list : list[i].address = a}
\* The sum of the amounts that a list has for a.
Owed(list, a) == SumFunctionOnSet(Amounts(list), EntriesOf(list, a))
\* Airdrop._getTotalAirdrop
TotalAirdrop(list) == SumFunctionOnSet(Amounts(list), DOMAIN list)
Deltas(list) == [i \in DOMAIN list |-> list[i].amountDelta]
Change(list, a) == SumFunctionOnSet(Deltas(list), EntriesOf(list, a))

\* AirdropStore.getMutableAirdrop and getImmutableAirdrop throw where nothing is stored.
AirdropExists(k) == airdrop[k] # None

\* Airdrop._registerAirdrop
RegisterAirdrop(k, list) ==
    /\ ~AirdropExists(k)
    /\ airdrop' = [airdrop EXCEPT ![k] =
          [i \in DOMAIN list |-> [address |-> list[i].address, amount |-> list[i].amountDelta]]]

\* Airdrop.create
AirdropCreate(sender, id, provider, list) ==
    LET k == <<id, provider>>
    IN  /\ \A i \in DOMAIN list : list[i].amountDelta >= 0
        /\ IsFactoryOwner(sender, id)
        /\ RegisterAirdrop(k, list)
        /\ due' = [due EXCEPT ![k] = [a \in Holders |-> @[a] + Change(list, a)]]
        /\ UNCHANGED <<ledgerVars, factoryVars>>

\* One change: the first entry of the address is raised or lowered and leaves the
\* list at zero; an address without an entry is appended.
Edited(list, e) ==
    LET i == SelectInSeq(list, LAMBDA r : r.address = e.address)
    IN  IF i = 0 THEN Append(list, [address |-> e.address, amount |-> e.amountDelta])
        ELSE IF list[i].amount + e.amountDelta = 0 THEN RemoveAt(list, i)
        ELSE [list EXCEPT ![i].amount = @ + e.amountDelta]

\* The list after the first n changes
AfterEdits(list, edits, n) ==
    LET after[m \in 0 .. n] == IF m = 0 THEN list ELSE Edited(after[m - 1], edits[m])
    IN  after[n]

\* Airdrop.editRecipients. A change that leaves a negative amount throws.
EditRecipients(sender, id, edits) ==
    LET k == <<id, sender>>
    IN  /\ AirdropExists(k)
        /\ \A n \in DOMAIN edits : \A i \in DOMAIN AfterEdits(airdrop[k], edits, n) :
              AfterEdits(airdrop[k], edits, n)[i].amount >= 0
        /\ airdrop' = [airdrop EXCEPT ![k] = AfterEdits(@, edits, Len(edits))]
        /\ due' = [due EXCEPT ![k] = [a \in Holders |-> @[a] + Change(edits, a)]]
        /\ UNCHANGED <<ledgerVars, factoryVars>>

\* Mutant: the list is kept after it was paid.
KeptRecipients(list) == list
\* What is left of a list that was paid.
PaidRecipients(list) == <<>>

\* Airdrop._checkProviderBalance
ProviderCanPay(sender, id) ==
    available[id][sender] >= TotalAirdrop(airdrop[<<id, sender>>])

\* Airdrop.distribute
Distribute(sender, id) ==
    LET k == <<id, sender>>
        list == airdrop[k]
    IN  /\ AirdropExists(k)
        /\ ProviderCanPay(sender, id)
        /\ available' = [available EXCEPT ![id] = [a \in Holders |->
              @[a] + Owed(list, a) - IF a = sender THEN TotalAirdrop(list) ELSE 0]]
        /\ due' = [due EXCEPT ![k] = [a \in Holders |-> @[a] - Owed(list, a)]]
        /\ airdrop' = [airdrop EXCEPT ![k] = PaidRecipients(list)]
        /\ UNCHANGED <<initialized, supply, factoryVars>>

-------------------------------------------------------------------------------
(* Commands *)

AirdropCreateCommand ==
    \E sender \in Users, id \in TokenIds, provider \in Users, list \in RecipientLists :
        AirdropCreate(sender, id, provider, list)

AirdropEditRecipientsCommand ==
    \E sender \in Users, id \in TokenIds, edits \in RecipientEdits :
        EditRecipients(sender, id, edits)

AirdropDistributeCommand ==
    \E sender \in Users, id \in TokenIds : Distribute(sender, id)

AirdropCommand ==
    \/ AirdropCreateCommand
    \/ AirdropEditRecipientsCommand
    \/ AirdropDistributeCommand
===============================================================================
