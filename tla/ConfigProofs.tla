----------------------------- MODULE ConfigProofs -----------------------------
(***************************************************************************)
(* Theorems about configurations, for any number of nodes, files, proposals*)
(* and heights, and whatever is replaced or restarted on the way: every    *)
(* configuration in a store is one that verify() accepts, nodes that       *)
(* executed the same blocks have the same stores, a block mints what the   *)
(* configuration schedules, and the handlers of fee conversion are those of*)
(* the configuration as long as a node neither restarts nor reverts.       *)
(*                                                                         *)
(* A store is what a block made of the store before it. What the actions of*)
(* a proposal do is followed by induction over the actions, and what the   *)
(* handlers are in between has no influence on it.                         *)
(***************************************************************************)
EXTENDS SumProofs, ConfiguredNodes, SequenceTheorems

-------------------------------------------------------------------------------
(* The actions of a proposal *)

\* The sets that RunActions goes through
ActionRun(start, actions, n, run) ==
    run = [i \in 0 .. n |-> IF i = 0 THEN {start} ELSE AfterAction(run[i - 1], actions[i])]

LEMMA ActionRunExists ==
    ASSUME NEW start, NEW actions, NEW n \in Nat
    PROVE  ActionRun(start, actions, n, CHOOSE run : ActionRun(start, actions, n, run))
<1> DEFINE Good == {k \in 0 .. n : \E run : ActionRun(start, actions, k, run)}
<1>1. 0 \in Good
  <2>1. ActionRun(start, actions, 0, [m \in 0 .. 0 |-> {start}])
    BY DEF ActionRun
  <2> QED BY <2>1
<1>2. ASSUME NEW k \in 0 .. n - 1, k \in Good PROVE k + 1 \in Good
  <2>1. PICK run : ActionRun(start, actions, k, run)
    BY <1>2
  <2>2. PICK next : next = [m \in 0 .. k + 1 |->
                                IF m = k + 1 THEN AfterAction(run[k], actions[k + 1]) ELSE run[m]]
    OBVIOUS
  <2>3. \A m \in 0 .. k + 1 : next[m] = IF m = 0 THEN {start} ELSE AfterAction(next[m - 1], actions[m])
    <3>1. \A m \in 0 .. k : run[m] = IF m = 0 THEN {start} ELSE AfterAction(run[m - 1], actions[m])
      BY <2>1 DEF ActionRun
    <3>2. next[k + 1] = AfterAction(run[k], actions[k + 1]) /\ \A m \in 0 .. k : next[m] = run[m]
      BY <2>2
    <3>3. ASSUME NEW m \in 0 .. k + 1
          PROVE  next[m] = IF m = 0 THEN {start} ELSE AfterAction(next[m - 1], actions[m])
      <4>1. CASE m = k + 1
        <5>1. m # 0 /\ m - 1 = k /\ k \in 0 .. k
          BY <4>1
        <5> QED BY <3>2, <4>1, <5>1
      <4>2. CASE m \in 1 .. k
        <5>1. m - 1 \in 0 .. k /\ m \in 0 .. k /\ m # 0
          BY <4>2
        <5> QED BY <3>1, <3>2, <5>1
      <4>3. CASE m = 0
        <5>1. 0 \in 0 .. k
          OBVIOUS
        <5> QED BY <3>1, <3>2, <4>3, <5>1
      <4> QED BY <4>1, <4>2, <4>3
    <3> QED BY <3>3
  <2>4. ActionRun(start, actions, k + 1, next)
    <3>1. DOMAIN next = 0 .. k + 1 /\ next = [m \in 0 .. k + 1 |-> next[m]]
      BY <2>2
    <3> HIDE <2>2
    <3> QED BY <2>3, <3>1 DEF ActionRun
  <2> QED BY <2>4
<1>3. n \in Good
  <2> HIDE DEF Good
  <2> QED BY <1>1, <1>2, UpTo
<1> QED BY <1>3

\* RunActions computes the recursion that it is written as.
LEMMA RunActionsRuns ==
    ASSUME NEW start, NEW actions, Len(actions) \in Nat
    PROVE  \E run :
              /\ run[0] = {start}
              /\ \A i \in 1 .. Len(actions) : run[i] = AfterAction(run[i - 1], actions[i])
              /\ RunActions(start, actions) = run[Len(actions)]
<1>1. PICK run : run = CHOOSE r : ActionRun(start, actions, Len(actions), r)
  OBVIOUS
<1>2. ActionRun(start, actions, Len(actions), run)
  BY <1>1, ActionRunExists
<1>3. RunActions(start, actions) = run[Len(actions)]
  BY <1>1 DEF RunActions, ActionRun
<1>4. \A i \in 0 .. Len(actions) :
          run[i] = IF i = 0 THEN {start} ELSE AfterAction(run[i - 1], actions[i])
  BY <1>2 DEF ActionRun
<1>5. run[0] = {start}
  BY <1>4
<1>6. \A i \in 1 .. Len(actions) : run[i] = AfterAction(run[i - 1], actions[i])
  BY <1>4
<1> QED BY <1>3, <1>5, <1>6

IsState(state) == DOMAIN state = {"configs", "handlers", "treasury", "generator", "failed"}

\* The outcomes of an action: it throws, or the new configuration takes the place of the old.
Sets(state, action, new) ==
    /\ ~state.failed
    /\ new = UpdateValueFromPath(state.configs[action.module], action.path, action.value)
    /\ CanSet(action.module, state.configs[action.module], new)

LEMMA ActionOutcomes ==
    ASSUME NEW state, NEW action, NEW next \in RunAction(state, action)
    PROVE  \/ next = [state EXCEPT !.failed = TRUE]
           \/ \E new : Sets(state, action, new) /\ next = Applied(state, action.module, new)
BY DEF RunAction, SetConfigWithPath, Sets

LEMMA ActionKeepsFields ==
    ASSUME NEW state, IsState(state), NEW action, NEW next \in RunAction(state, action)
    PROVE  /\ IsState(next)
           /\ next.treasury = state.treasury /\ next.generator = state.generator
<1>1. CASE next = [state EXCEPT !.failed = TRUE]
  BY <1>1 DEF IsState
<1>2. ASSUME NEW new, next = Applied(state, action.module, new)
      PROVE  /\ IsState(next)
             /\ next.treasury = state.treasury /\ next.generator = state.generator
  BY <1>2 DEF Applied, IsState
<1> QED BY <1>1, <1>2, ActionOutcomes

\* All but the handlers
Same(s, t) ==
    /\ s.configs = t.configs /\ s.failed = t.failed
    /\ s.treasury = t.treasury /\ s.generator = t.generator

LEMMA SameAction ==
    ASSUME NEW s, IsState(s), NEW t, IsState(t), Same(s, t), NEW action,
           NEW s2 \in RunAction(s, action), NEW t2 \in RunAction(t, action)
    PROVE  Same(s2, t2)
<1>1. PICK accepted : accepted = IF s.failed THEN {} ELSE SetConfigWithPath(s.configs[action.module], action)
  OBVIOUS
<1>2. accepted = IF t.failed THEN {} ELSE SetConfigWithPath(t.configs[action.module], action)
  BY <1>1 DEF Same
<1>3. CASE accepted = {}
  <2>1. s2 = [s EXCEPT !.failed = TRUE] /\ t2 = [t EXCEPT !.failed = TRUE]
    BY <1>1, <1>2, <1>3 DEF RunAction
  <2> QED BY <2>1 DEF Same, IsState
<1>4. CASE accepted # {}
  <2>1. \E new \in accepted : s2 = Applied(s, action.module, new)
    BY <1>1, <1>4 DEF RunAction
  <2>2. \E new \in accepted : t2 = Applied(t, action.module, new)
    BY <1>2, <1>4 DEF RunAction
  <2>3. \A new1, new2 \in accepted : new1 = new2
    BY <1>1 DEF SetConfigWithPath
  <2>4. PICK new : s2 = Applied(s, action.module, new) /\ t2 = Applied(t, action.module, new)
    BY <2>1, <2>2, <2>3
  <2> QED BY <2>4 DEF Applied, Same, IsState
<1> QED BY <1>3, <1>4

\* What the actions of a proposal come to does not depend on the handlers that a node
\* has when it runs them.
LEMMA SameActions ==
    ASSUME NEW s, IsState(s), NEW t, IsState(t), Same(s, t),
           NEW actions, Len(actions) \in Nat,
           NEW s2 \in RunActions(s, actions), NEW t2 \in RunActions(t, actions)
    PROVE  Same(s2, t2)
<1>1. PICK run1 : /\ run1[0] = {s}
                  /\ \A i \in 1 .. Len(actions) : run1[i] = AfterAction(run1[i - 1], actions[i])
                  /\ RunActions(s, actions) = run1[Len(actions)]
  BY RunActionsRuns
<1>2. PICK run2 : /\ run2[0] = {t}
                  /\ \A i \in 1 .. Len(actions) : run2[i] = AfterAction(run2[i - 1], actions[i])
                  /\ RunActions(t, actions) = run2[Len(actions)]
  BY RunActionsRuns
<1> DEFINE Agree(i) == \A x \in run1[i], y \in run2[i] : IsState(x) /\ IsState(y) /\ Same(x, y)
           Good == {i \in 0 .. Len(actions) : Agree(i)}
<1>3. 0 \in Good
  BY <1>1, <1>2
<1>4. ASSUME NEW m \in 0 .. Len(actions) - 1, m \in Good PROVE m + 1 \in Good
  <2>1. /\ m + 1 \in 1 .. Len(actions) /\ (m + 1) - 1 = m
        /\ Agree(m)
    BY <1>4
  <2>2. ASSUME NEW x2 \in run1[m + 1], NEW y2 \in run2[m + 1]
        PROVE  IsState(x2) /\ IsState(y2) /\ Same(x2, y2)
    <3>1. PICK x \in run1[m] : x2 \in RunAction(x, actions[m + 1])
      BY <1>1, <2>1, <2>2 DEF AfterAction
    <3>2. PICK y \in run2[m] : y2 \in RunAction(y, actions[m + 1])
      BY <1>2, <2>1, <2>2 DEF AfterAction
    <3>3. IsState(x) /\ IsState(y) /\ Same(x, y)
      BY <2>1
    <3> QED BY <3>1, <3>2, <3>3, SameAction, ActionKeepsFields
  <2>3. Agree(m + 1)
    BY <2>2
  <2> QED BY <2>1, <2>3
<1>5. Len(actions) \in Good
  <2>1. \A m \in 0 .. Len(actions) - 1 : m \in Good => m + 1 \in Good
    BY <1>4
  <2> HIDE DEF Good
  <2>2. \A m \in 0 .. Len(actions) : m \in Good
    BY ONLY <1>3, <2>1, UpTo, Len(actions) \in Nat
  <2> QED BY <2>2
<1> QED BY <1>1, <1>2, <1>5

-------------------------------------------------------------------------------
(* What an action does to configurations *)

GoodConfigs(configs) ==
    /\ DOMAIN configs = Modules
    /\ \A m \in Modules : DOMAIN configs[m] = Leaves[m] /\ Verify(m, configs[m])

\* What no proposal may change is the same.
Fixed(old, new) == \A leaf \in NotGovernable : new["governance"][leaf] = old["governance"][leaf]

LEMMA ModulesAre == Modules = {"governance", "token_factory", "dex"}
<1>1. Configurations \in Seq({"governance", "token_factory", "dex"}) /\ Len(Configurations) = 3
  BY DEF Configurations
<1>2. Modules = {Configurations[i] : i \in 1 .. 3}
  BY <1>1, RangeEquality DEF Modules
<1> QED BY <1>2 DEF Configurations

LEMMA NotGovernableLeaves == "governance" \in Modules /\ NotGovernable \subseteq Leaves["governance"]
BY ModulesAre DEF Leaves, GovernanceLeaves

\* A node comes with a value for every leaf.
LEMMA FilesAre ==
    ASSUME NEW file \in Files
    PROVE  DOMAIN file = Modules /\ \A m \in Modules : DOMAIN file[m] = Leaves[m]
<1>1. PICK own \in OwnFiles : file = InitialConfigs(own)
  BY DEF Files
<1>2. \A m \in Modules : DOMAIN Default[m] = Leaves[m]
  BY ModulesAre DEF Default, DefaultGovernance, DefaultTokenFactory, DefaultDex, Leaves
<1>3. \A m \in Modules : DOMAIN MergeDeep(own[m], Default[m]) = DOMAIN Default[m]
  BY DEF MergeDeep, Over
<1> QED BY <1>1, <1>2, <1>3 DEF InitialConfigs

LEMMA UpdateKeepsDomain ==
    ASSUME NEW config, NEW path, NEW value
    PROVE  DOMAIN UpdateValueFromPath(config, path, value) = DOMAIN config
BY DEF UpdateValueFromPath

LEMMA ActionKeepsConfigs ==
    ASSUME NEW state, IsState(state), GoodConfigs(state.configs),
           NEW action, action.module \in Modules, NEW next \in RunAction(state, action)
    PROVE  GoodConfigs(next.configs) /\ Fixed(state.configs, next.configs)
<1>1. CASE next = [state EXCEPT !.failed = TRUE]
  BY <1>1 DEF IsState, Fixed
<1>2. ASSUME NEW new, Sets(state, action, new), next = Applied(state, action.module, new)
      PROVE  GoodConfigs(next.configs) /\ Fixed(state.configs, next.configs)
  <2>1. PICK m \in Modules : m = action.module
    OBVIOUS
  <2>2. PICK old : old = state.configs
    OBVIOUS
  <2>3. next.configs = [old EXCEPT ![m] = new]
    BY <1>2, <2>1, <2>2 DEF Applied, IsState
  <2>4. DOMAIN new = Leaves[m]
    BY <1>2, <2>1, <2>2, UpdateKeepsDomain DEF Sets, GoodConfigs
  <2>5. Verify(m, new) /\ UpdatedProperties(old[m], new) \cap NotGovernable = {}
    BY <1>2, <2>1, <2>2 DEF Sets, CanSet
  <2>6. \A i \in Modules : next.configs[i] = IF i = m THEN new ELSE old[i]
    BY <2>2, <2>3 DEF GoodConfigs
  <2>7. GoodConfigs(next.configs)
    BY <2>2, <2>3, <2>4, <2>5, <2>6 DEF GoodConfigs
  <2>8. ASSUME NEW leaf \in NotGovernable
        PROVE  next.configs["governance"][leaf] = old["governance"][leaf]
    <3>1. CASE m = "governance"
      <4>1. leaf \in DOMAIN new
        BY <2>4, <3>1, NotGovernableLeaves
      <4>2. old[m][leaf] = new[leaf]
        BY <2>5, <4>1 DEF UpdatedProperties
      <4> QED BY <2>6, <3>1, <4>2
    <3>2. CASE m # "governance"
      BY <2>6, <3>2, NotGovernableLeaves
    <3> QED BY <3>1, <3>2
  <2> QED BY <2>2, <2>7, <2>8 DEF Fixed
<1> QED BY <1>1, <1>2, ActionOutcomes

-------------------------------------------------------------------------------
(* Handlers *)

\* A list of handlers, each once
Lists == Seq(Modules)
AsksFor(k, configs) == {m \in Modules : k \in KeysOf(m) /\ Enables(m, configs[m])}
Follows(handlers, configs) ==
    /\ handlers \in [Keys -> Lists]
    /\ \A k \in Keys : IsInjective(handlers[k]) /\ Range(handlers[k]) = AsksFor(k, configs)

LEMMA RegisterAdds ==
    ASSUME NEW methods \in Lists, IsInjective(methods), NEW name \in Modules
    PROVE  /\ Register(methods, name) \in Lists
           /\ IsInjective(Register(methods, name))
           /\ Range(Register(methods, name)) = Range(methods) \cup {name}
<1>1. Range(methods) = {methods[i] : i \in 1 .. Len(methods)} /\ Len(methods) \in Nat
      /\ DOMAIN methods = 1 .. Len(methods)
  BY RangeEquality, LenProperties DEF Lists
<1>2. CASE name \in Range(methods)
  BY <1>2 DEF Register
<1>3. CASE name \notin Range(methods)
  <2>1. PICK added : added = Append(methods, name)
    OBVIOUS
  <2>2. /\ added \in Lists /\ Len(added) = Len(methods) + 1
        /\ \A i \in 1 .. Len(methods) : added[i] = methods[i]
        /\ added[Len(methods) + 1] = name
    BY <2>1, AppendProperties DEF Lists
  <2>3. DOMAIN added = 1 .. Len(methods) + 1
    BY <2>2, LenProperties DEF Lists
  <2>4. Range(added) = {added[i] : i \in 1 .. Len(methods) + 1}
    BY <2>2, RangeEquality DEF Lists
  <2>5. Range(added) = Range(methods) \cup {name}
    <3>1. \A i \in 1 .. Len(methods) + 1 : i \in 1 .. Len(methods) \/ i = Len(methods) + 1
      BY <1>1
    <3>2. \A i \in 1 .. Len(methods) : i \in 1 .. Len(methods) + 1
      BY <1>1
    <3>3. Len(methods) + 1 \in 1 .. Len(methods) + 1
      BY <1>1
    <3> QED BY <1>1, <2>2, <2>4, <3>1, <3>2, <3>3
  <2>6. IsInjective(added)
    <3>1. \A i \in 1 .. Len(methods) : methods[i] # name
      BY <1>1, <1>3
    <3> QED BY <1>1, <2>2, <2>3, <3>1 DEF IsInjective
  <2> QED BY <1>3, <2>1, <2>2, <2>5, <2>6 DEF Register
<1> QED BY <1>2, <1>3

LEMMA UnregisterRemoves ==
    ASSUME NEW methods \in Lists, IsInjective(methods), NEW name \in Modules
    PROVE  /\ Unregister(methods, name) \in Lists
           /\ IsInjective(Unregister(methods, name))
           /\ Range(Unregister(methods, name)) = Range(methods) \ {name}
<1>1. Range(methods) = {methods[i] : i \in 1 .. Len(methods)} /\ Len(methods) \in Nat
      /\ DOMAIN methods = 1 .. Len(methods)
  BY RangeEquality, LenProperties DEF Lists
<1>2. CASE ~ \E i \in 1 .. Len(methods) : methods[i] = name
  BY <1>1, <1>2 DEF Unregister, RemoveFirst
<1>3. CASE \E i \in 1 .. Len(methods) : methods[i] = name
  <2>1. PICK p \in 1 .. Len(methods) : methods[p] = name
    BY <1>3
  <2>2. {i \in 1 .. Len(methods) : methods[i] = name} = {p}
    BY <1>1, <2>1 DEF IsInjective
  <2>3. SelectInSeq(methods, LAMBDA v : v = name) = p
    BY <2>2 DEF SelectInSeq, Min
  <2>4. PICK left, before, after :
            /\ before = SubSeq(methods, 1, p - 1) /\ after = SubSeq(methods, p + 1, Len(methods))
            /\ left = before \o after
    OBVIOUS
  <2>5. left = Unregister(methods, name)
    BY <1>3, <2>3, <2>4 DEF Unregister, RemoveFirst, RemoveAt
  <2>6. /\ before \in Lists /\ Len(before) = p - 1
        /\ \A i \in 1 .. p - 1 : before[i] = methods[i]
    BY <1>1, <2>4, SubSeqProperties DEF Lists
  <2>7. /\ after \in Lists /\ Len(after) = Len(methods) - p
        /\ \A i \in 1 .. Len(methods) - p : after[i] = methods[p + i]
    <3>1. p + 1 \in Int /\ Len(methods) \in Int /\ \A i \in p + 1 .. Len(methods) : methods[i] \in Modules
      BY <1>1, ElementOfSeq DEF Lists
    <3>2. /\ after \in Seq(Modules)
          /\ Len(after) = IF p + 1 <= Len(methods) THEN Len(methods) - (p + 1) + 1 ELSE 0
          /\ \A i \in 1 .. Len(methods) - (p + 1) + 1 : after[i] = methods[(p + 1) + i - 1]
      BY ONLY <3>1, <2>4, SubSeqProperties
    <3>3. Len(after) = Len(methods) - p
      <4>1. PICK n \in Nat : n = Len(methods)
        BY <1>1
      <4>2. p \in 1 .. n
        BY <4>1
      <4>3. Len(after) = IF p + 1 <= n THEN n - (p + 1) + 1 ELSE 0
        BY <3>2, <4>1
      <4>4. (IF p + 1 <= n THEN n - (p + 1) + 1 ELSE 0) = n - p
        BY ONLY <4>2, n \in Nat
      <4> QED BY <4>1, <4>3, <4>4
    <3>4. ASSUME NEW i \in 1 .. Len(methods) - p PROVE after[i] = methods[p + i]
      <4>1. i \in 1 .. Len(methods) - (p + 1) + 1 /\ (p + 1) + i - 1 = p + i
        BY <1>1
      <4> QED BY <3>2, <4>1
    <3> QED BY <3>2, <3>3, <3>4 DEF Lists
  <2>8. /\ left \in Lists /\ Len(left) = Len(methods) - 1
        /\ \A i \in 1 .. Len(methods) - 1 : left[i] = methods[IF i < p THEN i ELSE i + 1]
    <3>1. /\ left \in Lists /\ Len(left) = Len(before) + Len(after)
          /\ \A i \in 1 .. Len(before) + Len(after) :
                left[i] = IF i <= Len(before) THEN before[i] ELSE after[i - Len(before)]
      <4>1. before \in Seq(Modules) /\ after \in Seq(Modules)
        BY <2>6, <2>7 DEF Lists
      <4> QED BY ONLY <2>4, <4>1, ConcatProperties DEF Lists
    <3> QED BY <1>1, <2>6, <2>7, <3>1
  <2>9. DOMAIN left = 1 .. Len(methods) - 1 /\ Range(left) = {left[i] : i \in 1 .. Len(methods) - 1}
    BY <2>8, LenProperties, RangeEquality DEF Lists
  <2>10. IsInjective(left)
    <3>1. ASSUME NEW i \in 1 .. Len(methods) - 1, NEW j \in 1 .. Len(methods) - 1, left[i] = left[j]
          PROVE  i = j
      <4>1. PICK i2, j2 \in 1 .. Len(methods) :
                i2 = (IF i < p THEN i ELSE i + 1) /\ j2 = (IF j < p THEN j ELSE j + 1)
        BY <1>1
      <4>2. methods[i2] = methods[j2]
        BY <2>8, <3>1, <4>1
      <4>3. i2 = j2
        BY <1>1, <4>2 DEF IsInjective
      <4> QED BY <1>1, <4>1, <4>3
    <3> QED BY <2>9, <3>1 DEF IsInjective
  <2>11. \A i \in 1 .. Len(methods) : i # p => methods[i] # name /\ \E j \in 1 .. Len(methods) - 1 : left[j] = methods[i]
    <3>1. ASSUME NEW i \in 1 .. Len(methods), i < p PROVE \E j \in 1 .. Len(methods) - 1 : left[j] = methods[i]
      BY <1>1, <2>8, <3>1
    <3>2. ASSUME NEW i \in 1 .. Len(methods), i > p PROVE \E j \in 1 .. Len(methods) - 1 : left[j] = methods[i]
      <4>1. i - 1 \in 1 .. Len(methods) - 1 /\ ~(i - 1 < p) /\ (i - 1) + 1 = i
        BY <1>1, <3>2
      <4> QED BY <2>8, <4>1
    <3> QED BY <1>1, <2>1, <3>1, <3>2 DEF IsInjective
  <2>12. \A j \in 1 .. Len(methods) - 1 : \E i \in 1 .. Len(methods) : i # p /\ left[j] = methods[i]
    BY <1>1, <2>8
  <2>13. Range(left) = Range(methods) \ {name}
    BY <1>1, <2>1, <2>9, <2>11, <2>12
  <2> QED BY <2>5, <2>8, <2>10, <2>13
<1> QED BY <1>2, <1>3

\* Lists that have each handler once
Registered(handlers) == handlers \in [Keys -> Lists] /\ \A k \in Keys : IsInjective(handlers[k])

\* What afterSetConfig makes of a list
Changed(methods, m, config) ==
    IF Enables(m, config) THEN Register(methods, m) ELSE Unregister(methods, m)

LEMMA KeysAre ==
    /\ Keys = {Transfer, Swap, Purchase}
    /\ Transfer # Swap /\ Transfer # Purchase /\ Swap # Purchase
BY DEF Keys, Transfer, Swap, Purchase

LEMMA AfterSetConfigIs ==
    ASSUME NEW handlers, Registered(handlers), NEW m \in Modules, NEW config, NEW k \in Keys
    PROVE  /\ DOMAIN AfterSetConfig(handlers, m, config) = Keys
           /\ AfterSetConfig(handlers, m, config)[k]
                 = IF k \in KeysOf(m) THEN Changed(handlers[k], m, config) ELSE handlers[k]
<1>1. DOMAIN handlers = Keys /\ Transfer \in Keys /\ Swap \in Keys /\ Purchase \in Keys
  BY KeysAre DEF Registered
<1>2. CASE m = "governance"
  BY <1>1, <1>2 DEF AfterSetConfig, KeysOf
<1>3. CASE m = "dex"
  <2>1. AfterSetConfig(handlers, m, config) =
            [handlers EXCEPT ![Transfer] = Changed(@, m, config), ![Swap] = Changed(@, m, config)]
    BY <1>3 DEF AfterSetConfig, Changed
  <2>2. KeysOf(m) = {Transfer, Swap}
    BY <1>3 DEF KeysOf
  <2> QED BY <1>1, <2>1, <2>2, KeysAre
<1>4. CASE m = "token_factory"
  <2>1. AfterSetConfig(handlers, m, config) =
            [handlers EXCEPT ![Transfer] = Changed(@, m, config), ![Purchase] = Changed(@, m, config)]
    BY <1>4 DEF AfterSetConfig, Changed
  <2>2. KeysOf(m) = {Transfer, Purchase}
    BY <1>4 DEF KeysOf
  <2> QED BY <1>1, <2>1, <2>2, KeysAre
<1> QED BY <1>2, <1>3, <1>4, ModulesAre

LEMMA ChangedIs ==
    ASSUME NEW methods \in Lists, IsInjective(methods), NEW m \in Modules, NEW config
    PROVE  /\ Changed(methods, m, config) \in Lists
           /\ IsInjective(Changed(methods, m, config))
           /\ Range(Changed(methods, m, config)) =
                  IF Enables(m, config) THEN Range(methods) \cup {m} ELSE Range(methods) \ {m}
BY RegisterAdds, UnregisterRemoves DEF Changed

LEMMA AfterSetConfigFollows ==
    ASSUME NEW handlers, Registered(handlers), NEW m \in Modules, NEW config
    PROVE  /\ Registered(AfterSetConfig(handlers, m, config))
           /\ \A k \in Keys : \A name \in Modules :
                 name \in Range(AfterSetConfig(handlers, m, config)[k]) <=>
                     IF name = m /\ k \in KeysOf(m) THEN Enables(m, config)
                     ELSE name \in Range(handlers[k])
<1>1. PICK new : new = AfterSetConfig(handlers, m, config)
  OBVIOUS
<1>2. \A k \in Keys :
          new[k] = IF k \in KeysOf(m) THEN Changed(handlers[k], m, config) ELSE handlers[k]
  BY <1>1, AfterSetConfigIs
<1>3. DOMAIN new = Keys /\ new = [k \in Keys |-> new[k]]
  <2>1. DOMAIN new = Keys
    BY <1>1, KeysAre, AfterSetConfigIs
  <2>2. new = [k \in DOMAIN new |-> new[k]]
    BY <1>1, ModulesAre DEF AfterSetConfig, Registered
  <2> QED BY <2>1, <2>2
<1>4. ASSUME NEW k \in Keys
      PROVE  /\ new[k] \in Lists /\ IsInjective(new[k])
             /\ \A name \in Modules :
                   name \in Range(new[k]) <=>
                       IF name = m /\ k \in KeysOf(m) THEN Enables(m, config)
                       ELSE name \in Range(handlers[k])
  <2>1. handlers[k] \in Lists /\ IsInjective(handlers[k])
    BY DEF Registered
  <2>2. CASE k \in KeysOf(m)
    <3>1. /\ new[k] \in Lists /\ IsInjective(new[k])
          /\ Range(new[k]) = IF Enables(m, config) THEN Range(handlers[k]) \cup {m}
                             ELSE Range(handlers[k]) \ {m}
      BY <1>2, <2>1, <2>2, ChangedIs
    <3> QED BY <2>2, <3>1
  <2>3. CASE k \notin KeysOf(m)
    BY <1>2, <2>1, <2>3
  <2> QED BY <2>2, <2>3
<1>5. new \in [Keys -> Lists]
  BY <1>3, <1>4
<1> QED BY <1>1, <1>4, <1>5 DEF Registered

\* After some actions: the handlers of a module whose configuration was set are those of
\* its configuration, of the others what they were.
Tracks(start, state) ==
    /\ Registered(state.handlers)
    /\ \A k \in Keys : \A name \in Modules :
          IF k \in KeysOf(name)
          THEN \/ name \in Range(state.handlers[k]) <=> Enables(name, state.configs[name])
               \/ /\ name \in Range(state.handlers[k]) <=> name \in Range(start.handlers[k])
                  /\ state.configs[name] = start.configs[name]
          ELSE name \in Range(state.handlers[k]) <=> name \in Range(start.handlers[k])

LEMMA ActionTracks ==
    ASSUME NEW start, NEW state, IsState(state), GoodConfigs(state.configs), Tracks(start, state),
           NEW action, action.module \in Modules, NEW next \in RunAction(state, action)
    PROVE  Tracks(start, next)
<1>1. CASE next = [state EXCEPT !.failed = TRUE]
  <2>1. next.handlers = state.handlers /\ next.configs = state.configs
    BY <1>1 DEF IsState
  <2> QED BY <2>1 DEF Tracks
<1>2. ASSUME NEW new, Sets(state, action, new), next = Applied(state, action.module, new)
      PROVE  Tracks(start, next)
  <2>1. PICK m \in Modules : m = action.module
    OBVIOUS
  <2>2. next.configs = [state.configs EXCEPT ![m] = new]
        /\ next.handlers = AfterSetConfig(state.handlers, m, new)
    BY <1>2, <2>1 DEF Applied, IsState
  <2>3. Registered(state.handlers)
    BY DEF Tracks
  <2>4. /\ Registered(next.handlers)
        /\ \A k \in Keys : \A name \in Modules :
              name \in Range(next.handlers[k]) <=>
                  IF name = m /\ k \in KeysOf(m) THEN Enables(m, new)
                  ELSE name \in Range(state.handlers[k])
    BY <2>2, <2>3, AfterSetConfigFollows
  <2>5. \A i \in Modules : next.configs[i] = IF i = m THEN new ELSE state.configs[i]
    BY <2>2 DEF GoodConfigs
  <2>6. ASSUME NEW k \in Keys, NEW name \in Modules
        PROVE  IF k \in KeysOf(name)
               THEN \/ name \in Range(next.handlers[k]) <=> Enables(name, next.configs[name])
                    \/ /\ name \in Range(next.handlers[k]) <=> name \in Range(start.handlers[k])
                       /\ next.configs[name] = start.configs[name]
               ELSE name \in Range(next.handlers[k]) <=> name \in Range(start.handlers[k])
    <3>1. CASE name = m /\ k \in KeysOf(m)
      <4>1. name \in Range(next.handlers[k]) <=> Enables(m, new)
        BY <2>4, <3>1
      <4>2. next.configs[name] = new
        BY <2>5, <3>1
      <4> QED BY <3>1, <4>1, <4>2
    <3>2. CASE name = m /\ k \notin KeysOf(m)
      <4>1. name \in Range(next.handlers[k]) <=> name \in Range(state.handlers[k])
        BY <2>4, <3>2
      <4>2. name \in Range(state.handlers[k]) <=> name \in Range(start.handlers[k])
        BY <3>2 DEF Tracks
      <4> QED BY <3>2, <4>1, <4>2
    <3>3. CASE name # m
      <4>1. name \in Range(next.handlers[k]) <=> name \in Range(state.handlers[k])
        BY <2>4, <3>3
      <4>2. next.configs[name] = state.configs[name]
        BY <2>5, <3>3
      <4>3. IF k \in KeysOf(name)
            THEN \/ name \in Range(state.handlers[k]) <=> Enables(name, state.configs[name])
                 \/ /\ name \in Range(state.handlers[k]) <=> name \in Range(start.handlers[k])
                    /\ state.configs[name] = start.configs[name]
            ELSE name \in Range(state.handlers[k]) <=> name \in Range(start.handlers[k])
        BY DEF Tracks
      <4> QED BY <4>1, <4>2, <4>3
    <3> QED BY <3>1, <3>2, <3>3
  <2> QED BY <2>4, <2>6 DEF Tracks
<1> QED BY <1>1, <1>2, ActionOutcomes

\* Handlers that follow the configuration before the actions follow the one after them;
\* and so do those that already follow the one after them, when the actions run again.
LEMMA TrackedFollows ==
    ASSUME NEW start, NEW state, Tracks(start, state),
           \/ Follows(start.handlers, start.configs)
           \/ Follows(start.handlers, state.configs)
    PROVE  Follows(state.handlers, state.configs)
<1>1. ASSUME NEW k \in Keys PROVE Range(state.handlers[k]) = AsksFor(k, state.configs)
  <2>1. Range(state.handlers[k]) \subseteq Modules
    BY RangeOfSeq DEF Tracks, Registered, Lists
  <2>2. \/ Range(start.handlers[k]) = AsksFor(k, start.configs)
        \/ Range(start.handlers[k]) = AsksFor(k, state.configs)
    BY DEF Follows
  <2>3. ASSUME NEW name \in Modules
        PROVE  name \in Range(state.handlers[k]) <=> k \in KeysOf(name) /\ Enables(name, state.configs[name])
    <3>1. CASE k \in KeysOf(name)
      <4>1. \/ name \in Range(state.handlers[k]) <=> Enables(name, state.configs[name])
            \/ /\ name \in Range(state.handlers[k]) <=> name \in Range(start.handlers[k])
               /\ state.configs[name] = start.configs[name]
        BY <3>1 DEF Tracks
      <4>2. \/ name \in Range(start.handlers[k]) <=> Enables(name, start.configs[name])
            \/ name \in Range(start.handlers[k]) <=> Enables(name, state.configs[name])
        BY <2>2, <3>1 DEF AsksFor
      <4> QED BY <3>1, <4>1, <4>2
    <3>2. CASE k \notin KeysOf(name)
      <4>1. name \in Range(state.handlers[k]) <=> name \in Range(start.handlers[k])
        BY <3>2 DEF Tracks
      <4> QED BY <2>2, <3>2, <4>1 DEF AsksFor
    <3> QED BY <3>1, <3>2
  <2> QED BY <2>1, <2>3 DEF AsksFor
<1> QED BY <1>1 DEF Tracks, Registered, Follows

\* The lists that AfterInit goes through
InitRun(handlers, configs, run) ==
    run = [i \in 0 .. Len(Configurations) |->
              IF i = 0 THEN handlers
              ELSE AfterSetConfig(run[i - 1], Configurations[i], configs[Configurations[i]])]

\* Only the commands of a module have its handlers.
Own(handlers) ==
    \A k \in Keys : \A name \in Modules : k \notin KeysOf(name) => name \notin Range(handlers[k])

LEMMA NoHandlersOwn == Registered(NoHandlers) /\ Own(NoHandlers)
<1>1. \A k \in Keys : NoHandlers[k] = <<>>
  BY DEF NoHandlers
<1>2. <<>> \in Lists /\ IsInjective(<<>>) /\ Range(<<>>) = {}
  BY DEF Lists, IsInjective, Range
<1>3. NoHandlers \in [Keys -> Lists]
  BY <1>2 DEF NoHandlers
<1> QED BY <1>1, <1>2, <1>3 DEF Registered, Own

\* The registration of every module
LEMMA AfterInitFollows ==
    ASSUME NEW handlers, Registered(handlers), Own(handlers), NEW configs
    PROVE  Follows(AfterInit(handlers, configs), configs)
<1>1. PICK h1, h2, h3 :
          /\ h1 = AfterSetConfig(handlers, "governance", configs["governance"])
          /\ h2 = AfterSetConfig(h1, "token_factory", configs["token_factory"])
          /\ h3 = AfterSetConfig(h2, "dex", configs["dex"])
  OBVIOUS
<1>2. AfterInit(handlers, configs) = h3
  <2>1. /\ Len(Configurations) = 3 /\ Configurations[1] = "governance"
        /\ Configurations[2] = "token_factory" /\ Configurations[3] = "dex"
    BY DEF Configurations
  <2>2. PICK after : after = CHOOSE run : InitRun(handlers, configs, run)
    OBVIOUS
  <2>3. AfterInit(handlers, configs) = after[3]
    BY <2>1, <2>2 DEF AfterInit, InitRun
  <2>4. PICK run : run = [i \in 0 .. 3 |-> IF i = 0 THEN handlers ELSE IF i = 1 THEN h1
                                           ELSE IF i = 2 THEN h2 ELSE h3]
    OBVIOUS
  <2>5. InitRun(handlers, configs, run)
    <3>1. run[0] = handlers /\ run[1] = h1 /\ run[2] = h2 /\ run[3] = h3
      BY <2>4
    <3>2. \A i \in 0 .. 3 :
              run[i] = IF i = 0 THEN handlers
                       ELSE AfterSetConfig(run[i - 1], Configurations[i], configs[Configurations[i]])
      <4>1. ASSUME NEW i \in 0 .. 3
            PROVE  run[i] = IF i = 0 THEN handlers
                            ELSE AfterSetConfig(run[i - 1], Configurations[i], configs[Configurations[i]])
        <5>1. i = 0 \/ i = 1 \/ i = 2 \/ i = 3
          OBVIOUS
        <5>2. 1 - 1 = 0 /\ 2 - 1 = 1 /\ 3 - 1 = 2
          OBVIOUS
        <5> QED BY <1>1, <2>1, <3>1, <5>1, <5>2
      <4> QED BY <4>1
    <3>3. run = [i \in 0 .. 3 |-> run[i]]
      BY <2>4
    <3> HIDE <2>4
    <3> QED BY <2>1, <3>2, <3>3 DEF InitRun
  <2>6. InitRun(handlers, configs, after)
    BY <2>2, <2>5
  <2>7. \A i \in 0 .. 3 :
            after[i] = IF i = 0 THEN handlers
                       ELSE AfterSetConfig(after[i - 1], Configurations[i], configs[Configurations[i]])
    BY <2>1, <2>6 DEF InitRun
  <2>8. after[0] = handlers
    BY <2>7
  <2>9. after[1] = h1
    BY <1>1, <2>1, <2>7, <2>8
  <2>10. after[2] = h2
    BY <1>1, <2>1, <2>7, <2>9
  <2>11. after[3] = h3
    BY <1>1, <2>1, <2>7, <2>10
  <2> QED BY <2>3, <2>11
<1>4. /\ Registered(h1)
      /\ \A k \in Keys : \A name \in Modules :
            name \in Range(h1[k]) <=>
                IF name = "governance" /\ k \in KeysOf("governance")
                THEN Enables("governance", configs["governance"])
                ELSE name \in Range(handlers[k])
  BY <1>1, ModulesAre, AfterSetConfigFollows
<1>5. /\ Registered(h2)
      /\ \A k \in Keys : \A name \in Modules :
            name \in Range(h2[k]) <=>
                IF name = "token_factory" /\ k \in KeysOf("token_factory")
                THEN Enables("token_factory", configs["token_factory"])
                ELSE name \in Range(h1[k])
  BY <1>1, <1>4, ModulesAre, AfterSetConfigFollows
<1>6. /\ Registered(h3)
      /\ \A k \in Keys : \A name \in Modules :
            name \in Range(h3[k]) <=>
                IF name = "dex" /\ k \in KeysOf("dex")
                THEN Enables("dex", configs["dex"])
                ELSE name \in Range(h2[k])
  BY <1>1, <1>5, ModulesAre, AfterSetConfigFollows
<1>7. ASSUME NEW k \in Keys PROVE Range(h3[k]) = AsksFor(k, configs)
  <2>1. Range(h3[k]) \subseteq Modules
    BY <1>6, RangeOfSeq DEF Registered, Lists
  <2>2. ASSUME NEW name \in Modules
        PROVE  name \in Range(h3[k]) <=> k \in KeysOf(name) /\ Enables(name, configs[name])
    <3>1. CASE k \notin KeysOf(name)
      <4>1. name \notin Range(handlers[k])
        BY <3>1 DEF Own
      <4> QED BY <1>4, <1>5, <1>6, <3>1, <4>1
    <3>2. CASE k \in KeysOf(name) /\ name = "token_factory"
      BY <1>5, <1>6, <3>2
    <3>3. CASE k \in KeysOf(name) /\ name = "dex"
      BY <1>6, <3>3
    <3>4. CASE k \in KeysOf(name) /\ name = "governance"
      BY <3>4 DEF KeysOf
    <3> QED BY <3>1, <3>2, <3>3, <3>4, ModulesAre
  <2> QED BY <2>1, <2>2 DEF AsksFor
<1> QED BY <1>2, <1>6, <1>7 DEF Follows, Registered

-------------------------------------------------------------------------------
(* What a block makes of a store *)

\* What every action of a proposal keeps
Keeps(start, state) ==
    /\ IsState(state)
    /\ GoodConfigs(state.configs) /\ Fixed(start.configs, state.configs)
    /\ state.treasury = start.treasury /\ state.generator = start.generator
    /\ Registered(start.handlers) => Tracks(start, state)

LEMMA ActionsKeep ==
    ASSUME NEW start, IsState(start), GoodConfigs(start.configs),
           NEW actions, Len(actions) \in Nat,
           \A i \in 1 .. Len(actions) : actions[i].module \in Modules,
           NEW after \in RunActions(start, actions)
    PROVE  Keeps(start, after)
<1>1. PICK run : /\ run[0] = {start}
                 /\ \A i \in 1 .. Len(actions) : run[i] = AfterAction(run[i - 1], actions[i])
                 /\ RunActions(start, actions) = run[Len(actions)]
  BY RunActionsRuns
<1> DEFINE AllKeep(i) == \A state \in run[i] : Keeps(start, state)
           Good == {i \in 0 .. Len(actions) : AllKeep(i)}
<1>2. 0 \in Good
  <2>1. Registered(start.handlers) => Tracks(start, start)
    BY DEF Tracks
  <2>2. Keeps(start, start)
    BY <2>1 DEF Keeps, Fixed
  <2> QED BY <1>1, <2>2
<1>3. ASSUME NEW m \in 0 .. Len(actions) - 1, m \in Good PROVE m + 1 \in Good
  <2>1. /\ m + 1 \in 1 .. Len(actions) /\ (m + 1) - 1 = m
        /\ AllKeep(m)
    BY <1>3
  <2>2. ASSUME NEW next \in run[m + 1] PROVE Keeps(start, next)
    <3>1. PICK state \in run[m] : next \in RunAction(state, actions[m + 1])
      BY <1>1, <2>1, <2>2 DEF AfterAction
    <3>2. PICK action : action = actions[m + 1]
      OBVIOUS
    <3>3. action.module \in Modules /\ next \in RunAction(state, action)
      BY <2>1, <3>1, <3>2
    <3>4. /\ IsState(state) /\ GoodConfigs(state.configs) /\ Fixed(start.configs, state.configs)
          /\ state.treasury = start.treasury /\ state.generator = start.generator
          /\ Registered(start.handlers) => Tracks(start, state)
      BY <2>1 DEF Keeps
    <3>5. IsState(next) /\ next.treasury = state.treasury /\ next.generator = state.generator
      BY <3>3, <3>4, ActionKeepsFields
    <3>6. GoodConfigs(next.configs) /\ Fixed(state.configs, next.configs)
      BY <3>3, <3>4, ActionKeepsConfigs
    <3>7. Registered(start.handlers) => Tracks(start, next)
      BY <3>3, <3>4, ActionTracks
    <3> QED BY <3>4, <3>5, <3>6, <3>7 DEF Keeps, Fixed
  <2>3. AllKeep(m + 1)
    BY <2>2
  <2> QED BY <2>1, <2>3
<1>4. Len(actions) \in Good
  <2>1. \A m \in 0 .. Len(actions) - 1 : m \in Good => m + 1 \in Good
    BY <1>3
  <2> HIDE DEF Good
  <2>2. \A m \in 0 .. Len(actions) : m \in Good
    BY ONLY <1>2, <2>1, UpTo, Len(actions) \in Nat
  <2> QED BY <2>2
<1> QED BY <1>1, <1>4

\* A node that has the store and the handlers when it begins a block
StartFrom(store, handlers) ==
    [configs |-> store.configs, handlers |-> handlers,
     treasury |-> store.treasury, generator |-> store.generator, failed |-> FALSE]
StoreOf(state) ==
    [configs |-> state.configs, treasury |-> state.treasury, generator |-> state.generator]

\* A block at a height makes a state of a store and handlers.
Makes(before, handlers, height, block, after) ==
    after \in RunActions(Rewarded(StartFrom(before, handlers), height), ActionLists[block.proposal])

\* What a block at a height adds to a store
Pays(before, height, after) ==
    LET config == before.configs["governance"]
        reward == BlockReward[height]
    IN  /\ after.treasury = before.treasury + TreasuryGets(config, height, reward)
        /\ after.generator = before.generator + NonNegative(RewardContext(config, height, reward))

\* A state as it is before the first action of a block
Begins(before, handlers, height, state) ==
    /\ IsState(state)
    /\ state.configs = before.configs /\ state.handlers = handlers /\ state.failed = FALSE
    /\ Pays(before, height, state)

LEMMA RewardedBegins ==
    ASSUME NEW before, NEW handlers, NEW height
    PROVE  Begins(before, handlers, height, Rewarded(StartFrom(before, handlers), height))
BY DEF Begins, Rewarded, StartFrom, IsState, Pays

Blocks == [proposal : DOMAIN ActionLists, converts : BOOLEAN]

\* A block makes the same store on every node that begins it with the same store.
LEMMA BlockIsFunction ==
    ASSUME NEW before, NEW height, NEW block \in Blocks,
           NEW handlers1, NEW after1, Makes(before, handlers1, height, block, after1),
           NEW handlers2, NEW after2, Makes(before, handlers2, height, block, after2)
    PROVE  Same(after1, after2) /\ StoreOf(after1) = StoreOf(after2)
<1>1. PICK s1, s2 : /\ s1 = Rewarded(StartFrom(before, handlers1), height)
                    /\ s2 = Rewarded(StartFrom(before, handlers2), height)
  OBVIOUS
<1>2. IsState(s1) /\ IsState(s2) /\ Same(s1, s2)
  <2>1. Begins(before, handlers1, height, s1) /\ Begins(before, handlers2, height, s2)
    BY <1>1, RewardedBegins
  <2> QED BY <2>1 DEF Begins, Same, Pays
<1>3. PICK actions : actions = ActionLists[block.proposal]
  OBVIOUS
<1>4. Len(actions) \in Nat
  BY <1>3, ConstantsAssumption DEF Blocks
<1>5. after1 \in RunActions(s1, actions) /\ after2 \in RunActions(s2, actions)
  BY <1>1, <1>3 DEF Makes
<1>6. Same(after1, after2)
  BY <1>2, <1>4, <1>5, SameActions
<1> QED BY <1>6 DEF Same, StoreOf

\* What a block makes of a good store
LEMMA BlockKeeps ==
    ASSUME NEW before, GoodConfigs(before.configs), NEW height, NEW block \in Blocks,
           NEW handlers, NEW after, Makes(before, handlers, height, block, after)
    PROVE  /\ IsState(after)
           /\ GoodConfigs(after.configs) /\ Fixed(before.configs, after.configs)
           /\ Pays(before, height, after)
           /\ Follows(handlers, before.configs) \/ Follows(handlers, after.configs)
                  => Follows(after.handlers, after.configs)
<1>1. PICK start : start = Rewarded(StartFrom(before, handlers), height)
  OBVIOUS
<1>2. Begins(before, handlers, height, start)
  BY <1>1, RewardedBegins
<1>3. PICK actions : actions = ActionLists[block.proposal]
  OBVIOUS
<1>4. Len(actions) \in Nat /\ \A i \in 1 .. Len(actions) : actions[i].module \in Modules
  BY <1>3, ConstantsAssumption DEF Blocks
<1>5. after \in RunActions(start, actions)
  BY <1>1, <1>3 DEF Makes
<1>6. Keeps(start, after)
  BY <1>2, <1>4, <1>5, ActionsKeep DEF Begins
<1>7. Follows(handlers, before.configs) \/ Follows(handlers, after.configs)
          => Follows(after.handlers, after.configs)
  <2>1. ASSUME Follows(handlers, before.configs) \/ Follows(handlers, after.configs)
        PROVE  Tracks(start, after)
    BY <1>2, <1>6, <2>1 DEF Begins, Follows, Registered, Keeps
  <2> QED BY <1>2, <2>1, TrackedFollows DEF Begins
<1> QED BY <1>2, <1>6, <1>7 DEF Begins, Keeps, Fixed, Pays

-------------------------------------------------------------------------------
(* The schedule of rewards *)

\* What the reward of a block needs of a configuration
HasBrackets(config) ==
    /\ config[Offset] \in Nat /\ config[Offset] >= 1
    /\ config[Distance] \in Nat /\ config[Distance] >= 1
    /\ config[MintBracket] \in Seq(Brackets) /\ config[TaxBracket] \in Seq(Brackets)

LEMMA GoodBrackets ==
    ASSUME NEW configs, GoodConfigs(configs)
    PROVE  HasBrackets(configs["governance"])
<1>1. Verify("governance", configs["governance"])
  BY NotGovernableLeaves DEF GoodConfigs
<1>2. VerifyGovernance(configs["governance"])
  BY <1>1 DEF Verify
<1> QED BY <1>2 DEF VerifyGovernance, HasBrackets

LEMMA LocationIs ==
    ASSUME NEW config, HasBrackets(config), NEW height \in Nat
    PROVE  LET location == BracketLocation(config, height)
           IN  /\ location \in Nat
               /\ height < config[Offset] => location = 0
               /\ height >= config[Offset] =>
                      /\ location * config[Distance] <= height - config[Offset]
                      /\ height - config[Offset] < location * config[Distance] + config[Distance]
<1>1. PICK offset \in Nat, distance \in Nat :
          offset = config[Offset] /\ distance = config[Distance] /\ distance >= 1
  BY DEF HasBrackets
<1>2. CASE height < offset
  BY <1>1, <1>2 DEF BracketLocation
<1>3. CASE height >= offset
  <2>1. PICK a \in Nat : a = height - offset
    BY <1>3
  <2>2. a \div distance \in Nat /\ (a \div distance) * distance <= a
        /\ a < (a \div distance) * distance + distance
    BY <1>1
  <2>3. BracketLocation(config, height) = a \div distance
    BY <1>1, <1>3, <2>1 DEF BracketLocation
  <2> QED BY <1>1, <1>3, <2>1, <2>2, <2>3
<1> QED BY <1>1, <1>2, <1>3

\* The bracket that the code looks up is the one that is scheduled for the height.
LEMMA BracketIsScheduled ==
    ASSUME NEW config, HasBrackets(config), NEW brackets \in {MintBracket, TaxBracket},
           NEW height \in Nat, NEW reward
    PROVE  ParseBigintOrPercentage(Bracket(config[brackets], BracketLocation(config, height)), reward)
               = Scheduled(config, brackets, height, reward)
<1>1. PICK list \in Seq(Brackets) : list = config[brackets]
  BY DEF HasBrackets
<1>2. CASE list = <<>>
  BY <1>1, <1>2 DEF Bracket, Scheduled, NothingToMint, ParseBigintOrPercentage
<1>3. CASE list # <<>>
  <2>1. PICK periods \in Nat : periods = Len(list) /\ periods >= 1
    BY <1>3, EmptySeq
  <2>2. PICK offset \in Nat, distance \in Nat :
            offset = config[Offset] /\ distance = config[Distance] /\ distance >= 1
    BY DEF HasBrackets
  <2>3. PICK location \in Nat : location = BracketLocation(config, height)
    BY LocationIs
  <2>4. /\ height < offset => location = 0
        /\ height >= offset => /\ location * distance <= height - offset
                               /\ height - offset < location * distance + distance
    BY <2>2, <2>3, LocationIs
  <2>5. PICK p \in 1 .. periods : p = IF location > periods - 1 THEN periods ELSE location + 1
    BY <2>1
  <2>6. Bracket(list, location) = list[p]
    BY <1>3, <2>1, <2>5 DEF Bracket, Last
  <2>7. ScheduledFor(config, p, periods, height)
    <3>1. p > 1 => height >= offset + (p - 1) * distance
      <4>1. CASE p > 1
        <5>1. p - 1 \in Nat /\ p - 1 <= location /\ location > 0
          BY <2>5, <4>1
        <5>2. (p - 1) * distance <= location * distance
          BY <5>1
        <5>3. (p - 1) * distance \in Nat /\ location * distance \in Nat
          BY <5>1
        <5> QED BY <2>4, <5>1, <5>2, <5>3
      <4> QED BY <4>1
    <3>2. p < periods => height < offset + p * distance
      <4>1. CASE p < periods
        <5>1. p = location + 1
          BY <2>5, <4>1
        <5>2. p * distance = location * distance + distance
          BY <5>1
        <5>3. PICK n \in Nat : n = location * distance
          OBVIOUS
        <5>4. height < offset \/ height - offset < n + distance
          BY <2>4, <5>3
        <5>5. height < offset + (n + distance)
          BY <5>4
        <5> QED BY <5>2, <5>3, <5>5
      <4> QED BY <4>1
    <3> QED BY <2>2, <3>1, <3>2 DEF ScheduledFor
  <2>8. ASSUME NEW i \in 1 .. periods, NEW j \in 1 .. periods, i < j,
               ScheduledFor(config, i, periods, height), ScheduledFor(config, j, periods, height)
        PROVE  FALSE
    <3>1. height < offset + i * distance
      BY <2>2, <2>8 DEF ScheduledFor
    <3>2. height >= offset + (j - 1) * distance
      BY <2>2, <2>8 DEF ScheduledFor
    <3>3. i * distance <= (j - 1) * distance
      <4>1. i \in Nat /\ j - 1 \in Nat /\ i <= j - 1
        BY <2>8
      <4> QED BY <4>1
    <3>4. i * distance \in Nat /\ (j - 1) * distance \in Nat
      OBVIOUS
    <3> QED BY <3>1, <3>2, <3>3, <3>4
  <2>9. (CHOOSE i \in 1 .. periods : ScheduledFor(config, i, periods, height)) = p
    <3>1. \A i \in 1 .. periods : ScheduledFor(config, i, periods, height) => i = p
      <4>1. ASSUME NEW i \in 1 .. periods, ScheduledFor(config, i, periods, height), i # p PROVE FALSE
        <5>1. i < p \/ p < i
          BY <4>1
        <5> QED BY <2>7, <2>8, <4>1, <5>1
      <4> QED BY <4>1
    <3> QED BY <2>7, <3>1
  <2> QED BY <1>1, <1>3, <2>1, <2>3, <2>6, <2>9 DEF Scheduled
<1> QED BY <1>2, <1>3

LEMMA ParsedIsInt ==
    ASSUME NEW amount \in Brackets, NEW reward \in Nat
    PROVE  ParseBigintOrPercentage(amount, reward) \in Int
BY DEF Brackets, ParseBigintOrPercentage, RoundHalfUp

LEMMA BracketTyped ==
    ASSUME NEW list \in Seq(Brackets), NEW location \in Nat
    PROVE  Bracket(list, location) \in Brackets
<1>1. NothingToMint \in Brackets
  BY DEF NothingToMint, Brackets
<1>2. ASSUME list # <<>> PROVE Bracket(list, location) \in Brackets
  <2>1. Len(list) \in Nat /\ Len(list) >= 1
    BY <1>2, EmptySeq
  <2>2. list[Len(list)] \in Brackets
    BY <2>1, ElementOfSeq
  <2>3. location <= Len(list) - 1 => list[location + 1] \in Brackets
    BY <2>1, ElementOfSeq
  <2> QED BY <1>2, <2>1, <2>2, <2>3 DEF Bracket, Last
<1> QED BY <1>1, <1>2 DEF Bracket

LEMMA RewardIs ==
    ASSUME NEW config, HasBrackets(config), NEW height \in Nat, NEW reward \in Nat
    PROVE  LET tax == Scheduled(config, TaxBracket, height, reward)
               mint == Scheduled(config, MintBracket, height, reward)
           IN  /\ tax \in Int /\ mint \in Int
               /\ TreasuryGets(config, height, reward) = mint + tax
               /\ RewardContext(config, height, reward) = reward - tax
<1>1. /\ Minted(config, height, reward) = Scheduled(config, MintBracket, height, reward)
      /\ Taxed(config, height, reward) = Scheduled(config, TaxBracket, height, reward)
  BY BracketIsScheduled DEF Minted, Taxed
<1>2. BracketLocation(config, height) \in Nat
  BY LocationIs
<1>3. Minted(config, height, reward) \in Int /\ Taxed(config, height, reward) \in Int
  BY <1>2, BracketTyped, ParsedIsInt DEF Minted, Taxed, HasBrackets
<1> QED BY <1>1, <1>3 DEF TreasuryGets, RewardContext

-------------------------------------------------------------------------------
(* A node *)

\* The store before the first block
Genesis(file) == [configs |-> file, treasury |-> 0, generator |-> 0]
StoreBefore(stores, file, height) == IF height = 1 THEN Genesis(file) ELSE stores[height - 1]
Latest(node) == IF Height(node) = 0 THEN Genesis(node.file) ELSE Last(node.stores)

GoodStore(file, store) ==
    /\ GoodConfigs(store.configs) /\ Fixed(file, store.configs)
    /\ store.treasury \in Int /\ store.generator \in Int

\* A store that a block leaves
LeftBy(before, height, block, store) ==
    \E handlers, after : Makes(before, handlers, height, block, after) /\ store = StoreOf(after)

NodeFields == {"file", "running", "handlers", "executed", "stores", "steady"}

\* What holds of a node of a chain whose genesis has the configuration of a file
NodeOK(node, blocks, file) ==
    /\ DOMAIN node = NodeFields
    /\ node.file \in Files
    /\ node.executed \in Seq(Blocks)
    /\ \E S : node.stores \in Seq(S)
    /\ Len(node.stores) = Len(node.executed)
    /\ Len(node.executed) <= Len(blocks)
    /\ Len(node.executed) = 0 => node.file = file /\ node.handlers = NoHandlers
    /\ Len(node.executed) > 0 => node.executed[1] = blocks[1] /\ GoodConfigs(file)
    /\ \A h \in 1 .. Len(node.executed) :
          /\ GoodStore(file, node.stores[h])
          /\ LeftBy(StoreBefore(node.stores, file, h), h, node.executed[h], node.stores[h])
    /\ node.steady /\ Len(node.executed) > 0
          => node.running /\ Follows(node.handlers, node.stores[Len(node.executed)].configs)

\* The handlers that a node begins a block with
Beginning(node) ==
    IF Height(node) = 0 THEN AfterInit(node.handlers, node.file) ELSE node.handlers

LEMMA ConfiguredIs ==
    ASSUME NEW node
    PROVE  Configured(node) = StartFrom(Latest(node), Beginning(node))
BY DEF Configured, StartFrom, Latest, Beginning, Genesis

LEMMA ExecutedMakes ==
    ASSUME NEW node, NEW block, NEW after
    PROVE  after \in Executed(node, block) <=>
               Makes(Latest(node), Beginning(node), Height(node) + 1, block, after)
BY ConfiguredIs DEF Executed, Makes

LEMMA LatestIsGood ==
    ASSUME NEW blocks, NEW file \in Files, NEW node, NodeOK(node, blocks, file), Initializes(node)
    PROVE  /\ GoodStore(file, Latest(node)) /\ GoodConfigs(file)
           /\ Latest(node) = StoreBefore(node.stores, file, Len(node.executed) + 1)
<1>1. Len(node.executed) \in Nat
  BY LenProperties DEF NodeOK
<1>2. CASE Len(node.executed) = 0
  <2>1. node.file = file
    BY <1>2 DEF NodeOK
  <2>2. GoodConfigs(file)
    BY <1>2, <2>1, FilesAre DEF Initializes, Height, GoodConfigs
  <2>3. Latest(node) = Genesis(file)
    BY <1>2, <2>1 DEF Latest, Height
  <2>4. GoodStore(file, Genesis(file))
    BY <2>2 DEF GoodStore, Genesis, Fixed
  <2> QED BY <1>2, <2>2, <2>3, <2>4 DEF StoreBefore
<1>3. CASE Len(node.executed) > 0
  <2>1. PICK n \in Nat : n = Len(node.executed) /\ n > 0
    BY <1>1, <1>3
  <2>2. Latest(node) = node.stores[n]
    BY <2>1 DEF Latest, Height, Last, NodeOK
  <2>3. GoodStore(file, node.stores[n]) /\ GoodConfigs(file)
    BY <2>1 DEF NodeOK
  <2> QED BY <2>1, <2>2, <2>3 DEF StoreBefore
<1> QED BY <1>1, <1>2, <1>3

\* Sequences of anything
LEMMA AppendAny ==
    ASSUME NEW S, NEW list \in Seq(S), NEW x
    PROVE  /\ Append(list, x) \in Seq(S \cup {x})
           /\ Len(Append(list, x)) = Len(list) + 1
           /\ \A i \in 1 .. Len(list) : Append(list, x)[i] = list[i]
           /\ Append(list, x)[Len(list) + 1] = x
<1>1. list \in Seq(S \cup {x}) /\ x \in S \cup {x}
  BY SeqMonotonic
<1> QED BY <1>1, AppendProperties

\* The block that a node executes
LEMMA WithBlockOK ==
    ASSUME NEW file \in Files, NEW blocks, NEW node, NodeOK(node, blocks, file), Initializes(node),
           node.running, NEW block \in Blocks, NEW blocks2 \in Seq(Blocks), Len(blocks2) <= MaxHeight,
           Len(node.executed) < Len(blocks2),
           blocks2[1] = IF Len(node.executed) = 0 THEN block ELSE blocks[1],
           NEW handlers, NEW after,
           Makes(Latest(node), handlers, Len(node.executed) + 1, block, after),
           node.steady => \/ Follows(handlers, Latest(node).configs)
                          \/ Follows(handlers, after.configs)
    PROVE  NodeOK(WithBlock(node, block, after), blocks2, file)
<1>1. PICK next : next = WithBlock(node, block, after)
  OBVIOUS
<1>2. PICK n \in Nat : n = Len(node.executed) /\ n = Len(node.stores)
  BY LenProperties DEF NodeOK
<1>3. GoodStore(file, Latest(node)) /\ GoodConfigs(file)
      /\ Latest(node) = StoreBefore(node.stores, file, n + 1)
  BY <1>2, LatestIsGood
<1>4. PICK store : store = StoreOf(after)
  OBVIOUS
<1>5. DOMAIN node = NodeFields
  BY DEF NodeOK
<1>6. /\ DOMAIN next = NodeFields /\ next.file = node.file /\ next.steady = node.steady
      /\ next.running = node.running /\ next.handlers = after.handlers
      /\ next.executed = Append(node.executed, block) /\ next.stores = Append(node.stores, store)
  BY <1>1, <1>4, <1>5 DEF WithBlock, NodeFields, StoreOf
<1>7. /\ next.executed \in Seq(Blocks) /\ Len(next.executed) = n + 1
      /\ \A h \in 1 .. n : next.executed[h] = node.executed[h]
      /\ next.executed[n + 1] = block
  <2>1. node.executed \in Seq(Blocks)
    BY DEF NodeOK
  <2>2. /\ next.executed \in Seq(Blocks)
        /\ Len(next.executed) = Len(node.executed) + 1
        /\ \A h \in 1 .. Len(node.executed) : next.executed[h] = node.executed[h]
        /\ next.executed[Len(node.executed) + 1] = block
    BY ONLY <1>6, <2>1, block \in Blocks, AppendProperties
  <2> QED BY <1>2, <2>2
<1>8. /\ \E S : next.stores \in Seq(S)
      /\ Len(next.stores) = n + 1
      /\ \A h \in 1 .. n : next.stores[h] = node.stores[h]
      /\ next.stores[n + 1] = store
  <2>1. PICK S : node.stores \in Seq(S)
    BY DEF NodeOK
  <2>2. /\ next.stores \in Seq(S \cup {store})
        /\ Len(next.stores) = Len(node.stores) + 1
        /\ \A h \in 1 .. Len(node.stores) : next.stores[h] = node.stores[h]
        /\ next.stores[Len(node.stores) + 1] = store
    BY ONLY <1>6, <2>1, AppendAny
  <2> QED BY <1>2, <2>2
<1>9. /\ IsState(after)
      /\ GoodConfigs(after.configs) /\ Fixed(Latest(node).configs, after.configs)
      /\ Pays(Latest(node), n + 1, after)
      /\ Follows(handlers, Latest(node).configs) \/ Follows(handlers, after.configs)
             => Follows(after.handlers, after.configs)
  BY <1>2, <1>3, BlockKeeps DEF GoodStore
<1>10. GoodStore(file, store)
  <2>1. PICK config, reward : config = Latest(node).configs["governance"] /\ reward = BlockReward[n + 1]
    OBVIOUS
  <2>2. n + 1 \in 1 .. MaxHeight
    BY <1>2, ConstantsAssumption, LenProperties
  <2>3. HasBrackets(config) /\ reward \in Nat
    BY <1>3, <2>1, <2>2, GoodBrackets, ConstantsAssumption DEF GoodStore
  <2>4. PICK tax, mint : /\ tax = Scheduled(config, TaxBracket, n + 1, reward)
                         /\ mint = Scheduled(config, MintBracket, n + 1, reward)
    OBVIOUS
  <2>8. /\ tax \in Int /\ mint \in Int
        /\ TreasuryGets(config, n + 1, reward) = mint + tax
        /\ RewardContext(config, n + 1, reward) = reward - tax
    BY <2>3, <2>4, RewardIs
  <2>5. TreasuryGets(config, n + 1, reward) \in Int /\ NonNegative(RewardContext(config, n + 1, reward)) \in Int
    BY <2>3, <2>8 DEF NonNegative
  <2>6. after.treasury \in Int /\ after.generator \in Int
    BY <1>3, <1>9, <2>1, <2>5 DEF Pays, GoodStore
  <2>7. Fixed(file, after.configs)
    BY <1>3, <1>9 DEF Fixed, GoodStore
  <2> QED BY <1>4, <1>9, <2>6, <2>7 DEF GoodStore, StoreOf
<1>11. ASSUME NEW h \in 1 .. n + 1
       PROVE  /\ GoodStore(file, next.stores[h])
              /\ LeftBy(StoreBefore(next.stores, file, h), h, next.executed[h], next.stores[h])
  <2>1. StoreBefore(next.stores, file, h) = StoreBefore(node.stores, file, h)
    <3>1. h # 1 => h - 1 \in 1 .. n
      BY <1>2
    <3> QED BY <1>8, <3>1 DEF StoreBefore
  <2>2. CASE h = n + 1
    <3>1. LeftBy(StoreBefore(node.stores, file, n + 1), n + 1, block, store)
      BY <1>2, <1>3, <1>4 DEF LeftBy
    <3> QED BY <1>7, <1>8, <1>10, <2>1, <2>2, <3>1
  <2>3. CASE h \in 1 .. n
    <3>1. /\ GoodStore(file, node.stores[h])
          /\ LeftBy(StoreBefore(node.stores, file, h), h, node.executed[h], node.stores[h])
      BY <1>2, <2>3 DEF NodeOK
    <3> QED BY <1>7, <1>8, <2>1, <2>3, <3>1
  <2> QED BY <1>2, <2>2, <2>3
<1>12. next.executed[1] = blocks2[1]
  <2>1. CASE n = 0
    BY <1>2, <1>7, <2>1
  <2>2. CASE n > 0
    BY <1>2, <1>7, <2>2 DEF NodeOK
  <2> QED BY <2>1, <2>2
<1>13. next.steady => next.running /\ Follows(next.handlers, next.stores[n + 1].configs)
  <2>1. store.configs = after.configs
    BY <1>4 DEF StoreOf
  <2> QED BY <1>6, <1>8, <1>9, <2>1
<1>14. n + 1 <= Len(blocks2)
  BY <1>2, LenProperties
<1>15. node.file \in Files
  BY DEF NodeOK
<1> QED BY <1>1, <1>3, <1>6, <1>7, <1>8, <1>11, <1>12, <1>13, <1>14, <1>15 DEF NodeOK

\* Another node, when the chain changes
LEMMA OtherNodeOK ==
    ASSUME NEW file, NEW blocks, NEW node, NodeOK(node, blocks, file), NEW blocks2,
           Len(blocks) \in Nat, Len(blocks2) \in Nat, Len(blocks) <= Len(blocks2),
           Len(blocks) > 0 => blocks2[1] = blocks[1]
    PROVE  NodeOK(node, blocks2, file)
<1>1. Len(node.executed) \in Nat
  BY LenProperties DEF NodeOK
<1>2. Len(node.executed) <= Len(blocks2) /\ (Len(node.executed) > 0 => blocks2[1] = node.executed[1])
  BY <1>1 DEF NodeOK
<1> QED BY <1>2 DEF NodeOK

\* A node that starts, or stops
LEMMA StoppedNodeOK ==
    ASSUME NEW file, NEW blocks, NEW node, NodeOK(node, blocks, file),
           NEW next, DOMAIN next = NodeFields,
           next.executed = node.executed, next.stores = node.stores, next.handlers = NoHandlers,
           next.file \in Files, Len(node.executed) = 0 => next.file = node.file,
           ~(next.steady /\ Len(node.executed) > 0)
    PROVE  NodeOK(next, blocks, file)
BY DEF NodeOK

LEMMA RevertedNodeOK ==
    ASSUME NEW file, NEW blocks \in Seq(Blocks), NEW node, NodeOK(node, blocks, file),
           ~IsPrefix(node.executed, blocks),
           NEW next, next = [node EXCEPT !.executed = Front(@), !.stores = Front(@), !.steady = FALSE]
    PROVE  NodeOK(next, blocks, file)
<1>1. PICK n \in Nat : n = Len(node.executed) /\ n = Len(node.stores)
  BY LenProperties DEF NodeOK
<1>2. node.executed \in Seq(Blocks) /\ n <= Len(blocks) /\ Len(blocks) \in Nat
  BY <1>1, LenProperties DEF NodeOK
<1>0. \A i \in 1 .. n : node.executed[i] \in Blocks /\ blocks[i] \in Blocks
  <2>1. node.executed \in Seq(Blocks) /\ blocks \in Seq(Blocks)
    BY <1>2
  <2>2. /\ \A i \in 1 .. Len(node.executed) : node.executed[i] \in Blocks
        /\ \A i \in 1 .. Len(blocks) : blocks[i] \in Blocks
    BY ONLY <2>1, ElementOfSeq
  <2> QED BY <1>1, <1>2, <2>2
<1>3. n >= 2
  <2>1. CASE n = 0
    <3>1. SubSeq(node.executed, 1, n) = <<>> /\ SubSeq(blocks, 1, n) = <<>>
      BY <2>1, SubSeqEmpty
    <3> QED BY <1>1, <1>2, <3>1 DEF IsPrefix
  <2>2. CASE n = 1
    <3>1. node.executed[1] = blocks[1]
      BY <1>1, <2>2 DEF NodeOK
    <3>2. \A i \in 1 .. n : node.executed[i] \in Blocks /\ blocks[i] \in Blocks
      BY <1>0
    <3>3. PICK s, t : s = SubSeq(node.executed, 1, n) /\ t = SubSeq(blocks, 1, n)
      OBVIOUS
    <3>4. /\ s \in Seq(Blocks) /\ Len(s) = 1 /\ s[1] = node.executed[1]
          /\ t \in Seq(Blocks) /\ Len(t) = 1 /\ t[1] = blocks[1]
      <4>1. 1 \in Int /\ n \in Int /\ n = 1
        BY <2>2
      <4>2. s \in Seq(Blocks) /\ Len(s) = (IF 1 <= n THEN n - 1 + 1 ELSE 0)
            /\ \A i \in 1 .. n - 1 + 1 : s[i] = node.executed[1 + i - 1]
        BY ONLY <3>2, <3>3, <4>1, SubSeqProperties
      <4>3. t \in Seq(Blocks) /\ Len(t) = (IF 1 <= n THEN n - 1 + 1 ELSE 0)
            /\ \A i \in 1 .. n - 1 + 1 : t[i] = blocks[1 + i - 1]
        BY ONLY <3>2, <3>3, <4>1, SubSeqProperties
      <4> QED BY <4>1, <4>2, <4>3
    <3>5. s = t
      BY <3>1, <3>4, SeqEqual
    <3> QED BY <1>1, <1>2, <3>3, <3>5 DEF IsPrefix
  <2>3. n # 0 /\ n # 1
    BY <2>1, <2>2
  <2> QED BY <2>3
<1>4. DOMAIN node = NodeFields
  BY DEF NodeOK
<1>5. /\ DOMAIN next = NodeFields /\ next.file = node.file /\ next.steady = FALSE
      /\ next.handlers = node.handlers
      /\ next.executed = Front(node.executed) /\ next.stores = Front(node.stores)
  BY <1>4 DEF NodeFields
<1>6. /\ next.executed \in Seq(Blocks) /\ Len(next.executed) = n - 1
      /\ \A h \in 1 .. n - 1 : next.executed[h] = node.executed[h]
  <2>1. 1 \in Int /\ n - 1 \in Int /\ \A i \in 1 .. n - 1 : node.executed[i] \in Blocks
    BY <1>0
  <2>2. next.executed = SubSeq(node.executed, 1, n - 1)
    BY <1>1, <1>5 DEF Front
  <2>3. /\ next.executed \in Seq(Blocks)
        /\ Len(next.executed) = IF 1 <= n - 1 THEN (n - 1) - 1 + 1 ELSE 0
        /\ \A i \in 1 .. (n - 1) - 1 + 1 : next.executed[i] = node.executed[1 + i - 1]
    BY ONLY <2>1, <2>2, SubSeqProperties
  <2> QED BY <1>3, <2>3
<1>7. PICK S : node.stores \in Seq(S)
  BY DEF NodeOK
<1>8. /\ next.stores \in Seq(S) /\ Len(next.stores) = n - 1
      /\ \A h \in 1 .. n - 1 : next.stores[h] = node.stores[h]
  <2>1. 1 \in Int /\ n - 1 \in Int /\ \A i \in 1 .. n - 1 : node.stores[i] \in S
    BY <1>1, <1>7, ElementOfSeq
  <2>2. next.stores = SubSeq(node.stores, 1, n - 1)
    BY <1>1, <1>5 DEF Front
  <2>3. /\ next.stores \in Seq(S)
        /\ Len(next.stores) = IF 1 <= n - 1 THEN (n - 1) - 1 + 1 ELSE 0
        /\ \A i \in 1 .. (n - 1) - 1 + 1 : next.stores[i] = node.stores[1 + i - 1]
    BY ONLY <2>1, <2>2, SubSeqProperties
  <2> QED BY <1>3, <2>3
<1>9. ASSUME NEW h \in 1 .. n - 1
      PROVE  /\ GoodStore(file, next.stores[h])
             /\ LeftBy(StoreBefore(next.stores, file, h), h, next.executed[h], next.stores[h])
  <2>1. h \in 1 .. n /\ (h # 1 => h - 1 \in 1 .. n - 1)
    OBVIOUS
  <2>2. StoreBefore(next.stores, file, h) = StoreBefore(node.stores, file, h)
    BY <1>8, <2>1 DEF StoreBefore
  <2>3. /\ GoodStore(file, node.stores[h])
        /\ LeftBy(StoreBefore(node.stores, file, h), h, node.executed[h], node.stores[h])
    BY <1>1, <2>1 DEF NodeOK
  <2> QED BY <1>6, <1>8, <2>2, <2>3
<1>10. /\ node.file \in Files
       /\ node.executed[1] = blocks[1] /\ GoodConfigs(file)
  BY <1>1, <1>3 DEF NodeOK
<1>11. next.executed[1] = blocks[1] /\ n - 1 # 0 /\ n - 1 <= Len(blocks)
  BY <1>2, <1>3, <1>6, <1>10
<1> QED BY <1>5, <1>6, <1>7, <1>8, <1>9, <1>10, <1>11 DEF NodeOK

-------------------------------------------------------------------------------
(* The chain and its nodes *)

ChainOK == chain \in Seq(Blocks) /\ Len(chain) <= MaxHeight /\ DOMAIN nodes = Nodes

\* Every node that executed blocks began with the same file.
ChainInv == ChainOK /\ \E file \in Files : \A n \in Nodes : NodeOK(nodes[n], chain, file)

LEMMA ChainInvInit == Init => ChainInv
<1> SUFFICES ASSUME Init PROVE ChainInv
  OBVIOUS
<1>1. PICK file \in Files :
          nodes = [n \in Nodes |->
              [file |-> file, running |-> FALSE, handlers |-> NoHandlers,
               executed |-> <<>>, stores |-> <<>>, steady |-> TRUE]]
  BY DEF Init
<1>2. chain = <<>> /\ <<>> \in Seq(Blocks) /\ Len(<<>>) = 0 /\ <<>> \in Seq({})
  BY EmptySeq DEF Init
<1>3. ASSUME NEW n \in Nodes PROVE NodeOK(nodes[n], chain, file)
  <2>1. PICK node : node = nodes[n]
    OBVIOUS
  <2>2. /\ DOMAIN node = NodeFields /\ node.file = file /\ node.handlers = NoHandlers
        /\ node.executed = <<>> /\ node.stores = <<>>
    BY <1>1, <2>1 DEF NodeFields
  <2>3. NodeOK(node, <<>>, file)
    BY <1>2, <2>2 DEF NodeOK
  <2> QED BY <1>2, <2>1, <2>3
<1>4. ChainOK
  BY <1>1, <1>2, ConstantsAssumption DEF ChainOK
<1> QED BY <1>3, <1>4 DEF ChainInv

\* A step of one node, by which the chain grows or stays
StepOf(n, next) ==
    /\ nodes' = [nodes EXCEPT ![n] = next]
    /\ chain' \in Seq(Blocks) /\ Len(chain') <= MaxHeight /\ Len(chain) <= Len(chain')
    /\ Len(chain) > 0 => chain'[1] = chain[1]
    /\ \A file \in Files : NodeOK(nodes[n], chain, file) => NodeOK(next, chain', file)

LEMMA NodeStep == ASSUME ChainInv, NEW n \in Nodes, NEW next, StepOf(n, next) PROVE ChainInv'
<1>1. PICK file \in Files : \A i \in Nodes : NodeOK(nodes[i], chain, file)
  BY DEF ChainInv
<1>2. Len(chain) \in Nat /\ Len(chain') \in Nat
  BY LenProperties DEF ChainInv, ChainOK, StepOf
<1>3. DOMAIN nodes' = Nodes /\ \A i \in Nodes : nodes'[i] = IF i = n THEN next ELSE nodes[i]
  BY DEF ChainInv, ChainOK, StepOf
<1>4. ASSUME NEW i \in Nodes PROVE NodeOK(nodes'[i], chain', file)
  <2>1. CASE i = n
    BY <1>1, <1>3, <2>1 DEF StepOf
  <2>2. CASE i # n
    <3>1. NodeOK(nodes[i], chain, file)
      BY <1>1
    <3>2. NodeOK(nodes[i], chain', file)
      BY <1>2, <3>1, OtherNodeOK DEF StepOf
    <3> QED BY <1>3, <2>2, <3>2
  <2> QED BY <2>1, <2>2
<1>5. ChainOK'
  BY <1>3 DEF ChainOK, StepOf
<1> QED BY <1>4, <1>5 DEF ChainInv

LEMMA StartKeeps == ASSUME ChainInv, NEW n \in Nodes, Start(n) PROVE ChainInv'
<1>1. PICK node, next : /\ node = nodes[n]
                        /\ next = [node EXCEPT !.running = TRUE, !.handlers = NoHandlers]
  OBVIOUS
<1>2. nodes' = [nodes EXCEPT ![n] = next] /\ chain' = chain /\ ~node.running
  BY <1>1 DEF Start
<1>3. ASSUME NEW file \in Files, NodeOK(node, chain, file) PROVE NodeOK(next, chain, file)
  <2>1. DOMAIN node = NodeFields
    BY <1>3 DEF NodeOK
  <2>2. /\ DOMAIN next = NodeFields /\ next.executed = node.executed /\ next.stores = node.stores
        /\ next.handlers = NoHandlers /\ next.file = node.file /\ next.steady = node.steady
    BY <1>1, <2>1 DEF NodeFields
  <2>3. ~(next.steady /\ Len(node.executed) > 0) /\ next.file \in Files
    BY <1>2, <1>3, <2>2 DEF NodeOK
  <2> QED BY <1>3, <2>2, <2>3, StoppedNodeOK
<1>4. chain \in Seq(Blocks) /\ Len(chain) <= MaxHeight /\ Len(chain) \in Nat
  BY LenProperties DEF ChainInv, ChainOK
<1>5. StepOf(n, next)
  BY <1>1, <1>2, <1>3, <1>4 DEF StepOf
<1> QED BY <1>5, NodeStep

LEMMA RestartKeeps ==
    ASSUME ChainInv, NEW n \in Nodes, NEW operators \in Files, Restart(n, operators)
    PROVE  ChainInv'
<1>1. PICK node, next : /\ node = nodes[n]
                        /\ next = [node EXCEPT !.running = FALSE, !.handlers = NoHandlers,
                                               !.file = operators, !.steady = Height(node) = 0]
  OBVIOUS
<1>2. /\ nodes' = [nodes EXCEPT ![n] = next] /\ chain' = chain
      /\ operators = node.file \/ Height(node) > 0
  BY <1>1 DEF Restart
<1>3. ASSUME NEW file \in Files, NodeOK(node, chain, file) PROVE NodeOK(next, chain, file)
  <2>1. DOMAIN node = NodeFields /\ Len(node.executed) \in Nat
    BY <1>3, LenProperties DEF NodeOK
  <2>2. /\ DOMAIN next = NodeFields /\ next.executed = node.executed /\ next.stores = node.stores
        /\ next.handlers = NoHandlers /\ next.file = operators
        /\ next.steady = (Height(node) = 0)
    BY <1>1, <2>1 DEF NodeFields
  <2>3. ~(next.steady /\ Len(node.executed) > 0)
    <3>1. Len(node.executed) > 0 => Height(node) # 0
      BY <2>1 DEF Height
    <3> QED BY <2>2, <3>1, Zenon
  <2>4. Len(node.executed) = 0 => next.file = node.file
    BY <1>2, <2>1, <2>2 DEF Height
  <2> QED BY <1>3, <2>2, <2>3, <2>4, StoppedNodeOK
<1>4. chain \in Seq(Blocks) /\ Len(chain) <= MaxHeight /\ Len(chain) \in Nat
  BY LenProperties DEF ChainInv, ChainOK
<1>5. StepOf(n, next)
  BY <1>1, <1>2, <1>3, <1>4 DEF StepOf
<1> QED BY <1>5, NodeStep

LEMMA RevertKeeps == ASSUME ChainInv, NEW n \in Nodes, Revert(n) PROVE ChainInv'
<1>1. PICK node, next : /\ node = nodes[n]
                        /\ next = [node EXCEPT !.executed = Front(@), !.stores = Front(@), !.steady = FALSE]
  OBVIOUS
<1>2. nodes' = [nodes EXCEPT ![n] = next] /\ chain' = chain /\ ~IsPrefix(node.executed, chain)
  BY <1>1 DEF Revert, OnChain
<1>4. chain \in Seq(Blocks) /\ Len(chain) <= MaxHeight /\ Len(chain) \in Nat
  BY LenProperties DEF ChainInv, ChainOK
<1>3. ASSUME NEW file \in Files, NodeOK(node, chain, file) PROVE NodeOK(next, chain, file)
  BY <1>1, <1>2, <1>3, <1>4, RevertedNodeOK
<1>5. StepOf(n, next)
  BY <1>1, <1>2, <1>3, <1>4 DEF StepOf
<1> QED BY <1>5, NodeStep

LEMMA BeginningFollows ==
    ASSUME NEW node, NEW blocks, NEW file \in Files, NodeOK(node, blocks, file), node.steady
    PROVE  Follows(Beginning(node), Latest(node).configs)
<1>1. Len(node.executed) \in Nat
  BY LenProperties DEF NodeOK
<1>2. CASE Len(node.executed) = 0
  <2>1. node.handlers = NoHandlers
    BY <1>2 DEF NodeOK
  <2>2. Follows(AfterInit(NoHandlers, node.file), node.file)
    BY NoHandlersOwn, AfterInitFollows
  <2> QED BY <1>2, <2>1, <2>2 DEF Beginning, Latest, Height, Genesis
<1>3. CASE Len(node.executed) > 0
  <2>1. Len(node.executed) # 0
    BY <1>1, <1>3
  <2>2. Latest(node) = node.stores[Len(node.executed)]
    BY <2>1 DEF Latest, Height, Last, NodeOK
  <2>3. Beginning(node) = node.handlers
    BY <2>1 DEF Beginning, Height
  <2> QED BY <1>3, <2>2, <2>3 DEF NodeOK
<1> QED BY <1>1, <1>2, <1>3

LEMMA ExecuteKeeps == ASSUME ChainInv, NEW n \in Nodes, Execute(n) PROVE ChainInv'
<1>1. PICK node, block : node = nodes[n] /\ block = chain[Height(node) + 1]
  OBVIOUS
<1>2. /\ node.running /\ Height(node) < Len(chain) /\ Initializes(node) /\ chain' = chain
      /\ OnChain(node)
  BY <1>1 DEF Execute
<1>3. PICK after \in Executed(node, block) : nodes' = [nodes EXCEPT ![n] = WithBlock(node, block, after)]
  BY <1>1 DEF Execute
<1>4. chain \in Seq(Blocks) /\ Len(chain) <= MaxHeight /\ Len(chain) \in Nat
  BY LenProperties DEF ChainInv, ChainOK
<1>5. ASSUME NEW file \in Files, NodeOK(node, chain, file)
      PROVE  NodeOK(WithBlock(node, block, after), chain, file)
  <2>1. Len(node.executed) \in Nat
    BY <1>5, LenProperties DEF NodeOK
  <2>2. block \in Blocks
    <3>1. Len(node.executed) + 1 \in 1 .. Len(chain)
      BY <1>2, <1>4, <2>1 DEF Height
    <3> QED BY <1>1, <1>4, <3>1, ElementOfSeq DEF Height
  <2>3. Makes(Latest(node), Beginning(node), Len(node.executed) + 1, block, after)
    BY <1>3, ExecutedMakes DEF Height
  <2>4. node.steady => Follows(Beginning(node), Latest(node).configs)
    BY <1>5, BeginningFollows
  <2>5. chain[1] = IF Len(node.executed) = 0 THEN block ELSE chain[1]
    BY <1>1 DEF Height
  <2>6. Len(node.executed) < Len(chain)
    BY <1>2 DEF Height
  <2> QED BY <1>2, <1>4, <1>5, <2>2, <2>3, <2>4, <2>5, <2>6, WithBlockOK
<1>6. StepOf(n, WithBlock(node, block, after))
  BY <1>1, <1>2, <1>3, <1>4, <1>5 DEF StepOf
<1> QED BY <1>6, NodeStep

\* Forging runs the block twice.
RunsTwice(node, n, block) ==
    \E made \in Executed(node, block) :
        \E after \in Executed([node EXCEPT !.handlers = made.handlers], block) :
            nodes' = [nodes EXCEPT ![n] = WithBlock(node, block, after)]

LEMMA ForgeKeeps ==
    ASSUME ChainInv, NEW n \in Nodes, NEW proposal \in DOMAIN ActionLists, Forge(n, proposal)
    PROVE  ChainInv'
<1>1. PICK node, block :
          /\ node = nodes[n]
          /\ block = [proposal |-> proposal, converts |-> Height(node) + 1 \in NeedyAt /\ Converts(node)]
  OBVIOUS
<1>2. /\ node.running /\ node.steady /\ node.executed = chain /\ Len(chain) < MaxHeight
      /\ Initializes(node) /\ chain' = Append(chain, block)
  BY <1>1 DEF Forge
<1>3. PICK made \in Executed(node, block) :
          \E after \in Executed([node EXCEPT !.handlers = made.handlers], block) :
              nodes' = [nodes EXCEPT ![n] = WithBlock(node, block, after)]
  <2>1. RunsTwice(nodes[n], n, [proposal |-> proposal,
                                converts |-> /\ Height(nodes[n]) + 1 \in NeedyAt
                                             /\ Converts(nodes[n])])
    BY Zenon DEF Forge, RunsTwice
  <2>2. RunsTwice(node, n, block)
    BY <1>1, <2>1, Zenon
  <2> QED BY <2>2, Zenon DEF RunsTwice
<1>4. PICK again : again = [node EXCEPT !.handlers = made.handlers]
  OBVIOUS
<1>5. PICK after \in Executed(again, block) : nodes' = [nodes EXCEPT ![n] = WithBlock(node, block, after)]
  BY <1>3, <1>4
<1>6. chain \in Seq(Blocks) /\ Len(chain) <= MaxHeight /\ Len(chain) \in Nat
  BY LenProperties DEF ChainInv, ChainOK
<1>7. block \in Blocks
  <2>1. (Height(node) + 1 \in NeedyAt /\ Converts(node)) \in BOOLEAN
    BY DEF Converts
  <2> QED BY <1>1, <2>1 DEF Blocks
<1>8. /\ chain' \in Seq(Blocks) /\ Len(chain') = Len(chain) + 1
      /\ \A i \in 1 .. Len(chain) : chain'[i] = chain[i]
      /\ chain'[Len(chain) + 1] = block
  BY <1>2, <1>6, <1>7, AppendProperties
<1>9. ASSUME NEW file \in Files, NodeOK(node, chain, file)
      PROVE  NodeOK(WithBlock(node, block, after), chain', file)
  <2>1. Len(node.executed) \in Nat /\ DOMAIN node = NodeFields
    BY <1>9, LenProperties DEF NodeOK
  <2>2. /\ again.executed = node.executed /\ again.stores = node.stores /\ again.file = node.file
        /\ again.handlers = made.handlers
    BY <1>4, <2>1 DEF NodeFields
  <2>3. Latest(again) = Latest(node) /\ Height(again) = Height(node)
    BY <2>2 DEF Latest, Height
  <2>4. PICK before : before = Latest(node)
    OBVIOUS
  <2>5. /\ Makes(before, Beginning(node), Len(node.executed) + 1, block, made)
        /\ Makes(before, Beginning(again), Len(node.executed) + 1, block, after)
    BY <1>3, <1>5, <2>3, <2>4, ExecutedMakes DEF Height
  <2>6. made.configs = after.configs
    BY <1>7, <2>5, BlockIsFunction DEF Same
  <2>7. Follows(Beginning(node), before.configs)
    BY <1>2, <1>9, <2>4, BeginningFollows
  <2>8. GoodConfigs(before.configs)
    BY <1>2, <1>9, <2>4, LatestIsGood DEF GoodStore
  <2>9. Follows(made.handlers, made.configs)
    BY <1>7, <2>5, <2>7, <2>8, BlockKeeps
  <2>10. Follows(Beginning(again), before.configs) \/ Follows(Beginning(again), after.configs)
    <3>1. CASE Len(node.executed) = 0
      <4>1. Beginning(again) = AfterInit(made.handlers, node.file) /\ before = Genesis(node.file)
        BY <2>2, <2>3, <2>4, <3>1 DEF Beginning, Latest, Height
      <4>2. Registered(made.handlers) /\ Own(made.handlers)
        BY <2>9 DEF Follows, Registered, Own, AsksFor
      <4>3. Follows(AfterInit(made.handlers, node.file), node.file)
        BY <4>2, AfterInitFollows
      <4> QED BY <4>1, <4>3 DEF Genesis
    <3>2. CASE Len(node.executed) # 0
      <4>1. Beginning(again) = made.handlers
        BY <2>2, <3>2 DEF Beginning, Height
      <4> QED BY <2>6, <2>9, <4>1
    <3> QED BY <3>1, <3>2
  <2>11. Len(node.executed) < Len(chain') /\ Len(chain') <= MaxHeight
    BY <1>2, <1>6, <1>8, ConstantsAssumption
  <2>12. chain'[1] = IF Len(node.executed) = 0 THEN block ELSE chain[1]
    BY <1>2, <1>6, <1>8
  <2>13. Makes(Latest(node), Beginning(again), Len(node.executed) + 1, block, after)
    BY <2>4, <2>5
  <2>14. \/ Follows(Beginning(again), Latest(node).configs)
         \/ Follows(Beginning(again), after.configs)
    BY <2>4, <2>10
  <2>15. Initializes(node) /\ node.running
    BY <1>2
  <2>16. chain' \in Seq(Blocks)
    BY <1>8
  <2>17. node.steady => \/ Follows(Beginning(again), Latest(node).configs)
                        \/ Follows(Beginning(again), after.configs)
    BY <2>14
  <2> HIDE DEF Blocks
  <2> QED BY ONLY file \in Files, <1>7, <1>9, <2>11, <2>12, <2>13, <2>15, <2>16, <2>17, WithBlockOK
<1>10. /\ Len(chain') <= MaxHeight /\ Len(chain) <= Len(chain')
       /\ Len(chain) > 0 => chain'[1] = chain[1]
  BY <1>2, <1>6, <1>8, ConstantsAssumption
<1>11. StepOf(n, WithBlock(node, block, after))
  BY <1>1, <1>5, <1>8, <1>9, <1>10 DEF StepOf
<1> QED BY <1>11, NodeStep

LEMMA ForkKeeps ==
    ASSUME ChainInv, NEW proposal \in DOMAIN ActionLists, Fork(proposal) PROVE ChainInv'
<1>1. chain \in Seq(Blocks) /\ Len(chain) <= MaxHeight /\ Len(chain) \in Nat /\ DOMAIN nodes = Nodes
  BY LenProperties DEF ChainInv, ChainOK
<1>2. PICK block \in Blocks : block = [proposal |-> proposal, converts |-> FALSE]
  BY DEF Blocks
<1>3. Len(chain) > 1 /\ chain' = [chain EXCEPT ![Len(chain)] = block] /\ nodes' = nodes
  BY <1>2 DEF Fork
<1>4. /\ chain' \in Seq(Blocks) /\ Len(chain') = Len(chain) /\ chain'[1] = chain[1]
  <2>1. Len(chain) \in 1 .. Len(chain) /\ 1 \in 1 .. Len(chain) /\ 1 # Len(chain)
    BY <1>1, <1>3
  <2>2. /\ chain' \in Seq(Blocks) /\ Len(chain') = Len(chain)
        /\ \A j \in 1 .. Len(chain) : chain'[j] = IF j = Len(chain) THEN block ELSE chain[j]
    BY <1>1, <1>3, <2>1, ExceptSeq
  <2> QED BY <2>1, <2>2
<1>5. PICK file \in Files : \A i \in Nodes : NodeOK(nodes[i], chain, file)
  BY DEF ChainInv
<1>6. ASSUME NEW i \in Nodes PROVE NodeOK(nodes'[i], chain', file)
  <2>1. NodeOK(nodes[i], chain, file)
    BY <1>5
  <2>2. NodeOK(nodes[i], chain', file)
    BY <1>1, <1>4, <2>1, OtherNodeOK
  <2> QED BY <1>3, <2>2
<1>7. ChainOK'
  BY <1>1, <1>3, <1>4 DEF ChainOK
<1> QED BY <1>6, <1>7 DEF ChainInv

LEMMA ChainInvNext == ChainInv /\ [Next]_vars => ChainInv'
<1> SUFFICES ASSUME ChainInv, [Next]_vars PROVE ChainInv'
  OBVIOUS
<1>1. CASE UNCHANGED vars
  BY <1>1 DEF vars, ChainInv, ChainOK
<1>2. CASE Next
  BY <1>2, StartKeeps, ForgeKeeps, ExecuteKeeps, ForkKeeps, RevertKeeps, RestartKeeps DEF Next
<1> QED BY <1>1, <1>2

LEMMA ChainInvariant == Spec => []ChainInv
BY ChainInvInit, ChainInvNext, PTL DEF Spec

-------------------------------------------------------------------------------
(* Theorems *)

\* The blocks decide what is in a store, one after the other.
LEMMA SameBlocksSameStores ==
    ASSUME NEW file, NEW blocks, NEW a, NEW b, NodeOK(a, blocks, file), NodeOK(b, blocks, file),
           NEW height \in Nat, height > 0,
           height <= Len(a.executed), height <= Len(b.executed),
           \A i \in 1 .. height : a.executed[i] = b.executed[i]
    PROVE  a.stores[height] = b.stores[height]
<1> DEFINE Good == {h \in 0 .. height : h > 0 => a.stores[h] = b.stores[h]}
<1>1. 0 \in Good
  OBVIOUS
<1>2. ASSUME NEW m \in 0 .. height - 1, m \in Good PROVE m + 1 \in Good
  <2>1. PICK h \in 1 .. height : h = m + 1
    OBVIOUS
  <2>2. Len(a.executed) \in Nat /\ Len(b.executed) \in Nat
    BY LenProperties DEF NodeOK
  <2>3. h \in 1 .. Len(a.executed) /\ h \in 1 .. Len(b.executed)
    BY <2>1, <2>2
  <2>4. PICK before : before = StoreBefore(a.stores, file, h)
    OBVIOUS
  <2>5. before = StoreBefore(b.stores, file, h)
    BY <1>2, <2>1, <2>4 DEF StoreBefore
  <2>6. PICK block \in Blocks : block = a.executed[h] /\ block = b.executed[h]
    <3>1. a.executed \in Seq(Blocks)
      BY DEF NodeOK
    <3>2. a.executed[h] \in Blocks
      BY <2>3, <3>1, ElementOfSeq
    <3> QED BY <2>1, <3>2
  <2>7. LeftBy(before, h, block, a.stores[h]) /\ LeftBy(before, h, block, b.stores[h])
    BY <2>3, <2>4, <2>5, <2>6 DEF NodeOK
  <2>8. PICK handlers1, after1 : Makes(before, handlers1, h, block, after1) /\ a.stores[h] = StoreOf(after1)
    BY <2>7 DEF LeftBy
  <2>9. PICK handlers2, after2 : Makes(before, handlers2, h, block, after2) /\ b.stores[h] = StoreOf(after2)
    BY <2>7 DEF LeftBy
  <2>10. StoreOf(after1) = StoreOf(after2)
    BY <2>8, <2>9, BlockIsFunction
  <2> QED BY <2>1, <2>8, <2>9, <2>10
<1>3. \A m \in 0 .. height : m \in Good
  <2> HIDE DEF Good
  <2> QED BY <1>1, <1>2, UpTo
<1> QED BY <1>3

\* verify() and _updateIsGovernable: whatever actions are executed, also those of
\* proposals of which one fails half way, a store only ever has a configuration
\* that verify() accepts, with nothing changed that no proposal may change.
THEOREM ConfigTyped == Spec => []TypeOK
<1>1. ASSUME ChainInv PROVE TypeOK
  <2>1. PICK file \in Files : \A i \in Nodes : NodeOK(nodes[i], chain, file)
    BY <1>1 DEF ChainInv
  <2>2. Len(chain) <= MaxHeight
    BY <1>1 DEF ChainInv, ChainOK
  <2>3. ASSUME NEW n \in Nodes
        PROVE  /\ Len(nodes[n].stores) = Height(nodes[n])
               /\ \A store \in StoresOf(n), m \in Modules :
                   /\ DOMAIN store.configs[m] = Leaves[m]
                   /\ Verify(m, store.configs[m])
               /\ \A store \in StoresOf(n), leaf \in NotGovernable :
                   store.configs["governance"][leaf] = nodes[n].stores[1].configs["governance"][leaf]
    <3>1. NodeOK(nodes[n], chain, file) /\ Len(nodes[n].executed) \in Nat
      BY <2>1, LenProperties DEF NodeOK
    <3>2. ASSUME NEW store \in StoresOf(n)
          PROVE  GoodStore(file, store) /\ GoodStore(file, nodes[n].stores[1])
      <4>1. PICK h \in 1 .. Len(nodes[n].executed) : store = nodes[n].stores[h]
        BY DEF StoresOf, Height
      <4>2. 1 \in 1 .. Len(nodes[n].executed)
        BY <3>1, <4>1
      <4> QED BY <3>1, <4>1, <4>2 DEF NodeOK
    <3>3. Len(nodes[n].stores) = Height(nodes[n])
      BY <3>1 DEF NodeOK, Height
    <3>4. \A store \in StoresOf(n), m \in Modules :
              DOMAIN store.configs[m] = Leaves[m] /\ Verify(m, store.configs[m])
      BY <3>2 DEF GoodStore, GoodConfigs
    <3>5. \A store \in StoresOf(n), leaf \in NotGovernable :
              store.configs["governance"][leaf] = nodes[n].stores[1].configs["governance"][leaf]
      BY <3>2 DEF GoodStore, Fixed
    <3> QED BY <3>3, <3>4, <3>5
  <2> QED BY <2>2, <2>3 DEF TypeOK
<1> QED BY <1>1, ChainInvariant, PTL

\* The state of a chain: nodes that executed the same blocks have the same
\* configurations, and minted the same, whatever their files became, whenever
\* they were restarted, and whatever blocks were taken back from them.
THEOREM NodesAgree == Spec => []NodesAgreeOnConfig
<1>1. ASSUME ChainInv PROVE NodesAgreeOnConfig
  <2>1. PICK file \in Files : \A i \in Nodes : NodeOK(nodes[i], chain, file)
    BY <1>1 DEF ChainInv
  <2>2. ASSUME NEW n1 \in Nodes, NEW n2 \in Nodes, NEW height \in 1 .. Height(nodes[n1]),
               height <= Height(nodes[n2]),
               SubSeq(nodes[n1].executed, 1, height) = SubSeq(nodes[n2].executed, 1, height)
        PROVE  nodes[n1].stores[height] = nodes[n2].stores[height]
    <3>1. PICK a, b : a = nodes[n1] /\ b = nodes[n2]
      OBVIOUS
    <3>2. NodeOK(a, chain, file) /\ NodeOK(b, chain, file)
      BY <2>1, <3>1
    <3>3. a.executed \in Seq(Blocks) /\ b.executed \in Seq(Blocks)
      BY <3>2 DEF NodeOK
    <3>4. Len(a.executed) \in Nat /\ Len(b.executed) \in Nat
      BY <3>3, LenProperties
    <3>5. height \in Nat /\ height > 0 /\ height <= Len(a.executed) /\ height <= Len(b.executed)
      BY <2>2, <3>1, <3>4 DEF Height
    <3>6. \A i \in 1 .. height : SubSeq(a.executed, 1, height)[i] = a.executed[i]
      BY <3>3, <3>4, <3>5, SubSeqProperties
    <3>7. \A i \in 1 .. height : SubSeq(b.executed, 1, height)[i] = b.executed[i]
      BY <3>3, <3>4, <3>5, SubSeqProperties
    <3>8. \A i \in 1 .. height : a.executed[i] = b.executed[i]
      BY <2>2, <3>1, <3>6, <3>7
    <3> QED BY <3>1, <3>2, <3>5, <3>8, SameBlocksSameStores
  <2> QED BY <2>2 DEF NodesAgreeOnConfig
<1> QED BY <1>1, ChainInvariant, PTL

\* addTreasuryReward: every block mints for the treasury what the configuration of
\* the block before schedules for its height, and its tax comes out of the
\* generator's reward; for any schedule and any heights.
THEOREM RewardsScheduled == Spec => []RewardsOnSchedule
<1>1. ASSUME ChainInv PROVE RewardsOnSchedule
  <2>1. PICK file \in Files : \A i \in Nodes : NodeOK(nodes[i], chain, file)
    BY <1>1 DEF ChainInv
  <2>2. chain \in Seq(Blocks) /\ Len(chain) <= MaxHeight /\ Len(chain) \in Nat
    BY <1>1, LenProperties DEF ChainInv, ChainOK
  <2>3. ASSUME NEW n \in Nodes, NEW height \in 2 .. Height(nodes[n]),
               NEW before, before = nodes[n].stores[height - 1],
               NEW after, after = nodes[n].stores[height],
               NEW config, config = before.configs["governance"],
               NEW reward, reward = BlockReward[height],
               NEW tax, tax = Scheduled(config, TaxBracket, height, reward)
        PROVE  /\ after.treasury - before.treasury
                      = tax + Scheduled(config, MintBracket, height, reward)
               /\ tax <= reward => after.generator - before.generator = reward - tax
    <3>1. PICK node : node = nodes[n]
      OBVIOUS
    <3>2. NodeOK(node, chain, file)
      BY <2>1, <3>1
    <3>3. Len(node.executed) \in Nat /\ Len(node.executed) <= Len(chain)
          /\ node.executed \in Seq(Blocks)
      BY <3>2, LenProperties DEF NodeOK
    <3>4. height \in Nat /\ height \in 1 .. Len(node.executed) /\ height # 1
          /\ height - 1 \in 1 .. Len(node.executed) /\ height \in 1 .. MaxHeight
      BY <2>2, <2>3, <3>1, <3>3, ConstantsAssumption DEF Height
    <3>5. reward \in Nat
      BY <2>3, <3>4, ConstantsAssumption
    <3>6. GoodStore(file, before)
      BY <2>3, <3>1, <3>2, <3>4 DEF NodeOK
    <3>7. PICK block \in Blocks : block = node.executed[height]
      BY <3>3, <3>4, ElementOfSeq
    <3>8. LeftBy(StoreBefore(node.stores, file, height), height, block, after)
      BY <2>3, <3>1, <3>2, <3>4, <3>7 DEF NodeOK
    <3>9. StoreBefore(node.stores, file, height) = before
      BY <2>3, <3>1, <3>4 DEF StoreBefore
    <3>10. PICK handlers, state : Makes(before, handlers, height, block, state) /\ after = StoreOf(state)
      BY <3>8, <3>9 DEF LeftBy
    <3>11. Pays(before, height, state)
      BY <3>6, <3>10, BlockKeeps DEF GoodStore
    <3>12. /\ after.treasury = before.treasury + TreasuryGets(config, height, reward)
           /\ after.generator = before.generator + NonNegative(RewardContext(config, height, reward))
      BY <2>3, <3>10, <3>11 DEF Pays, StoreOf
    <3>13. HasBrackets(config)
      BY <2>3, <3>6, GoodBrackets DEF GoodStore
    <3>14. PICK mint : mint = Scheduled(config, MintBracket, height, reward)
      OBVIOUS
    <3>15. /\ tax \in Int /\ mint \in Int
           /\ TreasuryGets(config, height, reward) = mint + tax
           /\ RewardContext(config, height, reward) = reward - tax
      BY <2>3, <3>4, <3>5, <3>13, <3>14, RewardIs
    <3>16. before.treasury \in Int /\ before.generator \in Int
      BY <3>6 DEF GoodStore
    <3>17. after.treasury - before.treasury = tax + mint
      BY <3>12, <3>15, <3>16
    <3>18. tax <= reward => after.generator - before.generator = reward - tax
      BY <3>5, <3>12, <3>15, <3>16 DEF NonNegative
    <3> QED BY <3>14, <3>17, <3>18
  <2> QED BY <2>3 DEF RewardsOnSchedule
<1> QED BY <1>1, ChainInvariant, PTL

\* afterSetConfig: as long as a node neither restarts nor reverts, what converts
\* fees in its memory is what its configuration asks for, each handler once, for
\* any actions, and although a node that generates a block runs its hooks twice.
THEOREM HandlersFollow == Spec => []HandlersFollowWhileSteady
<1>1. ASSUME ChainInv PROVE HandlersFollowWhileSteady
  <2>1. PICK file \in Files : \A i \in Nodes : NodeOK(nodes[i], chain, file)
    BY <1>1 DEF ChainInv
  <2>2. ASSUME NEW n \in Nodes, nodes[n].steady, Height(nodes[n]) > 0
        PROVE  HandlersMatch(nodes[n]) /\ \A k \in Keys : IsInjective(nodes[n].handlers[k])
    <3>1. PICK node : node = nodes[n]
      OBVIOUS
    <3>2. NodeOK(node, chain, file)
      BY <2>1, <3>1
    <3>3. Follows(node.handlers, node.stores[Len(node.executed)].configs)
      BY <2>2, <3>1, <3>2 DEF NodeOK, Height
    <3>4. Last(node.stores) = node.stores[Len(node.executed)]
      BY <3>2 DEF Last, NodeOK
    <3> QED BY <3>1, <3>3, <3>4 DEF HandlersMatch, Follows, AsksFor
  <2> QED BY <2>2 DEF HandlersFollowWhileSteady
<1> QED BY <1>1, ChainInvariant, PTL
===============================================================================
