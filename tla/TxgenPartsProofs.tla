--------------------------- MODULE TxgenPartsProofs ---------------------------
(***************************************************************************)
(* Proofs about the steps of the tools of TxgenParts, for all inputs: the  *)
(* start of a scenario (ScenarioStart), with the inductive invariant       *)
(* StartInv, its run (ScenarioRun), with RunInv, the nonces and keys of    *)
(* the Tempo plugin (TempoLanes), with TempoInv, and the waits of an       *)
(* instance with the scanner they share (ScenarioWaits), with WaitsInv.    *)
(***************************************************************************)
EXTENDS TxgenParts, FiniteSetTheorems, SequenceTheorems, TLAPS

(* The start of a scenario                                                 *)

Entries(c) == config.chains[c].setup
LedgerOf(c) == ledgers[config.chains[c].ledger]
Taken(c) == LedgerOf(c).pending \cup LedgerOf(c).included
Succeeded(c) == LedgerOf(c).included \ LedgerOf(c).reverted
AllValid == start.valid = Start!Chains

\* No other chain of the scenario has the ledger of c.
Alone(c) == \A d \in Start!Chains : config.chains[d].ledger = config.chains[c].ledger => d = c

\* The first entry of c whose success has not been seen, and whether its
\* transaction is under way.
NextEntry(c) == IF start.phase = "ready" \/ c < start.chain THEN Len(Entries(c)) + 1
                ELSE IF c = start.chain THEN setup.next ELSE 1
UnderWay(c) == start.phase # "ready" /\ c = start.chain /\ setup.at # "build"
Sent(c) == Taken(c) \cup (IF UnderWay(c) THEN {Start!Current} ELSE {})

StartTypes ==
    /\ config \in Starts
    /\ start \in [phase : {"load", "prepare", "validate", "initialize", "ready", "failed"},
                  chain : Start!Chains, valid : SUBSET Start!Chains, why : {start.why}]
    /\ nonces_of \in Seq([Start!Accounts -> Nat])
    /\ setup \in [next : Nat \ {0}, at : {"build", "send", "lookup", "receipt"}, tx : {setup.tx}]
    /\ setup.next <= Len(Entries(start.chain)) + 1
    /\ DOMAIN ledgers = Start!Names
    /\ \A name \in Start!Names : ledgers[name] \in [pending : {ledgers[name].pending}, included : {ledgers[name].included},
                                                   reverted : {ledgers[name].reverted}]

PhaseInv ==
    /\ start.phase = "load" => nonces_of = <<>> /\ start.chain = 1 /\ start.valid = {}
    /\ start.phase = "prepare" => Len(nonces_of) = start.chain - 1 /\ start.valid = {}
    /\ start.phase = "validate" => Len(nonces_of) = Len(config.chains) /\ start.valid = 1 .. start.chain - 1
    /\ start.phase \in {"initialize", "ready"} => AllValid
    /\ start.phase = "ready" => setup.at = "build"
    /\ start.phase \in {"prepare", "validate"} \/ AllValid => ~Start!Aliases
    /\ AllValid => Len(nonces_of) = Len(config.chains)

\* Until all chains are valid nothing has been sent.
QuietInv ==
    ~AllValid =>
        /\ setup.next = 1 /\ setup.at = "build"
        /\ \A name \in Start!Names : ledgers[name].pending = {} /\ ledgers[name].included = {}
        /\ \A c \in DOMAIN nonces_of : nonces_of[c] = [a \in Start!Accounts |-> config.nonces[a]]

\* The transaction under way is that of the next entry.
CurrentInv ==
    setup.at # "build" =>
        /\ setup.next \in DOMAIN Entries(start.chain)
        /\ Start!Current.content = Entries(start.chain)[setup.next].content

\* The nonces of a chain are those of its ledger once the transaction under way
\* is there.
Nonces(c) == [a \in Start!Accounts |-> config.nonces[a] + Cardinality({tx \in Sent(c) : tx.account = a})]

\* A ledger that is one chain's alone holds its entries, all but the next one
\* with success.
ChainInv(c) ==
    /\ IsFiniteSet(Taken(c)) /\ LedgerOf(c).pending \cap LedgerOf(c).included = {}
    /\ \A k \in 1 .. NextEntry(c) - 1 : \E tx \in Succeeded(c) : tx.content = Entries(c)[k].content
    /\ \A tx \in Taken(c) :
         \/ UnderWay(c) /\ tx = Start!Current
         \/ tx \in Succeeded(c) /\ \E k \in 1 .. NextEntry(c) - 1 : tx.content = Entries(c)[k].content
    /\ UnderWay(c) /\ start.phase = "initialize" /\ setup.at = "send" => Start!Current \notin Taken(c)
    /\ nonces_of[c] = Nonces(c)

SetupInv == AllValid => \A c \in Start!Chains : Alone(c) => ChainInv(c)

\* A chain that was refused for its steps' nonces has one that does not fit.
Refused ==
    LET steps == {k \in DOMAIN config.steps : config.steps[k].chain = start.chain}
    IN  \E k \in steps : ~Start!Fits(k, steps, Start!AfterSetup(Start!PendingNonces(Start!Ledger), Start!Chain))

RefusalInv == start.why = "static" => start.phase = "failed" /\ Refused

StartInv == StartTypes /\ PhaseInv /\ QuietInv /\ CurrentInv /\ SetupInv /\ RefusalInv

-----------------------------------------------------------------------------
LEMMA StartCount == \A S : Start!Cardinality(S) = Cardinality(S)
BY DEF Start!Cardinality, Cardinality

LEMMA StartInputs ==
    ASSUME config \in Starts
    PROVE  /\ Start!Chains = 1 .. Len(config.chains) /\ Len(config.chains) \in Nat \ {0}
           /\ \A a \in Start!Accounts : config.nonces[a] \in Nat
           /\ \A c \in Start!Chains :
                /\ config.chains[c].ledger \in Start!Names
                /\ Len(Entries(c)) \in Nat /\ DOMAIN Entries(c) = 1 .. Len(Entries(c))
                /\ \A k \in DOMAIN Entries(c) : Entries(c)[k].account \in Start!Accounts
                /\ \A k, l \in DOMAIN Entries(c) : Entries(c)[k].content = Entries(c)[l].content => k = l
<1>1. /\ config.chains \in Seq(Start!Range(config.chains)) /\ config.chains # <<>>
      /\ \A c \in DOMAIN config.chains :
           /\ Entries(c) \in Seq(Start!Range(Entries(c)))
           /\ \A k \in DOMAIN Entries(c) : config.nonces[Entries(c)[k].account] \in Nat
           /\ \A k, l \in DOMAIN Entries(c) : Entries(c)[k].content = Entries(c)[l].content => k = l
      /\ \A k \in DOMAIN config.steps : config.nonces[config.steps[k].account] \in Nat
  BY PartsAssumption DEF Start!StartAssumption, Entries
<1>2. Start!Chains = 1 .. Len(config.chains) /\ Len(config.chains) \in Nat \ {0}
  BY <1>1 DEF Start!Chains
<1>3. \A c \in Start!Chains : /\ config.chains[c].ledger \in Start!Names
                              /\ Len(Entries(c)) \in Nat /\ DOMAIN Entries(c) = 1 .. Len(Entries(c))
  BY <1>1 DEF Start!Chains, Start!Names
<1>4. \A c \in Start!Chains : \A k \in DOMAIN Entries(c) : Entries(c)[k].account \in Start!Accounts
  BY DEF Start!Accounts, Start!Range, Entries
<1>5. \A a \in Start!Accounts : \/ \E c \in Start!Chains : \E k \in DOMAIN Entries(c) : a = Entries(c)[k].account
                               \/ \E k \in DOMAIN config.steps : a = config.steps[k].account
  BY DEF Start!Accounts, Start!Range, Entries
<1> QED BY <1>1, <1>2, <1>3, <1>4, <1>5 DEF Start!Chains

LEMMA SameScenario ==
    ASSUME config' = config
    PROVE  /\ Start!Chains' = Start!Chains /\ Start!Names' = Start!Names /\ Start!Accounts' = Start!Accounts
           /\ \A c : Entries(c)' = Entries(c) /\ (Alone(c)' <=> Alone(c))
           /\ Start!Aliases' <=> Start!Aliases
BY SMTT(60) DEF Start!Chains, Start!Names, Start!Accounts, Start!Range, Entries, Alone, Start!Aliases

-----------------------------------------------------------------------------
(* A request that fails, or that goes on with the transaction under way    *)

Carries ==
    /\ UNCHANGED <<config, nonces_of>> /\ start.phase \notin {"ready", "failed"}
    /\ start'.phase \in {start.phase, "failed"} /\ start'.chain = start.chain /\ start'.valid = start.valid
    /\ start' \in [phase : {start'.phase}, chain : {start.chain}, valid : {start.valid}, why : {start'.why}]
    /\ setup' \in [next : {setup.next}, at : {"build", "send", "lookup", "receipt"}, tx : {setup.tx}]
    /\ setup'.at = "build" <=> setup.at = "build"
    /\ \/ ledgers' = ledgers /\ (start'.phase = "initialize" /\ setup'.at = "send" => setup.at = "send")
       \/ /\ start.phase = "initialize" /\ setup.at = "send" /\ ledgers' = Start!Accepted(Start!Current)
          /\ start'.phase = "initialize" => setup'.at # "send"

LEMMA Accepting ==
    ASSUME StartTypes, ledgers' = Start!Accepted(Start!Current), config' = config
    PROVE  /\ DOMAIN ledgers' = Start!Names
           /\ \A name \in Start!Names :
                /\ ledgers'[name] \in [pending : {ledgers'[name].pending}, included : {ledgers'[name].included},
                                       reverted : {ledgers'[name].reverted}]
                /\ ledgers'[name].included = ledgers[name].included
                /\ ledgers'[name].reverted = ledgers[name].reverted
                /\ name # config.chains[start.chain].ledger => ledgers'[name] = ledgers[name]
                /\ name = config.chains[start.chain].ledger =>
                     ledgers'[name].pending = ledgers[name].pending \cup {Start!Current}
<1> DEFINE l == config.chains[start.chain].ledger
           r == [ledgers[l] EXCEPT !.pending = @ \cup {Start!Current}]
<1>1. l \in Start!Names /\ DOMAIN ledgers = Start!Names
  BY SMTT(60), StartInputs DEF StartTypes
<1>2. ledgers' = [ledgers EXCEPT ![l] = r]
  BY SMTT(60) DEF Start!Accepted, Start!Chain
<1>3. /\ r \in [pending : {r.pending}, included : {r.included}, reverted : {r.reverted}]
      /\ r.pending = ledgers[l].pending \cup {Start!Current} /\ r.included = ledgers[l].included
      /\ r.reverted = ledgers[l].reverted
  BY <1>1 DEF StartTypes
<1> HIDE DEF r, l
<1> QED BY <1>1, <1>2, <1>3 DEF StartTypes, l

LEMMA CarriesKeeps == ASSUME StartInv, Carries, RefusalInv' PROVE StartInv'
<1>1. /\ Start!Chains' = Start!Chains /\ Start!Names' = Start!Names /\ Start!Accounts' = Start!Accounts
      /\ \A c : Entries(c)' = Entries(c) /\ (Alone(c)' <=> Alone(c))
      /\ Start!Aliases' <=> Start!Aliases
      /\ config \in Starts /\ config' = config /\ nonces_of' = nonces_of
  BY SameScenario DEF Carries, StartInv, StartTypes
<1>2. /\ AllValid' <=> AllValid
      /\ \A c : NextEntry(c)' = NextEntry(c) /\ (UnderWay(c)' <=> UnderWay(c))
      /\ Start!Current' = Start!Current
  BY <1>1 DEF Carries, AllValid, NextEntry, UnderWay, Start!Current
<1>3. StartTypes /\ PhaseInv /\ QuietInv /\ CurrentInv /\ SetupInv
  BY DEF StartInv
<1>4. StartTypes'
  <2>1. /\ start' \in [phase : {"load", "prepare", "validate", "initialize", "ready", "failed"},
                       chain : Start!Chains, valid : SUBSET Start!Chains, why : {start'.why}]
        /\ setup' \in [next : Nat \ {0}, at : {"build", "send", "lookup", "receipt"}, tx : {setup'.tx}]
        /\ setup'.next <= Len(Entries(start'.chain)) + 1
    BY <1>3 DEF Carries, StartTypes
  <2>2. /\ DOMAIN ledgers' = Start!Names
        /\ \A name \in Start!Names : ledgers'[name] \in [pending : {ledgers'[name].pending},
                                 included : {ledgers'[name].included}, reverted : {ledgers'[name].reverted}]
    BY <1>1, <1>3, Accepting DEF Carries, StartTypes
  <2> QED BY <1>1, <1>3, <2>1, <2>2 DEF StartTypes
<1>5. PhaseInv'
  BY <1>1, <1>2, <1>3 DEF Carries, PhaseInv
<1>6. QuietInv'
  BY <1>1, <1>2, <1>3 DEF Carries, QuietInv, PhaseInv
<1>7. CurrentInv'
  BY <1>1, <1>2, <1>3 DEF Carries, CurrentInv
<1>8. ASSUME AllValid, NEW c \in Start!Chains, Alone(c) PROVE ChainInv(c)'
  <2>1. ChainInv(c) /\ config.chains[c].ledger \in Start!Names
    BY <1>1, <1>3, <1>8, StartInputs DEF SetupInv
  <2>2. CASE LedgerOf(c)' = LedgerOf(c) /\ ~(c = start.chain /\ ledgers' # ledgers)
    <3>1. Taken(c)' = Taken(c) /\ Succeeded(c)' = Succeeded(c) /\ Sent(c)' = Sent(c)
      BY <1>2, <2>2 DEF Taken, Succeeded, Sent
    <3>2. Nonces(c)' = Nonces(c)
      BY <1>1, <3>1 DEF Nonces
    <3>3. UnderWay(c)' /\ start'.phase = "initialize" /\ setup'.at = "send"
             => UnderWay(c) /\ start.phase = "initialize" /\ setup.at = "send"
      BY <1>2, <2>2 DEF Carries, UnderWay
    <3> QED BY <1>1, <1>2, <2>1, <2>2, <3>1, <3>2, <3>3 DEF ChainInv
  <2>3. CASE c = start.chain /\ ledgers' # ledgers
    <3>1. /\ start.phase = "initialize" /\ setup.at = "send" /\ UnderWay(c) /\ Start!Current \notin Taken(c)
          /\ ledgers' = Start!Accepted(Start!Current)
          /\ ~(start'.phase = "initialize" /\ setup'.at = "send")
      BY SMTT(60), <2>1, <2>3 DEF Carries, UnderWay, ChainInv
    <3>2. /\ LedgerOf(c)'.pending = LedgerOf(c).pending \cup {Start!Current}
          /\ LedgerOf(c)'.included = LedgerOf(c).included /\ LedgerOf(c)'.reverted = LedgerOf(c).reverted
      BY <1>1, <1>3, <2>1, <2>3, <3>1, Accepting DEF LedgerOf
    <3>3. Taken(c)' = Taken(c) \cup {Start!Current} /\ Succeeded(c)' = Succeeded(c)
      BY <3>2 DEF Taken, Succeeded
    <3>4. Sent(c)' = Sent(c)
      BY <1>2, <3>1, <3>3 DEF Sent
    <3>5. Nonces(c)' = Nonces(c)
      BY <1>1, <3>4 DEF Nonces
    <3>6. IsFiniteSet(Taken(c)') /\ LedgerOf(c)'.pending \cap LedgerOf(c)'.included = {}
      <4>1. IsFiniteSet(Taken(c) \cup {Start!Current})
        BY <2>1, FS_AddElement DEF ChainInv
      <4> QED BY <2>1, <3>1, <3>2, <3>3, <4>1 DEF ChainInv, Taken
    <3>7. nonces_of'[c] = Nonces(c)'
      BY <1>1, <2>1, <3>5 DEF ChainInv
    <3> QED BY <1>1, <1>2, <2>1, <3>1, <3>3, <3>6, <3>7 DEF ChainInv
  <2>4. CASE c # start.chain /\ ledgers' # ledgers
    <3>1. config.chains[c].ledger # config.chains[start.chain].ledger /\ ledgers' = Start!Accepted(Start!Current)
      BY <1>3, <1>8, <2>4 DEF Alone, Carries, StartTypes
    <3>2. LedgerOf(c)' = LedgerOf(c)
      BY <1>1, <1>3, <2>1, <3>1, Accepting DEF LedgerOf
    <3> QED BY <2>2, <2>4, <3>2
  <2>5. CASE ledgers' = ledgers
    <3>1. LedgerOf(c)' = LedgerOf(c)
      BY <1>1, <2>5 DEF LedgerOf
    <3> QED BY <2>2, <2>5, <3>1
  <2> QED BY <2>3, <2>4, <2>5
<1>9. SetupInv'
  BY <1>1, <1>2, <1>8 DEF SetupInv
<1> QED BY <1>4, <1>5, <1>6, <1>7, <1>9 DEF StartInv

-----------------------------------------------------------------------------
(* The setup of a chain                                                    *)

\* The next entry is built, with the next nonce of its account.
Builds(tx) ==
    /\ start.phase = "initialize" /\ setup.at = "build" /\ UNCHANGED <<config, start, ledgers>>
    /\ setup.next <= Len(Entries(start.chain))
    /\ LET entry == Entries(start.chain)[setup.next]
       IN  /\ tx.account = entry.account /\ tx.content = entry.content
           /\ nonces_of' = [nonces_of EXCEPT ![start.chain][entry.account] = @ + 1]
    /\ setup' = [setup EXCEPT !.at = "send", !.tx = <<tx>>]

LEMMA BuildKeeps == ASSUME StartInv, NEW tx, Builds(tx) PROVE StartInv'
<1> DEFINE e == start.chain
           entry == Entries(e)[setup.next]
<1>0. /\ start.phase = "initialize" /\ setup.at = "build" /\ UNCHANGED <<config, start, ledgers>>
      /\ tx.account = entry.account /\ tx.content = entry.content
  BY DEF Builds
<1>1. /\ Start!Chains' = Start!Chains /\ Start!Names' = Start!Names /\ Start!Accounts' = Start!Accounts
      /\ \A c : Entries(c)' = Entries(c) /\ (Alone(c)' <=> Alone(c))
      /\ Start!Aliases' <=> Start!Aliases
      /\ config \in Starts /\ config' = config /\ start' = start /\ ledgers' = ledgers /\ RefusalInv'
      /\ e' = e
  <2>1. start.why # "static"
    BY <1>0 DEF StartInv, RefusalInv
  <2> QED BY <1>0, <2>1, SameScenario DEF StartInv, StartTypes, RefusalInv
<1>2. StartTypes /\ PhaseInv /\ CurrentInv /\ SetupInv /\ AllValid /\ AllValid'
  BY <1>0, <1>1 DEF StartInv, PhaseInv, AllValid
<1>3. /\ e \in Start!Chains /\ setup.next \in DOMAIN Entries(e) /\ entry.account \in Start!Accounts
      /\ DOMAIN Entries(e) = 1 .. Len(Entries(e)) /\ setup.next \in Nat \ {0} /\ e \in Nat
      /\ \A k, l \in DOMAIN Entries(e) : Entries(e)[k].content = Entries(e)[l].content => k = l
  BY <1>1, <1>2, StartInputs DEF StartTypes, Builds
<1>4. /\ setup'.at = "send" /\ setup'.next = setup.next /\ Start!Current' = tx
      /\ setup' \in [next : Nat \ {0}, at : {"build", "send", "lookup", "receipt"}, tx : {setup'.tx}]
  BY <1>2 DEF StartTypes, Start!Current, Builds
<1>5. /\ nonces_of \in Seq([Start!Accounts -> Nat]) /\ Len(nonces_of) = Len(config.chains)
      /\ DOMAIN nonces_of = Start!Chains
  BY <1>1, <1>2, StartInputs DEF StartTypes, PhaseInv
<1> DEFINE f == [nonces_of[e] EXCEPT ![entry.account] = nonces_of[e][entry.account] + 1]
<1>6. nonces_of' = [nonces_of EXCEPT ![e] = f] /\ f \in [Start!Accounts -> Nat]
      /\ \A a \in Start!Accounts : f[a] = IF a = entry.account THEN nonces_of[e][a] + 1 ELSE nonces_of[e][a]
  BY SMTT(60), <1>3, <1>5 DEF Builds
<1> HIDE DEF f, e, entry
<1>7. /\ nonces_of' \in Seq([Start!Accounts -> Nat]) /\ Len(nonces_of') = Len(nonces_of)
      /\ nonces_of'[e] = f /\ \A c \in Start!Chains : c # e => nonces_of'[c] = nonces_of[c]
  <2>1. e \in 1 .. Len(nonces_of)
    BY <1>3, <1>5
  <2> QED BY <1>5, <1>6, <2>1, ExceptSeq
<1>8. StartTypes'
  BY <1>1, <1>2, <1>4, <1>7 DEF StartTypes
<1>9. PhaseInv' /\ QuietInv'
  BY <1>0, <1>1, <1>2, <1>7 DEF PhaseInv, QuietInv
<1>10. CurrentInv'
  BY <1>0, <1>1, <1>3, <1>4 DEF CurrentInv, e, entry
<1>11. ASSUME NEW c \in Start!Chains, Alone(c) PROVE ChainInv(c)'
  <2>1. /\ Taken(c)' = Taken(c) /\ Succeeded(c)' = Succeeded(c) /\ LedgerOf(c)' = LedgerOf(c)
        /\ NextEntry(c)' = NextEntry(c) /\ ~UnderWay(c) /\ (UnderWay(c)' <=> c = e) /\ ChainInv(c)
    BY <1>0, <1>1, <1>2, <1>4, <1>11 DEF Taken, Succeeded, LedgerOf, NextEntry, UnderWay, SetupInv, e
  <2>2. CASE c # e
    <3>1. Sent(c)' = Sent(c)
      BY <2>1, <2>2 DEF Sent
    <3>2. nonces_of'[c] = Nonces(c)'
      BY <1>1, <1>7, <2>1, <2>2, <3>1 DEF Nonces, ChainInv
    <3> QED BY <1>1, <2>1, <2>2, <3>2 DEF ChainInv
  <2>3. CASE c = e
    <3>1. NextEntry(c) = setup.next
      BY <1>0, <1>3, <2>3 DEF NextEntry, e
    <3>2. tx \notin Taken(c)
      <4>1. ASSUME NEW k \in 1 .. NextEntry(c) - 1 PROVE tx.content # Entries(c)[k].content
        BY <1>0, <1>3, <2>3, <3>1 DEF e, entry
      <4> QED BY <2>1, <4>1 DEF ChainInv
    <3>3. Sent(c) = Taken(c) /\ Sent(c)' = Taken(c) \cup {tx}
      BY <1>4, <2>1, <2>3 DEF Sent
    <3>4. ASSUME NEW a \in Start!Accounts PROVE f[a] = Nonces(c)'[a]
      <4> DEFINE S == {x \in Taken(c) : x.account = a}
      <4>1. Nonces(c)'[a] = config.nonces[a] + Cardinality({x \in Taken(c) \cup {tx} : x.account = a})
        BY <1>1, <3>3 DEF Nonces
      <4>2. nonces_of[c][a] = config.nonces[a] + Cardinality(S)
        BY <2>1, <3>3 DEF ChainInv, Nonces
      <4>3. IsFiniteSet(S) /\ Cardinality(S) \in Nat
        <5>1. IsFiniteSet(S)
          BY <2>1, FS_Subset DEF ChainInv
        <5> QED BY <5>1, FS_CardinalityType
      <4>4. config.nonces[a] \in Nat
        BY <1>1, StartInputs
      <4>5. tx.account = entry.account
        BY <1>0
      <4>6. CASE a = entry.account
        <5>1. {x \in Taken(c) \cup {tx} : x.account = a} = S \cup {tx} /\ tx \notin S
          BY <3>2, <4>5, <4>6
        <5>2. Cardinality(S \cup {tx}) = Cardinality(S) + 1
          BY <4>3, <5>1, FS_AddElement
        <5>3. Cardinality({x \in Taken(c) \cup {tx} : x.account = a}) = Cardinality(S) + 1
          BY <5>1, <5>2
        <5>4. f[a] = nonces_of[c][a] + 1
          BY <1>6, <2>3, <4>6
        <5> HIDE DEF S
        <5> QED BY <4>1, <4>2, <4>3, <4>4, <5>3, <5>4
      <4>7. CASE a # entry.account
        <5>1. {x \in Taken(c) \cup {tx} : x.account = a} = S
          BY <4>5, <4>7
        <5> HIDE DEF S
        <5> QED BY <1>6, <2>3, <4>1, <4>2, <4>7, <5>1
      <4> QED BY <4>6, <4>7
    <3>5. nonces_of'[c] = Nonces(c)'
      <4>1. DOMAIN Nonces(c)' = Start!Accounts /\ Nonces(c)' = [a \in Start!Accounts |-> Nonces(c)'[a]]
        BY <1>1 DEF Nonces
      <4>2. f = [a \in Start!Accounts |-> f[a]]
        BY <1>6
      <4> QED BY <1>7, <2>3, <3>4, <4>1, <4>2
    <3> QED BY <1>1, <1>4, <2>1, <2>3, <3>2, <3>5 DEF ChainInv
  <2> QED BY <2>2, <2>3
<1>12. SetupInv'
  BY <1>1, <1>11 DEF SetupInv
<1> QED BY <1>1, <1>8, <1>9, <1>10, <1>12 DEF StartInv

\* The receipt of the transaction under way: its entry is done.
Succeeds ==
    /\ start.phase = "initialize" /\ setup.at = "receipt" /\ UNCHANGED <<config, start, ledgers, nonces_of>>
    /\ Start!Current \in Succeeded(start.chain)
    /\ setup' = [next |-> setup.next + 1, at |-> "build", tx |-> <<>>]

LEMMA SucceedsKeeps == ASSUME StartInv, Succeeds PROVE StartInv'
<1> DEFINE e == start.chain
<1>0. /\ start.phase = "initialize" /\ setup.at = "receipt" /\ UNCHANGED <<config, start, ledgers, nonces_of>>
      /\ Start!Current \in Succeeded(e)
  BY DEF Succeeds
<1>1. /\ Start!Chains' = Start!Chains /\ Start!Names' = Start!Names /\ Start!Accounts' = Start!Accounts
      /\ \A c : Entries(c)' = Entries(c) /\ (Alone(c)' <=> Alone(c))
      /\ Start!Aliases' <=> Start!Aliases
      /\ config \in Starts /\ config' = config /\ start' = start /\ ledgers' = ledgers /\ RefusalInv'
      /\ nonces_of' = nonces_of /\ e' = e
  <2>1. start.why # "static"
    BY <1>0 DEF StartInv, RefusalInv
  <2> QED BY <1>0, <2>1, SameScenario DEF StartInv, StartTypes, RefusalInv
<1>2. StartTypes /\ PhaseInv /\ CurrentInv /\ SetupInv /\ AllValid /\ AllValid'
  BY <1>0, <1>1 DEF StartInv, PhaseInv, AllValid
<1>3. /\ e \in Start!Chains /\ setup.next \in DOMAIN Entries(e) /\ Start!Current.content = Entries(e)[setup.next].content
      /\ DOMAIN Entries(e) = 1 .. Len(Entries(e)) /\ setup.next \in Nat \ {0} /\ Len(Entries(e)) \in Nat /\ e \in Nat
  BY <1>0, <1>1, <1>2, StartInputs DEF StartTypes, CurrentInv
<1>4. /\ setup'.at = "build" /\ setup'.next = setup.next + 1
      /\ setup' \in [next : Nat \ {0}, at : {"build", "send", "lookup", "receipt"}, tx : {setup'.tx}]
  BY <1>3 DEF Succeeds
<1>5. setup'.next <= Len(Entries(start.chain)) + 1
  BY <1>3, <1>4
<1>6. StartTypes'
  BY <1>1, <1>2, <1>4, <1>5 DEF StartTypes
<1>7. PhaseInv' /\ QuietInv' /\ CurrentInv'
  BY <1>1, <1>2, <1>4 DEF PhaseInv, QuietInv, CurrentInv
<1>8. ASSUME NEW c \in Start!Chains, Alone(c) PROVE ChainInv(c)'
  <2>1. /\ Taken(c)' = Taken(c) /\ Succeeded(c)' = Succeeded(c) /\ LedgerOf(c)' = LedgerOf(c)
        /\ ~UnderWay(c)' /\ (UnderWay(c) <=> c = e) /\ ChainInv(c)
    BY <1>0, <1>1, <1>2, <1>4, <1>8 DEF Taken, Succeeded, LedgerOf, UnderWay, SetupInv, e
  <2>2. Sent(c)' = Sent(c)
    <3>1. c = e => Start!Current \in Taken(c)
      BY <1>0 DEF Succeeded, Taken
    <3> QED BY <2>1, <3>1 DEF Sent
  <2>3. nonces_of'[c] = Nonces(c)'
    BY <1>1, <2>1, <2>2 DEF Nonces, ChainInv
  <2>4. CASE c # e
    <3>1. NextEntry(c)' = NextEntry(c)
      BY <1>1, <2>4 DEF NextEntry
    <3> QED BY <1>1, <2>1, <2>3, <2>4, <3>1 DEF ChainInv
  <2>5. CASE c = e
    <3>1. NextEntry(c) = setup.next /\ NextEntry(c)' = setup.next + 1
      BY <1>0, <1>1, <1>3, <1>4, <2>5 DEF NextEntry
    <3>2. \A k \in 1 .. NextEntry(c)' - 1 : k \in 1 .. NextEntry(c) - 1 \/ k = setup.next
      BY <1>3, <3>1
    <3>3. \A k : k \in 1 .. NextEntry(c) - 1 \/ k = setup.next => k \in 1 .. NextEntry(c)' - 1
      BY <1>3, <3>1
    <3>4. \A k \in 1 .. NextEntry(c)' - 1 : \E x \in Succeeded(c) : x.content = Entries(c)[k].content
      BY <1>0, <1>3, <2>1, <2>5, <3>2 DEF ChainInv
    <3>5. \A x \in Taken(c) : x \in Succeeded(c) /\ \E k \in 1 .. NextEntry(c)' - 1 : x.content = Entries(c)[k].content
      BY <1>0, <1>3, <2>1, <2>5, <3>3 DEF ChainInv
    <3> QED BY <1>1, <2>1, <2>3, <3>4, <3>5 DEF ChainInv
  <2> QED BY <2>4, <2>5
<1>9. SetupInv'
  BY <1>1, <1>8 DEF SetupInv
<1> QED BY <1>1, <1>6, <1>7, <1>9 DEF StartInv

\* All entries of a chain are done: the next chain, or the instances.
Passes ==
    /\ start.phase = "initialize" /\ setup.at = "build" /\ UNCHANGED <<config, nonces_of, ledgers>>
    /\ setup.next > Len(Entries(start.chain)) /\ setup' = Start!Idle
    /\ start' = Start!Advance("initialize", "ready")

LEMMA PassesKeeps == ASSUME StartInv, Passes PROVE StartInv'
<1> DEFINE e == start.chain
<1>0. /\ start.phase = "initialize" /\ setup.at = "build" /\ UNCHANGED <<config, nonces_of, ledgers>>
      /\ setup.next > Len(Entries(e))
      /\ setup'.next = 1 /\ setup'.at = "build"
      /\ setup' \in [next : Nat \ {0}, at : {"build", "send", "lookup", "receipt"}, tx : {setup'.tx}]
  BY DEF Passes, Start!Idle
<1>1. /\ Start!Chains' = Start!Chains /\ Start!Names' = Start!Names /\ Start!Accounts' = Start!Accounts
      /\ \A c : Entries(c)' = Entries(c) /\ (Alone(c)' <=> Alone(c))
      /\ Start!Aliases' <=> Start!Aliases
      /\ config \in Starts /\ config' = config /\ ledgers' = ledgers /\ nonces_of' = nonces_of
      /\ start.why # "static"
  BY <1>0, SameScenario DEF StartInv, StartTypes, RefusalInv
<1>2. StartTypes /\ PhaseInv /\ SetupInv /\ AllValid
  BY <1>0 DEF StartInv, PhaseInv
<1>3. /\ e \in Start!Chains /\ Start!Chains = 1 .. Len(config.chains) /\ Len(config.chains) \in Nat \ {0}
      /\ \A c \in Start!Chains : Len(Entries(c)) \in Nat
      /\ setup.next = Len(Entries(e)) + 1
  <2>1. setup.next \in Nat /\ setup.next <= Len(Entries(e)) + 1 /\ Len(Entries(e)) \in Nat
    BY <1>1, <1>2, StartInputs DEF StartTypes
  <2>2. setup.next = Len(Entries(e)) + 1
    BY <1>0, <2>1
  <2> QED BY <1>1, <1>2, <2>2, StartInputs DEF StartTypes
<1>4. /\ start' \in [phase : {"load", "prepare", "validate", "initialize", "ready", "failed"},
                     chain : Start!Chains, valid : SUBSET Start!Chains, why : {start'.why}]
      /\ start'.valid = start.valid /\ start'.why = start.why
      /\ \/ e = Len(config.chains) /\ start'.phase = "ready" /\ start'.chain = 1
         \/ e # Len(config.chains) /\ start'.phase = "initialize" /\ start'.chain = e + 1
  <2>1. start' = IF e = Len(config.chains) THEN [start EXCEPT !.phase = "ready", !.chain = 1]
                 ELSE [start EXCEPT !.chain = e + 1]
    BY DEF Passes, Start!Advance, Start!Done
  <2>2. CASE e = Len(config.chains)
    <3> DEFINE s == [start EXCEPT !.phase = "ready"]
    <3>1. /\ s \in [phase : {"load", "prepare", "validate", "initialize", "ready", "failed"},
                    chain : Start!Chains, valid : SUBSET Start!Chains, why : {start.why}]
          /\ s.phase = "ready" /\ s.valid = start.valid /\ s.why = start.why
      BY <1>2 DEF StartTypes
    <3>2. start' = [s EXCEPT !.chain = 1] /\ 1 \in Start!Chains
      BY <1>3, <2>1, <2>2
    <3> HIDE DEF s, e
    <3> QED BY <2>2, <3>1, <3>2
  <2>3. CASE e # Len(config.chains)
    <3>1. start' = [start EXCEPT !.chain = e + 1] /\ e + 1 \in Start!Chains
      BY <1>3, <2>1, <2>3
    <3>2. start \in [phase : {"load", "prepare", "validate", "initialize", "ready", "failed"},
                    chain : Start!Chains, valid : SUBSET Start!Chains, why : {start.why}]
      BY <1>2 DEF StartTypes
    <3> HIDE DEF e
    <3> QED BY <1>0, <2>3, <3>1, <3>2
  <2> QED BY <2>2, <2>3
<1>5. AllValid'
  BY <1>1, <1>2, <1>4 DEF AllValid
<1>6. StartTypes'
  <2>1. setup'.next <= Len(Entries(start'.chain)) + 1
    BY <1>0, <1>3, <1>4
  <2> QED BY <1>0, <1>1, <1>2, <1>4, <2>1 DEF StartTypes
<1>7. PhaseInv' /\ QuietInv' /\ CurrentInv' /\ RefusalInv'
  BY <1>0, <1>1, <1>2, <1>4, <1>5 DEF PhaseInv, QuietInv, CurrentInv, RefusalInv
<1>8. ASSUME NEW c \in Start!Chains, Alone(c) PROVE ChainInv(c)'
  <2>1. /\ Taken(c)' = Taken(c) /\ Succeeded(c)' = Succeeded(c) /\ LedgerOf(c)' = LedgerOf(c)
        /\ ~UnderWay(c)' /\ ~UnderWay(c) /\ ChainInv(c)
    BY <1>0, <1>1, <1>2, <1>8 DEF Taken, Succeeded, LedgerOf, UnderWay, SetupInv
  <2>2. Sent(c)' = Sent(c)
    BY <2>1 DEF Sent
  <2>3. nonces_of'[c] = Nonces(c)'
    BY <1>1, <2>1, <2>2 DEF Nonces, ChainInv
  <2>4. NextEntry(c)' = NextEntry(c)
    <3>1. c \in Nat /\ e \in Nat /\ c <= Len(config.chains)
      BY <1>3
    <3>2. NextEntry(c) = IF c < e THEN Len(Entries(c)) + 1 ELSE IF c = e THEN setup.next ELSE 1
      BY <1>0 DEF NextEntry
    <3>3. NextEntry(c)' = IF start'.phase = "ready" \/ c < start'.chain THEN Len(Entries(c)) + 1
                          ELSE IF c = start'.chain THEN setup'.next ELSE 1
      BY <1>1 DEF NextEntry
    <3> HIDE DEF e
    <3> QED BY <1>0, <1>3, <1>4, <3>1, <3>2, <3>3
  <2> QED BY <1>1, <2>1, <2>3, <2>4 DEF ChainInv
<1>9. SetupInv'
  BY <1>1, <1>8 DEF SetupInv
<1> QED BY <1>6, <1>7, <1>9 DEF StartInv

-----------------------------------------------------------------------------
(* A block                                                                 *)

Includes(name, tx) ==
    /\ start.phase # "failed" /\ UNCHANGED <<config, start, nonces_of, setup>>
    /\ name \in Start!Names /\ tx \in ledgers[name].pending
    /\ DOMAIN ledgers' = Start!Names
    /\ \A other \in Start!Names : other # name => ledgers'[other] = ledgers[other]
    /\ ledgers'[name] \in [pending : {ledgers'[name].pending}, included : {ledgers'[name].included},
                           reverted : {ledgers'[name].reverted}]
    /\ ledgers'[name].pending = ledgers[name].pending \ {tx}
    /\ ledgers'[name].included = ledgers[name].included \cup {tx}
    /\ ledgers'[name].reverted \in {ledgers[name].reverted, ledgers[name].reverted \cup {tx}}

LEMMA IncludeStep == ASSUME StartTypes, Start!Include PROVE \E name, tx : Includes(name, tx)
<1>0. PICK name \in Start!Names : \E tx \in ledgers[name].pending, status \in BOOLEAN :
        ledgers' = [ledgers EXCEPT ![name] =
                      [pending |-> ledgers[name].pending \ {tx}, included |-> ledgers[name].included \cup {tx},
                       reverted |-> IF status THEN ledgers[name].reverted ELSE ledgers[name].reverted \cup {tx}]]
  BY DEF Start!Include
<1>1. PICK tx \in ledgers[name].pending, status \in BOOLEAN :
        ledgers' = [ledgers EXCEPT ![name] =
                      [pending |-> ledgers[name].pending \ {tx}, included |-> ledgers[name].included \cup {tx},
                       reverted |-> IF status THEN ledgers[name].reverted ELSE ledgers[name].reverted \cup {tx}]]
  BY <1>0
<1> DEFINE r == [pending |-> ledgers[name].pending \ {tx}, included |-> ledgers[name].included \cup {tx},
                 reverted |-> IF status THEN ledgers[name].reverted ELSE ledgers[name].reverted \cup {tx}]
<1>2. ledgers' = [ledgers EXCEPT ![name] = r]
  BY <1>1
<1>3. /\ r \in [pending : {r.pending}, included : {r.included}, reverted : {r.reverted}]
      /\ r.pending = ledgers[name].pending \ {tx} /\ r.included = ledgers[name].included \cup {tx}
      /\ r.reverted \in {ledgers[name].reverted, ledgers[name].reverted \cup {tx}}
  OBVIOUS
<1> HIDE DEF r
<1>4. start.phase # "failed" /\ UNCHANGED <<config, start, nonces_of, setup>>
  BY DEF Start!Include
<1>5. Includes(name, tx)
  BY <1>2, <1>3, <1>4 DEF Includes, StartTypes
<1> QED BY <1>5

LEMMA IncludesKeeps == ASSUME StartInv, NEW name, NEW tx, Includes(name, tx) PROVE StartInv'
<1>1. /\ Start!Chains' = Start!Chains /\ Start!Names' = Start!Names /\ Start!Accounts' = Start!Accounts
      /\ \A c : Entries(c)' = Entries(c) /\ (Alone(c)' <=> Alone(c))
      /\ Start!Aliases' <=> Start!Aliases
      /\ config \in Starts /\ config' = config /\ start' = start /\ nonces_of' = nonces_of /\ setup' = setup
      /\ Start!Current' = Start!Current
  BY SameScenario DEF Includes, StartInv, StartTypes, Start!Current
<1>2. StartTypes /\ PhaseInv /\ SetupInv /\ CurrentInv
  BY DEF StartInv
<1>3. AllValid /\ AllValid'
  BY <1>1 DEF StartInv, QuietInv, Includes, AllValid
<1>4. StartTypes'
  <2>1. \A other \in Start!Names :
          ledgers'[other] \in [pending : {ledgers'[other].pending}, included : {ledgers'[other].included},
                               reverted : {ledgers'[other].reverted}]
    <3>1. \A other \in Start!Names : other # name => ledgers'[other] = ledgers[other]
      BY DEF Includes
    <3> QED BY <1>2, <3>1 DEF Includes, StartTypes
  <2> QED BY <1>1, <1>2, <2>1 DEF StartTypes, Includes
<1>5. PhaseInv' /\ QuietInv' /\ CurrentInv'
  BY <1>1, <1>2, <1>3 DEF PhaseInv, QuietInv, CurrentInv
<1>6. RefusalInv'
  <2>1. start.why # "static"
    BY DEF StartInv, RefusalInv, Includes
  <2> QED BY <1>1, <2>1 DEF RefusalInv
<1>7. ASSUME NEW c \in Start!Chains, Alone(c) PROVE ChainInv(c)'
  <2>1. /\ ChainInv(c) /\ config.chains[c].ledger \in Start!Names
        /\ NextEntry(c)' = NextEntry(c) /\ (UnderWay(c)' <=> UnderWay(c))
    BY <1>1, <1>2, <1>3, <1>7, StartInputs DEF NextEntry, UnderWay, SetupInv
  <2>2. CASE config.chains[c].ledger # name
    <3>1. LedgerOf(c)' = LedgerOf(c)
      BY <1>1, <2>1, <2>2 DEF LedgerOf, Includes
    <3>2. Taken(c)' = Taken(c) /\ Succeeded(c)' = Succeeded(c) /\ Sent(c)' = Sent(c)
      BY <1>1, <2>1, <3>1 DEF Taken, Succeeded, Sent
    <3>3. Nonces(c)' = Nonces(c)
      BY <1>1, <3>2 DEF Nonces
    <3> QED BY <1>1, <2>1, <3>1, <3>2, <3>3 DEF ChainInv
  <2>3. CASE config.chains[c].ledger = name
    <3>1. /\ tx \in LedgerOf(c).pending /\ LedgerOf(c)'.pending = LedgerOf(c).pending \ {tx}
          /\ LedgerOf(c)'.included = LedgerOf(c).included \cup {tx}
          /\ LedgerOf(c)'.reverted \in {LedgerOf(c).reverted, LedgerOf(c).reverted \cup {tx}}
      BY <1>1, <2>3 DEF LedgerOf, Includes
    <3>2. LedgerOf(c).pending \cap LedgerOf(c).included = {}
      BY <2>1 DEF ChainInv
    <3>3. Taken(c)' = Taken(c) /\ Succeeded(c) \subseteq Succeeded(c)'
      BY <3>1, <3>2 DEF Taken, Succeeded
    <3>4. Sent(c)' = Sent(c)
      BY <1>1, <2>1, <3>3 DEF Sent
    <3>5. Nonces(c)' = Nonces(c)
      BY <1>1, <3>4 DEF Nonces
    <3>6. (LedgerOf(c).pending \cap LedgerOf(c).included = {})'
      BY <3>1, <3>2
    <3> QED BY <1>1, <2>1, <3>3, <3>5, <3>6 DEF ChainInv
  <2> QED BY <2>2, <2>3
<1>8. SetupInv'
  BY <1>1, <1>7 DEF SetupInv
<1> QED BY <1>4, <1>5, <1>6, <1>8 DEF StartInv

-----------------------------------------------------------------------------
(* Loading, preparation and validation                                     *)

\* Nothing is sent yet, and the next phase or the next chain is looked at.
Proceeds ==
    /\ UNCHANGED <<config, setup, ledgers>> /\ ~AllValid /\ start.phase \in {"load", "prepare", "validate"}
    /\ start' \in [phase : {"prepare", "validate", "initialize"}, chain : Start!Chains,
                   valid : SUBSET Start!Chains, why : {start.why}]
    /\ nonces_of' = nonces_of \/ nonces_of' = Append(nonces_of, [a \in Start!Accounts |-> config.nonces[a]])
    /\ PhaseInv'
    /\ AllValid' => start'.phase = "initialize" /\ start'.chain = 1

LEMMA ProceedsKeeps == ASSUME StartInv, Proceeds PROVE StartInv'
<1>1. /\ Start!Chains' = Start!Chains /\ Start!Names' = Start!Names /\ Start!Accounts' = Start!Accounts
      /\ \A c : Entries(c)' = Entries(c) /\ (Alone(c)' <=> Alone(c))
      /\ config \in Starts /\ config' = config /\ setup' = setup /\ ledgers' = ledgers
      /\ start.why # "static" /\ start'.why = start.why /\ PhaseInv'
  BY SameScenario DEF Proceeds, StartInv, StartTypes, RefusalInv
<1>2. /\ StartTypes /\ PhaseInv /\ setup.next = 1 /\ setup.at = "build"
      /\ \A name \in Start!Names : ledgers[name].pending = {} /\ ledgers[name].included = {}
      /\ \A c \in DOMAIN nonces_of : nonces_of[c] = [a \in Start!Accounts |-> config.nonces[a]]
  BY DEF StartInv, Proceeds, QuietInv
<1> DEFINE f == [a \in Start!Accounts |-> config.nonces[a]]
<1>3. /\ f \in [Start!Accounts -> Nat] /\ nonces_of \in Seq([Start!Accounts -> Nat])
      /\ \A c \in Start!Chains : Len(Entries(c)) \in Nat /\ config.chains[c].ledger \in Start!Names
      /\ Start!Chains = 1 .. Len(config.chains)
  BY <1>1, <1>2, StartInputs DEF StartTypes
<1>4. /\ nonces_of' \in Seq([Start!Accounts -> Nat])
      /\ \A c \in DOMAIN nonces_of' : nonces_of'[c] = f
  <2>1. CASE nonces_of' = nonces_of
    BY <1>2, <1>3, <2>1
  <2>2. CASE nonces_of' = Append(nonces_of, f)
    <3>1. \A c \in DOMAIN nonces_of : nonces_of[c] = f
      BY <1>2
    <3> HIDE DEF f
    <3>2. \A c \in DOMAIN nonces_of' : (c \in DOMAIN nonces_of /\ nonces_of'[c] = nonces_of[c]) \/ nonces_of'[c] = f
      BY <1>3, <2>2
    <3>3. nonces_of' \in Seq([Start!Accounts -> Nat])
      BY <1>3, <2>2
    <3> QED BY <3>1, <3>2, <3>3
  <2> QED BY <2>1, <2>2 DEF Proceeds
<1>5. StartTypes'
  <2>1. setup'.next <= Len(Entries(start'.chain)) + 1
    BY <1>1, <1>2, <1>3 DEF Proceeds
  <2>2. start' \in [phase : {"load", "prepare", "validate", "initialize", "ready", "failed"}, chain : Start!Chains,
                    valid : SUBSET Start!Chains, why : {start'.why}]
    BY <1>1 DEF Proceeds
  <2> QED BY <1>1, <1>2, <1>4, <2>1, <2>2 DEF StartTypes
<1>6. QuietInv' /\ CurrentInv' /\ RefusalInv'
  BY <1>1, <1>2, <1>4 DEF QuietInv, CurrentInv, RefusalInv
<1>7. ASSUME AllValid', NEW c \in Start!Chains PROVE ChainInv(c)'
  <2>1. start'.phase = "initialize" /\ start'.chain = 1 /\ c \in Nat /\ 1 <= c
    BY <1>3, <1>7 DEF Proceeds
  <2>2. NextEntry(c)' = 1 /\ ~UnderWay(c)'
    BY <1>1, <1>2, <2>1 DEF NextEntry, UnderWay
  <2>3. LedgerOf(c)'.pending = {} /\ LedgerOf(c)'.included = {}
    BY <1>1, <1>2, <1>3 DEF LedgerOf
  <2>4. Taken(c)' = {} /\ Sent(c)' = {}
    BY <2>2, <2>3 DEF Taken, Sent
  <2>5. Nonces(c)' = f
    <3>1. Cardinality({tx \in {} : TRUE}) = 0 /\ \A a : {tx \in {} : tx.account = a} = {}
      BY FS_EmptySet
    <3>2. Nonces(c)' = [a \in Start!Accounts |-> config.nonces[a] + Cardinality({tx \in {} : tx.account = a})]
      BY <1>1, <2>4 DEF Nonces
    <3>3. \A a \in Start!Accounts : config.nonces[a] + Cardinality({tx \in {} : tx.account = a}) = config.nonces[a]
      <4>1. ASSUME NEW a \in Start!Accounts
            PROVE  config.nonces[a] + Cardinality({tx \in {} : tx.account = a}) = config.nonces[a]
        <5>1. {tx \in {} : tx.account = a} = {}
          OBVIOUS
        <5>2. Cardinality({tx \in {} : tx.account = a}) = 0
          BY <5>1, FS_EmptySet
        <5>3. config.nonces[a] \in Nat
          BY <1>1, StartInputs
        <5> QED BY <5>2, <5>3
      <4> QED BY <4>1
    <3> QED BY <3>2, <3>3
  <2>6. nonces_of'[c] = f
    <3>1. c \in DOMAIN nonces_of'
      BY <1>1, <1>3, <1>4, <1>7 DEF PhaseInv
    <3> QED BY <1>4, <3>1
  <2>7. IsFiniteSet({}) /\ 1 .. 1 - 1 = {}
    BY FS_EmptySet
  <2> HIDE DEF f
  <2> QED BY <2>2, <2>3, <2>4, <2>5, <2>6, <2>7 DEF ChainInv
<1>8. SetupInv'
  BY <1>1, <1>7 DEF SetupInv
<1> QED BY <1>1, <1>5, <1>6, <1>8 DEF StartInv

-----------------------------------------------------------------------------
(* The actions                                                             *)

LEMMA StopsKeeps ==
    ASSUME StartInv, start.phase \notin {"ready", "failed"}, NEW why, why # "static", Start!Fail(why),
           UNCHANGED <<config, nonces_of, setup, ledgers>>
    PROVE  StartInv'
<1>1. /\ start'.phase = "failed" /\ start'.why = why /\ start'.chain = start.chain /\ start'.valid = start.valid
      /\ start' \in [phase : {start'.phase}, chain : {start.chain}, valid : {start.valid}, why : {start'.why}]
  BY DEF StartInv, StartTypes, Start!Fail
<1>2. Carries
  BY <1>1 DEF Carries, StartInv, StartTypes
<1>3. RefusalInv'
  BY <1>1 DEF RefusalInv
<1> QED BY <1>2, <1>3, CarriesKeeps

LEMMA LoadKeeps == ASSUME StartInv, Start!Load PROVE StartInv'
<1>1. /\ start.phase = "load" /\ start.chain = 1 /\ start.valid = {} /\ nonces_of = <<>>
      /\ UNCHANGED <<config, nonces_of, setup, ledgers>> /\ StartTypes /\ PhaseInv /\ 1 \in Start!Chains
  BY DEF StartInv, PhaseInv, Start!Load, StartTypes
<1>2. CASE \E why \in {"document", "alias", "reference", "binding"} : Start!Fail(why)
  BY <1>1, <1>2, StopsKeeps
<1>3. CASE start' = [start EXCEPT !.phase = "prepare"] /\ ~Start!Aliases
  <2>1. /\ start' \in [phase : {"prepare", "validate", "initialize"}, chain : Start!Chains,
                       valid : SUBSET Start!Chains, why : {start.why}]
        /\ start'.phase = "prepare" /\ start'.chain = 1 /\ start'.valid = {}
    BY <1>1, <1>3 DEF StartTypes
  <2>2. ~AllValid /\ ~AllValid' /\ ~Start!Aliases'
    BY <1>1, <1>3, <2>1, SameScenario DEF AllValid
  <2>3. PhaseInv'
    BY <1>1, <2>1, <2>2 DEF PhaseInv
  <2>4. Proceeds
    BY <1>1, <2>1, <2>2, <2>3 DEF Proceeds
  <2> QED BY <2>4, ProceedsKeeps
<1> QED BY <1>2, <1>3 DEF Start!Load

LEMMA PrepareKeeps == ASSUME StartInv, Start!PrepareChain PROVE StartInv'
<1>1. /\ start.phase = "prepare" /\ start.valid = {} /\ UNCHANGED <<config, setup, ledgers>>
      /\ StartTypes /\ PhaseInv /\ config \in Starts /\ ~AllValid
  BY DEF StartInv, PhaseInv, Start!PrepareChain, StartTypes, AllValid
<1>2. CASE \E why \in {"request", "id"} : Start!Fail(why) /\ UNCHANGED nonces_of
  BY <1>1, <1>2, StopsKeeps
<1>3. CASE /\ nonces_of' = Append(nonces_of, Start!PendingNonces(Start!Ledger))
           /\ start' = Start!Advance("prepare", "validate")
  <2> DEFINE f == [a \in Start!Accounts |-> config.nonces[a]]
             e == start.chain
  <2>1. Start!PendingNonces(Start!Ledger) = f
    <3>1. Start!Ledger.pending = {} /\ Start!Ledger.included = {}
      BY <1>1, StartInputs DEF StartInv, QuietInv, StartTypes, Start!Ledger, Start!Chain
    <3>2. \A a : {tx \in {} \cup {} : tx.account = a} = {}
      OBVIOUS
    <3>3. \A a : Start!Used(Start!Ledger, a) = 0
      <4>1. Cardinality({}) = 0
        BY FS_EmptySet
      <4>2. \A a : Start!Used(Start!Ledger, a) = Cardinality({tx \in {} \cup {} : tx.account = a})
        BY <3>1, StartCount DEF Start!Used
      <4> QED BY <3>2, <4>1, <4>2
    <3>4. \A a \in Start!Accounts : config.nonces[a] + Start!Used(Start!Ledger, a) = config.nonces[a]
      BY <1>1, <3>3, StartInputs
    <3> QED BY <3>4 DEF Start!PendingNonces
  <2>2. /\ e \in Start!Chains /\ Start!Chains = 1 .. Len(config.chains) /\ Len(config.chains) \in Nat \ {0}
        /\ Len(nonces_of) = e - 1 /\ nonces_of \in Seq([Start!Accounts -> Nat]) /\ f \in [Start!Accounts -> Nat]
    BY <1>1, StartInputs DEF StartTypes, PhaseInv
  <2>3. start' = IF e = Len(config.chains) THEN [start EXCEPT !.phase = "validate", !.chain = 1]
                 ELSE [start EXCEPT !.chain = e + 1]
    BY <1>3 DEF Start!Advance, Start!Done
  <2>4. /\ start' \in [phase : {"prepare", "validate", "initialize"}, chain : Start!Chains,
                       valid : SUBSET Start!Chains, why : {start.why}]
        /\ start'.valid = {}
        /\ \/ e = Len(config.chains) /\ start'.phase = "validate" /\ start'.chain = 1
           \/ e # Len(config.chains) /\ start'.phase = "prepare" /\ start'.chain = e + 1
    <3>1. CASE e = Len(config.chains)
      <4> DEFINE s == [start EXCEPT !.phase = "validate"]
      <4>1. /\ s \in [phase : {"prepare", "validate", "initialize"}, chain : Start!Chains,
                      valid : SUBSET Start!Chains, why : {start.why}]
            /\ s.phase = "validate" /\ s.valid = {}
        BY <1>1 DEF StartTypes
      <4>2. start' = [s EXCEPT !.chain = 1] /\ 1 \in Start!Chains
        BY <2>2, <2>3, <3>1
      <4> HIDE DEF s, e, f
      <4> QED BY <3>1, <4>1, <4>2
    <3>2. CASE e # Len(config.chains)
      <4>1. start' = [start EXCEPT !.chain = e + 1] /\ e + 1 \in Start!Chains
        BY <2>2, <2>3, <3>2
      <4>2. /\ start \in [phase : {"prepare", "validate", "initialize"}, chain : Start!Chains,
                          valid : SUBSET Start!Chains, why : {start.why}]
        BY <1>1 DEF StartTypes
      <4> HIDE DEF e, f
      <4> QED BY <1>1, <3>2, <4>1, <4>2
    <3> QED BY <3>1, <3>2
  <2> HIDE DEF f, e
  <2>5. Len(nonces_of') = e
    BY <1>3, <2>1, <2>2
  <2>6. ~AllValid' /\ ~Start!Aliases'
    BY <1>1, <2>2, <2>4, SameScenario DEF AllValid, PhaseInv
  <2>7. PhaseInv'
    <3>1. start'.phase = "validate" => Len(nonces_of') = Len(config'.chains) /\ start'.valid = 1 .. start'.chain - 1
      BY <1>1, <2>4, <2>5
    <3>2. start'.phase = "prepare" => Len(nonces_of') = start'.chain - 1
      BY <2>2, <2>4, <2>5
    <3> QED BY <2>4, <2>6, <3>1, <3>2 DEF PhaseInv
  <2>8. Proceeds
    BY <1>1, <1>3, <2>1, <2>4, <2>6, <2>7 DEF Proceeds, f
  <2> QED BY <2>8, ProceedsKeeps
<1> QED BY <1>2, <1>3 DEF Start!PrepareChain

\* Steps that cannot be replayed are not in the way of those that can: what
\* does not fit among the first does not fit among all.
LEMMA RefusedSteps ==
    ASSUME config \in Starts, NEW nonces_then, NEW k \in Start!Replayable(start.chain),
           ~Start!Fits(k, Start!Replayable(start.chain), nonces_then)
    PROVE  LET steps == {j \in DOMAIN config.steps : config.steps[j].chain = start.chain}
           IN  k \in steps /\ ~Start!Fits(k, steps, nonces_then)
<1> DEFINE some == Start!Replayable(start.chain)
           all == {j \in DOMAIN config.steps : config.steps[j].chain = start.chain}
           Before(S) == {j \in S : j < k /\ config.steps[j].account = config.steps[k].account}
<1>1. k \in all /\ some \subseteq all
  BY DEF Start!Replayable
<1>2. \A j \in all : j < k => j \in some
  <2>1. DOMAIN config.steps \subseteq Nat
    BY PartsAssumption DEF Start!StartAssumption
  <2>2. ASSUME NEW j \in all, j < k PROVE j \in some
    <3>1. j \in Nat /\ k \in Nat /\ k \in DOMAIN config.steps
      BY <2>1 DEF Start!Replayable
    <3>2. \A i \in 1 .. j : i \in 1 .. k
      BY <2>2, <3>1
    <3> QED BY <2>2, <3>2 DEF Start!Replayable
  <2> QED BY <2>2
<1>3. Before(some) = Before(all)
  BY <1>1, <1>2
<1>4. Start!Fits(k, all, nonces_then) = Start!Fits(k, some, nonces_then)
  BY <1>3 DEF Start!Fits
<1> QED BY <1>1, <1>4

LEMMA SameRefusal ==
    ASSUME UNCHANGED <<config, ledgers>>, start'.chain = start.chain, Refused
    PROVE  Refused'
<1> DEFINE steps == {j \in DOMAIN config.steps : config.steps[j].chain = start.chain}
           after == Start!AfterSetup(Start!PendingNonces(Start!Ledger), Start!Chain)
<1>1. Start!Ledger' = Start!Ledger /\ Start!Chain' = Start!Chain /\ Start!Accounts' = Start!Accounts
  BY SameScenario DEF Start!Ledger, Start!Chain
<1>2. Start!PendingNonces(Start!Ledger)' = Start!PendingNonces(Start!Ledger)
  BY <1>1 DEF Start!PendingNonces, Start!Used
<1>3. after' = after
  BY <1>1, <1>2 DEF Start!AfterSetup
<1>4. steps' = steps
  OBVIOUS
<1>5. \E k \in steps : ~Start!Fits(k, steps, after)
  BY DEF Refused
<1> HIDE DEF after, steps
<1>6. \A k : Start!Fits(k, steps, after)' <=> Start!Fits(k, steps, after)
  BY <1>3, <1>4 DEF Start!Fits
<1>7. \E k \in steps' : ~Start!Fits(k, steps, after)'
  BY <1>4, <1>5, <1>6
<1> QED BY <1>7 DEF Refused, steps, after

LEMMA ValidateKeeps == ASSUME StartInv, Start!ValidateChain PROVE StartInv'
<1> DEFINE e == start.chain
<1>1. /\ start.phase = "validate" /\ start.valid = 1 .. e - 1 /\ Len(nonces_of) = Len(config.chains)
      /\ UNCHANGED <<config, nonces_of, setup, ledgers>>
      /\ StartTypes /\ PhaseInv /\ config \in Starts
  BY DEF StartInv, PhaseInv, Start!ValidateChain, StartTypes
<1>2. /\ e \in Start!Chains /\ Start!Chains = 1 .. Len(config.chains) /\ Len(config.chains) \in Nat \ {0}
      /\ Start!Chains' = Start!Chains
  BY <1>1, StartInputs, SameScenario DEF StartTypes
<1>3. ~AllValid
  BY <1>1, <1>2 DEF AllValid
<1>4. CASE \E why \in {"request", "createx", "template"} : Start!Fail(why)
  BY <1>1, <1>4, StopsKeeps
<1>5. ASSUME Start!Fail("static"),
             \E k \in Start!Replayable(e) :
               ~Start!Fits(k, Start!Replayable(e), Start!AfterSetup(Start!PendingNonces(Start!Ledger), Start!Chain))
      PROVE  StartInv'
  <2>1. /\ start'.phase = "failed" /\ start'.why = "static" /\ start'.chain = e /\ start'.valid = start.valid
        /\ start' \in [phase : {start'.phase}, chain : {start.chain}, valid : {start.valid}, why : {start'.why}]
    BY <1>1, <1>5 DEF StartTypes, Start!Fail
  <2>2. Carries
    BY <1>1, <2>1 DEF Carries, StartTypes
  <2>3. Refused
    <3>1. PICK k \in Start!Replayable(e) :
            ~Start!Fits(k, Start!Replayable(e), Start!AfterSetup(Start!PendingNonces(Start!Ledger), Start!Chain))
      BY <1>5
    <3> QED BY <1>1, <3>1, RefusedSteps DEF Refused
  <2>4. RefusalInv'
    BY <1>1, <2>1, <2>3, SameRefusal DEF RefusalInv
  <2> QED BY <2>2, <2>4, CarriesKeeps
<1>6. CASE start' = Start!Advance("validate", "initialize")
  <2>1. start' = IF e = Len(config.chains)
                   THEN [start EXCEPT !.valid = start.valid \cup {e}, !.phase = "initialize", !.chain = 1]
                 ELSE [start EXCEPT !.valid = start.valid \cup {e}, !.chain = e + 1]
    BY <1>6 DEF Start!Advance, Start!Done
  <2> DEFINE s == [start EXCEPT !.valid = start.valid \cup {e}]
  <2>2. /\ s \in [phase : {"prepare", "validate", "initialize"}, chain : Start!Chains,
                  valid : SUBSET Start!Chains, why : {start.why}]
        /\ s.phase = "validate" /\ s.valid = start.valid \cup {e} /\ s.chain = e
    BY <1>1, <1>2 DEF StartTypes
  <2>3. start.valid \cup {e} = 1 .. e
    BY <1>1, <1>2
  <2>4. start' = IF e = Len(config.chains) THEN [[s EXCEPT !.phase = "initialize"] EXCEPT !.chain = 1]
                 ELSE [s EXCEPT !.chain = e + 1]
    BY <2>1
  <2> HIDE DEF s, e
  <2>5. /\ start' \in [phase : {"prepare", "validate", "initialize"}, chain : Start!Chains,
                       valid : SUBSET Start!Chains, why : {start.why}]
        /\ start'.valid = 1 .. e
        /\ \/ e = Len(config.chains) /\ start'.phase = "initialize" /\ start'.chain = 1
           \/ e # Len(config.chains) /\ start'.phase = "validate" /\ start'.chain = e + 1
    <3>1. CASE e = Len(config.chains)
      <4> DEFINE r == [s EXCEPT !.phase = "initialize"]
      <4>1. /\ r \in [phase : {"prepare", "validate", "initialize"}, chain : Start!Chains,
                      valid : SUBSET Start!Chains, why : {start.why}]
            /\ r.phase = "initialize" /\ r.valid = s.valid
        BY <2>2
      <4>2. start' = [r EXCEPT !.chain = 1] /\ 1 \in Start!Chains
        BY <1>2, <2>4, <3>1
      <4> HIDE DEF r
      <4> QED BY <2>2, <2>3, <3>1, <4>1, <4>2
    <3>2. CASE e # Len(config.chains)
      <4>1. start' = [s EXCEPT !.chain = e + 1] /\ e + 1 \in Start!Chains
        BY <1>2, <2>4, <3>2
      <4> QED BY <2>2, <2>3, <3>2, <4>1
    <3> QED BY <3>1, <3>2
  <2>6. AllValid' <=> e = Len(config.chains)
    <3>1. AllValid' <=> 1 .. e = 1 .. Len(config.chains)
      BY <1>2, <2>5 DEF AllValid
    <3>2. e # Len(config.chains) => Len(config.chains) \notin 1 .. e /\ Len(config.chains) \in 1 .. Len(config.chains)
      BY <1>2
    <3> QED BY <3>1, <3>2
  <2>7. ~Start!Aliases'
    BY <1>1, SameScenario DEF PhaseInv
  <2>8. PhaseInv'
    <3>1. start'.phase = "validate" => start'.valid = 1 .. start'.chain - 1
      BY <1>2, <2>5
    <3>2. setup.at = "build" /\ Len(nonces_of') = Len(config'.chains) /\ setup' = setup
      BY <1>1, <1>3 DEF StartInv, QuietInv
    <3> QED BY <2>5, <2>6, <2>7, <3>1, <3>2 DEF PhaseInv
  <2>9. AllValid' => start'.phase = "initialize" /\ start'.chain = 1
    BY <2>5, <2>6
  <2>10. Proceeds
    BY <1>1, <1>3, <2>5, <2>8, <2>9 DEF Proceeds
  <2> QED BY <2>10, ProceedsKeeps
<1>7. \/ \E why \in {"request", "createx", "template"} : Start!Fail(why)
      \/ /\ Start!Fail("static")
         /\ \E k \in Start!Replayable(e) :
               ~Start!Fits(k, Start!Replayable(e), Start!AfterSetup(Start!PendingNonces(Start!Ledger), Start!Chain))
      \/ start' = Start!Advance("validate", "initialize")
  BY DEF Start!ValidateChain
<1> QED BY <1>4, <1>5, <1>6, <1>7

LEMMA SetupKeeps ==
    ASSUME StartInv, Start!BuildSetup \/ Start!Submit \/ Start!Lookup \/ Start!AwaitReceipt \/ Start!ChainInitialized
    PROVE  StartInv'
<1>0. /\ start.phase = "initialize" /\ StartTypes
      /\ setup \in [next : Nat \ {0}, at : {"build", "send", "lookup", "receipt"}, tx : {setup.tx}]
  BY DEF StartInv, StartTypes, Start!BuildSetup, Start!Submit, Start!Lookup, Start!AwaitReceipt,
         Start!ChainInitialized, Start!InSetup
<1>1. ASSUME NEW why, why # "static", Start!Fail(why), UNCHANGED <<config, nonces_of, setup, ledgers>> PROVE StartInv'
  BY <1>0, <1>1, StopsKeeps
<1>2. ASSUME NEW at \in {"lookup", "receipt"}, setup.at # "build", Start!Goes(at), UNCHANGED <<config, start, nonces_of>>,
             ledgers' = ledgers \/ (setup.at = "send" /\ ledgers' = Start!Accepted(Start!Current))
      PROVE  StartInv'
  <2>1. setup' \in [next : {setup.next}, at : {"build", "send", "lookup", "receipt"}, tx : {setup.tx}] /\ setup'.at = at
    BY <1>0, <1>2 DEF Start!Goes
  <2>2. start' \in [phase : {start'.phase}, chain : {start.chain}, valid : {start.valid}, why : {start'.why}]
    BY <1>0, <1>2 DEF StartTypes
  <2>3. Carries
    BY <1>0, <1>2, <2>1, <2>2 DEF Carries
  <2>4. RefusalInv'
    BY SMTT(60), <1>0, <1>2 DEF StartInv, RefusalInv
  <2> QED BY <2>3, <2>4, CarriesKeeps
<1>3. CASE Start!BuildSetup
  <2>1. CASE Start!Fail("request") /\ UNCHANGED <<nonces_of, setup>>
    BY <1>1, <1>3, <2>1 DEF Start!BuildSetup
  <2>2. CASE UNCHANGED start
    <3> DEFINE entry == Start!Chain.setup[setup.next]
               tx == [account |-> entry.account, nonce |-> nonces_of[start.chain][entry.account], content |-> entry.content]
    <3>1. start.why # "static"
      BY SMTT(60), <1>0 DEF StartInv, RefusalInv
    <3>2. Builds(tx)
      BY ZenonT(60), <1>0, <1>3, <2>2, <3>1 DEF Start!BuildSetup, Start!InSetup, Start!Fail, Start!Chain, Builds, Entries, StartTypes
    <3> HIDE DEF tx
    <3> QED BY <3>2, BuildKeeps
  <2> QED BY SMTT(60), <1>3, <2>1, <2>2 DEF Start!BuildSetup
<1>4. CASE Start!Submit
  <2>0. UNCHANGED <<config, nonces_of>> /\ setup.at = "send"
    BY <1>4 DEF Start!Submit, Start!InSetup
  <2>1. CASE Start!Fail("not dispatched") /\ UNCHANGED <<setup, ledgers>>
    BY <1>1, <2>0, <2>1
  <2>2. CASE ledgers' = Start!Accepted(Start!Current) /\ Start!Fail("mismatched hash") /\ UNCHANGED setup
    <3>1. /\ start'.phase = "failed" /\ start'.why = "mismatched hash" /\ start'.chain = start.chain
          /\ start'.valid = start.valid
          /\ start' \in [phase : {start'.phase}, chain : {start.chain}, valid : {start.valid}, why : {start'.why}]
      BY <1>0, <2>2 DEF StartTypes, Start!Fail
    <3>2. Carries
      BY <1>0, <2>0, <2>2, <3>1 DEF Carries
    <3>3. RefusalInv'
      BY <3>1 DEF RefusalInv
    <3> QED BY <3>2, <3>3, CarriesKeeps
  <2>3. CASE /\ UNCHANGED start /\ (Start!Goes("receipt") \/ Start!Goes("lookup"))
             /\ ledgers' \in {ledgers, Start!Accepted(Start!Current)}
    BY <1>2, <2>0, <2>3
  <2> QED BY <1>4, <2>1, <2>2, <2>3 DEF Start!Submit
<1>5. CASE Start!Lookup
  <2>0. UNCHANGED <<config, nonces_of, ledgers>> /\ setup.at = "lookup"
    BY <1>5 DEF Start!Lookup, Start!InSetup
  <2>1. CASE (Start!Fail("unknown") \/ Start!Fail("rejected")) /\ UNCHANGED setup
    BY <1>1, <2>0, <2>1
  <2>2. CASE Start!Goes("receipt") /\ UNCHANGED start
    BY <1>2, <2>0, <2>2
  <2> QED BY <1>5, <2>1, <2>2 DEF Start!Lookup
<1>6. CASE Start!AwaitReceipt
  <2>0. UNCHANGED <<config, nonces_of, ledgers>> /\ setup.at = "receipt"
    BY <1>6 DEF Start!AwaitReceipt, Start!InSetup
  <2>1. CASE (Start!Fail("no receipt") \/ Start!Fail("reverted")) /\ UNCHANGED setup
    BY <1>1, <2>0, <2>1
  <2>2. CASE /\ Start!ReceiptArrives /\ Start!Current \notin Start!Ledger.reverted /\ UNCHANGED start
             /\ setup' = [next |-> setup.next + 1, at |-> "build", tx |-> <<>>]
    <3>1. Succeeds
      BY <1>0, <2>0, <2>2 DEF Succeeds, Succeeded, LedgerOf, Start!ReceiptArrives, Start!Ledger, Start!Chain
    <3> QED BY <3>1, SucceedsKeeps
  <2> QED BY <1>6, <2>1, <2>2 DEF Start!AwaitReceipt
<1>7. CASE Start!ChainInitialized
  <2>1. Passes
    BY <1>7 DEF Passes, Start!ChainInitialized, Start!InSetup, Start!Chain, Entries
  <2> QED BY <2>1, PassesKeeps
<1> QED BY <1>3, <1>4, <1>5, <1>6, <1>7

LEMMA StartInvInit == ASSUME Start!Init PROVE StartInv
<1>0. /\ config \in Starts /\ start = [phase |-> "load", chain |-> 1, valid |-> {}, why |-> "none"] /\ nonces_of = <<>>
      /\ setup = [next |-> 1, at |-> "build", tx |-> <<>>]
      /\ ledgers = [name \in Start!Names |-> [pending |-> {}, included |-> {}, reverted |-> {}]]
  BY DEF Start!Init, Start!Idle
<1>1. 1 \in Start!Chains /\ Len(Entries(1)) \in Nat
  BY <1>0, StartInputs
<1>2. ~AllValid
  BY <1>0, <1>1 DEF AllValid
<1>3. StartTypes
  BY <1>0, <1>1 DEF StartTypes
<1>4. PhaseInv /\ QuietInv /\ CurrentInv /\ SetupInv /\ RefusalInv
  BY <1>0, <1>2 DEF PhaseInv, QuietInv, CurrentInv, SetupInv, RefusalInv
<1> QED BY <1>3, <1>4 DEF StartInv

LEMMA StartInvStep == ASSUME StartInv, Start!Next PROVE StartInv'
<1>1. CASE Start!Include
  BY <1>1, IncludeStep, IncludesKeeps DEF StartInv
<1>2. CASE Start!Load \/ Start!PrepareChain \/ Start!ValidateChain
  BY <1>2, LoadKeeps, PrepareKeeps, ValidateKeeps
<1>3. CASE Start!BuildSetup \/ Start!Submit \/ Start!Lookup \/ Start!AwaitReceipt \/ Start!ChainInitialized
  BY <1>3, SetupKeeps
<1> QED BY <1>1, <1>2, <1>3 DEF Start!Next

LEMMA StartInvStutter == ASSUME StartInv, UNCHANGED <<config, StartVars>> PROVE StartInv'
<1>1. /\ Start!Chains' = Start!Chains /\ Start!Names' = Start!Names /\ Start!Accounts' = Start!Accounts
      /\ \A c : Entries(c)' = Entries(c) /\ (Alone(c)' <=> Alone(c))
      /\ Start!Aliases' <=> Start!Aliases
      /\ config' = config /\ start' = start /\ nonces_of' = nonces_of /\ setup' = setup /\ ledgers' = ledgers
      /\ Start!Current' = Start!Current
  BY SameScenario DEF StartVars, Start!Current
<1>2. AllValid' <=> AllValid
  BY <1>1 DEF AllValid
<1>3. StartTypes' /\ PhaseInv' /\ QuietInv' /\ CurrentInv'
  BY <1>1, <1>2 DEF StartInv, StartTypes, PhaseInv, QuietInv, CurrentInv
<1>4. RefusalInv'
  BY <1>1, SameRefusal DEF StartInv, RefusalInv
<1>5. ASSUME NEW c, ChainInv(c) PROVE ChainInv(c)'
  <2>1. /\ LedgerOf(c)' = LedgerOf(c) /\ Taken(c)' = Taken(c) /\ Succeeded(c)' = Succeeded(c)
        /\ NextEntry(c)' = NextEntry(c) /\ (UnderWay(c)' <=> UnderWay(c)) /\ Sent(c)' = Sent(c)
    BY <1>1 DEF LedgerOf, Taken, Succeeded, NextEntry, UnderWay, Sent
  <2>2. Nonces(c)' = Nonces(c)
    BY <1>1, <2>1 DEF Nonces
  <2> QED BY <1>1, <1>5, <2>1, <2>2 DEF ChainInv
<1>6. SetupInv'
  BY <1>1, <1>2, <1>5 DEF StartInv, SetupInv
<1> QED BY <1>3, <1>4, <1>6 DEF StartInv

\* What the start is good for.
LEMMA StartIsGood ==
    ASSUME StartInv
    PROVE  /\ Start!ValidBeforeMutation /\ Start!SetupIsSequential
           /\ Start!NoncesAreCurrent /\ Start!NoFalseRefusal
<1>1. ASSUME StartInv PROVE Start!ValidBeforeMutation
  BY <1>1 DEF StartInv, PhaseInv, QuietInv, AllValid, Start!ValidBeforeMutation
<1>2. ASSUME StartInv, AllValid, NEW c \in Start!Chains, ~Start!Shared(c) PROVE Alone(c) /\ ChainInv(c)
  <2>1. ~Start!Aliases /\ config \in Starts
    BY <1>2 DEF StartInv, PhaseInv, StartTypes
  <2>2. ASSUME NEW d \in Start!Chains, config.chains[d].ledger = config.chains[c].ledger PROVE d = c
    <3>1. config.chains[d].endpoint = config.chains[c].endpoint
      BY <1>2, <2>2 DEF Start!Shared
    <3>2. c \in Nat /\ d \in Nat /\ ~(c < d) /\ ~(d < c)
      BY <2>1, <3>1, StartInputs DEF Start!Aliases
    <3> QED BY <3>2
  <2>3. Alone(c)
    BY <2>2 DEF Alone
  <2> QED BY <1>2, <2>3 DEF StartInv, SetupInv
<1>3. ASSUME StartInv PROVE Start!SetupIsSequential
  <2> SUFFICES ASSUME NEW c \in Start!Chains, ~Start!Shared(c),
                      NEW k \in DOMAIN Entries(c), NEW l \in DOMAIN Entries(c), k < l,
                      NEW sent \in Taken(c), sent.content = Entries(c)[l].content
               PROVE  /\ \E tx \in Taken(c) : tx.content = Entries(c)[k].content
                      /\ \A tx \in Taken(c) : tx.content = Entries(c)[k].content => tx \in Succeeded(c)
    BY DEF Start!SetupIsSequential, Entries, Taken, Succeeded, LedgerOf
  <2>1. config \in Starts /\ CurrentInv /\ StartTypes
    BY <1>3 DEF StartInv, StartTypes
  <2>2. /\ DOMAIN Entries(c) = 1 .. Len(Entries(c)) /\ Len(Entries(c)) \in Nat
        /\ \A i, j \in DOMAIN Entries(c) : Entries(c)[i].content = Entries(c)[j].content => i = j
        /\ config.chains[c].ledger \in Start!Names
    BY <2>1, StartInputs
  <2>3. AllValid
    BY <1>3, <2>2 DEF StartInv, QuietInv, Taken, LedgerOf
  <2>4. ChainInv(c)
    BY <1>2, <1>3, <2>3
  <2>5. NextEntry(c) \in Nat \ {0}
    BY <2>1, <2>2 DEF NextEntry, StartTypes
  <2>6. UnderWay(c) => /\ NextEntry(c) = setup.next /\ setup.next \in DOMAIN Entries(c)
                       /\ Start!Current.content = Entries(c)[NextEntry(c)].content
    <3>1. c \in Nat
      BY <2>1, StartInputs
    <3> QED BY <2>1, <3>1 DEF UnderWay, NextEntry, CurrentInv
  <2>7. NextEntry(c) <= Len(Entries(c)) + 1
    BY <2>1, <2>2 DEF NextEntry, StartTypes
  <2>8. \A i \in 1 .. NextEntry(c) - 1 : i \in DOMAIN Entries(c)
    BY <2>2, <2>5, <2>7
  <2>9. l <= NextEntry(c)
    <3>1. CASE UnderWay(c) /\ sent = Start!Current
      BY <2>2, <2>6, <3>1
    <3>2. CASE \E i \in 1 .. NextEntry(c) - 1 : sent.content = Entries(c)[i].content
      <4>1. PICK i \in 1 .. NextEntry(c) - 1 : sent.content = Entries(c)[i].content
        BY <3>2
      <4>2. l = i
        BY <2>2, <2>8, <4>1
      <4> QED BY <2>5, <4>2
    <3> QED BY <2>4, <3>1, <3>2 DEF ChainInv
  <2>10. k \in 1 .. NextEntry(c) - 1
    BY <2>2, <2>5, <2>9
  <2>11. \E tx \in Taken(c) : tx.content = Entries(c)[k].content
    BY <2>4, <2>10 DEF ChainInv, Succeeded, Taken
  <2>12. ASSUME NEW tx \in Taken(c), tx.content = Entries(c)[k].content PROVE tx \in Succeeded(c)
    <3>1. ~(UnderWay(c) /\ tx = Start!Current)
      BY <2>2, <2>6, <2>10, <2>12
    <3> QED BY <2>4, <3>1 DEF ChainInv
  <2> QED BY <2>11, <2>12
<1>4. ASSUME StartInv PROVE Start!NoncesAreCurrent
  <2> SUFFICES ASSUME start.phase = "ready", NEW c \in Start!Chains, ~Start!Shared(c)
               PROVE  nonces_of[c] = Start!PendingNonces(LedgerOf(c))
    BY DEF Start!NoncesAreCurrent, LedgerOf
  <2>1. AllValid
    BY <1>4 DEF StartInv, PhaseInv
  <2>2. nonces_of[c] = Nonces(c) /\ ~UnderWay(c)
    BY <1>2, <1>4, <2>1 DEF ChainInv, UnderWay
  <2>3. Sent(c) = LedgerOf(c).pending \cup LedgerOf(c).included
    BY <2>2 DEF Sent, Taken
  <2> QED BY <2>2, <2>3, StartCount DEF Nonces, Start!PendingNonces, Start!Used
<1>5. ASSUME StartInv PROVE Start!NoFalseRefusal
  BY <1>5 DEF StartInv, RefusalInv, Refused, Start!NoFalseRefusal
<1> QED BY <1>1, <1>3, <1>4, <1>5
-----------------------------------------------------------------------------
(***************************************************************************)
(* A run of the scenario engine, for any scenarios without a cycle, any    *)
(* pools, and any number of instances.                                     *)
(*                                                                         *)
(* While no step has failed, what a step still waits for is exactly what   *)
(* is not done, so counting down starts a step when all that it depends on *)
(* is done, and leaves none behind.                                        *)
(***************************************************************************)

Started(i) == running[i] \cup done[i] \cup failures[i]

\* The steps of an instance.  After a failure nobody counts any more.
GraphInv ==
    \A i \in Run!Instance :
        /\ phase[i] \in {"new", "binding"} => Started(i) = {}
        /\ running[i] \cap done[i] = {}
        /\ \A s \in Started(i) : config.depends_on[s] \subseteq done[i]
        /\ failures[i] = {} =>
             /\ context[i] = done[i] \cap config.saves
             /\ \A s \in Run!Steps : remaining[i][s] = Cardinality(config.depends_on[s] \ done[i])
             /\ phase[i] = "steps" =>
                  \A s \in Run!Steps : config.depends_on[s] \subseteq done[i] => s \in running[i] \cup done[i]

\* Instances are started in turn.
LoopInv ==
    /\ \A i \in Run!Instance : phase[i] = "new" <=> i >= next_instance
    /\ recorded \subseteq 0 .. next_instance - 1

\* An instance takes nothing that it does not need, and nothing when two of its
\* bindings want the same account.
LeaseInv ==
    \A i \in Run!Instance : phase[i] = "binding" =>
        leases[i] \subseteq IF Run!Clash(i) THEN {} ELSE Run!Requested(i)

RunInv ==
    /\ Run!TypeOK /\ GraphInv /\ LoopInv /\ LeaseInv
    /\ Run!LeasesAccounted /\ Run!DependentsSeeResults /\ Run!ReportIsComplete

-----------------------------------------------------------------------------
(* The graph of a scenario                                                 *)

LEMMA Graph ==
    ASSUME config \in Configs
    PROVE  /\ IsFiniteSet(Run!Steps) /\ config.saves \subseteq Run!Steps
           /\ \A s \in Run!Steps : /\ config.depends_on[s] \in SUBSET Run!Steps
                                   /\ IsFiniteSet(config.depends_on[s])
           /\ \A T \in SUBSET Run!Steps : T # {} => \E s \in T : config.depends_on[s] \cap T = {}
<1> DEFINE n == Len(config.depends_on)
<1>1. /\ config.depends_on \in Seq(SUBSET (1 .. n)) /\ config.saves \subseteq 1 .. n
      /\ \A T \in SUBSET (1 .. n) : T # {} => \E s \in T : config.depends_on[s] \cap T = {}
  BY PartsAssumption DEF Run!ScenarioRunAssumption
<1>2. n \in Nat /\ Run!Steps = 1 .. n /\ \A s \in 1 .. n : config.depends_on[s] \in SUBSET (1 .. n)
  BY <1>1 DEF Run!Steps
<1> HIDE DEF n
<1>3. IsFiniteSet(1 .. n)
  BY <1>2, FS_Interval
<1>4. \A s \in 1 .. n : IsFiniteSet(config.depends_on[s])
  BY <1>2, <1>3, FS_Subset
<1> QED BY <1>1, <1>2, <1>3, <1>4

LEMMA AncestorsWithin ==
    ASSUME NEW s, NEW A \in SUBSET Run!Steps, config.depends_on[s] \subseteq A,
           \A u \in A : config.depends_on[u] \subseteq A
    PROVE  Run!Ancestors(s) \subseteq A
BY DEF Run!Ancestors

\* A step that counts down to zero has nothing left to wait for.
LEMMA NothingLeft ==
    ASSUME config \in Configs, NEW s \in Run!Steps, NEW D
    PROVE  /\ Cardinality(config.depends_on[s] \ D) \in Nat
           /\ Cardinality(config.depends_on[s] \ D) = 0 <=> config.depends_on[s] \subseteq D
<1>1. IsFiniteSet(config.depends_on[s] \ D)
  BY Graph, FS_Subset
<1>2. Cardinality(config.depends_on[s] \ D) = 0 <=> config.depends_on[s] \ D = {}
  BY <1>1, FS_EmptySet
<1> QED BY <1>1, <1>2, FS_CardinalityType

LEMMA CountsDown ==
    ASSUME config \in Configs, NEW d \in Run!Steps, NEW D, NEW s, s \notin D
    PROVE  Cardinality(config.depends_on[d] \ (D \cup {s})) =
             Cardinality(config.depends_on[d] \ D) - (IF s \in config.depends_on[d] THEN 1 ELSE 0)
<1> DEFINE S == config.depends_on[d] \ D
<1>1. IsFiniteSet(S) /\ Cardinality(S) \in Nat
  BY Graph, FS_Subset, FS_CardinalityType
<1>2. config.depends_on[d] \ (D \cup {s}) = S \ {s}
  OBVIOUS
<1>3. s \in config.depends_on[d] <=> s \in S
  OBVIOUS
<1> HIDE DEF S
<1>4. Cardinality(S \ {s}) = Cardinality(S) - (IF s \in S THEN 1 ELSE 0)
  <2>1. CASE s \in S
    BY <1>1, <2>1, FS_RemoveElement
  <2>2. CASE s \notin S
    <3>1. S \ {s} = S
      BY <2>2
    <3> QED BY <1>1, <2>2, <3>1
  <2> QED BY <2>1, <2>2
<1> QED BY <1>2, <1>3, <1>4 DEF S

LEMMA Types ==
    ASSUME Run!TypeOK
    PROVE  /\ config \in Configs
           /\ phase \in [Run!Instance -> {"new", "panicked", "aborted", "binding", "steps", "ok", "failed"}]
           /\ running \in [Run!Instance -> SUBSET Run!Steps] /\ done \in [Run!Instance -> SUBSET Run!Steps]
           /\ failures \in [Run!Instance -> SUBSET Run!Steps] /\ context \in [Run!Instance -> SUBSET Run!Steps]
           /\ remaining \in [Run!Instance -> [Run!Steps -> Nat]]
           /\ given \in [Run!Instance -> [Run!Steps -> SUBSET Run!Steps]]
           /\ leases \in [Run!Instance -> SUBSET Run!Accounts] /\ available \in SUBSET Run!Accounts
BY DEF Run!TypeOK, Run!Active, Run!Outcome

\* What does not depend on time.
LEMMA Fixed ==
    ASSUME config' = config
    PROVE  /\ Run!Steps' = Run!Steps /\ Run!Accounts' = Run!Accounts
           /\ \A s : Run!Ancestors(s)' = Run!Ancestors(s) /\ Run!Dependents(s)' = Run!Dependents(s)
           /\ \A i : Run!Requested(i)' = Run!Requested(i) /\ (Run!Clash(i)' <=> Run!Clash(i))
<1>1. Run!Steps' = Run!Steps /\ Run!Accounts' = Run!Accounts /\ Run!Slots' = Run!Slots
  BY DEF Run!Steps, Run!Accounts, Run!Slots
<1>2. \A s : Run!Ancestors(s)' = Run!Ancestors(s) /\ Run!Dependents(s)' = Run!Dependents(s)
  BY <1>1 DEF Run!Ancestors, Run!Dependents
<1>3. \A i, s : Run!Address(i, s)' = Run!Address(i, s)
  BY DEF Run!Address
<1> QED BY <1>1, <1>2, <1>3 DEF Run!Requested, Run!Clash

-----------------------------------------------------------------------------
(* Steps and results                                                       *)

\* Steps that move the tasks of instances only.
Moved(i) ==
    \/ Run!BindFails(i) \/ Run!Lease(i) \/ Run!Return(i) \/ Run!Panic(i) \/ Run!Abort(i) \/ Run!Join(i)
    \/ Run!StartInstance \/ Run!EndRun \/ Run!Expire

LEMMA StepKinds ==
    ASSUME Run!Next
    PROVE  \E i \in Run!Instance : \/ Moved(i) \/ Run!Bound(i)
                                   \/ \E s \in Run!Steps : Run!StepSucceeds(i, s) \/ Run!StepFails(i, s)
<1>1. 0 \in Run!Instance
  BY PartsAssumption DEF Run!ScenarioRunAssumption, Run!Instance
<1> QED BY <1>1 DEF Run!Next, Run!RunStep, Moved

LEMMA MovedKeeps ==
    ASSUME Run!TypeOK, LoopInv, NEW i \in Run!Instance, Moved(i)
    PROVE  /\ UNCHANGED <<config, remaining, running, done, failures, context, given>>
           /\ DOMAIN phase' = Run!Instance
           /\ \A j \in Run!Instance : phase'[j] # phase[j] => 
                \/ phase[j] = "new" /\ phase'[j] = "binding" /\ Run!StartInstance /\ j = next_instance
                \/ phase[j] \in Run!Active /\ phase'[j] \in Run!Outcome \cup {"panicked", "aborted"} /\ j = i
<1>1. UNCHANGED <<config, remaining, running, done, failures, context, given>>
  BY DEF Moved, Run!BindFails, Run!Lease, Run!Return, Run!Panic, Run!Abort, Run!Join, Run!StartInstance,
         Run!EndRun, Run!Expire, Run!steps
<1>2. DOMAIN phase = Run!Instance /\ next_instance \in 0 .. MaxInstances
  BY DEF Run!TypeOK
<1>3. CASE Run!StartInstance
  <2>1. next_instance \in Run!Instance /\ phase' = [phase EXCEPT ![next_instance] = "binding"]
    BY <1>2, <1>3, PartsAssumption DEF Run!ScenarioRunAssumption, Run!StartInstance, Run!Instance, Run!Move
  <2>2. phase[next_instance] = "new"
    BY <1>2, <2>1 DEF LoopInv
  <2> QED BY <1>1, <1>2, <1>3, <2>1, <2>2
<1>4. CASE Run!BindFails(i) \/ Run!Return(i) \/ Run!Panic(i) \/ Run!Abort(i)
  <2>1. \E p \in Run!Outcome \cup {"panicked", "aborted"} : phase' = [phase EXCEPT ![i] = p]
    BY <1>4 DEF Run!BindFails, Run!Return, Run!Panic, Run!Abort, Run!Move, Run!Outcome
  <2>2. phase[i] \in Run!Active
    BY <1>4 DEF Run!BindFails, Run!Return, Run!Panic, Run!Abort, Run!Active
  <2> QED BY <1>1, <1>2, <2>1, <2>2
<1>5. CASE Run!Lease(i) \/ Run!Join(i) \/ Run!EndRun \/ Run!Expire
  <2>1. phase' = phase
    BY <1>5 DEF Run!Lease, Run!Join, Run!EndRun, Run!Expire
  <2> QED BY <1>1, <1>2, <2>1
<1> QED BY <1>3, <1>4, <1>5 DEF Moved

\* What a step is started with, and what has become of the others.
Begins(i, ss) ==
    /\ running' = [running EXCEPT ![i] = (@ \ done'[i]) \cup ss]
    /\ \A s \in Run!Steps : given'[i][s] = IF s \in ss THEN context'[i] ELSE given[i][s]
    /\ \A j \in Run!Instance : j # i => given'[j] = given[j]

LEMMA BeginBegins ==
    ASSUME Run!TypeOK, NEW i \in Run!Instance, NEW ss, Run!Begin(i, ss) PROVE Begins(i, ss)
<1>1. DOMAIN given = Run!Instance
  BY DEF Run!TypeOK
<1> QED BY <1>1 DEF Run!Begin, Begins

GraphOf(i) ==
    /\ phase[i] \in {"new", "binding"} => Started(i) = {}
    /\ running[i] \cap done[i] = {}
    /\ \A s \in Started(i) : config.depends_on[s] \subseteq done[i]
    /\ failures[i] = {} =>
         /\ context[i] = done[i] \cap config.saves
         /\ \A s \in Run!Steps : remaining[i][s] = Cardinality(config.depends_on[s] \ done[i])
         /\ phase[i] = "steps" =>
              \A s \in Run!Steps : config.depends_on[s] \subseteq done[i] => s \in running[i] \cup done[i]
SeesResults(i) ==
    \A s \in Started(i) : /\ Run!Ancestors(s) \subseteq done[i]
                          /\ Run!Ancestors(s) \cap config.saves \subseteq given[i][s]

LEMMA InstanceByInstance ==
    /\ GraphInv <=> \A i \in Run!Instance : GraphOf(i)
    /\ Run!DependentsSeeResults <=> \A i \in Run!Instance : SeesResults(i)
BY DEF GraphInv, GraphOf, Run!DependentsSeeResults, SeesResults, Started

\* An instance whose steps are left alone.
LEMMA GraphKept ==
    ASSUME config' = config, NEW j \in Run!Instance, GraphOf(j), SeesResults(j),
           running'[j] = running[j], done'[j] = done[j], failures'[j] = failures[j],
           context'[j] = context[j], remaining'[j] = remaining[j], given'[j] = given[j],
           phase'[j] \in {"new", "binding"} => phase[j] \in {"new", "binding"},
           phase'[j] = "steps" => phase[j] = "steps"
    PROVE  GraphOf(j)' /\ SeesResults(j)'
<1>1. Started(j)' = Started(j)
  BY DEF Started
<1>2. GraphOf(j)'
  BY <1>1, Fixed DEF GraphOf
<1>3. SeesResults(j)'
  BY <1>1, Fixed DEF SeesResults
<1> QED BY <1>2, <1>3

\* A step is started when the steps that it depends on are done; so are then
\* all of its ancestors, and what they saved is in the context.
LEMMA StartedSees ==
    ASSUME config \in Configs, NEW s \in Run!Steps, NEW D \in SUBSET Run!Steps,
           config.depends_on[s] \subseteq D, \A u \in D : config.depends_on[u] \subseteq D
    PROVE  Run!Ancestors(s) \subseteq D
BY AncestorsWithin

LEMMA BoundGraph ==
    ASSUME Run!TypeOK, NEW i \in Run!Instance, Run!Bound(i), GraphOf(i), SeesResults(i)
    PROVE  GraphOf(i)' /\ SeesResults(i)'
<1> DEFINE first == {s \in Run!Steps : remaining[i][s] = 0}
<1>0. config \in Configs
  BY Types
<1>1. /\ config' = config /\ remaining' = remaining /\ failures' = failures /\ done' = done /\ context' = context
      /\ phase[i] = "binding" /\ phase'[i] = "steps" /\ Begins(i, first)
  BY BeginBegins, Types DEF Run!Bound, Run!Move
<1>2. Started(i) = {} /\ running[i] = {} /\ done[i] = {} /\ failures[i] = {} /\ context[i] = {}
  BY <1>1 DEF GraphOf, Started
<1>3. \A s \in Run!Steps : s \in first <=> config.depends_on[s] = {}
  BY <1>0, <1>2, NothingLeft DEF GraphOf
<1>4. running'[i] = first /\ first \subseteq Run!Steps
  BY <1>1, <1>2, Types DEF Begins
<1> HIDE DEF first
<1>5. Started(i)' = first
  BY <1>1, <1>2, <1>4 DEF Started
<1>6. GraphOf(i)'
  BY <1>1, <1>2, <1>3, <1>4, <1>5, Fixed DEF GraphOf
<1>7. \A s \in first : Run!Ancestors(s) = {}
  BY <1>0, <1>3, <1>4, StartedSees
<1> QED BY <1>1, <1>5, <1>6, <1>7, Fixed DEF SeesResults

LEMMA FailureGraph ==
    ASSUME Run!TypeOK, NEW i \in Run!Instance, NEW s \in Run!Steps, Run!StepFails(i, s),
           GraphOf(i), SeesResults(i)
    PROVE  GraphOf(i)' /\ SeesResults(i)'
<1>1. /\ config' = config /\ done' = done /\ given' = given /\ phase' = phase /\ phase[i] = "steps"
      /\ s \in running[i] /\ running'[i] = running[i] \ {s} /\ failures'[i] = failures[i] \cup {s}
  BY Types DEF Run!StepFails
<1>2. Started(i)' \subseteq Started(i)
  BY <1>1 DEF Started
<1>3. GraphOf(i)'
  BY <1>1, <1>2 DEF GraphOf
<1> QED BY <1>1, <1>2, <1>3, Fixed DEF SeesResults

LEMMA SuccessGraph ==
    ASSUME Run!TypeOK, NEW i \in Run!Instance, NEW s \in Run!Steps, Run!StepSucceeds(i, s),
           GraphOf(i), SeesResults(i)
    PROVE  GraphOf(i)' /\ SeesResults(i)'
<1>0. config \in Configs /\ done[i] \subseteq Run!Steps /\ running[i] \subseteq Run!Steps
  BY Types
<1>1. /\ config' = config /\ failures' = failures /\ phase' = phase /\ phase[i] = "steps"
      /\ s \in running[i] /\ done'[i] = done[i] \cup {s} /\ s \notin done[i]
      /\ config.depends_on[s] \subseteq done[i]
  BY Types DEF Run!StepSucceeds, GraphOf, Started
<1>2. \A u \in done'[i] : config.depends_on[u] \subseteq done[i]
  BY <1>1 DEF GraphOf, Started
<1>3. CASE failures[i] # {}
  <2>1. running'[i] = running[i] \ {s} /\ given' = given
    BY <1>3, Types DEF Run!StepSucceeds
  <2>2. Started(i)' \subseteq Started(i)
    BY <1>1, <2>1 DEF Started
  <2>3. GraphOf(i)'
    BY <1>1, <1>2, <1>3, <2>1, <2>2 DEF GraphOf
  <2> QED BY <1>1, <2>1, <2>2, <2>3, Fixed DEF SeesResults
<1>4. CASE failures[i] = {}
  <2> DEFINE next == {d \in Run!Dependents(s) : remaining'[i][d] = 0}
  <2>1. /\ context'[i] = context[i] \cup ({s} \cap config.saves) /\ Begins(i, next)
        /\ \A d \in Run!Steps : remaining'[i][d] = remaining[i][d] - (IF d \in Run!Dependents(s) THEN 1 ELSE 0)
    BY <1>4, BeginBegins, Types DEF Run!StepSucceeds
  <2>2. \A d \in Run!Steps : remaining'[i][d] = Cardinality(config.depends_on[d] \ done'[i])
    <3> SUFFICES ASSUME NEW d \in Run!Steps
                 PROVE  remaining'[i][d] = Cardinality(config.depends_on[d] \ done'[i])
      OBVIOUS
    <3>1. remaining[i][d] = Cardinality(config.depends_on[d] \ done[i])
      BY <1>4 DEF GraphOf
    <3>2. d \in Run!Dependents(s) <=> s \in config.depends_on[d]
      BY DEF Run!Dependents
    <3> QED BY <1>0, <1>1, <2>1, <3>1, <3>2, CountsDown
  <2>3. next \subseteq Run!Steps /\ \A d \in Run!Steps : d \in next <=> s \in config.depends_on[d] /\ config.depends_on[d] \subseteq done'[i]
    BY <1>0, <2>2, NothingLeft DEF Run!Dependents
  <2> HIDE DEF next
  <2>4. running'[i] = (running[i] \ done'[i]) \cup next
    BY <2>1, Types DEF Begins
  <2>5. Started(i)' \subseteq Started(i) \cup next /\ Started(i) \subseteq Run!Steps
    BY <1>1, <2>4, Types DEF Started
  <2>6. next \cap done'[i] = {}
    BY <1>1, <1>2, <2>3
  <2>7. context'[i] = done'[i] \cap config.saves
    BY <1>1, <1>4, <2>1 DEF GraphOf
  <2>8. \A d \in Run!Steps : config.depends_on[d] \subseteq done'[i] => d \in running'[i] \cup done'[i]
    <3> SUFFICES ASSUME NEW d \in Run!Steps, config.depends_on[d] \subseteq done'[i], d \notin done'[i]
                 PROVE  d \in running'[i]
      OBVIOUS
    <3>1. CASE s \in config.depends_on[d]
      BY <2>3, <2>4, <3>1
    <3>2. CASE s \notin config.depends_on[d]
      <4>1. d \in running[i] \cup done[i]
        BY <1>1, <1>4, <3>2 DEF GraphOf
      <4> QED BY <1>1, <2>4, <4>1
    <3> QED BY <3>1, <3>2
  <2>9. GraphOf(i)'
    <3>1. \A u \in Started(i)' : config.depends_on[u] \subseteq done'[i]
      BY <1>1, <2>3, <2>5 DEF GraphOf
    <3>2. running'[i] \cap done'[i] = {}
      BY <2>4, <2>6
    <3> QED BY <1>1, <2>2, <2>7, <2>8, <3>1, <3>2, Fixed DEF GraphOf
  <2>10. \A u \in Started(i)' : Run!Ancestors(u) \subseteq done'[i] /\ Run!Ancestors(u) \cap config.saves \subseteq given'[i][u]
    <3> SUFFICES ASSUME NEW u \in Started(i)'
                 PROVE  Run!Ancestors(u) \subseteq done'[i] /\ Run!Ancestors(u) \cap config.saves \subseteq given'[i][u]
      OBVIOUS
    <3>1. CASE u \in next
      <4>1. done'[i] \in SUBSET Run!Steps /\ u \in Run!Steps /\ config.depends_on[u] \subseteq done'[i]
        BY <1>0, <1>1, <2>3, <3>1
      <4>2. Run!Ancestors(u) \subseteq done'[i]
        BY <1>0, <1>1, <1>2, <4>1, StartedSees
      <4> QED BY <2>1, <2>7, <3>1, <4>1, <4>2 DEF Begins
    <3>2. CASE u \notin next
      <4>1. u \in Started(i) /\ u \in Run!Steps
        BY <2>5, <3>2
      <4>2. given'[i][u] = given[i][u]
        BY <2>1, <3>2, <4>1 DEF Begins
      <4> QED BY <1>1, <4>1, <4>2 DEF SeesResults
    <3> QED BY <3>1, <3>2
  <2> QED BY <1>1, <2>9, <2>10, Fixed DEF SeesResults
<1> QED BY <1>3, <1>4

LEMMA GraphStep ==
    ASSUME Run!TypeOK, LoopInv, GraphInv, Run!DependentsSeeResults, Run!Next
    PROVE  GraphInv' /\ Run!DependentsSeeResults'
<1>1. \A j \in Run!Instance : GraphOf(j) /\ SeesResults(j)
  BY InstanceByInstance
<1>2. \A j \in Run!Instance : GraphOf(j)' /\ SeesResults(j)'
  <2>1. ASSUME NEW i \in Run!Instance, Moved(i), NEW j \in Run!Instance PROVE GraphOf(j)' /\ SeesResults(j)'
    BY <1>1, <2>1, MovedKeeps, GraphKept DEF Run!Active, Run!Outcome
  <2>2. ASSUME NEW i \in Run!Instance, NEW j \in Run!Instance,
               Run!Bound(i) \/ \E s \in Run!Steps : Run!StepSucceeds(i, s) \/ Run!StepFails(i, s)
        PROVE  GraphOf(j)' /\ SeesResults(j)'
    <3>1. CASE i = j
      BY <1>1, <2>2, <3>1, BoundGraph, SuccessGraph, FailureGraph
    <3>2. CASE i # j
      <4>1. /\ config' = config /\ running'[j] = running[j] /\ done'[j] = done[j]
            /\ failures'[j] = failures[j] /\ context'[j] = context[j] /\ remaining'[j] = remaining[j]
            /\ given'[j] = given[j] /\ phase'[j] = phase[j]
        BY <2>2, <3>2, Types DEF Run!Bound, Run!StepSucceeds, Run!StepFails, Run!Begin, Run!Move
      <4> QED BY <1>1, <4>1, GraphKept
    <3> QED BY <3>1, <3>2
  <2> QED BY <2>1, <2>2, StepKinds
<1>3. Run!Instance' = Run!Instance
  BY DEF Run!Instance
<1>4. GraphInv'
  BY <1>2, <1>3 DEF GraphInv, GraphOf, Started
<1>5. Run!DependentsSeeResults'
  BY <1>2, <1>3 DEF Run!DependentsSeeResults, SeesResults, Started
<1> QED BY <1>4, <1>5

-----------------------------------------------------------------------------
(* Instances and their count                                               *)

InstanceNumbers == MaxInstances \in Nat /\ Run!Instance = 0 .. MaxInstances - 1

LEMMA Numbers == InstanceNumbers /\ IsFiniteSet(Run!Instance)
<1>1. InstanceNumbers
  BY PartsAssumption DEF Run!ScenarioRunAssumption, InstanceNumbers, Run!Instance
<1> QED BY <1>1, FS_Interval DEF InstanceNumbers

LEMMA RunCount == \A S : Run!Cardinality(S) = Cardinality(S)
BY DEF Run!Cardinality, Cardinality

Open == {i \in Run!Instance : phase[i] # "new" /\ i \notin recorded}

LEMMA OpenIsFinite == IsFiniteSet(Open) /\ Cardinality(Open) \in Nat
BY Numbers, FS_Subset, FS_CardinalityType DEF Open

LEMMA NobodyIsNew ==
    ASSUME Run!TypeOK, LoopInv, GraphInv, Run!Next, ~Run!StartInstance
    PROVE  \A j \in Run!Instance : phase'[j] = "new" <=> phase[j] = "new"
<1>1. ASSUME NEW i \in Run!Instance, Moved(i) PROVE \A j \in Run!Instance : phase'[j] = "new" <=> phase[j] = "new"
  BY <1>1, MovedKeeps DEF Run!Active, Run!Outcome
<1>2. ASSUME NEW i \in Run!Instance,
             Run!Bound(i) \/ \E s \in Run!Steps : Run!StepSucceeds(i, s) \/ Run!StepFails(i, s)
      PROVE  \A j \in Run!Instance : phase'[j] = "new" <=> phase[j] = "new"
  BY <1>2, Types DEF Run!Bound, Run!StepSucceeds, Run!StepFails, Run!Move
<1> QED BY <1>1, <1>2, StepKinds

LEMMA LoopInvStep ==
    ASSUME Run!TypeOK, LoopInv, GraphInv, Run!Next PROVE LoopInv'
<1>0. /\ InstanceNumbers /\ next_instance \in 0 .. MaxInstances /\ Run!Instance' = Run!Instance
      /\ DOMAIN phase = Run!Instance
  BY Numbers DEF Run!TypeOK, Run!Instance
<1>1. CASE Run!StartInstance
  <2>1. /\ next_instance' = next_instance + 1 /\ recorded' = recorded
        /\ phase' = [phase EXCEPT ![next_instance] = "binding"]
    BY <1>1 DEF Run!StartInstance, Run!Move
  <2>2. \A i \in Run!Instance : phase'[i] = "new" <=> i >= next_instance + 1
    BY <1>0, <2>1 DEF LoopInv, InstanceNumbers
  <2> QED BY <1>0, <2>1, <2>2 DEF LoopInv, InstanceNumbers
<1>2. CASE ~Run!StartInstance
  <2>1. next_instance' = next_instance
    BY ZenonT(60), <1>2 DEF Run!Next, Run!RunStep, Run!BindFails, Run!Lease, Run!Return, Run!Panic, Run!Abort, Run!Join,
           Run!EndRun, Run!Expire, Run!Bound, Run!StepSucceeds, Run!StepFails, Run!instances
  <2>2. recorded' = recorded \/ \E i \in Run!Instance : recorded' = recorded \cup {i} /\ phase[i] # "new"
    <3>1. ASSUME NEW i \in Run!Instance, Run!Join(i)
          PROVE  recorded' = recorded \/ (recorded' = recorded \cup {i} /\ phase[i] # "new")
      BY <3>1 DEF Run!Join, Run!Outcome
    <3>2. CASE ~\E i \in Run!Instance : Run!Join(i)
      BY ZenonT(60), <1>2, <3>2 DEF Run!Next, Run!RunStep, Run!BindFails, Run!Lease, Run!Return, Run!Panic, Run!Abort,
             Run!EndRun, Run!Expire, Run!Bound, Run!StepSucceeds, Run!StepFails, Run!instances
    <3> QED BY <3>1, <3>2
  <2>3. recorded' \subseteq 0 .. next_instance - 1
    <3>1. \A i \in Run!Instance : phase[i] # "new" => i \in 0 .. next_instance - 1
      BY <1>0 DEF LoopInv, InstanceNumbers
    <3> QED BY <2>2, <3>1 DEF LoopInv
  <2> QED BY <1>0, <1>2, <2>1, <2>3, NobodyIsNew DEF LoopInv
<1> QED BY <1>1, <1>2

\* The run counts the instances it has not recorded, until a panic ends it.
LEMMA OpenStep ==
    ASSUME Run!TypeOK, LoopInv, GraphInv, Run!Next, in_flight = Cardinality(Open), loop # "failed"
    PROVE  in_flight' = Cardinality(Open)' \/ loop' = "failed"
<1>0. InstanceNumbers /\ next_instance \in 0 .. MaxInstances /\ DOMAIN phase = Run!Instance
  BY Numbers DEF Run!TypeOK
<1>1. Open' = {j \in Run!Instance : phase'[j] # "new" /\ j \notin recorded'}
  BY DEF Open, Run!Instance
<1>2. CASE Run!StartInstance
  <2>1. /\ next_instance \in Run!Instance /\ recorded' = recorded /\ in_flight' = in_flight + 1
        /\ phase' = [phase EXCEPT ![next_instance] = "binding"]
    BY <1>0, <1>2 DEF Run!StartInstance, Run!Move, InstanceNumbers
  <2>2. next_instance \notin Open /\ next_instance \notin recorded
    BY <1>0, <2>1 DEF Open, LoopInv, InstanceNumbers
  <2>3. Open' = Open \cup {next_instance}
    BY <1>0, <1>1, <2>1, <2>2 DEF Open
  <2> QED BY <2>1, <2>2, <2>3, OpenIsFinite, FS_AddElement
<1>3. ASSUME NEW i \in Run!Instance, Run!Join(i), loop' # "failed" PROVE in_flight' = Cardinality(Open')
  <2>1. phase' = phase /\ i \in Open /\ in_flight' = in_flight - 1 /\ recorded' = recorded \cup {i}
    BY <1>3 DEF Run!Join, Open, Run!Outcome
  <2>2. Open' = Open \ {i}
    BY <1>1, <2>1 DEF Open
  <2> QED BY <2>1, <2>2, OpenIsFinite, FS_RemoveElement
<1>4. CASE ~Run!StartInstance /\ ~\E i \in Run!Instance : Run!Join(i)
  <2>1. in_flight' = in_flight /\ recorded' = recorded
    BY ZenonT(60), <1>4 DEF Run!Next, Run!RunStep, Run!BindFails, Run!Lease, Run!Return, Run!Panic, Run!Abort,
           Run!EndRun, Run!Expire, Run!Bound, Run!StepSucceeds, Run!StepFails, Run!instances
  <2>2. Open' = Open
    BY <1>1, <1>4, <2>1, NobodyIsNew DEF Open
  <2> QED BY <2>1, <2>2
<1> QED BY <1>2, <1>3, <1>4

LEMMA ReportStep ==
    ASSUME Run!TypeOK, LoopInv, GraphInv, Run!ReportIsComplete, Run!Next PROVE Run!ReportIsComplete'
<1>0. Run!Instance' = Run!Instance /\ InstanceNumbers
  BY Numbers DEF Run!Instance
<1>1. ASSUME NEW j \in Run!Instance, phase'[j] = "ok" PROVE done'[j] = Run!Steps'
  <2>0. config \in Configs /\ done[j] \subseteq Run!Steps /\ DOMAIN phase = Run!Instance
    BY Types
  <2>1. ASSUME NEW i \in Run!Instance, Moved(i) PROVE done'[j] = Run!Steps'
    <3>1. done' = done /\ config' = config
      BY <2>1, MovedKeeps
    <3>2. CASE phase[j] = "ok"
      BY <3>1, <3>2, Fixed DEF Run!ReportIsComplete
    <3>3. CASE phase[j] # "ok"
      <4>1. Run!Return(j) /\ failures[j] = {}
        BY <1>1, <2>0, <2>1, <3>3 DEF Moved, Run!BindFails, Run!Lease, Run!Return, Run!Panic, Run!Abort,
               Run!Join, Run!StartInstance, Run!EndRun, Run!Expire, Run!Move
      <4>2. \A s \in Run!Steps : config.depends_on[s] \subseteq done[j] => s \in done[j]
        BY <4>1 DEF Run!Return, GraphInv
      <4>3. Run!Steps \ done[j] = {}
        <5> SUFFICES ASSUME Run!Steps \ done[j] # {} PROVE FALSE
          OBVIOUS
        <5>1. PICK s \in Run!Steps \ done[j] : config.depends_on[s] \cap (Run!Steps \ done[j]) = {}
          BY <2>0, Graph
        <5>2. config.depends_on[s] \subseteq done[j]
          BY <2>0, <5>1, Graph
        <5> QED BY <4>2, <5>1, <5>2
      <4> QED BY <2>0, <3>1, <4>3, Fixed
    <3> QED BY <3>2, <3>3
  <2>2. ASSUME NEW i \in Run!Instance,
               Run!Bound(i) \/ \E s \in Run!Steps : Run!StepSucceeds(i, s) \/ Run!StepFails(i, s)
        PROVE  done'[j] = Run!Steps'
    <3>1. /\ phase[j] = "ok" /\ j # i /\ config' = config /\ done'[j] = done[j]
      BY <1>1, <2>0, <2>2, Types DEF Run!Bound, Run!StepSucceeds, Run!StepFails, Run!Move
    <3> QED BY <3>1, Fixed DEF Run!ReportIsComplete
  <2> QED BY <2>1, <2>2, StepKinds
<1>2. in_flight' = Cardinality(Open') \/ loop' = "failed"
  <2>1. loop = "failed" => loop' = "failed"
    BY ZenonT(60) DEF Run!Next, Run!RunStep, Run!BindFails, Run!Lease, Run!Return, Run!Panic, Run!Abort, Run!Join,
           Run!StartInstance, Run!EndRun, Run!Expire, Run!Bound, Run!StepSucceeds, Run!StepFails
  <2>2. in_flight = Cardinality(Open) \/ loop = "failed"
    BY RunCount DEF Run!ReportIsComplete, Open
  <2> QED BY <2>1, <2>2, OpenStep
<1>3. loop' = "ended" => recorded' = 0 .. next_instance' - 1
  <2>3. in_flight = Cardinality(Open) \/ loop = "failed"
    BY RunCount DEF Run!ReportIsComplete, Open
  <2>1. CASE Run!EndRun
    <3>1. in_flight = 0 /\ loop = "run" /\ recorded' = recorded /\ next_instance' = next_instance
      BY <2>1 DEF Run!EndRun, Run!instances
    <3>2. Open = {}
      BY <2>3, <3>1, OpenIsFinite, FS_EmptySet
    <3>3. next_instance \in 0 .. MaxInstances
      BY DEF Run!TypeOK
    <3>4. \A i \in 0 .. next_instance - 1 : i \in Run!Instance /\ phase[i] # "new"
      BY <1>0, <3>3 DEF LoopInv, InstanceNumbers
    <3>5. 0 .. next_instance - 1 \subseteq recorded
      BY <3>2, <3>4 DEF Open
    <3> QED BY <3>1, <3>5 DEF LoopInv
  <2>2. CASE ~Run!EndRun
    <3>1. loop' = "ended" => loop = "ended" /\ recorded' = recorded /\ next_instance' = next_instance
      BY ZenonT(60), <2>2 DEF Run!Next, Run!RunStep, Run!BindFails, Run!Lease, Run!Return, Run!Panic, Run!Abort,
             Run!Join, Run!StartInstance, Run!Expire, Run!Bound, Run!StepSucceeds, Run!StepFails, Run!instances
    <3> QED BY <3>1 DEF Run!ReportIsComplete
  <2> QED BY <2>1, <2>2
<1>4. Open' = {i \in Run!Instance' : phase'[i] # "new" /\ i \notin recorded'}
  BY DEF Open
<1>5. Run!Cardinality(Open)' = Cardinality(Open)'
  BY RunCount
<1> QED BY <1>0, <1>1, <1>2, <1>3, <1>4, <1>5 DEF Run!ReportIsComplete

-----------------------------------------------------------------------------
(* Type correctness                                                        *)

\* The parts of TypeOK that the loop, the tasks and the steps change.
LoopTypes ==
    /\ loop \in {"run", "ended", "failed"} /\ expired \in BOOLEAN /\ stop_starting \in BOOLEAN
    /\ next_instance \in 0 .. MaxInstances /\ in_flight \in 0 .. config.max_in_flight
    /\ recorded \in SUBSET Run!Instance
TaskTypes ==
    /\ phase \in [Run!Instance -> {"new", "panicked", "aborted"} \cup Run!Active \cup Run!Outcome]
    /\ available \in SUBSET Run!Accounts /\ leases \in [Run!Instance -> SUBSET Run!Accounts]
StepTypes ==
    /\ remaining \in [Run!Instance -> [Run!Steps -> Nat]]
    /\ \A f \in {running, done, failures, context} : f \in [Run!Instance -> SUBSET Run!Steps]
    /\ given \in [Run!Instance -> [Run!Steps -> SUBSET Run!Steps]]

LEMMA TypeOKSplit == Run!TypeOK <=> config \in Configs /\ LoopTypes /\ TaskTypes /\ StepTypes
BY DEF Run!TypeOK, LoopTypes, TaskTypes, StepTypes

LEMMA StepsConstant ==
    ASSUME Run!Next PROVE config' = config
BY ZenonT(60) DEF Run!Next, Run!RunStep, Run!BindFails, Run!Lease, Run!Return, Run!Panic, Run!Abort, Run!Join,
       Run!StartInstance, Run!EndRun, Run!Expire, Run!Bound, Run!StepSucceeds, Run!StepFails

LEMMA LoopTypesStep ==
    ASSUME Run!TypeOK, GraphInv, Run!ReportIsComplete, LoopInv, Run!Next PROVE LoopTypes'
<1>0. /\ LoopTypes /\ config' = config /\ config \in Configs /\ config.max_in_flight \in Nat /\ InstanceNumbers
      /\ Run!Instance' = Run!Instance
  <2>1. config \in Configs /\ LoopTypes /\ config' = config
    BY TypeOKSplit, StepsConstant
  <2> QED BY <2>1, Numbers, PartsAssumption DEF Run!ScenarioRunAssumption, Run!Instance
<1>1. CASE Run!StartInstance
  BY <1>0, <1>1 DEF Run!StartInstance, Run!Room, LoopTypes, InstanceNumbers
<1>2. ASSUME NEW i \in Run!Instance, Run!Join(i) PROVE LoopTypes'
  <2>1. /\ i \in Open /\ in_flight = Cardinality(Open) /\ in_flight' = in_flight - 1
    BY <1>2, RunCount DEF Run!Join, Run!ReportIsComplete, Open, Run!Outcome
  <2>2. in_flight # 0
    BY <2>1, OpenIsFinite, FS_EmptySet
  <2>3. in_flight' \in 0 .. config.max_in_flight
    BY <1>0, <2>1, <2>2 DEF LoopTypes
  <2>4. /\ loop' \in {"run", "failed"} /\ recorded' \in SUBSET Run!Instance
        /\ expired' = expired /\ next_instance' = next_instance
    BY <1>0, <1>2 DEF Run!Join, LoopTypes
  <2>5. stop_starting' \in BOOLEAN
    BY <1>0, <1>2 DEF Run!Join, LoopTypes
  <2> QED BY <1>0, <2>3, <2>4, <2>5 DEF LoopTypes
<1>3. CASE Run!EndRun \/ Run!Expire
  BY <1>0, <1>3 DEF Run!EndRun, Run!Expire, Run!instances, LoopTypes
<1>4. CASE ~(Run!RunStep \/ Run!Expire)
  <2>1. UNCHANGED <<loop, expired, Run!instances>>
    BY <1>4 DEF Run!Next, Run!BindFails, Run!Lease, Run!Return, Run!Panic, Run!Abort, Run!Bound,
           Run!StepSucceeds, Run!StepFails
  <2> QED BY <1>0, <2>1 DEF LoopTypes, Run!instances
<1> QED BY <1>1, <1>2, <1>3, <1>4 DEF Run!RunStep

\* What an action does to the accounts.
LeaseKinds ==
    \/ UNCHANGED <<available, leases>>
    \/ \E i \in Run!Instance : Run!GiveBack(i)
    \/ \E i \in Run!Instance : \E a \in Run!Missing(i) \cap available :
          available' = available \ {a} /\ leases' = [leases EXCEPT ![i] = @ \cup {a}]

LEMMA LeaseSteps == ASSUME Run!Next PROVE LeaseKinds
<1>1. ASSUME NEW i \in Run!Instance, Run!Lease(i) PROVE LeaseKinds
  BY <1>1 DEF Run!Lease, LeaseKinds
<1>2. ASSUME NEW i \in Run!Instance, Run!Return(i) \/ Run!Panic(i) \/ Run!Abort(i) PROVE LeaseKinds
  BY <1>2 DEF Run!Return, Run!Panic, Run!Abort, LeaseKinds
<1>3. ASSUME \/ Run!RunStep \/ Run!Expire
             \/ \E i \in Run!Instance : \/ Run!BindFails(i) \/ Run!Bound(i)
                                        \/ \E s \in Run!Steps : Run!StepSucceeds(i, s) \/ Run!StepFails(i, s)
      PROVE  LeaseKinds
  BY ZenonT(60), <1>3 DEF Run!RunStep, Run!StartInstance, Run!EndRun, Run!Join, Run!Expire, Run!BindFails, Run!Bound,
         Run!StepSucceeds, Run!StepFails, LeaseKinds
<1> QED BY <1>1, <1>2, <1>3 DEF Run!Next

LEMMA TaskTypesStep ==
    ASSUME Run!TypeOK, LoopInv, GraphInv, Run!Next PROVE TaskTypes'
<1>0. /\ TaskTypes /\ config' = config /\ config \in Configs /\ Run!Instance' = Run!Instance
      /\ Run!Accounts' = Run!Accounts
  <2>1. TaskTypes /\ config' = config /\ config \in Configs
    BY TypeOKSplit, StepsConstant
  <2> QED BY <2>1, Fixed DEF Run!Instance
<1>1. available' \in SUBSET Run!Accounts /\ leases' \in [Run!Instance -> SUBSET Run!Accounts]
  BY <1>0, LeaseSteps DEF LeaseKinds, Run!GiveBack, TaskTypes
<1> DEFINE Phases == {"new", "panicked", "aborted"} \cup Run!Active \cup Run!Outcome
<1>2. ASSUME NEW i \in Run!Instance, Moved(i) PROVE phase' \in [Run!Instance -> Phases]
  <2>1. phase \in [Run!Instance -> Phases]
    BY <1>0 DEF TaskTypes
  <2>2. /\ DOMAIN phase' = Run!Instance
        /\ \A j \in Run!Instance : phase'[j] # phase[j] =>
               phase'[j] = "binding" \/ phase'[j] \in Run!Outcome \cup {"panicked", "aborted"}
    BY <1>2, MovedKeeps
  <2>3. \A j \in Run!Instance : phase'[j] \in Phases
    BY <2>1, <2>2 DEF Run!Active
  <2>4. \E f : phase' = [j \in Run!Instance |-> f[j]]
    BY <1>2, <2>1 DEF Moved, Run!BindFails, Run!Lease, Run!Return, Run!Panic, Run!Abort, Run!Join,
           Run!StartInstance, Run!EndRun, Run!Expire, Run!Move
  <2> QED BY <2>2, <2>3, <2>4
<1>3. ASSUME NEW i \in Run!Instance, 
             Run!Bound(i) \/ \E s \in Run!Steps : Run!StepSucceeds(i, s) \/ Run!StepFails(i, s)
      PROVE  phase' \in [Run!Instance -> Phases]
  BY <1>0, <1>3 DEF Run!Bound, Run!StepSucceeds, Run!StepFails, Run!Move, TaskTypes, Run!Active
<1>4. phase' \in [Run!Instance -> Phases]
  BY <1>2, <1>3, StepKinds
<1>5. Run!Active' = Run!Active /\ Run!Outcome' = Run!Outcome
  BY DEF Run!Active, Run!Outcome
<1> QED BY <1>0, <1>1, <1>4, <1>5 DEF TaskTypes

LEMMA StepTypesStep ==
    ASSUME Run!TypeOK, LoopInv, GraphInv, Run!Next PROVE StepTypes'
<1>0. /\ StepTypes /\ config' = config /\ config \in Configs /\ Run!Instance' = Run!Instance
      /\ Run!Steps' = Run!Steps
  <2>1. StepTypes /\ config' = config /\ config \in Configs
    BY TypeOKSplit, StepsConstant
  <2> QED BY <2>1, Fixed DEF Run!Instance
<1>1. ASSUME NEW i \in Run!Instance, Moved(i) PROVE StepTypes'
  BY <1>0, <1>1, MovedKeeps DEF StepTypes
<1>2. ASSUME NEW i \in Run!Instance, Run!Bound(i) PROVE StepTypes'
  <2> DEFINE first == {s \in Run!Steps : remaining[i][s] = 0}
  <2>1. /\ remaining' = remaining /\ failures' = failures /\ done' = done /\ context' = context
        /\ Run!Begin(i, first)
    BY <1>2 DEF Run!Bound
  <2>2. first \subseteq Run!Steps
    OBVIOUS
  <2> HIDE DEF first
  <2> QED BY <1>0, <2>1, <2>2, Types DEF StepTypes, Run!Begin
<1>3. ASSUME NEW i \in Run!Instance, NEW s \in Run!Steps, Run!StepFails(i, s) PROVE StepTypes'
  BY <1>0, <1>3, Types DEF StepTypes, Run!StepFails
<1>4. ASSUME NEW i \in Run!Instance, NEW s \in Run!Steps, Run!StepSucceeds(i, s), failures[i] # {}
      PROVE  StepTypes'
  <2>1. /\ done' = [done EXCEPT ![i] = @ \cup {s}] /\ running' = [running EXCEPT ![i] = @ \ {s}]
        /\ UNCHANGED <<context, remaining, given, failures>>
    BY <1>4 DEF Run!StepSucceeds
  <2> QED BY <1>0, <2>1, Types DEF StepTypes
<1>5. ASSUME NEW i \in Run!Instance, NEW s \in Run!Steps, Run!StepSucceeds(i, s), failures[i] = {}
      PROVE  StepTypes'
  <2> DEFINE next == {d \in Run!Dependents(s) : remaining'[i][d] = 0}
  <2>1. /\ done' = [done EXCEPT ![i] = @ \cup {s}] /\ failures' = failures
        /\ context' = [context EXCEPT ![i] = @ \cup ({s} \cap config.saves)]
        /\ remaining' = [remaining EXCEPT ![i] =
               [d \in Run!Steps |-> @[d] - (IF d \in Run!Dependents(s) THEN 1 ELSE 0)]]
        /\ s \in running[i] /\ Run!Begin(i, next)
    BY <1>5 DEF Run!StepSucceeds
  <2>2. next \subseteq Run!Steps
    BY DEF Run!Dependents
  <2> HIDE DEF next
  <2>3. \A d \in Run!Steps : remaining[i][d] - (IF d \in Run!Dependents(s) THEN 1 ELSE 0) \in Nat
    <3> SUFFICES ASSUME NEW d \in Run!Steps, s \in config.depends_on[d] PROVE remaining[i][d] - 1 \in Nat
      BY Types DEF Run!Dependents
    <3>1. s \notin done[i]
      BY <2>1 DEF GraphInv
    <3>2. remaining[i][d] = Cardinality(config.depends_on[d] \ done[i])
      BY <1>5 DEF GraphInv
    <3>3. Cardinality(config.depends_on[d] \ done[i]) \in Nat \ {0}
      BY <1>0, <3>1, NothingLeft
    <3> QED BY <3>2, <3>3
  <2>4. remaining' \in [Run!Instance -> [Run!Steps -> Nat]]
    <3>1. [d \in Run!Steps |-> remaining[i][d] - (IF d \in Run!Dependents(s) THEN 1 ELSE 0)] \in [Run!Steps -> Nat]
      BY <2>3
    <3> QED BY <2>1, <3>1, Types
  <2>5. running' \in [Run!Instance -> SUBSET Run!Steps] /\ given' \in [Run!Instance -> [Run!Steps -> SUBSET Run!Steps]]
    <3>1. context' \in [Run!Instance -> SUBSET Run!Steps]
      BY <2>1, Types
    <3> QED BY <2>1, <2>2, <3>1, Types DEF Run!Begin
  <2> QED BY <1>0, <2>1, <2>4, <2>5, Types DEF StepTypes
<1> QED BY <1>1, <1>2, <1>3, <1>4, <1>5, StepKinds

-----------------------------------------------------------------------------
(* Account leases                                                          *)

HasOneOwner(a) ==
    /\ \A i, j \in Run!Instance : i # j => ~(a \in leases[i] /\ a \in leases[j])
    /\ a \in available <=> \A i \in Run!Instance : a \notin leases[i]
HasItsLeases(i) ==
    /\ phase[i] \notin Run!Active => leases[i] = {}
    /\ phase[i] = "steps" => leases[i] = Run!Requested(i)
    /\ phase[i] = "binding" => leases[i] \subseteq IF Run!Clash(i) THEN {} ELSE Run!Requested(i)

LEMMA LeasesOneByOne ==
    ASSUME leases \in [Run!Instance -> SUBSET Run!Accounts], available \subseteq Run!Accounts
    PROVE  Run!LeasesAccounted /\ LeaseInv <=>
             /\ \A a \in Run!Accounts : HasOneOwner(a)
             /\ \A i \in Run!Instance : HasItsLeases(i)
<1>1. (\A i, j \in Run!Instance : i # j => leases[i] \cap leases[j] = {}) <=>
         \A a \in Run!Accounts : \A i, j \in Run!Instance : i # j => ~(a \in leases[i] /\ a \in leases[j])
  OBVIOUS
<1>2. available = Run!Accounts \ UNION {leases[i] : i \in Run!Instance} <=>
         \A a \in Run!Accounts : a \in available <=> \A i \in Run!Instance : a \notin leases[i]
  OBVIOUS
<1> QED BY <1>1, <1>2 DEF Run!LeasesAccounted, LeaseInv, HasOneOwner, HasItsLeases

LEMMA LeaseStep ==
    ASSUME Run!TypeOK, LoopInv, GraphInv, LeaseInv, Run!LeasesAccounted, Run!Next
    PROVE  LeaseInv' /\ Run!LeasesAccounted'
<1>0. /\ config' = config /\ Run!Instance' = Run!Instance /\ Run!Accounts' = Run!Accounts
      /\ \A i : Run!Requested(i)' = Run!Requested(i) /\ (Run!Clash(i)' <=> Run!Clash(i))
      /\ leases \in [Run!Instance -> SUBSET Run!Accounts] /\ available \subseteq Run!Accounts
      /\ DOMAIN phase = Run!Instance
  BY StepsConstant, Fixed, Types DEF Run!Instance
<1>1. /\ \A a \in Run!Accounts : HasOneOwner(a)
      /\ \A i \in Run!Instance : HasItsLeases(i)
  BY <1>0, LeasesOneByOne
<1>2. ASSUME NEW a \in Run!Accounts PROVE HasOneOwner(a)'
  <2>0. HasOneOwner(a)
    BY <1>1
  <2>1. CASE UNCHANGED <<available, leases>>
    BY <1>0, <2>0, <2>1 DEF HasOneOwner
  <2>2. ASSUME NEW i \in Run!Instance, Run!GiveBack(i) PROVE HasOneOwner(a)'
    <3>1. /\ available' = available \cup leases[i] /\ leases'[i] = {}
          /\ \A j \in Run!Instance : j # i => leases'[j] = leases[j]
      BY <1>0, <2>2 DEF Run!GiveBack
    <3> QED BY <1>0, <2>0, <3>1 DEF HasOneOwner
  <2>3. ASSUME NEW i \in Run!Instance, NEW b \in Run!Missing(i) \cap available,
               available' = available \ {b}, leases' = [leases EXCEPT ![i] = @ \cup {b}]
        PROVE  HasOneOwner(a)'
    <3>1. leases'[i] = leases[i] \cup {b} /\ \A j \in Run!Instance : j # i => leases'[j] = leases[j]
      BY <1>0, <2>3
    <3> QED BY <1>0, <2>0, <2>3, <3>1 DEF HasOneOwner
  <2> QED BY <2>1, <2>2, <2>3, LeaseSteps DEF LeaseKinds
<1>3. ASSUME NEW j \in Run!Instance PROVE HasItsLeases(j)'
  <2>0. HasItsLeases(j)
    BY <1>1
  <2>1. ASSUME NEW i \in Run!Instance, Run!Lease(i) PROVE HasItsLeases(j)'
    <3>1. /\ phase' = phase /\ (i # j => leases'[j] = leases[j])
          /\ i = j => /\ phase[j] = "binding" /\ ~Run!Clash(j)
                      /\ leases'[j] \subseteq leases[j] \cup Run!Requested(j)
      BY <1>0, <2>1 DEF Run!Lease, Run!Missing
    <3> QED BY <1>0, <2>0, <3>1 DEF HasItsLeases, Run!Active
  <2>2. ASSUME NEW i \in Run!Instance,
               Run!Return(i) \/ Run!Panic(i) \/ Run!Abort(i) \/ Run!BindFails(i)
        PROVE  HasItsLeases(j)'
    <3>1. i = j => leases'[j] = {} /\ phase'[j] \notin {"steps", "binding"}
      BY <1>0, <2>0, <2>2 DEF HasItsLeases, Run!Return, Run!Panic, Run!Abort, Run!BindFails, Run!GiveBack, Run!Move
    <3>2. i # j => leases'[j] = leases[j] /\ phase'[j] = phase[j]
      BY <1>0, <2>2 DEF Run!Return, Run!Panic, Run!Abort, Run!BindFails, Run!GiveBack, Run!Move
    <3> QED BY <1>0, <2>0, <3>1, <3>2 DEF HasItsLeases, Run!Active
  <2>3. ASSUME NEW i \in Run!Instance, Run!Bound(i) PROVE HasItsLeases(j)'
    <3>1. /\ leases' = leases /\ (i # j => phase'[j] = phase[j])
          /\ i = j => /\ phase[j] = "binding" /\ phase'[j] = "steps" /\ ~Run!Clash(j)
                      /\ Run!Requested(j) \subseteq leases[j]
      BY <1>0, <2>3 DEF Run!Bound, Run!Move, Run!Missing
    <3> QED BY <1>0, <2>0, <3>1 DEF HasItsLeases, Run!Active
  <2>4. CASE Run!StartInstance
    <3>1. leases' = leases
      BY <2>4 DEF Run!StartInstance
    <3>2. phase' = [phase EXCEPT ![next_instance] = "binding"] /\ next_instance \in Nat
      BY <2>4 DEF Run!StartInstance, Run!Move, Run!TypeOK
    <3>3. next_instance = j => phase[j] = "new"
      BY <1>0, <3>2 DEF LoopInv
    <3> QED BY <1>0, <2>0, <3>1, <3>2, <3>3 DEF HasItsLeases, Run!Active
  <2>5. CASE \/ Run!EndRun \/ Run!Expire
             \/ \E i \in Run!Instance : \/ Run!Join(i)
                                        \/ \E s \in Run!Steps : Run!StepSucceeds(i, s) \/ Run!StepFails(i, s)
    <3>1. phase' = phase /\ leases' = leases
      BY <2>5 DEF Run!EndRun, Run!Expire, Run!Join, Run!StepSucceeds, Run!StepFails
    <3> QED BY <1>0, <2>0, <3>1 DEF HasItsLeases, Run!Active
  <2> QED BY <2>1, <2>2, <2>3, <2>4, <2>5 DEF Run!Next, Run!RunStep
<1>4. leases' \in [Run!Instance -> SUBSET Run!Accounts] /\ available' \subseteq Run!Accounts
  BY TaskTypesStep, <1>0 DEF TaskTypes
<1>5. /\ \A a \in Run!Accounts' : HasOneOwner(a)'
      /\ \A i \in Run!Instance' : HasItsLeases(i)'
  BY <1>0, <1>2, <1>3
<1>6. Run!LeasesAccounted' /\ LeaseInv'
  <2>1. available' = Run!Accounts \ UNION {leases'[i] : i \in Run!Instance}
    BY <1>0, <1>4, <1>5 DEF HasOneOwner
  <2>2. \A i, j \in Run!Instance : i # j => leases'[i] \cap leases'[j] = {}
    BY <1>0, <1>4, <1>5 DEF HasOneOwner
  <2> QED BY <1>0, <1>5, <2>1, <2>2 DEF Run!LeasesAccounted, LeaseInv, HasItsLeases
<1> QED BY <1>6

-----------------------------------------------------------------------------
(* The invariant                                                           *)

LEMMA RunInvInit == ASSUME Run!Init PROVE RunInv
<1>0. /\ config \in Configs /\ loop = "run" /\ expired = FALSE /\ stop_starting = FALSE
      /\ next_instance = 0 /\ in_flight = 0 /\ recorded = {}
      /\ phase = [i \in Run!Instance |-> "new"] /\ available = Run!Accounts
      /\ leases = [i \in Run!Instance |-> {}]
      /\ remaining = [i \in Run!Instance |-> [s \in Run!Steps |-> Cardinality(config.depends_on[s])]]
      /\ running = [i \in Run!Instance |-> {}] /\ done = running /\ failures = running /\ context = running
      /\ given = [i \in Run!Instance |-> [s \in Run!Steps |-> {}]]
  BY RunCount DEF Run!Init
<1>1. config.max_in_flight \in Nat /\ InstanceNumbers
  BY <1>0, Numbers, PartsAssumption DEF Run!ScenarioRunAssumption
<1>2. LoopTypes
  <2>1. expired \in BOOLEAN /\ stop_starting \in BOOLEAN /\ loop \in {"run", "ended", "failed"}
    BY <1>0
  <2>2. 0 \in 0 .. MaxInstances /\ 0 \in 0 .. config.max_in_flight /\ {} \in SUBSET Run!Instance
    BY <1>1 DEF InstanceNumbers
  <2> QED BY <1>0, <2>1, <2>2 DEF LoopTypes
<1>3. TaskTypes
  BY <1>0 DEF TaskTypes
<1>4. \A s \in Run!Steps : config.depends_on[s] \ {} = config.depends_on[s] /\ Cardinality(config.depends_on[s]) \in Nat
  BY <1>0, Graph, FS_CardinalityType
<1>5. StepTypes
  <2>1. [i \in Run!Instance |-> {}] \in [Run!Instance -> SUBSET Run!Steps]
    OBVIOUS
  <2>2. \A f \in {running, done, failures, context} : f \in [Run!Instance -> SUBSET Run!Steps]
    BY <1>0, <2>1
  <2>3. remaining \in [Run!Instance -> [Run!Steps -> Nat]]
    BY <1>0, <1>4
  <2> QED BY <1>0, <2>2, <2>3 DEF StepTypes
<1>6. Run!TypeOK
  BY <1>0, <1>2, <1>3, <1>5, TypeOKSplit
<1>7. \A i \in Run!Instance : GraphOf(i) /\ SeesResults(i)
  BY <1>0, <1>4 DEF GraphOf, SeesResults, Started
<1>8. LoopInv
  BY <1>0, <1>1 DEF LoopInv, InstanceNumbers
<1>9. Run!LeasesAccounted /\ LeaseInv
  <2>1. UNION {leases[i] : i \in Run!Instance} = {}
    BY <1>0
  <2> QED BY <1>0, <2>1 DEF Run!LeasesAccounted, LeaseInv, Run!Active
<1>10. Run!ReportIsComplete
  <2>1. {i \in Run!Instance : phase[i] # "new" /\ i \notin recorded} = {}
    BY <1>0
  <2> QED BY <1>0, <2>1, RunCount, FS_EmptySet DEF Run!ReportIsComplete
<1> QED BY <1>6, <1>7, <1>8, <1>9, <1>10, InstanceByInstance DEF RunInv

LEMMA RunInvStep == ASSUME RunInv, Run!Next PROVE RunInv'
<1>1. LoopTypes' /\ TaskTypes' /\ StepTypes' /\ config' \in Configs
  BY LoopTypesStep, TaskTypesStep, StepTypesStep, StepsConstant, TypeOKSplit DEF RunInv
<1>2. Run!TypeOK'
  BY <1>1 DEF Run!TypeOK, LoopTypes, TaskTypes, StepTypes
<1> QED BY <1>2, GraphStep, LoopInvStep, ReportStep, LeaseStep DEF RunInv

LEMMA RunInvStutter == ASSUME RunInv, UNCHANGED <<config, RunVars>> PROVE RunInv'
<1>0. /\ UNCHANGED <<config, loop, expired, next_instance, in_flight, stop_starting, recorded, phase,
                     available, leases, remaining, running, done, failures, context, given>>
      /\ Run!Instance' = Run!Instance /\ Run!Active' = Run!Active /\ Run!Outcome' = Run!Outcome
  BY DEF RunVars, Run!Instance, Run!Active, Run!Outcome
<1>1. Run!TypeOK'
  BY <1>0, Fixed DEF RunInv, Run!TypeOK
<1>2. GraphInv' /\ LoopInv' /\ LeaseInv'
  BY <1>0, Fixed DEF RunInv, GraphInv, LoopInv, LeaseInv, Started
<1>3. Run!LeasesAccounted'
  BY <1>0, Fixed DEF RunInv, Run!LeasesAccounted
<1>4. Run!DependentsSeeResults'
  BY <1>0, Fixed DEF RunInv, Run!DependentsSeeResults
<1>5. Run!ReportIsComplete'
  BY <1>0, Fixed, RunCount DEF RunInv, Run!ReportIsComplete
<1> QED BY <1>1, <1>2, <1>3, <1>4, <1>5 DEF RunInv

-----------------------------------------------------------------------------
(* The nonces and the keys of the Tempo plugin                             *)

Lanes == tracker.lanes
First(lane) == IF config.mode = "offline" THEN 0 ELSE Tempo!OnChain(lane)
Value(lane) == IF lane \in DOMAIN Lanes THEN Lanes[lane] ELSE First(lane)

\* The transactions that have taken a nonce of a lane.
Counts(tx, lane) == tx.lane = lane /\ (Tempo!Scenario \/ ~tx.explicit)
Mine(lane) == {k \in DOMAIN txs : Counts(txs[k], lane)}
Before(lane, k) == {j \in Mine(lane) : j < k}

\* The steps of a scenario's instances that have been built.
StepsDone == IF Tempo!Scenario /\ progress.at = "workload" THEN progress.done ELSE {}

TempoTypes ==
    /\ config \in TempoRuns
    /\ tracker \in [lanes : {tracker.lanes}, bumps : Nat, inline : Nat]
    /\ DOMAIN Lanes \subseteq Tempo!Accounts \X Nat
    /\ progress \in [at : {"prefetch", "setup", "workload", "failed"}, step : Nat \ {0}, account : Nat,
                     done : {progress.done}, errors : {progress.errors}]
    /\ txs \in Seq(Tempo!Range(txs))
    /\ progress.at = "prefetch" => txs = <<>> /\ Lanes = <<>> /\ keychains = <<>>
    /\ progress.at \in {"prefetch", "setup"} => progress.done = {}
    /\ StepsDone \subseteq Nat \X DOMAIN config.steps

\* A lane counts on from the chain.
LaneInv ==
    /\ \A lane \in DOMAIN Lanes : /\ First(lane) \in Nat
                                  /\ Lanes[lane] = First(lane) + Cardinality(Mine(lane))
    /\ \A lane \in (Tempo!Accounts \X Nat) \ DOMAIN Lanes : Mine(lane) = {}
    /\ \A lane \in DOMAIN Lanes : \A k \in Mine(lane) : txs[k].nonce = First(lane) + Cardinality(Before(lane, k))
    /\ "unprepared" \notin progress.errors

\* What a transaction is unique by is a number of the setup or of its step.
BumpsTaken ==
    {2 * n + 1 : n \in 0 .. tracker.bumps - 1} \cup {2 * Tempo!Hint(d[1], d[2]) + 2 : d \in StepsDone}
KeysTaken ==
    (1 .. tracker.inline) \cup {1 + tracker.inline + Tempo!Dense(d[1], d[2]) : d \in {e \in StepsDone : e[2] \in Tempo!Inline}}
Apart(x, y) == (x.bump = 0 \/ x.bump # y.bump) /\ (x.inline = 0 \/ x.inline # y.inline)

\* Its fee and its inline key follow from the template and from that number,
\* which lies within the range of the keys.
Derived(tx) ==
    /\ tx.base \in Nat /\ tx.bump \in Nat /\ tx.fee = tx.base + tx.bump
    /\ tx.source.first \in Nat /\ tx.source.range \in Nat /\ tx.inline \in Nat
    /\ tx.key # <<>> => /\ tx.inline # 0 /\ tx.key[2] = tx.source.first + (tx.inline - 1)
                        /\ tx.source.range # 0 => tx.inline <= tx.source.range

IdentityInv ==
    /\ \A k \in DOMAIN txs : txs[k].bump \in {0} \cup BumpsTaken /\ txs[k].inline \in {0} \cup KeysTaken
    /\ \A k, l \in DOMAIN txs : k < l => Apart(txs[k], txs[l])
    /\ \A k \in DOMAIN txs : Derived(txs[k])

\* The keys that have been authorized, each for an account.
Granted == {<<txs[k].account, txs[k].authorizes>> : k \in DOMAIN txs}

\* The keys of a setup step are authorized, but for the accounts that the step
\* has not come to.
KeychainInv ==
    /\ progress.account # 0 /\ progress.at # "failed" =>
         /\ Tempo!InSetup /\ Tempo!Setup.template = 0 /\ Tempo!Setup.id \in DOMAIN keychains
         /\ keychains[Tempo!Setup.id].pool = Tempo!Setup.pool
         /\ progress.account <= Len(config.pools[Tempo!Setup.pool])
    /\ progress.at # "failed" =>
         \A id \in DOMAIN keychains :
           /\ keychains[id].pool \in DOMAIN config.pools
           /\ \A a \in DOMAIN config.pools[keychains[id].pool] :
                \/ progress.account # 0 /\ Tempo!Setup.id = id /\ a >= progress.account
                \/ <<config.pools[keychains[id].pool][a], <<id, a>>>> \in Granted
    /\ Tempo!KeysAreAuthorized

TempoInv == TempoTypes /\ LaneInv /\ IdentityInv /\ KeychainInv

-----------------------------------------------------------------------------
LEMMA TempoCount == \A S : Tempo!Cardinality(S) = Cardinality(S)
BY DEF Tempo!Cardinality, Cardinality

\* A template that a build may be given.
Usable(t) ==
    /\ t.pool \in DOMAIN config.pools /\ t.index \in 0 .. Len(config.pools[t.pool]) /\ t.keys \in Seq(Nat)
    /\ t.fee \in Nat /\ t.first \in Nat /\ t.range \in Nat
    /\ \A p \in DOMAIN config.pools : \A lane \in Tempo!Range(config.pools[p]) \X (Tempo!Range(t.keys) \cup {0}) :
         config.chain[lane].latest \in Nat /\ config.chain[lane].pending \in Nat

LEMMA TempoInputs ==
    ASSUME config \in TempoRuns
    PROVE  /\ \A p \in DOMAIN config.pools :
                /\ config.pools[p] \in Seq(Tempo!Range(config.pools[p])) /\ Len(config.pools[p]) \in Nat \ {0}
                /\ DOMAIN config.pools[p] = 1 .. Len(config.pools[p])
           /\ config.mode \in {"offline", "generate", "scenario"}
           /\ \A k \in DOMAIN config.templates : Usable(config.templates[k])
           /\ config.mix \subseteq DOMAIN config.templates
           /\ config.steps \in Seq(DOMAIN config.templates)
           /\ config.instances \in Nat
           /\ config.setup \in Seq(Tempo!Range(config.setup))
           /\ \A i \in DOMAIN config.setup :
                config.setup[i].template \in {0} \cup DOMAIN config.templates /\ config.setup[i].pool \in DOMAIN config.pools
           /\ Usable(config.keychain) /\ config.keychain.auth = "none"
           /\ {"pool", "index", "keys", "auth", "fee", "first", "range"} \subseteq DOMAIN config.keychain
<1>1. /\ \A p \in DOMAIN config.pools : config.pools[p] \in Seq(Tempo!Range(config.pools[p])) /\ config.pools[p] # <<>>
      /\ config.mode \in {"offline", "generate", "scenario"} /\ config.instances \in Nat
      /\ config.mix \subseteq DOMAIN config.templates /\ config.steps \in Seq(DOMAIN config.templates)
      /\ config.setup \in Seq(Tempo!Range(config.setup))
      /\ \A i \in DOMAIN config.setup :
           config.setup[i].template \in {0} \cup DOMAIN config.templates /\ config.setup[i].pool \in DOMAIN config.pools
      /\ config.keychain.auth = "none" /\ {"pool", "index", "keys", "auth", "fee", "first", "range"} \subseteq DOMAIN config.keychain
      /\ \A t \in Tempo!Range(config.templates) \cup {config.keychain} : Usable(t)
  BY PartsAssumption DEF Tempo!TempoAssumption, Usable
<1>2. \A k \in DOMAIN config.templates : config.templates[k] \in Tempo!Range(config.templates)
  BY DEF Tempo!Range
<1>3. \A p \in DOMAIN config.pools : Len(config.pools[p]) \in Nat \ {0} /\ DOMAIN config.pools[p] = 1 .. Len(config.pools[p])
  BY <1>1
<1> QED BY <1>1, <1>2, <1>3

\* The lane of a template, from any draws.
LEMMA LaneFacts ==
    ASSUME config \in TempoRuns, NEW t, Usable(t), NEW draws \in Tempo!Draws
    PROVE  /\ Tempo!Signer(t, draws) \in 1 .. Len(config.pools[t.pool])
           /\ t.index # 0 => Tempo!Signer(t, draws) = t.index
           /\ Tempo!Lane(t, draws)[1] = config.pools[t.pool][Tempo!Signer(t, draws)]
           /\ Tempo!Lane(t, draws) \in Tempo!Accounts \X Nat
           /\ First(Tempo!Lane(t, draws)) \in Nat
<1> DEFINE pool == config.pools[t.pool]
           n == Tempo!Signer(t, draws)
           key == Tempo!NonceKey(t, draws)
           lane == Tempo!Lane(t, draws)
<1>1. Len(pool) \in Nat \ {0} /\ DOMAIN pool = 1 .. Len(pool) /\ t.index \in 0 .. Len(pool) /\ t.pool \in DOMAIN config.pools
  BY TempoInputs DEF Usable
<1>2. draws[1] \in {0, 1} /\ draws[2] \in {0, 1}
  BY DEF Tempo!Draws
<1>3. \A m \in Nat \ {0}, i \in {0, 1} : i % m \in 0 .. m - 1
  OBVIOUS
<1>4. n \in 1 .. Len(pool) /\ (t.index # 0 => n = t.index)
  BY <1>1, <1>2, <1>3 DEF Tempo!Signer, Tempo!Random
<1>5. key \in Tempo!Range(t.keys) \cup {0}
  <2>1. CASE t.keys = <<>>
    BY <2>1 DEF Tempo!NonceKey
  <2>2. CASE t.keys # <<>>
    <3>1. Len(t.keys) \in Nat \ {0} /\ DOMAIN t.keys = 1 .. Len(t.keys)
      BY <2>2 DEF Usable
    <3>2. \A i \in {0, 1} : 1 + (i % Len(t.keys)) \in DOMAIN t.keys
      <4>1. PICK m \in Nat \ {0} : m = Len(t.keys)
        BY <3>1
      <4>2. \A i \in {0, 1} : i % m \in 0 .. m - 1
        BY <1>3
      <4>3. \A x \in 0 .. m - 1 : 1 + x \in 1 .. m
        OBVIOUS
      <4> QED BY <3>1, <4>1, <4>2, <4>3
    <3>3. \E i \in {0, 1} : key = t.keys[1 + (i % Len(t.keys))]
      BY <1>2, <2>2 DEF Tempo!NonceKey, Tempo!Draw
    <3> QED BY <3>2, <3>3 DEF Tempo!Range
  <2> QED BY <2>1, <2>2
<1>6. lane[1] = pool[n] /\ lane = <<lane[1], lane[2]>> /\ lane[2] \in {key, 0}
  BY DEF Tempo!Lane
<1>7. lane \in Tempo!Range(pool) \X (Tempo!Range(t.keys) \cup {0})
  <2>1. pool[n] \in Tempo!Range(pool)
    BY <1>1, <1>4 DEF Tempo!Range
  <2> HIDE DEF pool, lane, n, key
  <2> QED BY <1>5, <1>6, <2>1
<1>8. Tempo!Range(pool) \subseteq Tempo!Accounts
  BY <1>1 DEF Tempo!Accounts
<1>9. Tempo!Range(t.keys) \cup {0} \subseteq Nat
  BY DEF Usable, Tempo!Range
<1>10. config.chain[lane].latest \in Nat /\ config.chain[lane].pending \in Nat
  <2> HIDE DEF lane
  <2> QED BY <1>1, <1>7 DEF Usable
<1> HIDE DEF pool, lane, n, key
<1>11. First(lane) \in Nat
  BY <1>10 DEF First, Tempo!OnChain
<1>12. lane \in Tempo!Accounts \X Nat
  BY <1>7, <1>8, <1>9
<1> QED BY <1>4, <1>6, <1>11, <1>12 DEF pool, lane, n

-----------------------------------------------------------------------------
\* What the build of a transaction does to the lanes.
Goes(lane, takes, known) ==
    /\ DOMAIN Lanes \subseteq DOMAIN known /\ DOMAIN known \subseteq DOMAIN Lanes \cup {lane}
    /\ \A l \in DOMAIN Lanes : l # lane => known[l] = Lanes[l]
    /\ takes => lane \in DOMAIN known
    /\ lane \in DOMAIN known => known[lane] = IF takes THEN Value(lane) + 1 ELSE Value(lane)

\* The transaction that is built.
Fields == {"lane", "account", "nonce", "explicit", "bump", "base", "fee", "source", "inline", "key", "keychain", "authorizes"}
Made(tx, t, draws, hint, dense) ==
    LET takes == Tempo!TakesNonce(t, draws)
        lane == Tempo!Lane(t, draws)
    IN  /\ \A l \in Tempo!Accounts \X Nat : Counts(tx, l) <=> takes /\ l = lane
        /\ takes => tx.nonce = Value(lane)
        /\ tx.account = lane[1] /\ tx.authorizes = <<>>
        /\ Fields \subseteq DOMAIN tx
        /\ tx.bump = IF Tempo!Bumps(t, draws) THEN Tempo!Bump(hint) ELSE 0
        /\ tx.inline = IF t.auth = "inline" THEN 1 + Tempo!KeyOffset(hint, dense) ELSE 0
        /\ tx.keychain = IF t.auth = "keychain" THEN <<t.setup, Tempo!Signer(t, draws)>> ELSE <<>>
        /\ t.auth = "keychain" => ~Tempo!KeychainMissing(t)
        /\ Derived(tx)

\* A number that a build is given, or none.
Given(number) == number \in Nat \cup {Tempo!NoHint}

\* A build leaves the lanes alone but its own, and takes its next nonce when
\* it succeeds.
Built(b, t, draws, hint, dense) ==
    LET none == b.error = "none"
        numbers == Tempo!Bumps(t, draws) /\ hint = Tempo!NoHint
        derives == t.auth = "inline" /\ dense = Tempo!NoHint
    IN  /\ b.error # "unprepared"
        /\ b.tracker \in [lanes : {b.tracker.lanes}, bumps : Nat, inline : Nat]
        /\ Goes(Tempo!Lane(t, draws), none /\ Tempo!TakesNonce(t, draws), b.tracker.lanes)
        /\ b.tracker.bumps \in {tracker.bumps, tracker.bumps + 1}
        /\ none => b.tracker.bumps = tracker.bumps + (IF numbers THEN 1 ELSE 0)
        /\ b.tracker.inline \in {tracker.inline, tracker.inline + 1}
        /\ none \/ ~derives => b.tracker.inline = tracker.inline + (IF derives THEN 1 ELSE 0)
        /\ IF none THEN \E tx : b.tx = <<tx>> /\ Made(tx, t, draws, hint, dense)
           ELSE b.tx = <<>>

LEMMA NoEmptyPair == \A A, B : \A l \in A \X B : l # <<>>
OBVIOUS

LEMMA BuildFacts ==
    ASSUME TempoTypes, NEW t, Usable(t), NEW draws \in Tempo!Draws, NEW hint, NEW dense, NEW answers \in BOOLEAN,
           Given(hint), Given(dense)
    PROVE  Built(Tempo!Build(t, draws, hint, dense, answers), t, draws, hint, dense)
<1> DEFINE lane == Tempo!Lane(t, draws)
           unread == Tempo!Reads(t, draws) /\ ~answers
           prepared == IF unread THEN Lanes ELSE Tempo!Prepare(t, draws)
           asked == /\ Tempo!TakesNonce(t, draws) /\ ~unread /\ ~Tempo!Invalid(t, draws)
                    /\ ~Tempo!Unprepared(prepared, lane)
           known == IF asked THEN Tempo!Touch(prepared, lane) ELSE prepared
           error == Tempo!Error(t, draws, dense, known, answers)
           tx == Tempo!Tx(t, draws, hint, dense, known)
           b == Tempo!Build(t, draws, hint, dense, answers)
           bumped == Tempo!Bumps(t, draws) /\ hint = Tempo!NoHint /\ error \in {"none", "keychain", "exhausted"}
           derived == t.auth = "inline" /\ dense = Tempo!NoHint /\ error \in {"none", "exhausted"}
           lanes == Tempo!LanesAfter(known, lane, asked, error)
           Same(f) == /\ DOMAIN Lanes \subseteq DOMAIN f /\ DOMAIN f \subseteq DOMAIN Lanes \cup {lane}
                      /\ \A l \in DOMAIN Lanes : f[l] = Lanes[l]
                      /\ lane \in DOMAIN f => f[lane] = Value(lane)
<1>1. b = [error |-> error,
           tracker |-> [lanes |-> lanes,
                        bumps |-> tracker.bumps + (IF bumped THEN 1 ELSE 0),
                        inline |-> tracker.inline + (IF derived THEN 1 ELSE 0)],
           tx |-> IF error = "none" THEN <<tx>> ELSE <<>>]
  BY DEF Tempo!Build, Lanes
<1>2. config \in TempoRuns /\ tracker.bumps \in Nat /\ tracker.inline \in Nat
  BY DEF TempoTypes
<1>3. config.mode \in {"offline", "generate", "scenario"} /\ (Tempo!Scenario <=> config.mode = "scenario")
  BY <1>2, TempoInputs DEF Tempo!Scenario
<1>4. lane \in Tempo!Accounts \X Nat /\ First(lane) \in Nat
  BY <1>2, LaneFacts
<1> HIDE DEF b, lane
<1>5. \A f : Same(f) /\ lane \notin DOMAIN f /\ config.mode # "offline" => Same(Tempo!Reset(f, lane))
  BY DEF Tempo!Reset, First, Value
<1>6. Same(prepared) /\ (Tempo!Scenario /\ ~unread /\ ~Tempo!Expiring(t, draws) => lane \in DOMAIN prepared)
  <2>1. Same(Lanes)
    BY DEF Value
  <2>2. CASE unread \/ ~Tempo!Scenario \/ Tempo!Expiring(t, draws) \/ lane \in DOMAIN Lanes
    BY <2>1, <2>2 DEF Tempo!Prepare, lane, Lanes
  <2>3. CASE ~(unread \/ ~Tempo!Scenario \/ Tempo!Expiring(t, draws) \/ lane \in DOMAIN Lanes)
    <3>1. prepared = Tempo!Reset(Lanes, lane)
      BY <2>3 DEF Tempo!Prepare, lane, Lanes
    <3>2. lane \in DOMAIN Tempo!Reset(Lanes, lane)
      BY DEF Tempo!Reset
    <3> HIDE DEF Same, prepared
    <3> QED BY <1>3, <1>5, <2>1, <2>3, <3>1, <3>2
  <2> QED BY <2>2, <2>3
<1> HIDE DEF prepared, unread
<1>7. Same(known) /\ (asked => lane \in DOMAIN known)
  <2>1. CASE ~asked
    BY <1>6, <2>1
  <2>2. CASE asked /\ lane \in DOMAIN prepared
    BY <1>6, <2>2 DEF Tempo!Touch
  <2>3. CASE asked /\ lane \notin DOMAIN prepared /\ config.mode = "offline"
    <3>1. known = [l \in DOMAIN prepared \cup {lane} |-> IF l = lane THEN 0 ELSE prepared[l]]
      BY <2>3 DEF Tempo!Touch
    <3>2. First(lane) = 0
      BY <2>3 DEF First
    <3> HIDE DEF known
    <3> QED BY <1>6, <2>3, <3>1, <3>2 DEF Value
  <2>4. CASE asked /\ lane \notin DOMAIN prepared /\ config.mode # "offline"
    <3>1. known = Tempo!Reset(prepared, lane)
      BY <2>4 DEF Tempo!Touch
    <3>2. lane \in DOMAIN Tempo!Reset(prepared, lane)
      BY DEF Tempo!Reset
    <3> HIDE DEF Same, known
    <3> QED BY <1>5, <1>6, <2>4, <3>1, <3>2
  <2> QED BY <2>1, <2>2, <2>3, <2>4
<1>8. error # "unprepared" /\ (error = "none" => (asked <=> Tempo!TakesNonce(t, draws)))
  <2>1. Tempo!TakesNonce(t, draws) /\ ~unread => ~Tempo!Unprepared(prepared, lane)
    BY <1>6 DEF Tempo!TakesNonce, Tempo!Unprepared
  <2>2. CASE unread
    BY <2>2 DEF Tempo!Error, unread
  <2>3. CASE Tempo!Invalid(t, draws) /\ ~unread
    BY <2>3 DEF Tempo!Error, unread
  <2>4. CASE ~Tempo!Invalid(t, draws) /\ ~unread /\ ~Tempo!TakesNonce(t, draws)
    BY <2>4 DEF Tempo!Error, unread
  <2>5. CASE ~Tempo!Invalid(t, draws) /\ ~unread /\ Tempo!TakesNonce(t, draws)
    <3>1. asked /\ lane \in DOMAIN known
      BY <1>7, <2>1, <2>5
    <3>2. ~Tempo!Unprepared(known, lane)
      BY <3>1 DEF Tempo!Unprepared
    <3> QED BY <2>5, <3>1, <3>2 DEF Tempo!Error, unread, lane
  <2> QED BY <2>2, <2>3, <2>4, <2>5
<1>9. error = "none" =>
        /\ Tempo!TakesNonce(t, draws) /\ t.nonce # -1 => t.nonce = known[lane]
        /\ t.auth = "keychain" => ~Tempo!KeychainMissing(t)
        /\ t.auth = "inline" => ~Tempo!KeysExhausted(t, dense)
  BY DEF Tempo!Error, lane
<1> HIDE DEF known, asked, error
<1>10. Goes(lane, error = "none" /\ Tempo!TakesNonce(t, draws), lanes)
  <2>1. CASE asked /\ error = "none"
    <3>1. lanes = [known EXCEPT ![lane] = known[lane] + 1]
      BY <2>1 DEF Tempo!LanesAfter
    <3> HIDE DEF lanes
    <3> QED BY <1>7, <1>8, <2>1, <3>1 DEF Goes
  <2>2. CASE ~(asked /\ error = "none")
    <3>1. lanes = known
      BY <2>2 DEF Tempo!LanesAfter
    <3> QED BY <1>7, <1>8, <2>2, <3>1 DEF Goes
  <2> QED BY <2>1, <2>2
<1> HIDE DEF lanes
<1>11. ASSUME error = "none" PROVE Made(tx, t, draws, hint, dense)
  <2>a. PICK bump : bump = IF Tempo!Bumps(t, draws) THEN Tempo!Bump(hint) ELSE 0
    OBVIOUS
  <2>b. PICK offset : offset = Tempo!KeyOffset(hint, dense)
    OBVIOUS
  <2>c. bump \in Nat /\ offset \in Nat
    <3>1. tracker.bumps \in Nat /\ tracker.inline \in Nat
      BY DEF TempoTypes
    <3>2. Tempo!Bump(hint) \in Nat
      BY <3>1 DEF Tempo!Bump, Given, Tempo!NoHint
    <3>3. Tempo!KeyOffset(hint, dense) \in Nat
      BY <3>1 DEF Tempo!KeyOffset, Given, Tempo!NoHint
    <3> QED BY <2>a, <2>b, <3>2, <3>3
  <2>d. t.auth = "inline" /\ t.range # 0 => ~(offset >= t.range)
    BY <1>9, <1>11, <2>b DEF Tempo!KeysExhausted, Tempo!KeyOffset
  <2>1. /\ tx.lane = (IF Tempo!Expiring(t, draws) THEN <<>> ELSE lane)
        /\ tx.account = lane[1] /\ tx.authorizes = <<>> /\ tx.explicit = (t.nonce # -1)
        /\ Fields \subseteq DOMAIN tx
        /\ tx.nonce = (IF Tempo!Expiring(t, draws) THEN 0 ELSE IF t.nonce # -1 THEN t.nonce ELSE known[lane])
        /\ tx.bump = IF Tempo!Bumps(t, draws) THEN Tempo!Bump(hint) ELSE 0
        /\ tx.inline = IF t.auth = "inline" THEN 1 + Tempo!KeyOffset(hint, dense) ELSE 0
        /\ tx.keychain = IF t.auth = "keychain" THEN <<t.setup, Tempo!Signer(t, draws)>> ELSE <<>>
    BY DEF Tempo!Tx, lane, Fields
  <2>e. /\ tx.bump = bump /\ tx.base = t.fee /\ tx.fee = t.fee + bump
        /\ tx.source.first = t.first /\ tx.source.range = t.range
        /\ tx.inline = (IF t.auth = "inline" THEN 1 + offset ELSE 0)
        /\ tx.key = (IF t.auth = "inline" THEN <<t.seed, t.first + offset>> ELSE <<>>)
    BY <2>a, <2>b DEF Tempo!Tx, Tempo!InlineKey
  <2> HIDE DEF tx
  <2>f. Derived(tx)
    <3>1. t.fee \in Nat /\ t.first \in Nat /\ t.range \in Nat
      BY DEF Usable
    <3>2. CASE t.auth = "inline"
      <4>1. /\ tx.inline = 1 + offset /\ tx.key[2] = t.first + offset
            /\ 1 + offset # 0 /\ 1 + offset \in Nat /\ t.first + offset = t.first + ((1 + offset) - 1)
            /\ t.range # 0 => 1 + offset <= t.range
        BY <2>c, <2>d, <2>e, <3>1, <3>2
      <4> QED BY <2>c, <2>e, <3>1, <4>1 DEF Derived
    <3>3. CASE t.auth # "inline"
      BY <2>c, <2>e, <3>1, <3>3 DEF Derived
    <3> QED BY <3>2, <3>3
  <2>2. \A l \in Tempo!Accounts \X Nat : l # <<>>
    BY NoEmptyPair
  <2>3. Tempo!TakesNonce(t, draws) <=> ~Tempo!Expiring(t, draws) /\ (t.nonce = -1 \/ Tempo!Scenario)
    BY DEF Tempo!TakesNonce
  <2>4. \A l \in Tempo!Accounts \X Nat : Counts(tx, l) <=> Tempo!TakesNonce(t, draws) /\ l = lane
    BY <2>1, <2>2, <2>3 DEF Counts
  <2>5. Tempo!TakesNonce(t, draws) => tx.nonce = Value(lane)
    BY <1>7, <1>8, <1>9, <1>11, <2>1, <2>3
  <2> QED BY <1>9, <1>11, <2>1, <2>4, <2>5, <2>f DEF Made, lane
<1> HIDE DEF tx
<1>12. /\ b.error = error /\ b.tracker.lanes = lanes
       /\ b.tracker \in [lanes : {b.tracker.lanes}, bumps : Nat, inline : Nat]
       /\ b.tracker.bumps = tracker.bumps + (IF bumped THEN 1 ELSE 0)
       /\ b.tracker.inline = tracker.inline + (IF derived THEN 1 ELSE 0)
       /\ b.tx = IF error = "none" THEN <<tx>> ELSE <<>>
  <2> HIDE DEF bumped, derived
  <2> QED BY <1>1, <1>2
<1>13. Built(b, t, draws, hint, dense)
  <2>1. bumped => Tempo!Bumps(t, draws) /\ hint = Tempo!NoHint
    OBVIOUS
  <2>2. error = "none" => (bumped <=> Tempo!Bumps(t, draws) /\ hint = Tempo!NoHint)
    OBVIOUS
  <2>3. derived => t.auth = "inline" /\ dense = Tempo!NoHint
    OBVIOUS
  <2>4. error = "none" => (derived <=> t.auth = "inline" /\ dense = Tempo!NoHint)
    OBVIOUS
  <2> HIDE DEF bumped, derived
  <2> QED BY <1>2, <1>8, <1>10, <1>11, <1>12, <2>1, <2>2, <2>3, <2>4 DEF Built, lane
<1> QED BY <1>13 DEF b

\* What is built goes to the end of the transactions, with what it authorizes.
Alike(tx, x, a) ==
    /\ tx.lane = x.lane /\ tx.account = x.account /\ tx.nonce = x.nonce /\ tx.explicit = x.explicit
    /\ tx.bump = x.bump /\ tx.base = x.base /\ tx.fee = x.fee
    /\ tx.inline = x.inline /\ tx.source = x.source /\ tx.key = x.key
    /\ tx.keychain = x.keychain /\ tx.authorizes = a
Sends(b, a) == \/ b.tx = <<>> /\ txs' = txs
               \/ \E x, tx : b.tx = <<x>> /\ txs' = Append(txs, tx) /\ Alike(tx, x, a)

LEMMA Sending ==
    ASSUME TempoTypes, NEW t, NEW draws, NEW hint, NEW dense, NEW b, Built(b, t, draws, hint, dense)
    PROVE  /\ txs' = txs \o b.tx => Sends(b, <<>>)
           /\ \A a : txs' = txs \o [k \in DOMAIN b.tx |-> [b.tx[k] EXCEPT !.authorizes = a]] => Sends(b, a)
<1>1. txs \in Seq(Tempo!Range(txs))
  BY DEF TempoTypes
<1>2. \A x : txs \o <<x>> = Append(txs, x)
  BY <1>1, AppendIsConcat
<1>3. txs \o <<>> = txs
  BY <1>1
<1>4. CASE b.tx = <<>>
  <2>1. \A a : [k \in DOMAIN b.tx |-> [b.tx[k] EXCEPT !.authorizes = a]] = <<>>
    BY <1>4
  <2> QED BY <1>3, <1>4, <2>1 DEF Sends
<1>5. ASSUME NEW x, b.tx = <<x>>, Made(x, t, draws, hint, dense)
      PROVE  /\ txs' = txs \o b.tx => Sends(b, <<>>)
             /\ \A a : txs' = txs \o [k \in DOMAIN b.tx |-> [b.tx[k] EXCEPT !.authorizes = a]] => Sends(b, a)
  <2>1. /\ Fields \subseteq DOMAIN x
        /\ x.authorizes = <<>>
    BY <1>5 DEF Made
  <2>2. txs' = txs \o b.tx => Sends(b, <<>>)
    <3>1. Alike(x, x, <<>>)
      BY <2>1 DEF Alike, Fields
    <3> QED BY <1>2, <1>5, <3>1 DEF Sends
  <2>3. ASSUME NEW a, txs' = txs \o [k \in DOMAIN b.tx |-> [b.tx[k] EXCEPT !.authorizes = a]] PROVE Sends(b, a)
    <3>1. PICK y : y = [x EXCEPT !.authorizes = a]
      OBVIOUS
    <3>2. Alike(y, x, a)
      BY <2>1, <3>1 DEF Alike, Fields
    <3>3. [k \in DOMAIN b.tx |-> [b.tx[k] EXCEPT !.authorizes = a]] = <<y>>
      <4>1. DOMAIN b.tx = {1} /\ b.tx[1] = x
        BY <1>5
      <4>2. [k \in DOMAIN b.tx |-> [b.tx[k] EXCEPT !.authorizes = a]] = [k \in {1} |-> y]
        BY <3>1, <4>1
      <4>3. <<y>> = [k \in {1} |-> y]
        OBVIOUS
      <4> QED BY <4>2, <4>3
    <3> QED BY <1>2, <1>5, <2>3, <3>2, <3>3 DEF Sends
  <2> QED BY <2>2, <2>3
<1> QED BY <1>4, <1>5 DEF Built

-----------------------------------------------------------------------------
LEMMA MineIsFinite ==
    ASSUME TempoTypes, NEW l
    PROVE  /\ Mine(l) \subseteq 1 .. Len(txs) /\ IsFiniteSet(Mine(l)) /\ Cardinality(Mine(l)) \in Nat
<1>1. Len(txs) \in Nat /\ DOMAIN txs = 1 .. Len(txs)
  BY DEF TempoTypes
<1>2. Mine(l) \subseteq 1 .. Len(txs)
  BY <1>1 DEF Mine
<1>3. IsFiniteSet(1 .. Len(txs))
  BY <1>1, FS_Interval
<1> QED BY <1>2, <1>3, FS_Subset, FS_CardinalityType

\* A transaction that counts is the last of its lane.
LEMMA MineGrows ==
    ASSUME TempoTypes, config' = config, NEW tx, txs' = Append(txs, tx), NEW l, NEW n \in Nat, n = Len(txs) + 1
    PROVE  /\ Mine(l)' = IF Counts(tx, l) THEN Mine(l) \cup {n} ELSE Mine(l)
           /\ n \notin Mine(l) /\ txs'[n] = tx
           /\ \A k \in Mine(l) : txs'[k] = txs[k] /\ Before(l, k)' = Before(l, k)
           /\ Counts(tx, l) => Before(l, n)' = Mine(l)
<1>1. /\ Len(txs) \in Nat /\ DOMAIN txs = 1 .. Len(txs) /\ DOMAIN txs' = 1 .. n /\ txs'[n] = tx
      /\ \A k \in 1 .. Len(txs) : txs'[k] = txs[k]
  BY AppendProperties DEF TempoTypes
<1>2. Mine(l) \subseteq 1 .. Len(txs)
  BY MineIsFinite
<1>3. \A x : Counts(x, l)' <=> Counts(x, l)
  BY DEF Counts, Tempo!Scenario
<1>4. Mine(l)' = {k \in 1 .. n : Counts(txs'[k], l)}
  BY <1>1, <1>3 DEF Mine, Counts, Tempo!Scenario
<1>5. 1 .. n = (1 .. Len(txs)) \cup {n} /\ n \notin 1 .. Len(txs)
  BY <1>1
<1>6. Mine(l)' = IF Counts(tx, l) THEN Mine(l) \cup {n} ELSE Mine(l)
  <2>1. Mine(l) = {k \in 1 .. Len(txs) : Counts(txs[k], l)}
    BY <1>1 DEF Mine
  <2>2. \A k : k \in Mine(l)' <=> k \in Mine(l) \/ (k = n /\ Counts(tx, l))
    BY <1>1, <1>4, <1>5, <2>1
  <2> QED BY <2>2
<1>7. \A k : Before(l, k)' = {j \in Mine(l)' : j < k}
  BY DEF Before
<1>8. \A k \in Mine(l) : Before(l, k)' = Before(l, k)
  <2> SUFFICES ASSUME NEW k \in Mine(l) PROVE Before(l, k)' = Before(l, k)
    OBVIOUS
  <2>1. k \in Nat /\ ~(n < k)
    BY <1>1, <1>2
  <2> QED BY <1>6, <1>7, <2>1 DEF Before
<1>9. ASSUME Counts(tx, l) PROVE Before(l, n)' = Mine(l)
  <2>1. \A j \in Mine(l) : j < n
    BY <1>1, <1>2
  <2>2. ~(n < n)
    OBVIOUS
  <2> QED BY <1>6, <1>7, <1>9, <2>1, <2>2
<1> QED BY <1>1, <1>2, <1>5, <1>6, <1>8, <1>9

\* A build is one more step of the lanes.
LEMMA LaneInvStep ==
    ASSUME TempoTypes, LaneInv, config' = config, NEW lane \in Tempo!Accounts \X Nat, First(lane) \in Nat,
           NEW takes \in BOOLEAN, Goes(lane, takes, Lanes'),
           \/ ~takes /\ txs' = txs
           \/ \E tx : /\ txs' = Append(txs, tx)
                      /\ \A l \in Tempo!Accounts \X Nat : Counts(tx, l) <=> takes /\ l = lane
                      /\ takes => tx.nonce = Value(lane),
           "unprepared" \notin progress.errors'
    PROVE  LaneInv'
<1>1. /\ Tempo!Accounts' = Tempo!Accounts /\ \A l : First(l)' = First(l)
  BY DEF Tempo!Accounts, First, Tempo!OnChain, Tempo!Scenario
<1>2. DOMAIN Lanes \subseteq Tempo!Accounts \X Nat /\ DOMAIN Lanes' \subseteq Tempo!Accounts \X Nat
  BY DEF TempoTypes, Goes
\* The transactions of a lane.
<1>3. ASSUME NEW l \in Tempo!Accounts \X Nat
      PROVE  /\ takes /\ l = lane =>
                  \E n : /\ n \notin Mine(l) /\ Mine(l)' = Mine(l) \cup {n} /\ txs'[n].nonce = Value(l)
                        /\ Before(l, n)' = Mine(l)
             /\ ~(takes /\ l = lane) => Mine(l)' = Mine(l)
             /\ \A k \in Mine(l) : txs'[k] = txs[k] /\ Before(l, k)' = Before(l, k)
  <2>1. CASE ~takes /\ txs' = txs
    <3>1. Mine(l)' = Mine(l)
      BY <2>1 DEF Mine, Counts, Tempo!Scenario
    <3> QED BY <2>1, <3>1 DEF Before
  <2>2. ASSUME NEW tx, txs' = Append(txs, tx), Counts(tx, l) <=> takes /\ l = lane, takes => tx.nonce = Value(lane)
        PROVE  /\ takes /\ l = lane =>
                    \E n : /\ n \notin Mine(l) /\ Mine(l)' = Mine(l) \cup {n} /\ txs'[n].nonce = Value(l)
                          /\ Before(l, n)' = Mine(l)
               /\ ~(takes /\ l = lane) => Mine(l)' = Mine(l)
               /\ \A k \in Mine(l) : txs'[k] = txs[k] /\ Before(l, k)' = Before(l, k)
    <3>1. PICK n \in Nat : n = Len(txs) + 1
      BY DEF TempoTypes
    <3>2. /\ Mine(l)' = IF Counts(tx, l) THEN Mine(l) \cup {n} ELSE Mine(l)
          /\ n \notin Mine(l) /\ txs'[n] = tx
          /\ \A k \in Mine(l) : txs'[k] = txs[k] /\ Before(l, k)' = Before(l, k)
          /\ Counts(tx, l) => Before(l, n)' = Mine(l)
      BY <2>2, <3>1, MineGrows
    <3> QED BY <2>2, <3>2
  <2> QED BY <2>1, <2>2
\* One lane.
<1>4. ASSUME NEW l \in DOMAIN Lanes'
      PROVE  /\ First(l) \in Nat /\ Lanes'[l] = First(l) + Cardinality(Mine(l)')
             /\ \A k \in Mine(l)' : txs'[k].nonce = First(l) + Cardinality(Before(l, k)')
  <2>1. l \in Tempo!Accounts \X Nat /\ IsFiniteSet(Mine(l)) /\ Cardinality(Mine(l)) \in Nat
    BY <1>2, MineIsFinite
  <2>2. First(l) \in Nat /\ (l \in DOMAIN Lanes \/ l = lane)
    BY DEF LaneInv, Goes
  <2>3. Value(l) = First(l) + Cardinality(Mine(l)) /\ (l \notin DOMAIN Lanes => Mine(l) = {})
    <3>1. CASE l \in DOMAIN Lanes
      BY <3>1 DEF Value, LaneInv
    <3>2. CASE l \notin DOMAIN Lanes
      <4>1. Mine(l) = {}
        BY <2>1, <3>2 DEF LaneInv
      <4>2. Cardinality(Mine(l)) = 0
        BY <4>1, FS_EmptySet
      <4> QED BY <2>2, <3>2, <4>1, <4>2 DEF Value
    <3> QED BY <3>1, <3>2
  <2>4. Lanes'[l] = IF takes /\ l = lane THEN Value(l) + 1 ELSE Value(l)
    BY <2>2 DEF Goes, Value
  <2>5. \A k \in Mine(l) : txs[k].nonce = First(l) + Cardinality(Before(l, k))
    BY <2>3 DEF LaneInv
  <2>6. CASE takes /\ l = lane
    <3>1. PICK n : /\ n \notin Mine(l) /\ Mine(l)' = Mine(l) \cup {n} /\ txs'[n].nonce = Value(l)
                   /\ Before(l, n)' = Mine(l)
      BY <1>3, <2>1, <2>6
    <3>2. Cardinality(Mine(l)') = Cardinality(Mine(l)) + 1
      <4>1. Cardinality(Mine(l) \cup {n}) = Cardinality(Mine(l)) + 1
        BY <2>1, <3>1, FS_AddElement
      <4> QED BY <3>1, <4>1
    <3>3. Lanes'[l] = First(l) + Cardinality(Mine(l)')
      BY <2>1, <2>2, <2>3, <2>4, <2>6, <3>2
    <3>4. \A k \in Mine(l) : txs'[k].nonce = First(l) + Cardinality(Before(l, k)')
      BY <1>3, <2>1, <2>5
    <3>5. txs'[n].nonce = First(l) + Cardinality(Before(l, n)')
      BY <2>3, <3>1
    <3> QED BY <2>2, <3>1, <3>3, <3>4, <3>5
  <2>7. CASE ~(takes /\ l = lane)
    <3>1. Mine(l)' = Mine(l)
      BY <1>3, <2>1, <2>7
    <3>2. Lanes'[l] = First(l) + Cardinality(Mine(l)')
      BY <2>3, <2>4, <2>7, <3>1
    <3>3. \A k \in Mine(l) : txs'[k].nonce = First(l) + Cardinality(Before(l, k)')
      BY <1>3, <2>1, <2>5
    <3> QED BY <2>2, <3>1, <3>2, <3>3
  <2> QED BY <2>6, <2>7
<1>5. ASSUME NEW l \in (Tempo!Accounts \X Nat) \ DOMAIN Lanes' PROVE Mine(l)' = {}
  <2>1. l \notin DOMAIN Lanes /\ ~(takes /\ l = lane)
    BY <1>5 DEF Goes
  <2>2. Mine(l) = {}
    BY <2>1 DEF LaneInv
  <2> QED BY <1>3, <2>1, <2>2
<1> QED BY <1>1, <1>4, <1>5 DEF LaneInv

-----------------------------------------------------------------------------
(* The numbers that the steps of the instances are told apart by           *)

LEMMA Mixed ==
    ASSUME NEW m \in Nat \ {0}, NEW i \in Nat, NEW j \in Nat, NEW x \in 0 .. m - 1, NEW y \in 0 .. m - 1,
           i * m + x = j * m + y
    PROVE  i = j /\ x = y
<1>1. ASSUME NEW a \in Nat, NEW b \in Nat, a < b PROVE b * m >= a * m + m
  <2>1. PICK d \in Nat : b = a + 1 + d
    <3>1. b - a - 1 \in Nat /\ b = a + 1 + (b - a - 1)
      BY <1>1
    <3> QED BY <3>1
  <2>2. b * m = a * m + m + d * m
    BY <2>1
  <2>3. a * m \in Nat /\ d * m \in Nat
    OBVIOUS
  <2> QED BY <2>2, <2>3
<1>2. i * m \in Nat /\ j * m \in Nat
  OBVIOUS
<1>3. ~(i < j) /\ ~(j < i)
  <2>1. i < j => j * m >= i * m + m
    BY <1>1
  <2>2. j < i => i * m >= j * m + m
    BY <1>1
  <2>3. PICK p \in Nat : p = i * m
    BY <1>2
  <2>4. PICK q \in Nat : q = j * m
    BY <1>2
  <2>5. p + x = q + y /\ (i < j => q >= p + m) /\ (j < i => p >= q + m)
    BY <2>1, <2>2, <2>3, <2>4
  <2> QED BY <2>5
<1>4. i = j
  BY <1>3
<1>5. PICK p \in Nat : p = i * m
  BY <1>2
<1>6. p + x = p + y
  BY <1>4, <1>5
<1> QED BY <1>4, <1>6

\* The place of a step among those with an inline key.
Place(s) == Cardinality({r \in Tempo!Inline : r < s})

LEMMA Places ==
    ASSUME config \in TempoRuns
    PROVE  /\ Tempo!Inline \subseteq DOMAIN config.steps /\ DOMAIN config.steps = 1 .. Len(config.steps)
           /\ Len(config.steps) \in Nat /\ IsFiniteSet(Tempo!Inline) /\ Cardinality(Tempo!Inline) \in Nat
           /\ \A s \in Tempo!Inline : Place(s) \in 0 .. Cardinality(Tempo!Inline) - 1
           /\ \A s, r \in Tempo!Inline : Place(s) = Place(r) => s = r
<1> DEFINE I == Tempo!Inline
           Below(s) == {r \in I : r < s}
<1>1. DOMAIN config.steps = 1 .. Len(config.steps) /\ Len(config.steps) \in Nat
  BY TempoInputs
<1>2. I \subseteq 1 .. Len(config.steps) /\ I \subseteq Nat
  BY <1>1 DEF Tempo!Inline
<1>3. IsFiniteSet(1 .. Len(config.steps))
  BY <1>1, FS_Interval
<1>4. IsFiniteSet(I) /\ Cardinality(I) \in Nat
  BY <1>2, <1>3, FS_Subset, FS_CardinalityType
<1> HIDE DEF I
<1>5. \A s \in I : /\ IsFiniteSet(Below(s)) /\ Cardinality(Below(s)) \in Nat /\ Place(s) = Cardinality(Below(s))
                   /\ s \notin Below(s)
  <2> SUFFICES ASSUME NEW s \in I
               PROVE  /\ IsFiniteSet(Below(s)) /\ Cardinality(Below(s)) \in Nat
                      /\ Place(s) = Cardinality(Below(s)) /\ s \notin Below(s)
    OBVIOUS
  <2>1. IsFiniteSet(Below(s))
    BY <1>4, FS_Subset
  <2>2. s \in Nat
    BY <1>2
  <2> QED BY <2>1, <2>2, FS_CardinalityType DEF Place, I
<1>6. \A s \in I : \A T \in SUBSET I : IsFiniteSet(T) /\ Below(s) \cup {s} \subseteq T => Place(s) + 1 <= Cardinality(T)
  <2> SUFFICES ASSUME NEW s \in I, NEW T \in SUBSET I, IsFiniteSet(T), Below(s) \cup {s} \subseteq T
               PROVE  Place(s) + 1 <= Cardinality(T)
    OBVIOUS
  <2>1. Cardinality(Below(s) \cup {s}) = Cardinality(Below(s)) + 1
    BY <1>5, FS_AddElement
  <2>2. Cardinality(Below(s) \cup {s}) <= Cardinality(T)
    BY FS_Subset
  <2> QED BY <1>5, <2>1, <2>2
<1>7. \A s \in I : Place(s) \in 0 .. Cardinality(I) - 1
  <2> SUFFICES ASSUME NEW s \in I PROVE Place(s) \in 0 .. Cardinality(I) - 1
    OBVIOUS
  <2>1. Place(s) + 1 <= Cardinality(I)
    BY <1>4, <1>6
  <2>2. Place(s) \in Nat
    BY <1>5
  <2> QED BY <1>4, <2>1, <2>2
<1>8. \A s, r \in I : s < r => Place(s) < Place(r)
  <2> SUFFICES ASSUME NEW s \in I, NEW r \in I, s < r PROVE Place(s) < Place(r)
    OBVIOUS
  <2>1. Below(s) \cup {s} \subseteq Below(r)
    <3>1. s \in Nat /\ r \in Nat /\ I \subseteq Nat
      BY <1>2
    <3>2. \A q \in Nat : q < s => q < r
      BY <3>1
    <3> QED BY <3>1, <3>2
  <2>2. Place(s) + 1 <= Cardinality(Below(r))
    <3>1. Below(r) \in SUBSET I /\ IsFiniteSet(Below(r))
      BY <1>5
    <3> HIDE DEF Below
    <3> QED BY <1>6, <2>1, <3>1
  <2>3. Place(r) = Cardinality(Below(r)) /\ Place(r) \in Nat /\ Place(s) \in Nat
    BY <1>5
  <2> QED BY <2>2, <2>3
<1>9. \A s, r \in I : Place(s) = Place(r) => s = r
  <2> SUFFICES ASSUME NEW s \in I, NEW r \in I, Place(s) = Place(r) PROVE s = r
    OBVIOUS
  <2>1. s \in Nat /\ r \in Nat /\ Place(s) \in Nat
    <3>1. s \in Nat /\ r \in Nat
      BY <1>2
    <3> HIDE DEF Below
    <3> QED BY <1>5, <3>1
  <2>2. ~(s < r) /\ ~(r < s)
    BY <1>8, <2>1
  <2> QED BY <2>1, <2>2
<1> QED BY <1>1, <1>2, <1>4, <1>7, <1>9 DEF I

\* No two steps have a number in common.
LEMMA StepNumbers ==
    ASSUME config \in TempoRuns, NEW i \in Nat, NEW s \in DOMAIN config.steps, NEW j \in Nat, NEW r \in DOMAIN config.steps
    PROVE  /\ Tempo!Hint(i, s) \in Nat
           /\ Tempo!Hint(i, s) = Tempo!Hint(j, r) => i = j /\ s = r
           /\ s \in Tempo!Inline => Tempo!Dense(i, s) \in Nat
           /\ s \in Tempo!Inline /\ r \in Tempo!Inline /\ Tempo!Dense(i, s) = Tempo!Dense(j, r) => i = j /\ s = r
<1>1. PICK m \in Nat \ {0} : m = Len(config.steps) /\ DOMAIN config.steps = 1 .. m
  BY Places
<1>2. PICK x \in 0 .. m - 1 : x = s - 1
  BY <1>1
<1>3. PICK y \in 0 .. m - 1 : y = r - 1
  BY <1>1
<1>4. i * m \in Nat /\ j * m \in Nat
  OBVIOUS
<1>5. Tempo!Hint(i, s) = i * m + x /\ Tempo!Hint(j, r) = j * m + y
  <2>1. PICK p \in Nat : p = i * m
    BY <1>4
  <2>2. PICK q \in Nat : q = j * m
    BY <1>4
  <2>3. s \in Nat /\ r \in Nat /\ p + s - 1 = p + x /\ q + r - 1 = q + y
    BY <1>1, <1>2, <1>3
  <2>4. Tempo!Hint(i, s) = p + s - 1 /\ Tempo!Hint(j, r) = q + r - 1
    BY <1>1, <2>1, <2>2 DEF Tempo!Hint
  <2> QED BY <2>1, <2>2, <2>3, <2>4
<1>6. Tempo!Hint(i, s) \in Nat /\ (Tempo!Hint(i, s) = Tempo!Hint(j, r) => i = j /\ s = r)
  <2>1. i * m + x \in Nat
    BY <1>4
  <2>2. i * m + x = j * m + y => i = j /\ x = y
    BY Mixed
  <2>3. x = y => s = r
    BY <1>1, <1>2, <1>3
  <2> QED BY <1>5, <2>1, <2>2, <2>3
<1>7. ASSUME s \in Tempo!Inline
      PROVE  /\ Tempo!Dense(i, s) \in Nat
             /\ r \in Tempo!Inline /\ Tempo!Dense(i, s) = Tempo!Dense(j, r) => i = j /\ s = r
  <2>1. PICK c \in Nat : c = Cardinality(Tempo!Inline)
    BY Places
  <2>2. PICK a \in 0 .. c - 1 : a = Place(s)
    BY <1>7, <2>1, Places
  <2>3. c \in Nat \ {0}
    BY <2>2
  <2>4. Tempo!Dense(i, s) = i * c + a
    BY <1>7, <2>1, <2>2, TempoCount DEF Tempo!Dense, Place
  <2>5. i * c + a \in Nat
    <3>1. i * c \in Nat
      OBVIOUS
    <3> QED BY <3>1
  <2>6. ASSUME r \in Tempo!Inline, Tempo!Dense(i, s) = Tempo!Dense(j, r) PROVE i = j /\ s = r
    <3>1. PICK b \in 0 .. c - 1 : b = Place(r)
      BY <2>1, <2>6, Places
    <3>2. Tempo!Dense(j, r) = j * c + b
      BY <2>1, <2>6, <3>1, TempoCount DEF Tempo!Dense, Place
    <3>3. i = j /\ a = b
      BY <2>3, <2>4, <2>6, <3>2, Mixed
    <3> QED BY <1>7, <2>2, <2>6, <3>1, <3>3, Places
  <2> QED BY <2>4, <2>5, <2>6
<1> QED BY <1>6, <1>7

-----------------------------------------------------------------------------
(* Identities                                                              *)

\* A transaction is unique by a new number, and the old ones stay.
New(tx) == /\ tx.bump = 0 \/ tx.bump \notin BumpsTaken
           /\ tx.inline = 0 \/ tx.inline \notin KeysTaken
           /\ Derived(tx)

LEMMA IdentityStep ==
    ASSUME TempoTypes, IdentityInv, BumpsTaken \subseteq BumpsTaken', KeysTaken \subseteq KeysTaken',
           \/ txs' = txs
           \/ \E tx : /\ txs' = Append(txs, tx) /\ New(tx)
                      /\ tx.bump \in {0} \cup BumpsTaken' /\ tx.inline \in {0} \cup KeysTaken'
    PROVE  IdentityInv'
<1>1. /\ \A k \in DOMAIN txs : txs[k].bump \in {0} \cup BumpsTaken /\ txs[k].inline \in {0} \cup KeysTaken
      /\ \A k, l \in DOMAIN txs : k < l => Apart(txs[k], txs[l])
      /\ \A k \in DOMAIN txs : Derived(txs[k])
  BY DEF IdentityInv
<1>2. SUFFICES /\ \A k \in DOMAIN txs' : txs'[k].bump \in {0} \cup BumpsTaken' /\ txs'[k].inline \in {0} \cup KeysTaken'
               /\ \A k, l \in DOMAIN txs' : k < l => Apart(txs'[k], txs'[l])
               /\ \A k \in DOMAIN txs' : Derived(txs'[k])
  BY DEF IdentityInv, Apart, Derived
<1>3. CASE txs' = txs
  BY SMTT(60), <1>1, <1>3
<1>4. ASSUME NEW tx, txs' = Append(txs, tx), New(tx),
             tx.bump \in {0} \cup BumpsTaken', tx.inline \in {0} \cup KeysTaken'
      PROVE  /\ \A k \in DOMAIN txs' : txs'[k].bump \in {0} \cup BumpsTaken' /\ txs'[k].inline \in {0} \cup KeysTaken'
             /\ \A k, l \in DOMAIN txs' : k < l => Apart(txs'[k], txs'[l])
             /\ \A k \in DOMAIN txs' : Derived(txs'[k])
  <2>1. PICK n \in Nat : n = Len(txs) + 1
    BY DEF TempoTypes
  <2>2. /\ DOMAIN txs = 1 .. Len(txs) /\ DOMAIN txs' = DOMAIN txs \cup {n} /\ txs'[n] = tx
        /\ \A k \in DOMAIN txs : txs'[k] = txs[k] /\ k < n
    BY <1>4, <2>1, AppendProperties DEF TempoTypes
  <2>3. \A k \in DOMAIN txs : Apart(txs[k], tx)
    BY <1>1, <1>4 DEF New, Apart
  <2>3a. Derived(tx)
    BY <1>4 DEF New
  <2>4. \A k, l \in DOMAIN txs' : k < l => k \in DOMAIN txs /\ (l \in DOMAIN txs \/ l = n)
    BY <2>1, <2>2
  <2> QED BY ZenonT(60), <1>1, <1>4, <2>2, <2>3, <2>3a, <2>4
<1> QED BY <1>3, <1>4

\* Without identities of their own the transactions count one by one.
LEMMA CountedIdentities ==
    ASSUME TempoTypes, IdentityInv, NEW t, NEW draws, NEW b, Built(b, t, draws, Tempo!NoHint, Tempo!NoHint),
           StepsDone = {}, StepsDone' = {}, tracker' = b.tracker,
           NEW a, Sends(b, a)
    PROVE  IdentityInv'
<1>1. PICK m \in Nat : m = tracker.bumps
  BY DEF TempoTypes
<1>2. PICK q \in Nat : q = tracker.inline
  BY DEF TempoTypes
<1>3. tracker'.bumps \in {m, m + 1} /\ tracker'.inline \in {q, q + 1}
  BY <1>1, <1>2 DEF Built
<1>4. /\ BumpsTaken = {2 * n + 1 : n \in 0 .. m - 1} /\ BumpsTaken' = {2 * n + 1 : n \in 0 .. tracker'.bumps - 1}
      /\ KeysTaken = 1 .. q /\ KeysTaken' = 1 .. tracker'.inline
  BY <1>1, <1>2 DEF BumpsTaken, KeysTaken
<1>5. 0 .. m - 1 \subseteq 0 .. tracker'.bumps - 1 /\ 1 .. q \subseteq 1 .. tracker'.inline
  BY <1>3
<1>6. BumpsTaken \subseteq BumpsTaken' /\ KeysTaken \subseteq KeysTaken'
  BY <1>4, <1>5
<1>7. ASSUME NEW x, b.tx = <<x>>
      PROVE  New(x) /\ x.bump \in {0} \cup BumpsTaken' /\ x.inline \in {0} \cup KeysTaken'
  <2>1. b.error = "none" /\ Made(x, t, draws, Tempo!NoHint, Tempo!NoHint)
    BY <1>7 DEF Built
  <2>2. x.bump = 0 \/ (x.bump = 2 * m + 1 /\ tracker'.bumps = m + 1)
    BY <1>1, <2>1 DEF Built, Made, Tempo!Bump
  <2>3. x.inline = 0 \/ (x.inline = 1 + q /\ tracker'.inline = q + 1)
    BY <1>2, <2>1 DEF Built, Made, Tempo!KeyOffset
  <2>4. 2 * m + 1 \notin {2 * n + 1 : n \in 0 .. m - 1} /\ m \in 0 .. (m + 1) - 1
    OBVIOUS
  <2>5. 1 + q \notin 1 .. q /\ 1 + q \in 1 .. q + 1
    OBVIOUS
  <2>6. x.bump = 0 \/ (x.bump \notin BumpsTaken /\ x.bump \in BumpsTaken')
    BY <1>4, <2>2, <2>4
  <2>7. x.inline = 0 \/ (x.inline \notin KeysTaken /\ x.inline \in KeysTaken')
    BY <1>4, <2>3, <2>5
  <2>8. Derived(x)
    BY <2>1 DEF Made
  <2> QED BY <2>6, <2>7, <2>8 DEF New
<1>8. \/ txs' = txs
      \/ \E tx : /\ txs' = Append(txs, tx) /\ New(tx)
                 /\ tx.bump \in {0} \cup BumpsTaken' /\ tx.inline \in {0} \cup KeysTaken'
  <2>1. ASSUME NEW x, b.tx = <<x>>, NEW tx, txs' = Append(txs, tx), Alike(tx, x, a)
        PROVE  New(tx) /\ tx.bump \in {0} \cup BumpsTaken' /\ tx.inline \in {0} \cup KeysTaken'
    BY <1>7, <2>1 DEF New, Alike, Derived
  <2> QED BY <2>1 DEF Sends
<1> QED BY <1>6, <1>8, IdentityStep

\* A step of an instance has numbers that are its own.
LEMMA NumberedIdentities ==
    ASSUME TempoTypes, IdentityInv, config' = config, NEW i \in Nat, NEW s \in DOMAIN config.steps, NEW draws, NEW b,
           Built(b, config.templates[config.steps[s]], draws, Tempo!Hint(i, s), Tempo!Dense(i, s)),
           <<i, s>> \notin StepsDone, StepsDone' = StepsDone \cup {<<i, s>>}, tracker' = b.tracker,
           NEW a, Sends(b, a)
    PROVE  IdentityInv'
<1> DEFINE t == config.templates[config.steps[s]]
           dense == Tempo!Dense(i, s)
           Others == {e \in StepsDone : e[2] \in Tempo!Inline}
<1>1. config \in TempoRuns /\ StepsDone \subseteq Nat \X DOMAIN config.steps
  BY DEF TempoTypes
<1>2. PICK m \in Nat : m = tracker.bumps
  BY DEF TempoTypes
<1>3. PICK q \in Nat : q = tracker.inline
  BY DEF TempoTypes
<1>4. PICK h \in Nat : h = Tempo!Hint(i, s)
  BY <1>1, StepNumbers
<1>5. s \in Tempo!Inline => dense \in Nat
  BY <1>1, StepNumbers
<1>6. Tempo!Hint(i, s) # Tempo!NoHint /\ (dense # Tempo!NoHint <=> s \in Tempo!Inline)
  <2>1. s \notin Tempo!Inline => dense = Tempo!NoHint
    BY DEF Tempo!Dense
  <2>2. \A n \in Nat : n # Tempo!NoHint
    BY DEF Tempo!NoHint
  <2> QED BY <1>4, <1>5, <2>1, <2>2
<1>7. t.auth = "inline" <=> s \in Tempo!Inline
  BY DEF Tempo!Inline
<1> HIDE DEF t, dense
<1>8. tracker'.inline = q /\ tracker'.bumps \in {m, m + 1}
  BY <1>2, <1>3, <1>6, <1>7 DEF Built, t, dense
<1>9. /\ BumpsTaken = {2 * n + 1 : n \in 0 .. m - 1} \cup {2 * Tempo!Hint(d[1], d[2]) + 2 : d \in StepsDone}
      /\ BumpsTaken' = {2 * n + 1 : n \in 0 .. tracker'.bumps - 1}
                         \cup {2 * Tempo!Hint(d[1], d[2]) + 2 : d \in StepsDone \cup {<<i, s>>}}
  BY <1>2 DEF BumpsTaken, Tempo!Hint
<1>10. /\ KeysTaken = (1 .. q) \cup {1 + q + Tempo!Dense(d[1], d[2]) : d \in Others}
       /\ KeysTaken' = (1 .. q) \cup {1 + q + Tempo!Dense(d[1], d[2]) :
                                        d \in {e \in StepsDone \cup {<<i, s>>} : e[2] \in Tempo!Inline}}
  <2>1. Tempo!Inline' = Tempo!Inline
    BY DEF Tempo!Inline
  <2>2. \A j, r : Tempo!Dense(j, r)' = Tempo!Dense(j, r)
    BY <2>1 DEF Tempo!Dense
  <2> QED BY <1>3, <1>8, <2>1, <2>2 DEF KeysTaken
<1>11. BumpsTaken \subseteq BumpsTaken' /\ KeysTaken \subseteq KeysTaken'
  <2>1. 0 .. m - 1 \subseteq 0 .. tracker'.bumps - 1
    BY <1>8
  <2>2. {2 * n + 1 : n \in 0 .. m - 1} \subseteq {2 * n + 1 : n \in 0 .. tracker'.bumps - 1}
    BY <2>1
  <2> QED BY <1>9, <1>10, <2>2
<1>12. 2 * h + 2 \in BumpsTaken' /\ 2 * h + 2 \notin BumpsTaken
  <2>1. 2 * h + 2 = 2 * Tempo!Hint(<<i, s>>[1], <<i, s>>[2]) + 2 /\ <<i, s>> \in StepsDone \cup {<<i, s>>}
    BY <1>4
  <2>2. \A n \in 0 .. m - 1 : 2 * h + 2 # 2 * n + 1
    OBVIOUS
  <2>3. ASSUME NEW d \in StepsDone, 2 * h + 2 = 2 * Tempo!Hint(d[1], d[2]) + 2 PROVE FALSE
    <3>1. PICK j \in Nat : \E r \in DOMAIN config.steps : d = <<j, r>>
      BY <1>1
    <3>2. PICK r \in DOMAIN config.steps : d = <<j, r>>
      BY <3>1
    <3>3. PICK g \in Nat : g = Tempo!Hint(j, r)
      BY <1>1, StepNumbers
    <3>4. 2 * h + 2 = 2 * g + 2
      BY <2>3, <3>2, <3>3
    <3>5. h = g
      BY <3>4
    <3>6. Tempo!Hint(i, s) = Tempo!Hint(j, r)
      BY <1>4, <3>3, <3>5
    <3>7. i = j /\ s = r
      BY <1>1, <3>6, StepNumbers
    <3> QED BY <3>2, <3>7
  <2> QED BY <1>9, <2>1, <2>2, <2>3
<1>13. ASSUME s \in Tempo!Inline PROVE 1 + q + dense \in KeysTaken' /\ 1 + q + dense \notin KeysTaken
  <2>1. PICK e \in Nat : e = dense
    BY <1>5, <1>13
  <2>2. 1 + q + e \notin 1 .. q
    OBVIOUS
  <2>3. ASSUME NEW d \in Others, 1 + q + e = 1 + q + Tempo!Dense(d[1], d[2]) PROVE FALSE
    <3>1. PICK j \in Nat : \E r \in DOMAIN config.steps : d = <<j, r>>
      BY <1>1
    <3>2. PICK r \in DOMAIN config.steps : d = <<j, r>>
      BY <3>1
    <3>3. r \in Tempo!Inline
      BY <3>2
    <3>4. PICK g \in Nat : g = Tempo!Dense(j, r)
      BY <1>1, <3>3, StepNumbers
    <3>5. 1 + q + e = 1 + q + g
      BY <2>3, <3>2, <3>4
    <3>6. e = g
      BY <3>5
    <3>7. Tempo!Dense(i, s) = Tempo!Dense(j, r)
      BY <2>1, <3>4, <3>6 DEF dense
    <3>8. i = j /\ s = r
      BY <1>1, <1>13, <3>3, <3>7, StepNumbers
    <3> QED BY <3>2, <3>8
  <2>4. 1 + q + e = 1 + q + Tempo!Dense(<<i, s>>[1], <<i, s>>[2])
    BY <2>1 DEF dense
  <2>5. <<i, s>> \in {d \in StepsDone \cup {<<i, s>>} : d[2] \in Tempo!Inline}
    BY <1>13
  <2>6. 1 + q + e \in KeysTaken'
    BY <1>10, <2>4, <2>5
  <2>7. 1 + q + e \notin KeysTaken
    BY <1>10, <2>2, <2>3
  <2> QED BY <2>1, <2>6, <2>7
<1>14. ASSUME NEW x, b.tx = <<x>>
       PROVE  New(x) /\ x.bump \in {0} \cup BumpsTaken' /\ x.inline \in {0} \cup KeysTaken'
  <2>1. Made(x, t, draws, Tempo!Hint(i, s), dense)
    BY <1>14 DEF Built, t, dense
  <2>2. x.bump = 0 \/ x.bump = 2 * h + 2
    <3>1. x.bump = 0 \/ x.bump = 2 * h + 1 + 1
      BY <1>4, <1>6, <2>1 DEF Made, Tempo!Bump
    <3> QED BY <3>1
  <2>3. t.auth # "inline" => x.inline = 0
    BY <2>1 DEF Made
  <2>4. t.auth = "inline" => x.inline = 1 + q + dense
    <3>1. t.auth = "inline" => dense \in Nat /\ x.inline = 1 + (q + dense)
      BY <1>3, <1>5, <1>6, <1>7, <2>1 DEF Made, Tempo!KeyOffset
    <3> QED BY <3>1
  <2>5. Derived(x)
    BY <2>1 DEF Made
  <2> QED BY <1>7, <1>12, <1>13, <2>2, <2>3, <2>4, <2>5 DEF New
<1>15. \/ txs' = txs
       \/ \E tx : /\ txs' = Append(txs, tx) /\ New(tx)
                  /\ tx.bump \in {0} \cup BumpsTaken' /\ tx.inline \in {0} \cup KeysTaken'
  <2>1. ASSUME NEW x, b.tx = <<x>>, NEW tx, txs' = Append(txs, tx), Alike(tx, x, a)
        PROVE  New(tx) /\ tx.bump \in {0} \cup BumpsTaken' /\ tx.inline \in {0} \cup KeysTaken'
    BY <1>14, <2>1 DEF New, Alike, Derived
  <2> QED BY <2>1 DEF Sends
<1> QED BY <1>11, <1>15, IdentityStep

-----------------------------------------------------------------------------
(* The steps of the plugin                                                 *)

\* A build that is sent keeps the lanes.
LEMMA LanesKeep ==
    ASSUME TempoTypes, LaneInv, config' = config, NEW t, Usable(t), NEW draws \in Tempo!Draws, NEW hint, NEW dense, NEW b,
           Built(b, t, draws, hint, dense), NEW a, Sends(b, a), tracker' = b.tracker, "unprepared" \notin progress.errors'
    PROVE  /\ LaneInv'
           /\ tracker' \in [lanes : {tracker'.lanes}, bumps : Nat, inline : Nat]
           /\ DOMAIN Lanes' \subseteq Tempo!Accounts \X Nat
           /\ txs' \in Seq(Tempo!Range(txs'))
<1> DEFINE lane == Tempo!Lane(t, draws)
           takes == b.error = "none" /\ Tempo!TakesNonce(t, draws)
<1>1. config \in TempoRuns /\ txs \in Seq(Tempo!Range(txs)) /\ DOMAIN Lanes \subseteq Tempo!Accounts \X Nat
  BY DEF TempoTypes
<1>2. lane \in Tempo!Accounts \X Nat /\ First(lane) \in Nat
  BY <1>1, LaneFacts
<1>3. Lanes' = b.tracker.lanes /\ Goes(lane, takes, b.tracker.lanes)
  BY DEF Built, Lanes
<1>4. \/ ~takes /\ txs' = txs
      \/ \E tx : /\ txs' = Append(txs, tx)
                 /\ \A l \in Tempo!Accounts \X Nat : Counts(tx, l) <=> takes /\ l = lane
                 /\ takes => tx.nonce = Value(lane)
  <2>1. CASE b.tx = <<>> /\ txs' = txs
    <3>1. b.error # "none"
      BY <2>1 DEF Built
    <3> QED BY <2>1, <3>1
  <2>2. ASSUME NEW x, NEW tx, b.tx = <<x>>, txs' = Append(txs, tx), Alike(tx, x, a)
        PROVE  /\ \A l \in Tempo!Accounts \X Nat : Counts(tx, l) <=> takes /\ l = lane
               /\ takes => tx.nonce = Value(lane)
    <3>1. b.error = "none" /\ Made(x, t, draws, hint, dense)
      BY <2>2 DEF Built
    <3>2. \A l : Counts(tx, l) <=> Counts(x, l)
      BY <2>2 DEF Counts, Alike
    <3> HIDE DEF lane
    <3> QED BY <2>2, <3>1, <3>2 DEF Made, Alike, lane
  <2> HIDE DEF lane, takes
  <2> QED BY <2>1, <2>2 DEF Sends
<1>5. takes \in BOOLEAN
  OBVIOUS
<1> HIDE DEF lane, takes
<1>6. LaneInv'
  BY <1>2, <1>3, <1>4, <1>5, LaneInvStep
<1>7. tracker' \in [lanes : {tracker'.lanes}, bumps : Nat, inline : Nat]
  BY DEF Built
<1>8. DOMAIN Lanes' \subseteq Tempo!Accounts \X Nat
  BY <1>1, <1>2, <1>3 DEF Goes
<1>9. txs' \in Seq(Tempo!Range(txs'))
  <2>1. ASSUME NEW tx, txs' = Append(txs, tx) PROVE txs' \in Seq(Tempo!Range(txs'))
    <3> DEFINE S == Tempo!Range(txs) \cup {tx}
    <3>1. txs \in Seq(S) /\ tx \in S
      BY <1>1, SeqMonotonic
    <3> HIDE DEF S
    <3>2. txs' \in Seq(S)
      BY <2>1, <3>1, AppendProperties
    <3>3. PICK n \in Nat : txs' \in [1 .. n -> S]
      BY <3>2, SeqDef
    <3>4. txs' \in [1 .. n -> Tempo!Range(txs')]
      BY <3>3 DEF Tempo!Range
    <3> QED BY <3>4, SeqDef
  <2> QED BY <1>1, <2>1 DEF Sends
<1> QED BY <1>6, <1>7, <1>8, <1>9

\* What was authorized stays, and a key that is used has been authorized.
LEMMA KeysStay ==
    ASSUME TempoTypes, KeychainInv, config' = config, NEW t, Usable(t), NEW draws \in Tempo!Draws, NEW hint, NEW dense,
           NEW b, Built(b, t, draws, hint, dense), NEW a, Sends(b, a), progress.at # "failed",
           t.auth = "keychain" => progress.account = 0
    PROVE  /\ Tempo!KeysAreAuthorized' /\ Granted \subseteq Granted'
           /\ b.error = "none" => <<config.pools[t.pool][Tempo!Signer(t, draws)], a>> \in Granted'
<1>1. config \in TempoRuns /\ txs \in Seq(Tempo!Range(txs)) /\ Len(txs) \in Nat /\ DOMAIN txs = 1 .. Len(txs)
  BY DEF TempoTypes
<1>2. Tempo!KeysAreAuthorized
  BY DEF KeychainInv
<1>3. CASE b.tx = <<>> /\ txs' = txs
  <2>1. b.error # "none"
    BY <1>3 DEF Built
  <2> QED BY <1>2, <1>3, <2>1 DEF Tempo!KeysAreAuthorized, Granted
<1>4. ASSUME NEW x, NEW tx, b.tx = <<x>>, txs' = Append(txs, tx), Alike(tx, x, a)
      PROVE  /\ Tempo!KeysAreAuthorized' /\ Granted \subseteq Granted'
             /\ <<config.pools[t.pool][Tempo!Signer(t, draws)], a>> \in Granted'
  <2>1. PICK n \in Nat : n = Len(txs) + 1
    BY <1>1
  <2>2. /\ DOMAIN txs = 1 .. n - 1 /\ DOMAIN txs' = 1 .. n /\ txs'[n] = tx
        /\ \A k \in DOMAIN txs : txs'[k] = txs[k]
    BY <1>1, <1>4, <2>1, AppendProperties
  <2>3. b.error = "none" /\ Made(x, t, draws, hint, dense)
    BY <1>4 DEF Built
  <2>4. tx.account = config.pools[t.pool][Tempo!Signer(t, draws)]
    BY <1>1, <1>4, <2>3, LaneFacts DEF Made, Alike
  <2>5. tx.keychain = <<>> \/ \E k \in DOMAIN txs : tx.account = txs[k].account /\ txs[k].authorizes = tx.keychain
    <3>1. CASE t.auth # "keychain"
      BY <1>4, <2>3, <3>1 DEF Made, Alike
    <3>2. CASE t.auth = "keychain"
      <4>1. t.setup \in DOMAIN keychains /\ keychains[t.setup].pool = t.pool
        BY <2>3, <3>2 DEF Made, Tempo!KeychainMissing
      <4>2. PICK c \in 1 .. Len(config.pools[t.pool]) : c = Tempo!Signer(t, draws)
        BY <1>1, LaneFacts
      <4>3. tx.keychain = <<t.setup, c>>
        BY <1>4, <2>3, <3>2, <4>2 DEF Made, Alike
      <4>4. c \in DOMAIN config.pools[keychains[t.setup].pool] /\ progress.account = 0
        BY <1>1, <3>2, <4>1, <4>2, TempoInputs DEF Usable
      <4>5. <<config.pools[keychains[t.setup].pool][c], <<t.setup, c>>>> \in Granted
        BY <4>1, <4>4 DEF KeychainInv
      <4>6. PICK k \in DOMAIN txs : /\ txs[k].account = config.pools[keychains[t.setup].pool][c]
                                   /\ txs[k].authorizes = <<t.setup, c>>
        BY <4>5 DEF Granted
      <4> QED BY <2>4, <4>1, <4>2, <4>3, <4>6
    <3> QED BY <3>1, <3>2
  <2>6. Tempo!KeysAreAuthorized'
    <3>1. \A l \in DOMAIN txs : txs[l].keychain = <<>> \/
            \E k \in 1 .. l - 1 : txs[k].account = txs[l].account /\ txs[k].authorizes = txs[l].keychain
      BY <1>2 DEF Tempo!KeysAreAuthorized
    <3> SUFFICES ASSUME NEW l \in 1 .. n
                 PROVE  txs'[l].keychain = <<>> \/ \E k \in 1 .. l - 1 :
                          txs'[k].account = txs'[l].account /\ txs'[k].authorizes = txs'[l].keychain
      BY <2>2 DEF Tempo!KeysAreAuthorized
    <3>2. CASE l \in DOMAIN txs
      <4>1. 1 .. l - 1 \subseteq DOMAIN txs
        BY <2>2, <3>2
      <4> QED BY <2>2, <3>1, <3>2, <4>1
    <3>3. CASE l = n
      BY <2>2, <2>5, <3>3
    <3> QED BY <2>2, <3>2, <3>3
  <2>7. DOMAIN txs \subseteq DOMAIN txs' /\ n \in DOMAIN txs' /\ tx.authorizes = a
    BY <1>4, <2>2 DEF Alike
  <2> QED BY <2>2, <2>4, <2>6, <2>7 DEF Granted
<1> QED BY <1>3, <1>4 DEF Sends

-----------------------------------------------------------------------------
LEMMA TempoInvInit == ASSUME Tempo!Init PROVE TempoInv
<1>1. /\ config \in TempoRuns /\ tracker = [lanes |-> <<>>, bumps |-> 0, inline |-> 0] /\ keychains = <<>> /\ txs = <<>>
      /\ progress = [at |-> "prefetch", step |-> 1, account |-> 0, done |-> {}, errors |-> {}]
  BY DEF Tempo!Init
<1>2. /\ Lanes = <<>> /\ DOMAIN Lanes = {} /\ tracker.bumps = 0 /\ tracker.inline = 0 /\ DOMAIN txs = {} /\ DOMAIN keychains = {}
      /\ progress.at = "prefetch" /\ progress.account = 0 /\ progress.done = {} /\ progress.errors = {} /\ StepsDone = {}
  BY <1>1 DEF Lanes, StepsDone
<1>3. TempoTypes
  <2>1. txs \in Seq(Tempo!Range(txs))
    BY <1>1
  <2>2. /\ progress \in [at : {"prefetch", "setup", "workload", "failed"}, step : Nat \ {0}, account : Nat,
                         done : {progress.done}, errors : {progress.errors}]
        /\ tracker \in [lanes : {tracker.lanes}, bumps : Nat, inline : Nat]
    BY <1>1
  <2> QED BY <1>1, <1>2, <2>1, <2>2 DEF TempoTypes
<1>4. LaneInv
  <2>1. \A l : Mine(l) = {}
    BY <1>2 DEF Mine
  <2> QED BY <1>2, <2>1 DEF LaneInv
<1>5. IdentityInv
  BY <1>2 DEF IdentityInv
<1>6. KeychainInv
  BY <1>2 DEF KeychainInv, Tempo!KeysAreAuthorized
<1> QED BY <1>3, <1>4, <1>5, <1>6 DEF TempoInv

\* Of a step that builds nothing only the progress and the keys matter.
LEMMA QuietKeeps ==
    ASSUME TempoInv, UNCHANGED <<config, tracker, txs>>, StepsDone' = StepsDone,
           progress' \in [at : {"setup", "workload", "failed"}, step : Nat \ {0}, account : Nat,
                         done : {progress.done}, errors : {progress.errors}],
           progress'.at = "setup" => progress.done = {}
    PROVE  TempoTypes' /\ LaneInv' /\ IdentityInv' /\ Tempo!KeysAreAuthorized'
<1>1. /\ Tempo!Accounts' = Tempo!Accounts /\ Lanes' = Lanes /\ DOMAIN txs' = DOMAIN txs
      /\ Tempo!Range(txs)' = Tempo!Range(txs)
      /\ \A l : First(l)' = First(l) /\ Mine(l)' = Mine(l)
  BY DEF Tempo!Accounts, Lanes, First, Mine, Counts, Tempo!OnChain, Tempo!Scenario, Tempo!Range
<1>2. \A l, k : Before(l, k)' = Before(l, k)
  BY <1>1 DEF Before
<1>3. BumpsTaken' = BumpsTaken /\ KeysTaken' = KeysTaken
  <2>1. Tempo!Inline' = Tempo!Inline
    BY DEF Tempo!Inline
  <2>2. \A i, s : Tempo!Hint(i, s)' = Tempo!Hint(i, s) /\ Tempo!Dense(i, s)' = Tempo!Dense(i, s)
    BY <2>1 DEF Tempo!Hint, Tempo!Dense
  <2> QED BY <2>1, <2>2 DEF BumpsTaken, KeysTaken
<1>4. /\ progress'.at \in {"setup", "workload", "failed"} /\ progress'.done = progress.done /\ progress'.errors = progress.errors
      /\ progress' \in [at : {"prefetch", "setup", "workload", "failed"}, step : Nat \ {0}, account : Nat,
                        done : {progress'.done}, errors : {progress'.errors}]
  OBVIOUS
<1>5. TempoTypes'
  BY <1>1, <1>4 DEF TempoInv, TempoTypes
<1>6. LaneInv'
  BY <1>1, <1>2, <1>4 DEF TempoInv, LaneInv
<1>7. IdentityInv'
  BY <1>3 DEF TempoInv, IdentityInv, Apart, Derived
<1> QED BY <1>5, <1>6, <1>7 DEF TempoInv, KeychainInv, Tempo!KeysAreAuthorized

LEMMA ProgressFacts ==
    ASSUME TempoInv
    PROVE  /\ progress \in [at : {"prefetch", "setup", "workload", "failed"}, step : Nat \ {0}, account : Nat,
                            done : {progress.done}, errors : {progress.errors}]
           /\ progress.at \in {"prefetch", "setup"} => progress.done = {}
           /\ progress.account # 0 /\ progress.at # "failed" =>
                /\ progress.at = "setup" /\ Tempo!Setup.template = 0 /\ Tempo!Setup.id \in DOMAIN keychains
                /\ keychains[Tempo!Setup.id].pool = Tempo!Setup.pool
                /\ progress.account <= Len(config.pools[Tempo!Setup.pool])
BY DEF TempoInv, TempoTypes, KeychainInv, Tempo!InSetup

\* A failure leaves everything as it is.
LEMMA FailKeeps ==
    ASSUME TempoInv, UNCHANGED <<config, tracker, keychains, txs>>, Tempo!Fails, progress.at # "workload"
    PROVE  TempoInv'
<1>1. progress' = [progress EXCEPT !.at = "failed"]
  BY DEF Tempo!Fails
<1>2. /\ progress' \in [at : {"setup", "workload", "failed"}, step : Nat \ {0}, account : Nat,
                        done : {progress.done}, errors : {progress.errors}]
      /\ progress'.at = "failed"
  BY <1>1, ProgressFacts
<1>3. StepsDone = {} /\ StepsDone' = {}
  BY <1>2 DEF StepsDone
<1>4. TempoTypes' /\ LaneInv' /\ IdentityInv' /\ Tempo!KeysAreAuthorized'
  BY <1>2, <1>3, QuietKeeps
<1> QED BY <1>2, <1>4 DEF TempoInv, KeychainInv

LEMMA PrefetchedFacts ==
    ASSUME config \in TempoRuns, NEW lane \in Tempo!Prefetched
    PROVE  /\ lane \in Tempo!Accounts \X Nat
           /\ First(lane) = Tempo!OnChain(lane) /\ First(lane) \in Nat
<1>1. config.mode # "offline" /\ lane \in Tempo!Accounts \X ({0} \cup Tempo!LiteralKeys)
  BY DEF Tempo!Prefetched
<1>2. PICK t : Usable(t) /\ lane[2] \in Tempo!Range(t.keys) \cup {0}
  <2>1. CASE lane[2] = 0
    BY <2>1, TempoInputs
  <2>2. CASE lane[2] \in Tempo!LiteralKeys
    <3>1. PICK u \in Tempo!Range(config.templates) \cup {config.templates[k] : k \in config.mix} :
            Len(u.keys) = 1 /\ lane[2] = u.keys[1]
      BY <2>2 DEF Tempo!LiteralKeys
    <3>2. \E k \in DOMAIN config.templates : u = config.templates[k]
      BY <3>1, TempoInputs DEF Tempo!Range
    <3>3. Usable(u)
      BY <3>2, TempoInputs
    <3>4. 1 \in DOMAIN u.keys
      BY <3>1, <3>3 DEF Usable
    <3> QED BY <3>1, <3>3, <3>4 DEF Tempo!Range
  <2> QED BY <1>1, <2>1, <2>2
<1>3. PICK p \in DOMAIN config.pools : lane[1] \in Tempo!Range(config.pools[p])
  BY <1>1 DEF Tempo!Accounts
<1>4. lane \in Tempo!Range(config.pools[p]) \X (Tempo!Range(t.keys) \cup {0})
  BY <1>1, <1>2, <1>3
<1>5. config.chain[lane].latest \in Nat /\ config.chain[lane].pending \in Nat
  BY <1>2, <1>4 DEF Usable
<1>6. lane[2] \in Nat
  BY SMTT(60), <1>2 DEF Usable, Tempo!Range
<1> QED BY <1>1, <1>5, <1>6 DEF First, Tempo!OnChain

LEMMA PrefetchKeeps == ASSUME TempoInv, Tempo!Prefetch PROVE TempoInv'
<1>1. progress.at = "prefetch" /\ UNCHANGED <<config, keychains, txs>>
  BY DEF Tempo!Prefetch
<1>2. CASE UNCHANGED tracker /\ Tempo!Fails
  BY <1>1, <1>2, FailKeeps
<1>3. CASE /\ tracker' = [tracker EXCEPT !.lanes = [lane \in Tempo!Prefetched |-> Tempo!OnChain(lane)]]
           /\ progress' = [progress EXCEPT !.at = "setup"]
  <2>1. /\ config \in TempoRuns /\ config' = config /\ txs = <<>> /\ txs' = <<>> /\ keychains' = <<>>
        /\ tracker.bumps \in Nat /\ tracker.inline \in Nat
        /\ progress.done = {} /\ progress.account = 0 /\ "unprepared" \notin progress.errors
    BY <1>1, ProgressFacts DEF TempoInv, TempoTypes, LaneInv
  <2>2. /\ progress' \in [at : {"prefetch", "setup", "workload", "failed"}, step : Nat \ {0}, account : Nat,
                          done : {progress'.done}, errors : {progress'.errors}]
        /\ progress'.at = "setup" /\ progress'.done = {} /\ progress'.account = 0 /\ progress'.errors = progress.errors
    BY <1>3, <2>1, ProgressFacts
  <2>3. /\ tracker' \in [lanes : {tracker'.lanes}, bumps : Nat, inline : Nat]
        /\ Lanes' = [lane \in Tempo!Prefetched |-> Tempo!OnChain(lane)]
    BY <1>3, <2>1 DEF TempoInv, TempoTypes, Lanes
  <2>4. /\ Tempo!Accounts' = Tempo!Accounts /\ \A l : First(l)' = First(l) /\ Mine(l)' = {}
        /\ StepsDone' = {} /\ DOMAIN txs' = {} /\ DOMAIN keychains' = {}
    BY <2>1, <2>2 DEF Tempo!Accounts, First, Tempo!OnChain, Tempo!Scenario, Mine, StepsDone
  <2>5. /\ DOMAIN Lanes' = Tempo!Prefetched
        /\ \A lane \in DOMAIN Lanes' : /\ lane \in Tempo!Accounts \X Nat /\ First(lane) \in Nat
                                      /\ Lanes'[lane] = First(lane)
    BY <2>1, <2>3, PrefetchedFacts
  <2>6. TempoTypes'
    <3>1. txs' \in Seq(Tempo!Range(txs'))
      BY <2>1
    <3> QED BY <2>1, <2>2, <2>3, <2>4, <2>5, <3>1 DEF TempoTypes
  <2>7. LaneInv'
    <3>1. Cardinality({}) = 0
      BY FS_EmptySet
    <3>2. \A lane \in DOMAIN Lanes' : Lanes'[lane] = First(lane) + Cardinality({})
      BY <2>5, <3>1
    <3> QED BY <2>1, <2>2, <2>4, <2>5, <3>2 DEF LaneInv
  <2>8. IdentityInv' /\ KeychainInv'
    BY <2>2, <2>4 DEF IdentityInv, KeychainInv, Tempo!KeysAreAuthorized
  <2> QED BY <2>6, <2>7, <2>8 DEF TempoInv
<1> QED BY <1>2, <1>3 DEF Tempo!Prefetch

LEMMA StartWorkloadKeeps == ASSUME TempoInv, Tempo!StartWorkload PROVE TempoInv'
<1>1. /\ progress.at = "setup" /\ progress.step > Len(config.setup) /\ progress' = [progress EXCEPT !.at = "workload"]
      /\ UNCHANGED <<config, tracker, keychains, txs>>
  BY DEF Tempo!StartWorkload
<1>2. /\ progress' \in [at : {"setup", "workload", "failed"}, step : Nat \ {0}, account : Nat,
                        done : {progress.done}, errors : {progress.errors}]
      /\ progress'.at = "workload" /\ progress'.account = progress.account /\ progress'.done = {} /\ progress.done = {}
  BY <1>1, ProgressFacts
<1>3. progress.account = 0
  <2>1. ~Tempo!InSetup
    <3>1. PICK n \in Nat : n = Len(config.setup)
      <4>1. config \in TempoRuns
        BY DEF TempoInv, TempoTypes
      <4> QED BY <4>1, TempoInputs
    <3>2. PICK m \in Nat : m = progress.step
      BY ProgressFacts
    <3> QED BY <1>1, <3>1, <3>2 DEF Tempo!InSetup
  <2> QED BY <1>1, <2>1 DEF TempoInv, KeychainInv
<1>4. TempoTypes' /\ LaneInv' /\ IdentityInv' /\ Tempo!KeysAreAuthorized'
  <2>1. StepsDone = {} /\ StepsDone' = {}
    BY <1>1, <1>2 DEF StepsDone
  <2> QED BY <1>1, <1>2, <2>1, QuietKeeps
<1>5. KeychainInv'
  <2>1. KeychainInv /\ progress'.account = 0 /\ DOMAIN keychains' = DOMAIN keychains /\ Granted' = Granted
    BY <1>1, <1>2, <1>3 DEF TempoInv, Granted
  <2> QED BY <1>1, <1>3, <1>4, <2>1 DEF KeychainInv
<1> QED BY <1>4, <1>5 DEF TempoInv

\* An entry of the setup, when there is one.
LEMMA SetupFacts ==
    ASSUME TempoInv, Tempo!InSetup
    PROVE  /\ Tempo!Setup.template \in {0} \cup DOMAIN config.templates /\ Tempo!Setup.pool \in DOMAIN config.pools
           /\ Len(config.pools[Tempo!Setup.pool]) \in Nat \ {0}
           /\ progress.at = "setup" /\ config \in TempoRuns
<1>1. config \in TempoRuns /\ progress.step \in Nat \ {0} /\ progress.at = "setup"
  BY ProgressFacts DEF TempoInv, TempoTypes, Tempo!InSetup
<1>2. progress.step \in DOMAIN config.setup
  <2>1. PICK n \in Nat : n = Len(config.setup) /\ DOMAIN config.setup = 1 .. n
    BY <1>1, TempoInputs
  <2> QED BY <1>1, <2>1 DEF Tempo!InSetup
<1> QED BY <1>1, <1>2, TempoInputs DEF Tempo!Setup

LEMMA ExpandKeychainKeeps == ASSUME TempoInv, Tempo!ExpandKeychain PROVE TempoInv'
<1>1. Tempo!InSetup /\ Tempo!Setup.template = 0 /\ progress.account = 0 /\ UNCHANGED <<config, tracker, txs>>
  BY DEF Tempo!ExpandKeychain
<1>2. Tempo!Setup.pool \in DOMAIN config.pools /\ progress.at = "setup" /\ Len(config.pools[Tempo!Setup.pool]) \in Nat \ {0}
  BY <1>1, SetupFacts
<1>3. CASE Tempo!Fails /\ UNCHANGED keychains
  BY <1>1, <1>2, <1>3, FailKeeps
<1>4. CASE /\ Tempo!Setup.id \notin DOMAIN keychains
           /\ keychains' = [id \in DOMAIN keychains \cup {Tempo!Setup.id} |->
                             IF id = Tempo!Setup.id THEN [pool |-> Tempo!Setup.pool] ELSE keychains[id]]
           /\ progress' = [progress EXCEPT !.account = 1]
  <2>1. /\ progress' \in [at : {"setup", "workload", "failed"}, step : Nat \ {0}, account : Nat,
                          done : {progress.done}, errors : {progress.errors}]
        /\ progress'.at = "setup" /\ progress'.account = 1 /\ progress'.step = progress.step /\ progress.done = {}
    BY <1>2, <1>4, ProgressFacts
  <2>2. Tempo!Setup' = Tempo!Setup /\ Tempo!InSetup'
    BY <1>1, <2>1 DEF Tempo!Setup, Tempo!InSetup
  <2>3. TempoTypes' /\ LaneInv' /\ IdentityInv' /\ Tempo!KeysAreAuthorized'
    <3>1. StepsDone = {} /\ StepsDone' = {}
      BY <1>2, <2>1 DEF StepsDone
    <3> QED BY <1>1, <2>1, <3>1, QuietKeeps
  <2>4. DOMAIN keychains' = DOMAIN keychains \cup {Tempo!Setup.id} /\ keychains'[Tempo!Setup.id].pool = Tempo!Setup.pool
    BY <1>4
  <2>5. ASSUME NEW id \in DOMAIN keychains'
        PROVE  /\ keychains'[id].pool \in DOMAIN config.pools
               /\ \A a \in DOMAIN config.pools[keychains'[id].pool] :
                    \/ Tempo!Setup.id = id /\ a >= progress'.account
                    \/ <<config.pools[keychains'[id].pool][a], <<id, a>>>> \in Granted
    <3>1. CASE id = Tempo!Setup.id
      <4>1. DOMAIN config.pools[Tempo!Setup.pool] = 1 .. Len(config.pools[Tempo!Setup.pool])
        BY <1>1, <1>2, SetupFacts, TempoInputs
      <4>2. \A a \in DOMAIN config.pools[Tempo!Setup.pool] : a >= progress'.account
        <5>1. \A a \in 1 .. Len(config.pools[Tempo!Setup.pool]) : a >= 1
          BY <1>2
        <5> QED BY <2>1, <4>1, <5>1
      <4> QED BY <1>2, <2>4, <3>1, <4>2
    <3>2. CASE id # Tempo!Setup.id
      <4>1. id \in DOMAIN keychains /\ keychains'[id] = keychains[id]
        BY <1>4, <2>4, <3>2
      <4>2. KeychainInv
        BY DEF TempoInv
      <4> QED BY <1>1, <1>2, <4>1, <4>2 DEF KeychainInv
    <3> QED BY <3>1, <3>2
  <2>6. KeychainInv'
    <3>1. progress'.account <= Len(config.pools[Tempo!Setup.pool])
      <4>1. PICK n \in Nat \ {0} : n = Len(config.pools[Tempo!Setup.pool])
        BY <1>2
      <4> QED BY <2>1, <4>1
    <3>2. progress'.account = 1 /\ config' = config /\ Granted' = Granted /\ Tempo!Setup.template = 0
      BY <1>1, <2>1 DEF Granted
    <3>3. (progress.account # 0 /\ progress.at # "failed" =>
            /\ Tempo!InSetup /\ Tempo!Setup.template = 0 /\ Tempo!Setup.id \in DOMAIN keychains
            /\ keychains[Tempo!Setup.id].pool = Tempo!Setup.pool
            /\ progress.account <= Len(config.pools[Tempo!Setup.pool]))'
      BY <2>2, <2>4, <3>1, <3>2
    <3>4. (\A id \in DOMAIN keychains :
             /\ keychains[id].pool \in DOMAIN config.pools
             /\ \A a \in DOMAIN config.pools[keychains[id].pool] :
                  \/ progress.account # 0 /\ Tempo!Setup.id = id /\ a >= progress.account
                  \/ <<config.pools[keychains[id].pool][a], <<id, a>>>> \in Granted)'
      <4>1. progress'.account # 0
        BY <3>2
      <4> QED BY <2>2, <2>5, <3>2, <4>1
    <3> QED BY <2>3, <3>3, <3>4 DEF KeychainInv
  <2> QED BY <2>3, <2>6 DEF TempoInv
<1> QED BY <1>3, <1>4 DEF Tempo!ExpandKeychain

\* What a setup step builds from.
LEMMA SetupTemplateFacts ==
    ASSUME TempoInv, Tempo!InSetup, Tempo!Setup.template # 0 \/ progress.account # 0
    PROVE  /\ Usable(Tempo!SetupTemplate(progress.account))
           /\ Tempo!SetupTemplate(progress.account).auth = "keychain" => progress.account = 0
           /\ Tempo!Setup.template # 0 => progress.account = 0
           /\ Tempo!Setup.template = 0 =>
                /\ Tempo!SetupTemplate(progress.account).pool = Tempo!Setup.pool
                /\ Tempo!SetupTemplate(progress.account).index = progress.account
                /\ progress.account \in 1 .. Len(config.pools[Tempo!Setup.pool])
<1>1. /\ Tempo!Setup.template \in {0} \cup DOMAIN config.templates /\ Tempo!Setup.pool \in DOMAIN config.pools
      /\ Len(config.pools[Tempo!Setup.pool]) \in Nat \ {0} /\ config \in TempoRuns /\ progress.at = "setup"
  BY SetupFacts
<1>2. Tempo!Setup.template # 0 => progress.account = 0
  BY <1>1, ProgressFacts
<1>3. CASE Tempo!Setup.template # 0
  BY <1>1, <1>2, <1>3, TempoInputs DEF Tempo!SetupTemplate
<1>4. CASE Tempo!Setup.template = 0
  <2>1. /\ Usable(config.keychain) /\ config.keychain.auth = "none"
        /\ {"pool", "index", "keys", "auth", "fee", "first", "range"} \subseteq DOMAIN config.keychain
    BY <1>1, TempoInputs
  <2>2. progress.account \in 1 .. Len(config.pools[Tempo!Setup.pool])
    <3>1. PICK n \in Nat : n = Len(config.pools[Tempo!Setup.pool])
      BY <1>1
    <3>2. PICK m \in Nat \ {0} : m = progress.account
      BY <1>4, ProgressFacts
    <3>3. m <= n
      BY <1>1, <3>1, <3>2, ProgressFacts
    <3> QED BY <3>1, <3>2, <3>3
  <2>3. PICK t : t = Tempo!SetupTemplate(progress.account)
    OBVIOUS
  <2>4. /\ t.pool = Tempo!Setup.pool /\ t.index = progress.account /\ t.keys = config.keychain.keys /\ t.auth = "none"
        /\ t.fee = config.keychain.fee /\ t.first = config.keychain.first /\ t.range = config.keychain.range
    BY <1>4, <2>1, <2>3 DEF Tempo!SetupTemplate
  <2>5. Usable(t)
    BY <1>1, <2>1, <2>2, <2>4 DEF Usable
  <2> QED BY <1>4, <2>2, <2>3, <2>4, <2>5
<1> QED BY <1>3, <1>4

LEMMA SetupTransactionKeeps == ASSUME TempoInv, Tempo!SetupTransaction PROVE TempoInv'
<1> DEFINE t == Tempo!SetupTemplate(progress.account)
           a == IF Tempo!Setup.template = 0 THEN <<Tempo!Setup.id, progress.account>> ELSE <<>>
           last == Tempo!Setup.template # 0 \/ progress.account = Len(config.pools[Tempo!Setup.pool])
<1>1. Tempo!InSetup /\ (Tempo!Setup.template # 0 \/ progress.account # 0) /\ UNCHANGED <<config, keychains>>
  BY SMTT(60) DEF Tempo!SetupTransaction
<1> DEFINE Does(draws, answers) ==
             LET built == Tempo!Build(t, draws, Tempo!NoHint, Tempo!NoHint, answers)
             IN  /\ tracker' = built.tracker
                 /\ txs' = txs \o [k \in DOMAIN built.tx |-> [built.tx[k] EXCEPT !.authorizes = a]]
                 /\ IF built.error # "none" THEN Tempo!Fails
                    ELSE progress' = IF last THEN [progress EXCEPT !.step = @ + 1, !.account = 0]
                                     ELSE [progress EXCEPT !.account = @ + 1]
<1>2. \E draws \in Tempo!Draws : \E answers \in BOOLEAN : Does(draws, answers)
  BY DEF Tempo!SetupTransaction
<1> HIDE DEF Does
<1>3. PICK draws \in Tempo!Draws : \E answers \in BOOLEAN : Does(draws, answers)
  BY <1>2
<1>3a. PICK answers \in BOOLEAN : Does(draws, answers)
  BY <1>3
<1>4. PICK b : b = Tempo!Build(t, draws, Tempo!NoHint, Tempo!NoHint, answers)
  OBVIOUS
<1> HIDE DEF t, a, last
<1>5. /\ tracker' = b.tracker /\ txs' = txs \o [k \in DOMAIN b.tx |-> [b.tx[k] EXCEPT !.authorizes = a]]
      /\ b.error # "none" => Tempo!Fails
      /\ b.error = "none" => progress' = IF last THEN [progress EXCEPT !.step = @ + 1, !.account = 0]
                                         ELSE [progress EXCEPT !.account = @ + 1]
  BY <1>3a, <1>4 DEF Does
<1>6. TempoTypes /\ LaneInv /\ IdentityInv /\ KeychainInv /\ config' = config /\ keychains' = keychains
  BY <1>1 DEF TempoInv
<1>7. /\ Usable(t) /\ (t.auth = "keychain" => progress.account = 0)
      /\ Tempo!Setup.template # 0 => progress.account = 0
      /\ Tempo!Setup.template = 0 => /\ t.pool = Tempo!Setup.pool /\ t.index = progress.account
                                     /\ progress.account \in 1 .. Len(config.pools[Tempo!Setup.pool])
  BY <1>1, SetupTemplateFacts DEF t
<1>8. Built(b, t, draws, Tempo!NoHint, Tempo!NoHint) /\ Sends(b, a)
  <2>1. Built(b, t, draws, Tempo!NoHint, Tempo!NoHint)
    BY <1>4, <1>6, <1>7, BuildFacts DEF Given
  <2> QED BY <1>5, <1>6, <2>1, Sending
<1>9. /\ progress.at = "setup" /\ progress.done = {} /\ Len(config.pools[Tempo!Setup.pool]) \in Nat \ {0}
      /\ Tempo!Setup.pool \in DOMAIN config.pools /\ "unprepared" \notin progress.errors /\ config \in TempoRuns
  BY <1>1, <1>6, SetupFacts, ProgressFacts DEF LaneInv
<1>10. /\ progress' \in [at : {"prefetch", "setup", "workload", "failed"}, step : Nat \ {0}, account : Nat,
                         done : {progress'.done}, errors : {progress'.errors}]
       /\ progress'.at = (IF b.error = "none" THEN "setup" ELSE "failed") /\ progress'.done = {}
       /\ progress'.errors = progress.errors
       /\ b.error = "none" =>
            IF last THEN progress'.account = 0
            ELSE progress'.account = progress.account + 1 /\ progress'.step = progress.step
  <2>1. progress \in [at : {"prefetch", "setup", "workload", "failed"}, step : Nat \ {0}, account : Nat,
                      done : {progress.done}, errors : {progress.errors}]
    BY ProgressFacts
  <2>2. CASE b.error # "none"
    <3>1. progress' = [progress EXCEPT !.at = "failed"]
      BY <1>5, <2>2 DEF Tempo!Fails
    <3> QED BY <1>9, <2>1, <2>2, <3>1
  <2>3. CASE b.error = "none" /\ last
    <3>1. progress' = [progress EXCEPT !.step = @ + 1, !.account = 0]
      BY <1>5, <2>3
    <3>2. PICK n \in Nat \ {0} : n = progress.step + 1
      BY <2>1
    <3>3. progress' = [at |-> progress.at, step |-> n, account |-> 0, done |-> progress.done, errors |-> progress.errors]
      BY <2>1, <3>1, <3>2
    <3> QED BY <1>9, <2>3, <3>3
  <2>4. CASE b.error = "none" /\ ~last
    <3>1. progress' = [progress EXCEPT !.account = @ + 1]
      BY <1>5, <2>4
    <3> QED BY <1>9, <2>1, <2>4, <3>1
  <2> QED BY <2>2, <2>3, <2>4
<1>11. StepsDone = {} /\ StepsDone' = {}
  BY <1>9, <1>10 DEF StepsDone
<1>12. /\ LaneInv' /\ tracker' \in [lanes : {tracker'.lanes}, bumps : Nat, inline : Nat]
       /\ DOMAIN Lanes' \subseteq Tempo!Accounts \X Nat /\ txs' \in Seq(Tempo!Range(txs'))
  BY <1>5, <1>6, <1>7, <1>8, <1>9, <1>10, LanesKeep
<1>13. TempoTypes'
  <2>1. Tempo!Accounts' = Tempo!Accounts /\ Tempo!Range(txs)' = Tempo!Range(txs')
    BY <1>6 DEF Tempo!Accounts, Tempo!Range
  <2>2. progress'.at # "prefetch"
    BY <1>10
  <2> QED BY <1>6, <1>9, <1>10, <1>11, <1>12, <2>1, <2>2 DEF TempoTypes
<1>14. IdentityInv'
  BY <1>5, <1>6, <1>8, <1>11, CountedIdentities
<1>15. /\ Tempo!KeysAreAuthorized' /\ Granted \subseteq Granted'
       /\ b.error = "none" => <<config.pools[t.pool][Tempo!Signer(t, draws)], a>> \in Granted'
  BY <1>6, <1>7, <1>8, <1>9, KeysStay
<1>16. CASE b.error # "none"
  <2>1. progress'.at = "failed"
    BY <1>10, <1>16
  <2> QED BY <1>12, <1>13, <1>14, <1>15, <2>1 DEF TempoInv, KeychainInv
<1>17. CASE b.error = "none"
  \* The account of the step is authorized now.
  <2>1. Tempo!Setup.template = 0 =>
          <<config.pools[Tempo!Setup.pool][progress.account], <<Tempo!Setup.id, progress.account>>>> \in Granted'
    <3>1. Tempo!Setup.template = 0 => Tempo!Signer(t, draws) = progress.account /\ a = <<Tempo!Setup.id, progress.account>>
      BY <1>7, <1>9, LaneFacts DEF a
    <3> QED BY <1>7, <1>15, <1>17, <3>1
  <2>2. ASSUME NEW id \in DOMAIN keychains, NEW c \in DOMAIN config.pools[keychains[id].pool]
        PROVE  \/ ~last /\ Tempo!Setup.id = id /\ c > progress.account
               \/ <<config.pools[keychains[id].pool][c], <<id, c>>>> \in Granted'
    <3>1. keychains[id].pool \in DOMAIN config.pools
      BY <1>6, <1>9 DEF KeychainInv
    <3>2. c \in 1 .. Len(config.pools[keychains[id].pool]) /\ Len(config.pools[keychains[id].pool]) \in Nat
      BY <1>9, <3>1, TempoInputs
    <3>3. \/ progress.account # 0 /\ Tempo!Setup.id = id /\ c >= progress.account
          \/ <<config.pools[keychains[id].pool][c], <<id, c>>>> \in Granted
      BY <1>6, <1>9 DEF KeychainInv
    <3>4. CASE <<config.pools[keychains[id].pool][c], <<id, c>>>> \in Granted
      BY <1>15, <3>4
    <3>5. CASE progress.account # 0 /\ Tempo!Setup.id = id /\ c >= progress.account
      <4>1. Tempo!Setup.template = 0 /\ keychains[id].pool = Tempo!Setup.pool
        BY <1>9, <3>5, ProgressFacts
      <4>2. CASE c = progress.account
        BY <2>1, <3>5, <4>1, <4>2
      <4>3. CASE c # progress.account
        <5>1. PICK m \in Nat : m = progress.account
          BY <1>7, <4>1
        <5>2. c \in Nat /\ c > m
          BY <3>2, <3>5, <4>3, <5>1
        <5>3. ~last
          BY <3>2, <4>1, <5>1, <5>2 DEF last
        <5> QED BY <3>5, <5>1, <5>2, <5>3
      <4> QED BY <4>2, <4>3
    <3> QED BY <3>3, <3>4, <3>5
  <2>3. \A id \in DOMAIN keychains : keychains[id].pool \in DOMAIN config.pools
    BY <1>6, <1>9 DEF KeychainInv
  <2>4. CASE last
    <3>1. progress'.account = 0
      BY <1>10, <1>17, <2>4
    <3>2. \A id \in DOMAIN keychains : \A c \in DOMAIN config.pools[keychains[id].pool] :
            <<config.pools[keychains[id].pool][c], <<id, c>>>> \in Granted'
      BY <2>2, <2>4
    <3>3. KeychainInv'
      BY <1>6, <1>15, <2>3, <3>1, <3>2 DEF KeychainInv
    <3> QED BY <1>12, <1>13, <1>14, <3>3 DEF TempoInv
  <2>5. CASE ~last
    <3>1. PICK m \in Nat : m = progress.account /\ m < Len(config.pools[Tempo!Setup.pool]) /\ Tempo!Setup.template = 0
      <4>1. PICK n \in Nat : n = Len(config.pools[Tempo!Setup.pool])
        BY <1>9
      <4>2. Tempo!Setup.template = 0 /\ progress.account \in 1 .. n /\ progress.account # n
        BY <1>7, <2>5, <4>1 DEF last
      <4> QED BY <4>1, <4>2
    <3>2. progress'.account = m + 1 /\ progress'.step = progress.step /\ progress'.at = "setup"
      BY <1>10, <1>17, <2>5, <3>1
    <3>3. Tempo!Setup' = Tempo!Setup /\ Tempo!InSetup'
      BY <1>1, <1>6, <3>2 DEF Tempo!Setup, Tempo!InSetup
    <3>4. m # 0 /\ Tempo!Setup.id \in DOMAIN keychains /\ keychains[Tempo!Setup.id].pool = Tempo!Setup.pool
      BY <1>1, <1>9, <3>1, ProgressFacts
    <3>5. m + 1 <= Len(config.pools[Tempo!Setup.pool])
      BY <1>9, <3>1
    <3>6. (progress.account # 0 /\ progress.at # "failed" =>
            /\ Tempo!InSetup /\ Tempo!Setup.template = 0 /\ Tempo!Setup.id \in DOMAIN keychains
            /\ keychains[Tempo!Setup.id].pool = Tempo!Setup.pool
            /\ progress.account <= Len(config.pools[Tempo!Setup.pool]))'
      BY <1>6, <3>1, <3>2, <3>3, <3>4, <3>5
    <3>7. ASSUME NEW id \in DOMAIN keychains, NEW c \in DOMAIN config.pools[keychains[id].pool]
          PROVE  \/ Tempo!Setup.id = id /\ c >= progress'.account
                 \/ <<config.pools[keychains[id].pool][c], <<id, c>>>> \in Granted'
      <4>1. c \in Nat
        BY <1>9, <2>3, TempoInputs
      <4>2. c > m => c >= progress'.account
        BY <3>2, <4>1
      <4> QED BY <2>2, <3>1, <4>2
    <3>8. progress'.account # 0
      BY <3>2
    <3>9. (\A id \in DOMAIN keychains :
             /\ keychains[id].pool \in DOMAIN config.pools
             /\ \A c \in DOMAIN config.pools[keychains[id].pool] :
                  \/ progress.account # 0 /\ Tempo!Setup.id = id /\ c >= progress.account
                  \/ <<config.pools[keychains[id].pool][c], <<id, c>>>> \in Granted)'
      BY <1>6, <2>3, <3>3, <3>7, <3>8
    <3>10. KeychainInv'
      BY <1>15, <3>6, <3>9 DEF KeychainInv
    <3> QED BY <1>12, <1>13, <1>14, <3>10 DEF TempoInv
  <2> QED BY <2>4, <2>5
<1> QED BY <1>16, <1>17

\* A build of the workload, when the setup is over.
LEMMA WorkloadKeeps ==
    ASSUME TempoInv, progress.at = "workload", UNCHANGED <<config, keychains>>, NEW t, Usable(t), NEW draws \in Tempo!Draws,
           NEW hint, NEW dense, Given(hint), Given(dense), NEW answers \in BOOLEAN, NEW b, b = Tempo!Build(t, draws, hint, dense, answers),
           tracker' = b.tracker, txs' = txs \o b.tx,
           progress' \in [at : {"workload", "failed"}, step : Nat \ {0}, account : {progress.account},
                         done : {progress'.done}, errors : {progress'.errors}],
           "unprepared" \notin progress'.errors, StepsDone' \subseteq Nat \X DOMAIN config.steps
    PROVE  /\ Built(b, t, draws, hint, dense) /\ Sends(b, <<>>)
           /\ TempoTypes' /\ LaneInv' /\ KeychainInv'
<1>1. TempoTypes /\ LaneInv /\ IdentityInv /\ KeychainInv /\ config' = config /\ keychains' = keychains
  BY DEF TempoInv
<1>2. Built(b, t, draws, hint, dense)
  BY <1>1, BuildFacts
<1>3. Sends(b, <<>>)
  BY <1>1, <1>2, Sending
<1>4. progress.account = 0 /\ config \in TempoRuns
  BY <1>1, ProgressFacts DEF TempoTypes
<1>5. /\ progress' \in [at : {"prefetch", "setup", "workload", "failed"}, step : Nat \ {0}, account : Nat,
                        done : {progress'.done}, errors : {progress'.errors}]
      /\ progress'.at \in {"workload", "failed"} /\ progress'.account = 0
  BY <1>4
<1>6. /\ LaneInv' /\ tracker' \in [lanes : {tracker'.lanes}, bumps : Nat, inline : Nat]
      /\ DOMAIN Lanes' \subseteq Tempo!Accounts \X Nat /\ txs' \in Seq(Tempo!Range(txs'))
  BY <1>1, <1>2, <1>3, LanesKeep
<1>7. TempoTypes'
  <2>1. Tempo!Accounts' = Tempo!Accounts /\ Tempo!Range(txs)' = Tempo!Range(txs')
    BY <1>1 DEF Tempo!Accounts, Tempo!Range
  <2> QED BY <1>1, <1>4, <1>5, <1>6, <2>1 DEF TempoTypes
<1>8. KeychainInv'
  <2>1. Tempo!KeysAreAuthorized' /\ Granted \subseteq Granted'
    BY <1>1, <1>2, <1>3, <1>4, KeysStay
  <2>2. \A id \in DOMAIN keychains :
          /\ keychains[id].pool \in DOMAIN config.pools
          /\ \A a \in DOMAIN config.pools[keychains[id].pool] :
               <<config.pools[keychains[id].pool][a], <<id, a>>>> \in Granted'
    <3>1. KeychainInv /\ progress.at # "failed" /\ progress.account = 0
      BY <1>1, <1>4
    <3> QED BY <2>1, <3>1 DEF KeychainInv
  <2>3. progress'.account = 0 /\ config' = config /\ keychains' = keychains /\ Tempo!KeysAreAuthorized'
    BY <1>1, <1>5, <2>1
  <2> QED BY <2>2, <2>3 DEF KeychainInv
<1> QED BY <1>2, <1>3, <1>6, <1>7, <1>8

LEMMA GenerateKeeps == ASSUME TempoInv, Tempo!Generate PROVE TempoInv'
<1>1. progress.at = "workload" /\ ~Tempo!Scenario /\ UNCHANGED <<config, keychains>>
  BY DEF Tempo!Generate
<1> DEFINE Does(k, draws, answers) ==
             LET built == Tempo!Build(config.templates[k], draws, Tempo!NoHint, Tempo!NoHint, answers)
             IN  /\ tracker' = built.tracker /\ txs' = txs \o built.tx
                 /\ IF built.error # "none" THEN Tempo!Fails
                    ELSE progress' = [progress EXCEPT !.done = @ \cup {<<Tempo!Cardinality(@), k>>}]
<1>2. \E k \in config.mix : \E draws \in Tempo!Draws : \E answers \in BOOLEAN : Does(k, draws, answers)
  BY DEF Tempo!Generate
<1> HIDE DEF Does
<1>3. PICK k \in config.mix : \E draws \in Tempo!Draws : \E answers \in BOOLEAN : Does(k, draws, answers)
  BY <1>2
<1>3a. PICK draws \in Tempo!Draws : \E answers \in BOOLEAN : Does(k, draws, answers)
  BY <1>3
<1>4. PICK answers \in BOOLEAN : Does(k, draws, answers)
  BY <1>3a
<1>5. PICK b : b = Tempo!Build(config.templates[k], draws, Tempo!NoHint, Tempo!NoHint, answers)
  OBVIOUS
<1>6. PICK more : more = progress.done \cup {<<Tempo!Cardinality(progress.done), k>>}
  OBVIOUS
<1>7. /\ tracker' = b.tracker /\ txs' = txs \o b.tx
      /\ progress' = [progress EXCEPT !.at = "failed"] \/ progress' = [progress EXCEPT !.done = more]
  BY <1>4, <1>5, <1>6 DEF Tempo!Fails, Does
<1>8. /\ progress' \in [at : {"workload", "failed"}, step : Nat \ {0}, account : {progress.account},
                        done : {progress'.done}, errors : {progress'.errors}]
      /\ progress'.errors = progress.errors
  BY <1>1, <1>7, ProgressFacts
<1>9. /\ "unprepared" \notin progress'.errors /\ config \in TempoRuns
      /\ StepsDone = {} /\ StepsDone' = {}
  BY <1>1, <1>8 DEF TempoInv, LaneInv, TempoTypes, StepsDone, Tempo!Scenario
<1>10. Usable(config.templates[k])
  BY <1>9, TempoInputs
<1>11. /\ Built(b, config.templates[k], draws, Tempo!NoHint, Tempo!NoHint) /\ Sends(b, <<>>)
       /\ TempoTypes' /\ LaneInv' /\ KeychainInv'
  BY <1>1, <1>5, <1>7, <1>8, <1>9, <1>10, WorkloadKeeps DEF Given
<1>12. IdentityInv'
  BY <1>7, <1>9, <1>11, CountedIdentities DEF TempoInv
<1> QED BY <1>11, <1>12 DEF TempoInv

LEMMA StepKeeps == ASSUME TempoInv, Tempo!Step PROVE TempoInv'
<1>1. progress.at = "workload" /\ Tempo!Scenario /\ UNCHANGED <<config, keychains>>
  BY SMTT(60) DEF Tempo!Step
<1> DEFINE Does(i, s, draws, answers) ==
             /\ <<i, s>> \notin progress.done
             /\ LET built == Tempo!Build(config.templates[config.steps[s]], draws, Tempo!Hint(i, s), Tempo!Dense(i, s), answers)
                IN  /\ tracker' = built.tracker /\ txs' = txs \o built.tx
                    /\ progress' = [progress EXCEPT !.done = @ \cup {<<i, s>>}, !.errors = @ \cup ({built.error} \ {"none"})]
<1>2. \E i \in 0 .. config.instances - 1 : \E s \in DOMAIN config.steps : \E draws \in Tempo!Draws :
        \E answers \in BOOLEAN : Does(i, s, draws, answers)
  BY DEF Tempo!Step
<1> HIDE DEF Does
<1>3. PICK i \in 0 .. config.instances - 1 : \E s \in DOMAIN config.steps : \E draws \in Tempo!Draws :
        \E answers \in BOOLEAN : Does(i, s, draws, answers)
  BY <1>2
<1>3a. PICK s \in DOMAIN config.steps : \E draws \in Tempo!Draws : \E answers \in BOOLEAN : Does(i, s, draws, answers)
  BY <1>3
<1>4. PICK draws \in Tempo!Draws : \E answers \in BOOLEAN : Does(i, s, draws, answers)
  BY <1>3a
<1>5. PICK answers \in BOOLEAN : Does(i, s, draws, answers)
  BY <1>4
<1>6. PICK b : b = Tempo!Build(config.templates[config.steps[s]], draws, Tempo!Hint(i, s), Tempo!Dense(i, s), answers)
  OBVIOUS
<1>7. PICK more : more = progress.done \cup {<<i, s>>}
  OBVIOUS
<1>8. PICK errors : errors = progress.errors \cup ({b.error} \ {"none"})
  OBVIOUS
<1>9. /\ <<i, s>> \notin progress.done /\ tracker' = b.tracker /\ txs' = txs \o b.tx
      /\ progress' = [progress EXCEPT !.done = more, !.errors = errors]
  BY <1>5, <1>6, <1>7, <1>8 DEF Does
<1>10. /\ progress' \in [at : {"workload", "failed"}, step : Nat \ {0}, account : {progress.account},
                         done : {progress'.done}, errors : {progress'.errors}]
       /\ progress'.errors = errors /\ progress'.done = more /\ progress'.at = "workload"
  BY <1>1, <1>9, ProgressFacts
<1>11. /\ config \in TempoRuns /\ i \in Nat /\ config' = config
       /\ StepsDone = progress.done /\ StepsDone' = StepsDone \cup {<<i, s>>}
       /\ StepsDone \subseteq Nat \X DOMAIN config.steps
  <2>1. config \in TempoRuns /\ StepsDone \subseteq Nat \X DOMAIN config.steps
    BY DEF TempoInv, TempoTypes
  <2>2. i \in Nat
    BY <2>1, TempoInputs
  <2> QED BY <1>1, <1>7, <1>10, <2>1, <2>2 DEF StepsDone, Tempo!Scenario
<1>12. Usable(config.templates[config.steps[s]])
  <2>1. config.steps[s] \in DOMAIN config.templates
    BY <1>11, TempoInputs
  <2> QED BY <1>11, <2>1, TempoInputs
<1>12a. Given(Tempo!Hint(i, s)) /\ Given(Tempo!Dense(i, s))
  <2>1. Tempo!Hint(i, s) \in Nat /\ (s \in Tempo!Inline => Tempo!Dense(i, s) \in Nat)
    BY <1>11, StepNumbers
  <2>2. s \notin Tempo!Inline => Tempo!Dense(i, s) = Tempo!NoHint
    BY DEF Tempo!Dense
  <2> QED BY <2>1, <2>2 DEF Given
<1>13. "unprepared" \notin progress'.errors
  <2>1. b.error # "unprepared"
    BY <1>6, <1>12, <1>12a, BuildFacts DEF TempoInv, Built
  <2> QED BY <1>8, <1>10, <2>1 DEF TempoInv, LaneInv
<1>14. StepsDone' \subseteq Nat \X DOMAIN config.steps
  BY SMTT(60), <1>11
<1>15. /\ Built(b, config.templates[config.steps[s]], draws, Tempo!Hint(i, s), Tempo!Dense(i, s)) /\ Sends(b, <<>>)
       /\ TempoTypes' /\ LaneInv' /\ KeychainInv'
  BY <1>1, <1>6, <1>9, <1>10, <1>12, <1>12a, <1>13, <1>14, WorkloadKeeps
<1>16. IdentityInv'
  BY <1>9, <1>11, <1>15, NumberedIdentities DEF TempoInv
<1> QED BY SMTT(60), <1>15, <1>16 DEF TempoInv

LEMMA TempoInvStep == ASSUME TempoInv, Tempo!Next PROVE TempoInv'
BY PrefetchKeeps, ExpandKeychainKeeps, SetupTransactionKeeps, StartWorkloadKeeps, GenerateKeeps, StepKeeps DEF Tempo!Next

LEMMA TempoInvStutter == ASSUME TempoInv, UNCHANGED <<config, TempoVars>> PROVE TempoInv'
<1>1. UNCHANGED <<config, tracker, keychains, progress, txs>>
  BY DEF TempoVars
<1>2. /\ StepsDone' = StepsDone /\ Tempo!Setup' = Tempo!Setup /\ (Tempo!InSetup' <=> Tempo!InSetup)
      /\ Lanes' = Lanes /\ Tempo!Accounts' = Tempo!Accounts /\ Tempo!Range(txs)' = Tempo!Range(txs)
      /\ Tempo!Inline' = Tempo!Inline
      /\ \A l : First(l)' = First(l) /\ Mine(l)' = Mine(l)
  BY <1>1 DEF StepsDone, Tempo!Setup, Tempo!InSetup, Lanes, Tempo!Accounts, Tempo!Range, Tempo!Inline, First, Mine, Counts,
              Tempo!OnChain, Tempo!Scenario
<1>3. \A l, k : Before(l, k)' = Before(l, k)
  BY <1>2 DEF Before
<1>4. BumpsTaken' = BumpsTaken /\ KeysTaken' = KeysTaken
  <2>1. \A i, s : Tempo!Hint(i, s)' = Tempo!Hint(i, s) /\ Tempo!Dense(i, s)' = Tempo!Dense(i, s)
    BY <1>1, <1>2 DEF Tempo!Hint, Tempo!Dense
  <2> QED BY <1>1, <1>2, <2>1 DEF BumpsTaken, KeysTaken
<1>5. TempoTypes'
  BY <1>1, <1>2 DEF TempoInv, TempoTypes
<1>6. LaneInv'
  BY <1>1, <1>2, <1>3 DEF TempoInv, LaneInv
<1>7. IdentityInv'
  BY <1>1, <1>4 DEF TempoInv, IdentityInv, Apart, Derived
<1>8. KeychainInv'
  <2>1. Granted' = Granted /\ KeychainInv
    BY <1>1 DEF Granted, TempoInv
  <2>2. Tempo!KeysAreAuthorized'
    BY <1>1, <2>1 DEF KeychainInv, Tempo!KeysAreAuthorized
  <2> QED BY <1>1, <1>2, <2>1, <2>2 DEF KeychainInv
<1> QED BY <1>5, <1>6, <1>7, <1>8 DEF TempoInv

\* Fees that are configured alike differ as the bumps do.  Keys of sources that
\* start alike differ as the numbers do; others can only meet where both reach.
LEMMA SignedApart == ASSUME IdentityInv PROVE Tempo!IdentitiesAreUnique
<1>1. SUFFICES ASSUME NEW k \in DOMAIN txs, NEW l \in DOMAIN txs, k < l
               PROVE  /\ txs[k].bump # 0 /\ txs[l].bump # 0 /\ txs[k].fee = txs[l].fee => txs[k].base # txs[l].base
                      /\ txs[k].key # <<>> /\ txs[k].key = txs[l].key => Tempo!Crossing(txs[k].source, txs[l].source)
  BY DEF Tempo!IdentitiesAreUnique
<1>2. Apart(txs[k], txs[l]) /\ Derived(txs[k]) /\ Derived(txs[l])
  BY <1>1 DEF IdentityInv
<1>3. txs[k].bump # 0 /\ txs[l].bump # 0 /\ txs[k].fee = txs[l].fee => txs[k].base # txs[l].base
  BY <1>2 DEF Apart, Derived
<1>4. ASSUME txs[k].key # <<>>, txs[k].key = txs[l].key PROVE Tempo!Crossing(txs[k].source, txs[l].source)
  <2>1. PICK a, m, i : a = txs[k].source.first /\ m = txs[k].source.range /\ i = txs[k].inline
    OBVIOUS
  <2>2. PICK b, n, j : b = txs[l].source.first /\ n = txs[l].source.range /\ j = txs[l].inline
    OBVIOUS
  <2>3. /\ {a, b, m, n, i, j} \subseteq Nat /\ i # 0 /\ j # 0 /\ i # j
        /\ (m # 0 => i <= m) /\ (n # 0 => j <= n)
    BY <1>2, <1>4, <2>1, <2>2 DEF Apart, Derived
  <2>4. a + (i - 1) = b + (j - 1)
    BY <1>2, <1>4, <2>1, <2>2 DEF Derived
  <2>5. a # b /\ (m = 0 \/ b < a + m) /\ (n = 0 \/ a < b + n)
    BY <2>3, <2>4
  <2> QED BY <2>1, <2>2, <2>5 DEF Tempo!Crossing
<1> QED BY <1>3, <1>4

\* Whatever is asked for, nonces and keys are told apart and are in order.
LEMMA TempoIsGood ==
    ASSUME TempoInv
    PROVE  /\ Tempo!LanesAreContiguous /\ Tempo!StepsArePrepared
           /\ Tempo!IdentitiesAreUnique /\ Tempo!KeysAreAuthorized
<1>1. ASSUME NEW lane \in DOMAIN tracker.lanes
      PROVE  LET mine == {k \in DOMAIN txs : txs[k].lane = lane /\ (Tempo!Scenario \/ ~txs[k].explicit)}
                 first == IF config.mode = "offline" THEN 0 ELSE Tempo!OnChain(lane)
             IN  \A k \in mine : txs[k].nonce = first + Tempo!Cardinality({j \in mine : j < k})
  <2>1. {k \in DOMAIN txs : txs[k].lane = lane /\ (Tempo!Scenario \/ ~txs[k].explicit)} = Mine(lane)
    BY DEF Mine, Counts
  <2>2. (IF config.mode = "offline" THEN 0 ELSE Tempo!OnChain(lane)) = First(lane)
    BY DEF First
  <2>3. \A k \in Mine(lane) : txs[k].nonce = First(lane) + Cardinality({j \in Mine(lane) : j < k})
    BY DEF TempoInv, LaneInv, Lanes, Before
  <2> QED BY <2>1, <2>2, <2>3, TempoCount
<1>2. Tempo!LanesAreContiguous
  BY <1>1 DEF Tempo!LanesAreContiguous
<1>3. Tempo!IdentitiesAreUnique
  BY SignedApart DEF TempoInv
<1> QED BY <1>2, <1>3 DEF TempoInv, LaneInv, KeychainInv, Tempo!StepsArePrepared

-----------------------------------------------------------------------------
(* The log scanner and the waits of a scenario                             *)

\* The blocks that a chain may have, and the hashes: chains up to a block.
Blocks == [log : {Waits!NoLog} \cup UNION {{c.want[w].topic : w \in DOMAIN c.want} : c \in WaitConfigs}, fork : Nat]
Hashes == Seq(Blocks)
Chains == past \cup {chain}
Contains(c, h) == Len(h) <= Len(c) /\ \A k \in 1 .. Len(h) : c[k] = h[k]

Logs(w) == w \in Waits!Wait /\ config.want[w].kind = "log"
Receipts(w) == w \in Waits!Wait /\ config.want[w].kind = "receipt"
From(w) == config.want[w].start

Hubs == [generation : Nat, interests : SUBSET Waits!Wait, running : BOOLEAN, checkpoint : Hashes \cup {Waits!None},
         epoch : Nat, failures : Nat, errors : Nat]
Scans == [at : {"off", "tick", "head", "checkpoint", "logs"}, generation : Nat, plan : SUBSET Waits!Wait,
          hash : Hashes \cup {Waits!None}, head : Nat, cursor : Nat, start : Nat, logs : SUBSET Hashes]
Windows == [generation : Nat, ok : BOOLEAN, epoch : Nat, head : Nat, start : Nat, logs : SUBSET Hashes]
WaitTypes ==
    /\ config \in WaitConfigs /\ hub \in Hubs /\ scan \in Scans /\ updates \in Windows
    /\ unseen \subseteq Waits!Wait /\ wait = [w \in Waits!Wait |-> wait[w]]

\* A block is told from the one that replaces it by its fork, so that a block
\* that has left the chain never comes back.
ForkInv ==
    /\ past \subseteq Hashes /\ chain \in Hashes /\ IsFiniteSet(past)
    /\ \A c \in Chains : \A k \in 1 .. Len(c) : c[k].fork <= Cardinality(past)
    /\ \A c \in past : \A k \in 1 .. Len(c) : c[k].fork < Cardinality(past)
    /\ \A c \in past : ~Contains(chain, c)

\* What the scanner reads is of the chain of the head it began with, or else
\* it will see that this head has left the chain.
Scanning == scan.at \in {"head", "checkpoint", "logs"}
Read == {SubSeq(scan.hash, 1, n) : n \in {k \in scan.start .. scan.cursor - 1 : Waits!Selected(scan.hash[k])}}
ScanInv ==
    /\ Scanning =>
         /\ scan.plan # {} /\ scan.generation <= hub.generation
         /\ \A w \in hub.interests : wait[w].generation <= scan.generation => w \in scan.plan
         /\ past = {} /\ updates.ok => updates.head <= scan.head
    /\ scan.at \in {"head", "checkpoint"} => scan.logs = {}
    /\ scan.at \in {"checkpoint", "logs"} =>
         /\ scan.hash \in Hashes /\ Len(scan.hash) = scan.head
         /\ \E c \in Chains : Contains(c, scan.hash)
    /\ scan.at = "logs" =>
         /\ scan.start >= 1 /\ scan.cursor >= scan.start
         /\ scan.cursor = scan.start \/ scan.cursor <= scan.head + 1
         /\ scan.start <= scan.head \/ \A w \in scan.plan : scan.start <= From(w)
         /\ Contains(chain, scan.hash) => scan.logs = Read
    /\ hub.failures <= hub.errors

\* The window that was published last is of one chain, for all who subscribed
\* before it was begun.
Shows(c, w) ==
    /\ updates.start <= updates.head \/ updates.start <= From(w)
    /\ {h \in updates.logs : h[Len(h)].log = Waits!Topic(w)}
         = {SubSeq(c, 1, n) : n \in {k \in updates.start .. updates.head : c[k].log = Waits!Topic(w)}}
WindowInv ==
    /\ updates.generation <= hub.generation
    /\ updates.ok =>
         /\ updates.start >= 1
         /\ \E c \in Chains :
              /\ updates.head <= Len(c)
              /\ \A w \in hub.interests : wait[w].generation \in 1 .. updates.generation => Shows(c, w)

\* Where the record r of wait w may stand.
RecordOk(w, r) ==
    /\ r = [at |-> r.at, generation |-> r.generation, epoch |-> r.epoch, next |-> r.next, head |-> r.head, queue |-> r.queue,
            from |-> r.from, cursor |-> r.cursor, through |-> r.through, before |-> r.before, found |-> r.found,
            depth |-> r.depth, events |-> r.events]
    /\ r.generation \in Nat /\ r.epoch \in Int /\ r.next \in Nat /\ r.head \in Nat /\ r.queue \subseteq Nat /\ r.from \in Nat
    /\ r.cursor \in Nat /\ r.through \in Nat /\ r.before \in Hashes \cup {Waits!None} /\ r.found \in Hashes \cup {Waits!None}
    /\ Logs(w) => r.at \in {"new", "window", "before", "search", "after", "depth", "block", "done", "failed"}
    /\ Receipts(w) => r.at \in {"new", "receipt", "confirm", "refetch", "block", "depth", "done", "failed"}

\* What was found is a match, of a chain that there is or was.
Found(w, r) ==
    /\ r.found # Waits!None =>
         /\ Len(r.found) >= 1 /\ r.found[Len(r.found)].log = Waits!Topic(w)
         /\ \E c \in Chains : Contains(c, r.found)
         /\ Logs(w) => Len(r.found) >= From(w)
    /\ r.at \in {"depth", "block", "done", "confirm", "refetch"} => r.found # Waits!None

\* A receipt's wait looks at the receipt again after the blocks above it.
Deepened(w, r) ==
    \E c \in Chains : Contains(c, r.found) /\ Len(c) >= Len(r.found) + Waits!Confirmations(w)
Confirmed(w, r) ==
    Receipts(w) =>
      /\ r.at = "refetch" /\ Contains(chain, r.found) => Deepened(w, r)
      /\ r.at \in {"block", "depth", "done"} => Deepened(w, r)

\* A log's wait is registered, and searches from its start or after what it
\* has searched.
Registered(w, r) ==
    /\ r.generation <= hub.generation
    /\ Logs(w) /\ r.at \notin {"new", "done", "failed"} =>
         /\ w \in hub.interests /\ r.generation >= 1 /\ r.next >= From(w) /\ \A k \in r.queue : k >= From(w)
    /\ Logs(w) /\ r.at \in {"before", "search", "after"} => From(w) <= r.from /\ r.from <= r.through
    /\ Logs(w) /\ r.at = "before" => r.cursor = r.from
    /\ Logs(w) /\ r.at = "search" => r.from <= r.cursor /\ r.cursor <= r.through

\* As long as nothing is reorganised, nothing that was left behind matches.
Steady == past = {} /\ hub.errors < ScanRetries
Clear(w, n) == \A k \in From(w) .. n : k <= Len(chain) /\ chain[k].log # Waits!Topic(w)
Searched(w, r) ==
    Steady /\ Logs(w) =>
      /\ r.at \in {"window", "before", "search", "after"} => Clear(w, r.next - 1)
      /\ r.at \in {"before", "search", "after"} =>
           /\ r.through <= Len(chain) /\ Clear(w, r.from - 1) /\ r.head <= Len(chain)
           /\ \A k \in r.queue : k <= r.head
           /\ \A k \in From(w) .. r.head : chain[k].log = Waits!Topic(w) => k <= r.through \/ k \in r.queue
      /\ r.at = "search" => Clear(w, r.cursor - 1)
      /\ r.at \in {"search", "after"} => r.before \in Hashes /\ Len(r.before) = r.through /\ Contains(chain, r.before)
      /\ r.at = "after" /\ r.found = Waits!None => Clear(w, r.through)
      /\ r.at \in {"after", "depth", "block", "done"} /\ r.found # Waits!None => Clear(w, Len(r.found) - 1)
      /\ r.at = "block" /\ Waits!Confirmations(w) > 0 =>
           updates.ok /\ updates.head >= Len(r.found) + Waits!Confirmations(w)

Standing(w, r) == RecordOk(w, r) /\ Found(w, r) /\ Confirmed(w, r) /\ Registered(w, r) /\ Searched(w, r)
StandInv == \A w \in Waits!Wait : Standing(w, wait[w])

WaitsInv == WaitTypes /\ ForkInv /\ ScanInv /\ WindowInv /\ StandInv

-----------------------------------------------------------------------------
(* Sequences, and the least of a set                                       *)

\* A set of numbers that is not empty has a least one.
LEMMA LeastOf ==
    ASSUME NEW S, S \subseteq Nat, S # {}
    PROVE  Waits!Min(S) \in S /\ \A y \in S : Waits!Min(S) <= y
<1> DEFINE R == OpToRel(<, Nat)
<1>1. IsWellFoundedOn(R, Nat)
  BY NatLessThanWellFounded
<1>2. \A x, y \in Nat : y < x => <<y, x>> \in R
  BY DEF OpToRel
<1> HIDE DEF R
<1>3. PICK x \in S : \A y \in S : <<y, x>> \notin R
  BY <1>1, WFMin
<1>4. \A y \in S : ~(y < x)
  BY <1>2, <1>3
<1>5. \A y \in S : x <= y
  BY <1>4
<1> QED BY <1>5 DEF Waits!Min

LEMMA WaitsCount == \A S : Waits!Cardinality(S) = Cardinality(S)
BY DEF Waits!Cardinality, Cardinality

LEMMA LesserOf ==
    ASSUME NEW a \in Int, NEW b \in Int
    PROVE  Waits!Min({a, b}) = IF a <= b THEN a ELSE b
BY DEF Waits!Min

LEMMA GreaterOf ==
    ASSUME NEW a \in Int, NEW b \in Int
    PROVE  Waits!Max({a, b}) = IF a >= b THEN a ELSE b
BY DEF Waits!Max

LEMMA NoneIsNoHash == Waits!None \notin Hashes
<1>1. Waits!None[1].fork = -1 /\ Len(Waits!None) = 1
  BY DEF Waits!None
<1>2. ASSUME Waits!None \in Hashes PROVE FALSE
  <2>1. Waits!None[1] \in Blocks
    BY SMTT(60), <1>1, <1>2, ElementOfSeq DEF Hashes
  <2> QED BY <1>1, <2>1 DEF Blocks
<1> QED BY <1>2

\* The chain up to a block.
LEMMA UpTo ==
    ASSUME NEW c \in Hashes, NEW n \in Nat, n <= Len(c)
    PROVE  /\ SubSeq(c, 1, n) \in Hashes /\ Len(SubSeq(c, 1, n)) = n /\ Contains(c, SubSeq(c, 1, n))
           /\ \A k \in 1 .. n : SubSeq(c, 1, n)[k] = c[k]
<1>1. \A i \in 1 .. n : c[i] \in Blocks
  BY ElementOfSeq DEF Hashes
<1>2. SubSeq(c, 1, n) \in Hashes /\ Len(SubSeq(c, 1, n)) = n
  BY <1>1, SubSeqProperties DEF Hashes
<1>3. \A i \in 1 .. n : SubSeq(c, 1, n)[i] = c[i]
  BY <1>1, SubSeqProperties
<1> QED BY <1>2, <1>3 DEF Contains

\* A chain that is contained is what the other one is up to its end.
LEMMA ContainedIsUpTo ==
    ASSUME NEW c \in Hashes, NEW h \in Hashes, Contains(c, h)
    PROVE  h = SubSeq(c, 1, Len(h))
<1>1. Len(h) \in Nat /\ Len(h) <= Len(c)
  BY LenProperties DEF Contains, Hashes
<1>2. SubSeq(c, 1, Len(h)) \in Hashes /\ Len(SubSeq(c, 1, Len(h))) = Len(h)
      /\ \A k \in 1 .. Len(h) : SubSeq(c, 1, Len(h))[k] = c[k]
  BY <1>1, UpTo
<1>3. \A k \in 1 .. Len(h) : h[k] = SubSeq(c, 1, Len(h))[k]
  BY <1>2 DEF Contains
<1> QED BY <1>2, <1>3, SeqEqual DEF Hashes

LEMMA ContainsTransitive ==
    ASSUME NEW c \in Hashes, NEW d \in Hashes, NEW h \in Hashes, Contains(c, d), Contains(d, h)
    PROVE  Contains(c, h)
<1>1. Len(c) \in Nat /\ Len(d) \in Nat /\ Len(h) \in Nat
  BY LenProperties DEF Hashes
<1> QED BY <1>1 DEF Contains

LEMMA ContainsItself == ASSUME NEW c \in Hashes PROVE Contains(c, c)
<1>1. Len(c) \in Nat
  BY LenProperties DEF Hashes
<1> QED BY <1>1 DEF Contains

\* The node's answer to a question for a block's hash.
LEMMA HashFacts ==
    ASSUME chain \in Hashes, NEW n \in Nat
    PROVE  /\ Waits!Hash(n) \in Hashes \cup {Waits!None}
           /\ n <= Len(chain) => /\ Waits!Hash(n) = SubSeq(chain, 1, n) /\ Waits!Hash(n) \in Hashes
                                 /\ Len(Waits!Hash(n)) = n /\ Contains(chain, Waits!Hash(n)) /\ Waits!Hash(n) # Waits!None
           /\ n > Len(chain) => Waits!Hash(n) = Waits!None
<1>1. Len(chain) \in Nat
  BY LenProperties DEF Hashes
<1>2. n <= Len(chain) => Waits!Hash(n) = SubSeq(chain, 1, n)
  BY DEF Waits!Hash, Waits!Height
<1>3. n > Len(chain) => Waits!Hash(n) = Waits!None
  BY <1>1 DEF Waits!Hash, Waits!Height
<1>4. n <= Len(chain) => /\ SubSeq(chain, 1, n) \in Hashes /\ Len(SubSeq(chain, 1, n)) = n
                         /\ Contains(chain, SubSeq(chain, 1, n))
  BY UpTo
<1>5. CASE n <= Len(chain)
  <2> DEFINE h == SubSeq(chain, 1, n)
  <2>1. Waits!Hash(n) = h /\ h \in Hashes /\ Len(h) = n /\ Contains(chain, h)
    BY <1>2, <1>4, <1>5
  <2>2. h # Waits!None
    BY <2>1, NoneIsNoHash
  <2>3. ~(n > Len(chain))
    BY <1>1, <1>5
  <2> HIDE DEF h
  <2>4. /\ Waits!Hash(n) \in Hashes \cup {Waits!None}
        /\ Waits!Hash(n) = h /\ Waits!Hash(n) \in Hashes
        /\ Len(Waits!Hash(n)) = n /\ Contains(chain, Waits!Hash(n)) /\ Waits!Hash(n) # Waits!None
    BY <2>1, <2>2
  <2> QED BY <2>3, <2>4 DEF h
<1>6. CASE n > Len(chain)
  BY <1>1, <1>3, <1>6
<1> QED BY <1>1, <1>5, <1>6

LEMMA HashIs ==
    ASSUME chain \in Hashes, NEW h \in Hashes
    PROVE  Waits!Hash(Len(h)) = h <=> Contains(chain, h)
<1>1. Len(h) \in Nat /\ Len(chain) \in Nat
  BY LenProperties DEF Hashes
<1>2. CASE Len(h) > Len(chain)
  BY <1>1, <1>2, HashFacts, NoneIsNoHash DEF Contains
<1>3. CASE Len(h) <= Len(chain)
  BY <1>1, <1>3, HashFacts, ContainedIsUpTo
<1> QED BY <1>1, <1>2, <1>3

LEMMA TopicIsALog == ASSUME config \in WaitConfigs, NEW w \in Waits!Wait PROVE Waits!Topic(w) \in {b.log : b \in Blocks}
<1>1. Waits!Topic(w) \in UNION {{c.want[v].topic : v \in DOMAIN c.want} : c \in WaitConfigs}
  BY DEF Waits!Topic, Waits!Wait
<1>2. [log |-> Waits!Topic(w), fork |-> 0] \in Blocks
  BY <1>1 DEF Blocks
<1> QED BY <1>2

-----------------------------------------------------------------------------
(* The chain                                                               *)

LEMMA ChainsAreHashes == ASSUME ForkInv PROVE Chains \subseteq Hashes /\ chain \in Chains
BY DEF ForkInv, Chains

\* What a step does to the chain: it loses nothing from sight, and what has
\* left the chain stays away.
Moves ==
    /\ config' = config
    /\ \A h \in Hashes : (\E c \in Chains : Contains(c, h)) /\ Contains(chain, h)' => Contains(chain, h)
    /\ \A c \in Chains : \E d \in Chains' : Contains(d, c) /\ Len(c) <= Len(d)
    /\ past' = {} => past = {} /\ Contains(chain', chain)

LEMMA Stays == ASSUME ForkInv, config' = config, chain' = chain, past' = past PROVE ForkInv' /\ Moves
<1>1. ForkInv' /\ Chains' = Chains
  BY DEF ForkInv, Chains
<1>2. \A c \in Chains : Contains(c, c) /\ Len(c) \in Nat
  BY ChainsAreHashes, ContainsItself, LenProperties DEF Hashes
<1>3. chain \in Chains
  BY DEF Chains
<1> QED BY <1>1, <1>2, <1>3 DEF Moves, Contains

LEMMA MineMoves == ASSUME WaitTypes, ForkInv, Waits!Mine PROVE ForkInv' /\ Moves
<1>1. PICK log \in {Waits!NoLog} \cup {Waits!Topic(w) : w \in Waits!Wait} :
        chain' = Append(chain, [log |-> log, fork |-> Cardinality(past)])
  BY WaitsCount DEF Waits!Mine
<1> DEFINE b == [log |-> log, fork |-> Cardinality(past)]
<1>2. Cardinality(past) \in Nat
  BY FS_CardinalityType DEF ForkInv
<1>3. b \in Blocks
  <2>1. log \in {Waits!NoLog} \cup UNION {{c.want[v].topic : v \in DOMAIN c.want} : c \in WaitConfigs}
    BY DEF WaitTypes, Waits!Topic, Waits!Wait
  <2> QED BY <1>2, <2>1 DEF Blocks
<1> HIDE DEF b
<1>4. chain' = Append(chain, b) /\ b.fork = Cardinality(past)
  BY <1>1 DEF b
<1>5. chain \in Hashes /\ Len(chain) \in Nat
  BY LenProperties DEF ForkInv, Hashes
<1>6. chain' \in Hashes /\ Len(chain') = Len(chain) + 1 /\ chain'[Len(chain) + 1] = b
      /\ \A k \in 1 .. Len(chain) : chain'[k] = chain[k]
  BY <1>3, <1>4, <1>5, AppendProperties DEF Hashes
<1>7. past' = past /\ config' = config
  BY DEF Waits!Mine
<1>8. Chains' = past \cup {chain'}
  BY <1>7 DEF Chains
<1>9. Contains(chain', chain)
  BY <1>5, <1>6 DEF Contains
<1>10. \A c \in Chains' : \A k \in 1 .. Len(c) : c[k].fork <= Cardinality(past)
  <2>1. \A k \in 1 .. Len(chain') : chain'[k].fork <= Cardinality(past)
    BY <1>2, <1>4, <1>5, <1>6 DEF ForkInv, Chains
  <2> QED BY <1>8, <2>1 DEF ForkInv, Chains
<1>11. \A h \in Hashes : (\E c \in Chains : Contains(c, h)) /\ Contains(chain', h) => Contains(chain, h)
  <2> SUFFICES ASSUME NEW h \in Hashes, NEW c \in Chains, Contains(c, h), Contains(chain', h), ~Contains(chain, h) PROVE FALSE
    OBVIOUS
  <2>1. Len(h) \in Nat
    BY LenProperties DEF Hashes
  <2>2. Len(h) = Len(chain) + 1 /\ h[Len(h)] = b
    BY <1>5, <1>6, <2>1 DEF Contains
  <2>3. c \in past
    BY DEF Chains
  <2>4. Len(h) \in 1 .. Len(c) /\ c[Len(h)] = b
    BY <1>5, <2>1, <2>2 DEF Contains
  <2>5. b.fork < Cardinality(past)
    BY <2>3, <2>4 DEF ForkInv
  <2> QED BY <1>2, <1>4, <2>5
<1>12. \A c \in past : ~Contains(chain', c)
  <2>1. \A c \in past : c \in Hashes /\ c \in Chains /\ Contains(c, c)
    BY ContainsItself DEF ForkInv, Chains
  <2> QED BY <1>11, <2>1 DEF ForkInv
<1>13. ForkInv'
  BY <1>6, <1>7, <1>10, <1>12 DEF ForkInv
<1>14. \A c \in Chains : \E d \in Chains' : Contains(d, c) /\ Len(c) <= Len(d)
  <2>1. \A c \in Chains : Contains(c, c) /\ Len(c) \in Nat
    BY ChainsAreHashes, ContainsItself, LenProperties DEF Hashes
  <2> QED BY <1>5, <1>6, <1>8, <1>9, <2>1 DEF Chains
<1> QED BY <1>7, <1>9, <1>11, <1>13, <1>14 DEF Moves, Contains

LEMMA ReorganiseMoves == ASSUME WaitTypes, ForkInv, Waits!Reorganise PROVE ForkInv' /\ Moves
<1>1. PICK n \in 0 .. Len(chain) - 1 : chain' = SubSeq(chain, 1, n)
  BY DEF Waits!Reorganise, Waits!Height
<1>2. past' = past \cup {chain} /\ config' = config
  BY DEF Waits!Reorganise
<1>3. chain \in Hashes /\ Len(chain) \in Nat /\ n \in Nat /\ n < Len(chain)
  BY <1>1, LenProperties DEF ForkInv, Hashes
<1>4. chain' \in Hashes /\ Len(chain') = n /\ Contains(chain, chain') /\ \A k \in 1 .. n : chain'[k] = chain[k]
  BY <1>1, <1>3, UpTo
<1>5. chain \notin past
  BY <1>3, ContainsItself DEF ForkInv
<1>6. IsFiniteSet(past') /\ Cardinality(past') = Cardinality(past) + 1 /\ Cardinality(past) \in Nat
  BY <1>2, <1>5, FS_AddElement, FS_CardinalityType DEF ForkInv
<1>7. Chains' = past \cup {chain, chain'} /\ past' \subseteq Hashes /\ past' = Chains
  BY <1>2, <1>3 DEF Chains, ForkInv
<1>8. \A c \in Chains : \A k \in 1 .. Len(c) : c[k].fork <= Cardinality(past) /\ c[k].fork \in Nat
  <2>1. \A c \in Chains : \A k \in 1 .. Len(c) : c[k] \in Blocks
    BY ChainsAreHashes, ElementOfSeq DEF Hashes
  <2> QED BY <2>1 DEF ForkInv, Blocks
<1>9. \A k \in 1 .. Len(chain') : chain'[k].fork <= Cardinality(past) /\ chain'[k].fork \in Nat
  BY <1>3, <1>4, <1>8 DEF Chains
<1>10. \A c \in Chains' : \A k \in 1 .. Len(c) : c[k].fork <= Cardinality(past')
  BY <1>6, <1>7, <1>8, <1>9 DEF Chains
<1>11. \A c \in past' : \A k \in 1 .. Len(c) : c[k].fork < Cardinality(past')
  BY <1>6, <1>7, <1>8
<1>12. \A c \in past' : ~Contains(chain', c)
  <2> SUFFICES ASSUME NEW c \in past', Contains(chain', c) PROVE FALSE
    OBVIOUS
  <2>1. c \in Hashes /\ Contains(chain, c)
    BY <1>3, <1>4, <1>7, ContainsTransitive
  <2>2. c = chain
    BY <1>2, <2>1 DEF ForkInv
  <2> QED BY <1>3, <1>4, <2>2 DEF Contains
<1>13. ForkInv'
  BY <1>4, <1>6, <1>7, <1>10, <1>11, <1>12 DEF ForkInv
<1>14. \A c \in Chains : c \in Chains' /\ Contains(c, c) /\ Len(c) \in Nat
  BY <1>7, ChainsAreHashes, ContainsItself, LenProperties DEF Hashes, Chains
<1>15. \A h \in Hashes : Contains(chain', h) => Contains(chain, h)
  BY <1>3, <1>4, ContainsTransitive
<1>16. past' # {}
  BY <1>2
<1> QED BY <1>2, <1>13, <1>14, <1>15, <1>16 DEF Moves, Contains

-----------------------------------------------------------------------------
(* What stays true of a wait while others move                             *)

LEMMA Requests ==
    ASSUME config \in WaitConfigs, NEW w \in Waits!Wait
    PROVE  From(w) \in Nat \ {0} /\ Waits!Confirmations(w) \in Nat /\ ScanRetries \in Nat \ {0}
           /\ config.want[w].max_block_range \in Nat \ {0} /\ config.window \in Nat \ {0}
           /\ (Logs(w) \/ Receipts(w))
BY PartsAssumption DEF Waits!ScenarioWaitsAssumption, Waits!Wait, Waits!Confirmations, From, Logs, Receipts

\* The scanner only adds to what a wait relies on.
ScannerKeeps(w) ==
    /\ hub'.generation \in Nat /\ hub.generation <= hub'.generation
    /\ hub'.errors \in Nat /\ hub.errors \in Nat /\ hub.errors <= hub'.errors
    /\ w \in hub.interests => w \in hub'.interests
    /\ Steady' /\ updates.ok => updates'.ok /\ updates.head \in Nat /\ updates'.head \in Nat /\ updates.head <= updates'.head

LEMMA StillKnown ==
    ASSUME ForkInv, ForkInv', Moves, NEW h \in Hashes, NEW n \in Nat,
           \E c \in Chains : Contains(c, h) /\ Len(c) >= n
    PROVE  \E c \in Chains' : Contains(c, h) /\ Len(c) >= n
<1>1. PICK c \in Chains : Contains(c, h) /\ Len(c) >= n
  OBVIOUS
<1>2. PICK d \in Chains' : Contains(d, c) /\ Len(c) <= Len(d)
  BY <1>1 DEF Moves
<1>3. c \in Hashes /\ d \in Hashes
  BY ChainsAreHashes DEF ForkInv, Chains
<1>4. Len(c) \in Nat /\ Len(d) \in Nat
  BY <1>3, LenProperties DEF Hashes
<1>5. Contains(d, h)
  BY <1>1, <1>2, <1>3, ContainsTransitive
<1>6. Len(d) >= n
  BY <1>1, <1>2, <1>4
<1> QED BY <1>5, <1>6

LEMMA Keeps ==
    ASSUME WaitTypes, ForkInv, ForkInv', Moves, NEW w \in Waits!Wait, ScannerKeeps(w), NEW r, Standing(w, r)
    PROVE  Standing(w, r)'
<1>1. config \in WaitConfigs /\ config' = config
  BY DEF WaitTypes, Moves
<1>2. From(w) \in Nat \ {0} /\ Waits!Confirmations(w) \in Nat /\ ScanRetries \in Nat
  BY <1>1, Requests
<1>3. From(w)' = From(w) /\ Waits!Confirmations(w)' = Waits!Confirmations(w) /\ Waits!Topic(w)' = Waits!Topic(w)
      /\ (Logs(w)' <=> Logs(w)) /\ (Receipts(w)' <=> Receipts(w))
  BY <1>1 DEF From, Waits!Confirmations, Waits!Topic, Logs, Receipts, Waits!Wait
<1>4. RecordOk(w, r)'
  BY <1>3 DEF RecordOk, Standing
<1>5. r.found \in Hashes \cup {Waits!None}
  BY DEF Standing, RecordOk
<1>6. r.found # Waits!None => Len(r.found) \in Nat
  BY <1>5, LenProperties DEF Hashes
<1>7. \A n \in Nat : r.found # Waits!None /\ (\E c \in Chains : Contains(c, r.found) /\ Len(c) >= n)
                       => \E c \in Chains' : Contains(c, r.found) /\ Len(c) >= n
  BY <1>5, StillKnown
<1>8. \A c \in Chains : Len(c) \in Nat
  BY ChainsAreHashes, LenProperties DEF Hashes
<1>9. Found(w, r)'
  <2>1. r.found # Waits!None => \E c \in Chains' : Contains(c, r.found)
    <3>1. r.found # Waits!None => \E c \in Chains : Contains(c, r.found) /\ Len(c) >= 0
      BY <1>8 DEF Standing, Found
    <3> QED BY <1>7, <3>1
  <2> QED BY <1>3, <2>1 DEF Standing, Found
<1>10. Confirmed(w, r)'
  <2>1. r.found # Waits!None /\ Deepened(w, r) => Deepened(w, r)'
    <3>1. Len(r.found) + Waits!Confirmations(w) \in Nat \/ r.found = Waits!None
      BY <1>2, <1>6
    <3> QED BY <1>3, <1>7, <3>1 DEF Deepened
  <2>2. r.found # Waits!None /\ Contains(chain, r.found)' => Contains(chain, r.found)
    BY <1>5 DEF Moves, Standing, Found
  <2> QED BY <1>3, <2>1, <2>2 DEF Standing, Found, Confirmed
<1>11. Registered(w, r)'
  <2>1. r.generation \in Nat /\ hub.generation \in Nat
    BY DEF WaitTypes, Hubs, Standing, RecordOk
  <2>2. r.generation <= hub'.generation
    BY <2>1 DEF ScannerKeeps, Standing, Registered
  <2> QED BY <1>3, <2>2 DEF ScannerKeeps, Standing, Registered
<1>12. Searched(w, r)'
  <2> SUFFICES ASSUME Steady', Logs(w) PROVE Searched(w, r)'
    BY <1>3 DEF Searched
  <2>1. Steady /\ Contains(chain', chain)
    BY <1>2 DEF Steady, Moves, ScannerKeeps
  <2>2. chain \in Hashes /\ chain' \in Hashes /\ Len(chain) \in Nat /\ Len(chain') \in Nat
    BY LenProperties DEF ForkInv, Hashes
  <2>3. Len(chain) <= Len(chain') /\ \A k \in 1 .. Len(chain) : chain'[k] = chain[k]
    BY <2>1 DEF Contains
  <2>4. \A n : Clear(w, n) => Clear(w, n)'
    <3> SUFFICES ASSUME NEW n, NEW k \in From(w) .. n, Clear(w, n)
                 PROVE  k <= Len(chain') /\ chain'[k].log # Waits!Topic(w)
      BY <1>3 DEF Clear
    <3>1. k \in Int /\ k >= 1 /\ k <= Len(chain) /\ chain[k].log # Waits!Topic(w)
      BY <1>2 DEF Clear
    <3> QED BY <2>2, <2>3, <3>1
  <2>5. r.before \in Hashes /\ Contains(chain, r.before) => Contains(chain', r.before)
    BY <2>1, <2>2, ContainsTransitive
  <2>6. r.head <= Len(chain) /\ (\A k \in From(w) .. r.head : chain[k].log = Waits!Topic(w) => k <= r.through \/ k \in r.queue)
          => \A k \in From(w) .. r.head : chain'[k].log = Waits!Topic(w) => k <= r.through \/ k \in r.queue
    <3> SUFFICES ASSUME r.head <= Len(chain), NEW k \in From(w) .. r.head PROVE chain'[k] = chain[k]
      OBVIOUS
    <3>1. r.head \in Nat
      BY DEF Standing, RecordOk
    <3> QED BY <1>2, <2>2, <2>3, <3>1
  <2>7. r.through \in Nat /\ r.head \in Nat
    BY DEF Standing, RecordOk
  <2>8. (r.through <= Len(chain) => r.through <= Len(chain')) /\ (r.head <= Len(chain) => r.head <= Len(chain'))
    BY <2>2, <2>3, <2>7
  <2>9. r.found # Waits!None /\ updates.ok /\ updates.head >= Len(r.found) + Waits!Confirmations(w)
          => updates'.ok /\ updates'.head >= Len(r.found) + Waits!Confirmations(w)
    BY <1>2, <1>6 DEF ScannerKeeps
  <2>10. Searched(w, r)
    BY DEF Standing
  <2>11. r.at = "block" => r.found # Waits!None
    BY DEF Standing, Found
  <2>12. /\ r.at \in {"window", "before", "search", "after"} => Clear(w, r.next - 1)'
         /\ r.at = "search" => Clear(w, r.cursor - 1)'
         /\ r.at = "after" /\ r.found = Waits!None => Clear(w, r.through)'
         /\ r.at \in {"after", "depth", "block", "done"} /\ r.found # Waits!None => Clear(w, Len(r.found) - 1)'
         /\ r.at \in {"before", "search", "after"} => Clear(w, r.from - 1)'
    BY <2>1, <2>4, <2>10 DEF Searched
  <2>13. /\ r.at \in {"before", "search", "after"} =>
              /\ r.through <= Len(chain') /\ r.head <= Len(chain') /\ \A k \in r.queue : k <= r.head
              /\ \A k \in From(w) .. r.head : chain'[k].log = Waits!Topic(w) => k <= r.through \/ k \in r.queue
         /\ r.at \in {"search", "after"} => r.before \in Hashes /\ Len(r.before) = r.through /\ Contains(chain', r.before)
    BY <2>1, <2>5, <2>6, <2>8, <2>10 DEF Searched
  <2>14. r.at = "block" /\ Waits!Confirmations(w) > 0 =>
           updates'.ok /\ updates'.head >= Len(r.found) + Waits!Confirmations(w)
    BY <2>1, <2>9, <2>10, <2>11 DEF Searched
  <2> HIDE DEF Clear
  <2> QED BY <1>3, <2>12, <2>13, <2>14 DEF Searched
<1> QED BY <1>4, <1>9, <1>10, <1>11, <1>12 DEF Standing

\* A step of one wait leaves the others where they stand.
LEMMA OneMoves ==
    ASSUME WaitTypes, ForkInv, ForkInv', Moves, StandInv, NEW w \in Waits!Wait, NEW r, wait' = [wait EXCEPT ![w] = r],
           \A v \in Waits!Wait \ {w} : ScannerKeeps(v), Standing(w, r)'
    PROVE  StandInv' /\ wait' = [v \in Waits!Wait' |-> wait'[v]]
<1>1. Waits!Wait' = Waits!Wait
  BY DEF Moves, Waits!Wait
<1>2. wait'[w] = r /\ \A v \in Waits!Wait \ {w} : wait'[v] = wait[v]
  BY DEF WaitTypes
<1>3. \A v \in Waits!Wait \ {w} : Standing(v, wait[v])'
  <2> SUFFICES ASSUME NEW v \in Waits!Wait \ {w} PROVE Standing(v, wait[v])'
    OBVIOUS
  <2>1. PICK s : s = wait[v]
    OBVIOUS
  <2>2. Standing(v, s)'
    BY <2>1, Keeps DEF StandInv
  <2>3. s = wait'[v]
    BY <1>2, <2>1
  <2> QED BY <2>2, <2>3
<1>4. Standing(w, wait[w])'
  BY <1>2
<1>5. wait' = [v \in Waits!Wait' |-> wait'[v]]
  BY <1>1 DEF WaitTypes
<1> QED BY <1>1, <1>3, <1>4, <1>5 DEF StandInv

\* Nobody moves.
LEMMA NoneMoves ==
    ASSUME WaitTypes, ForkInv, ForkInv', Moves, StandInv, wait' = wait, \A v \in Waits!Wait : ScannerKeeps(v)
    PROVE  StandInv' /\ wait' = [v \in Waits!Wait' |-> wait'[v]]
<1>1. Waits!Wait' = Waits!Wait
  BY DEF Moves, Waits!Wait
<1>2. \A v \in Waits!Wait : Standing(v, wait[v])'
  <2> SUFFICES ASSUME NEW v \in Waits!Wait PROVE Standing(v, wait[v])'
    OBVIOUS
  <2>1. PICK s : s = wait[v]
    OBVIOUS
  <2>2. Standing(v, s)'
    BY <2>1, Keeps DEF StandInv
  <2>3. s = wait'[v]
    BY <2>1
  <2> QED BY <2>2, <2>3
<1> QED BY <1>1, <1>2 DEF StandInv, WaitTypes

-----------------------------------------------------------------------------
(* What stays true of the scanner and its window                           *)

LEMMA SamePrefix ==
    ASSUME NEW c \in Hashes, NEW h \in Hashes, Contains(c, h), NEW n \in Nat, n <= Len(h)
    PROVE  SubSeq(c, 1, n) = SubSeq(h, 1, n)
<1>1. Len(h) \in Nat /\ Len(c) \in Nat /\ n <= Len(c)
  BY LenProperties DEF Hashes, Contains
<1>2. /\ SubSeq(c, 1, n) \in Hashes /\ Len(SubSeq(c, 1, n)) = n /\ \A k \in 1 .. n : SubSeq(c, 1, n)[k] = c[k]
      /\ SubSeq(h, 1, n) \in Hashes /\ Len(SubSeq(h, 1, n)) = n /\ \A k \in 1 .. n : SubSeq(h, 1, n)[k] = h[k]
  BY <1>1, UpTo
<1>3. \A k \in 1 .. n : c[k] = h[k]
  BY <1>1 DEF Contains
<1> QED BY <1>2, <1>3, SeqEqual DEF Hashes

LEMMA ScanStays ==
    ASSUME WaitTypes, ForkInv, ForkInv', Moves, ScanInv, scan' = scan, updates' = updates,
           hub'.generation \in Nat, hub.generation <= hub'.generation, hub'.failures <= hub'.errors,
           Scanning => \A v \in hub'.interests : wait'[v].generation <= scan.generation => v \in scan.plan
    PROVE  ScanInv'
<1>1. config' = config /\ (past' = {} => past = {})
  BY DEF Moves
<1>2. hub.generation \in Nat /\ scan.generation \in Nat /\ scan.head \in Nat
  BY DEF WaitTypes, Hubs, Scans
<1>3. Scanning' <=> Scanning
  BY DEF Scanning
<1>4. Scanning => scan.generation <= hub'.generation
  BY <1>2 DEF ScanInv
<1>5. scan.hash \in Hashes /\ (\E c \in Chains : Contains(c, scan.hash)) => \E c \in Chains' : Contains(c, scan.hash)
  <2>1. \A c \in Chains : Len(c) \in Nat
    BY ChainsAreHashes, LenProperties DEF Hashes
  <2>2. scan.hash \in Hashes /\ (\E c \in Chains : Contains(c, scan.hash) /\ Len(c) >= 0)
          => \E c \in Chains' : Contains(c, scan.hash) /\ Len(c) >= 0
    BY StillKnown
  <2> QED BY <2>1, <2>2
<1>6. scan.hash \in Hashes /\ (\E c \in Chains : Contains(c, scan.hash)) /\ Contains(chain', scan.hash) => Contains(chain, scan.hash)
  BY DEF Moves, Contains
<1>7. \A b : Waits!Selected(b)' <=> Waits!Selected(b)
  BY <1>1 DEF Waits!Selected, Waits!Topic
<1>8. \A w : From(w)' = From(w)
  BY <1>1 DEF From
<1>9. scan.at = "logs" /\ Contains(chain', scan.hash) => scan.logs = Read'
  <2>1. Read' = Read
    BY <1>7 DEF Read
  <2> QED BY <1>6, <2>1 DEF ScanInv
<1>10. Scanning =>
         /\ scan.plan # {} /\ (past' = {} /\ updates.ok => updates.head <= scan.head)
  BY <1>1 DEF ScanInv
<1>11. scan.at \in {"checkpoint", "logs"} =>
         /\ scan.hash \in Hashes /\ Len(scan.hash) = scan.head /\ \E c \in Chains' : Contains(c, scan.hash)
  BY <1>5 DEF ScanInv
<1>12. /\ scan.at = "logs" => /\ scan.start >= 1 /\ scan.cursor >= scan.start
                              /\ scan.cursor = scan.start \/ scan.cursor <= scan.head + 1
                              /\ scan.start <= scan.head \/ \A w \in scan.plan : scan.start <= From(w)'
       /\ scan.at \in {"head", "checkpoint"} => scan.logs = {}
  BY <1>8 DEF ScanInv
<1> QED BY <1>3, <1>4, <1>9, <1>10, <1>11, <1>12 DEF ScanInv

LEMMA ShowsStill ==
    ASSUME config' = config, updates' = updates, NEW c \in Hashes, NEW d \in Hashes, Contains(d, c), NEW w,
           updates.start \in Nat, updates.head \in Nat, updates.start >= 1, updates.head <= Len(c), Shows(c, w)
    PROVE  Shows(d, w)'
<1>1. Len(c) \in Nat /\ Len(d) \in Nat
  BY LenProperties DEF Hashes
<1>2. Waits!Topic(w)' = Waits!Topic(w) /\ From(w)' = From(w)
  BY DEF Waits!Topic, From
<1>3. \A k \in updates.start .. updates.head : c[k] = d[k] /\ SubSeq(c, 1, k) = SubSeq(d, 1, k)
  <2> SUFFICES ASSUME NEW k \in updates.start .. updates.head PROVE c[k] = d[k] /\ SubSeq(c, 1, k) = SubSeq(d, 1, k)
    OBVIOUS
  <2>1. k \in 1 .. Len(c)
    BY <1>1
  <2>2. SubSeq(c, 1, k) = SubSeq(d, 1, k)
    BY <1>1, <2>1, SamePrefix
  <2> QED BY <2>1, <2>2 DEF Contains
<1>4. {SubSeq(c, 1, n) : n \in {k \in updates.start .. updates.head : c[k].log = Waits!Topic(w)}}
        = {SubSeq(d, 1, n) : n \in {k \in updates.start .. updates.head : d[k].log = Waits!Topic(w)}}
  BY <1>3
<1> QED BY <1>2, <1>4 DEF Shows

LEMMA WindowStays ==
    ASSUME WaitTypes, ForkInv, ForkInv', Moves, WindowInv, updates' = updates,
           hub'.generation \in Nat, hub.generation <= hub'.generation,
           \A v \in hub'.interests : wait'[v].generation \in 1 .. updates.generation =>
             v \in hub.interests /\ wait[v].generation \in 1 .. updates.generation
    PROVE  WindowInv'
<1>1. updates.generation \in Nat /\ hub.generation \in Nat /\ updates.head \in Nat /\ updates.start \in Nat
  BY DEF WaitTypes, Hubs, Windows
<1>2. ASSUME updates.ok
      PROVE  \E d \in Chains' : /\ updates.head <= Len(d)
                                /\ \A w \in hub'.interests : wait'[w].generation \in 1 .. updates.generation => Shows(d, w)'
  <2>1. PICK c \in Chains : /\ updates.head <= Len(c)
                            /\ \A w \in hub.interests : wait[w].generation \in 1 .. updates.generation => Shows(c, w)
    BY <1>2 DEF WindowInv
  <2>2. PICK d \in Chains' : Contains(d, c) /\ Len(c) <= Len(d)
    BY DEF Moves
  <2>3. c \in Hashes /\ d \in Hashes
    BY ChainsAreHashes DEF ForkInv, Chains
  <2>4. Len(c) \in Nat /\ Len(d) \in Nat
    BY <2>3, LenProperties DEF Hashes
  <2>5. updates.start >= 1 /\ config' = config
    BY <1>2 DEF WindowInv, Moves
  <2>6. \A w \in hub'.interests : wait'[w].generation \in 1 .. updates.generation => Shows(d, w)'
    BY <1>1, <2>1, <2>2, <2>3, <2>5, ShowsStill
  <2> QED BY <1>1, <2>1, <2>2, <2>4, <2>6
<1>3. updates.generation <= hub'.generation
  BY <1>1 DEF WindowInv
<1>4. updates.ok => updates.start >= 1
  BY DEF WindowInv
<1> QED BY <1>2, <1>3, <1>4 DEF WindowInv

-----------------------------------------------------------------------------
(* The steps of the scanner                                                *)

\* A step of the scanner, which leaves the waits alone.
LEMMA ScannerMoves ==
    ASSUME WaitsInv, config' = config, chain' = chain, past' = past, wait' = wait,
           hub' \in Hubs, scan' \in Scans, updates' \in Windows, unseen' \subseteq Waits!Wait,
           hub'.generation = hub.generation, hub'.interests = hub.interests, hub.errors <= hub'.errors,
           Steady' /\ updates.ok => updates'.ok /\ updates.head <= updates'.head,
           ScanInv', WindowInv'
    PROVE  WaitsInv'
<1>1. ForkInv' /\ Moves
  BY Stays DEF WaitsInv
<1>2. hub.generation \in Nat /\ hub.errors \in Nat /\ updates.head \in Nat /\ hub'.errors \in Nat /\ updates'.head \in Nat
  BY DEF WaitsInv, WaitTypes, Hubs, Windows
<1>3. \A v \in Waits!Wait : ScannerKeeps(v)
  BY <1>2 DEF ScannerKeeps
<1>4. StandInv' /\ wait' = [v \in Waits!Wait' |-> wait'[v]]
  BY <1>1, <1>3, NoneMoves DEF WaitsInv
<1>5. Waits!Wait' = Waits!Wait
  BY DEF Waits!Wait
<1>6. Hubs' = Hubs /\ Scans' = Scans /\ Windows' = Windows
  BY <1>5 DEF Hubs, Scans, Windows
<1>7. WaitTypes'
  BY <1>4, <1>5, <1>6 DEF WaitTypes, WaitsInv
<1> QED BY <1>1, <1>4, <1>7 DEF WaitsInv

\* The scanner waits, and publishes nothing.
LEMMA ScannerWaits ==
    ASSUME WaitsInv, config' = config, chain' = chain, past' = past, wait' = wait, updates' = updates, unseen' = unseen,
           hub' \in Hubs, scan' \in Scans, hub'.generation = hub.generation, hub'.interests = hub.interests,
           hub.errors <= hub'.errors, ScanInv'
    PROVE  WaitsInv'
<1>1. ForkInv' /\ Moves /\ hub.generation \in Nat /\ updates.head \in Nat
  BY Stays DEF WaitsInv, WaitTypes, Hubs, Windows
<1>2. WindowInv'
  BY <1>1, WindowStays DEF WaitsInv
<1> QED BY <1>1, <1>2, ScannerMoves DEF WaitsInv, WaitTypes

LEMMA IdleScan == WaitTypes => Waits!Scan0 \in Scans
BY DEF Waits!Scan0, Scans

\* With no scan under way the invariant of the scan says little.
LEMMA NotScanning ==
    ASSUME scan'.at \in {"off", "tick"}, hub'.failures <= hub'.errors PROVE ScanInv'
BY DEF ScanInv, Scanning

LEMMA TickKeeps == ASSUME WaitsInv, Waits!Tick PROVE WaitsInv'
<1> DEFINE idle == Waits!Scan0
<1>1. config' = config /\ chain' = chain /\ past' = past /\ updates' = updates /\ unseen' = unseen /\ wait' = wait
  BY DEF Waits!Tick
<1>2. hub \in Hubs /\ chain \in Hashes /\ hub.failures <= hub.errors
  BY DEF WaitsInv, WaitTypes, ForkInv, ScanInv
<1>3. idle \in Scans /\ idle.at = "off" /\ idle.logs = {} /\ Len(chain) \in Nat
  BY <1>2, LenProperties, IdleScan DEF WaitsInv, Waits!Scan0, Hashes
<1>4. CASE hub.interests = {}
  <2>1. hub' = [hub EXCEPT !.running = FALSE] /\ scan' = idle
    BY <1>4 DEF Waits!Tick
  <2> HIDE DEF idle
  <2>2. hub' \in Hubs /\ hub'.generation = hub.generation /\ hub'.interests = hub.interests /\ hub'.errors = hub.errors
        /\ hub'.failures = hub.failures
    BY <1>2, <2>1 DEF Hubs
  <2>3. ScanInv'
    BY <1>2, <1>3, <2>1, <2>2, NotScanning
  <2>4. hub.errors <= hub'.errors
    BY <1>2, <2>2 DEF Hubs
  <2> QED BY <1>1, <1>3, <2>1, <2>2, <2>3, <2>4, ScannerWaits
<1>5. CASE hub.interests # {}
  <2>1. hub' = hub /\ scan' = [idle EXCEPT !.at = "head", !.head = Len(chain), !.plan = hub.interests,
                                           !.generation = hub.generation]
    BY <1>5 DEF Waits!Tick, Waits!Height
  <2> HIDE DEF idle
  <2>2. scan' \in Scans /\ scan'.at = "head" /\ scan'.head = Len(chain) /\ scan'.plan = hub.interests
        /\ scan'.generation = hub.generation /\ scan'.logs = {}
    BY <1>2, <1>3, <2>1 DEF Scans, Hubs
  <2>3. past = {} /\ updates.ok => updates.head <= Len(chain)
    BY DEF WaitsInv, WindowInv, Chains
  <2>4. ScanInv'
    BY <1>1, <1>2, <1>5, <2>1, <2>2, <2>3 DEF ScanInv, Scanning, Hubs
  <2>5. hub.errors <= hub'.errors
    BY <1>2, <2>1 DEF Hubs
  <2> QED BY <1>1, <1>2, <2>1, <2>2, <2>4, <2>5, ScannerWaits
<1> QED BY <1>4, <1>5

LEMMA CoverageFacts ==
    ASSUME WaitsInv, Scanning
    PROVE  /\ Waits!StartOfCoverage \in Nat /\ Waits!StartOfCoverage >= 1
           /\ Waits!StartOfCoverage <= scan.head \/ \A w \in scan.plan : Waits!StartOfCoverage <= From(w)
<1> DEFINE starts == {config.want[w].start : w \in scan.plan}
           m == Waits!Min(starts)
<1>1. scan.head \in Nat /\ scan.plan \subseteq Waits!Wait /\ scan.plan # {} /\ config \in WaitConfigs
  BY DEF WaitsInv, WaitTypes, Scans, ScanInv
<1>2. \A w \in scan.plan : From(w) \in Nat \ {0}
  BY <1>1, Requests
<1>3. starts \subseteq Nat /\ starts # {} /\ \A w \in scan.plan : From(w) \in starts
  BY <1>1, <1>2 DEF From
<1>4. m \in starts /\ \A y \in starts : m <= y
  BY <1>3, LeastOf
<1>5. m \in Nat \ {0} /\ \A w \in scan.plan : m <= From(w)
  BY <1>2, <1>3, <1>4 DEF From
<1>6. Waits!StartOfCoverage = Waits!Max({scan.head - (config.window - 1), m})
  BY DEF Waits!StartOfCoverage
<1>7. config.window \in Nat \ {0}
  BY <1>1, Requests
<1> HIDE DEF m
<1>8. Waits!StartOfCoverage = IF scan.head - (config.window - 1) >= m THEN scan.head - (config.window - 1) ELSE m
  BY <1>1, <1>5, <1>6, <1>7, GreaterOf
<1> QED BY <1>1, <1>5, <1>7, <1>8

\* The logs are read from the start of the coverage.
LEMMA ReadLogsScans ==
    ASSUME WaitsInv, Scanning, scan.at # "logs", NEW h \in Hashes, Len(h) = scan.head, \E c \in Chains : Contains(c, h),
           Waits!ReadLogs(h), config' = config, chain' = chain, past' = past, wait' = wait, updates' = updates,
           hub'.generation = hub.generation, hub'.interests = hub.interests, hub'.failures <= hub'.errors
    PROVE  scan' \in Scans /\ ScanInv'
<1> DEFINE first == Waits!StartOfCoverage
<1>1. first \in Nat /\ first >= 1 /\ (first <= scan.head \/ \A w \in scan.plan : first <= From(w))
  BY CoverageFacts
<1>2. scan' = [scan EXCEPT !.at = "logs", !.hash = h, !.cursor = first, !.start = first]
  BY DEF Waits!ReadLogs
<1> HIDE DEF first
<1>3. scan \in Scans /\ scan.logs = {}
  BY DEF WaitsInv, WaitTypes, Scanning, ScanInv
<1>4. scan' \in Scans /\ scan'.at = "logs" /\ scan'.hash = h /\ scan'.cursor = first /\ scan'.start = first
      /\ scan'.head = scan.head /\ scan'.plan = scan.plan /\ scan'.generation = scan.generation /\ scan'.logs = {}
  BY <1>1, <1>2, <1>3 DEF Scans
<1>5. Chains' = Chains /\ \A w : From(w)' = From(w)
  BY DEF Chains, From
<1>6. scan'.logs = Read'
  <2>1. scan'.start .. scan'.cursor - 1 = {}
    BY <1>1, <1>4
  <2> QED BY <1>4, <2>1 DEF Read
<1>7. Scanning' =>
         /\ scan'.plan # {} /\ scan'.generation <= hub'.generation
         /\ \A w \in hub'.interests : wait'[w].generation <= scan'.generation => w \in scan'.plan
         /\ past' = {} /\ updates'.ok => updates'.head <= scan'.head
  BY <1>4 DEF WaitsInv, ScanInv
<1>8. /\ scan'.hash \in Hashes /\ Len(scan'.hash) = scan'.head /\ \E c \in Chains' : Contains(c, scan'.hash)
      /\ scan'.start >= 1 /\ scan'.cursor >= scan'.start
      /\ scan'.start <= scan'.head \/ \A w \in scan'.plan : scan'.start <= From(w)'
  BY <1>1, <1>4, <1>5
<1> QED BY <1>4, <1>6, <1>7, <1>8 DEF ScanInv

LEMMA NewEpochFacts ==
    ASSUME hub \in Hubs, hub' = hub \/ Waits!NewEpoch
    PROVE  /\ hub' \in Hubs /\ hub'.generation = hub.generation /\ hub'.interests = hub.interests
           /\ hub'.errors = hub.errors /\ hub'.failures = hub.failures
<1>1. CASE hub' = hub
  BY <1>1
<1>2. CASE Waits!NewEpoch
  <2>1. hub' = [hub EXCEPT !.checkpoint = Waits!None, !.epoch = hub.epoch + 1]
    BY <1>2 DEF Waits!NewEpoch
  <2>2. hub.epoch + 1 \in Nat
    BY DEF Hubs
  <2> QED BY <2>1, <2>2 DEF Hubs
<1> QED BY <1>1, <1>2

LEMMA HeadHashKeeps == ASSUME WaitsInv, Waits!HeadHash PROVE WaitsInv'
<1> DEFINE h == Waits!Hash(scan.head)
<1>1. config' = config /\ chain' = chain /\ past' = past /\ updates' = updates /\ unseen' = unseen /\ wait' = wait
      /\ scan.at = "head" /\ Scanning
  BY DEF Waits!HeadHash, Scanning
<1>2. hub \in Hubs /\ scan \in Scans /\ chain \in Hashes /\ hub.failures <= hub.errors /\ scan.head \in Nat
  BY DEF WaitsInv, WaitTypes, ForkInv, ScanInv, Scans
<1>3. h \in Hashes \cup {Waits!None} /\ (h # Waits!None => h \in Hashes /\ Len(h) = scan.head /\ Contains(chain, h))
  <2>1. Len(chain) \in Nat
    BY <1>2, LenProperties DEF Hashes
  <2> QED BY <1>2, <2>1, HashFacts
<1>4. \/ h = Waits!None /\ scan' = [scan EXCEPT !.at = "tick"] /\ hub' = [hub EXCEPT !.failures = 0]
      \/ h # Waits!None /\ scan' = [scan EXCEPT !.at = "checkpoint", !.hash = h] /\ hub' = hub
      \/ h # Waits!None /\ Waits!ReadLogs(h) /\ (hub' = hub \/ Waits!NewEpoch)
  BY DEF Waits!HeadHash
<1> HIDE DEF h
<1>5. chain \in Chains
  BY DEF Chains
<1>6. CASE h = Waits!None /\ scan' = [scan EXCEPT !.at = "tick"] /\ hub' = [hub EXCEPT !.failures = 0]
  <2>1. hub' \in Hubs /\ hub'.generation = hub.generation /\ hub'.interests = hub.interests /\ hub'.errors = hub.errors
        /\ hub'.failures <= hub'.errors /\ hub.errors <= hub'.errors
    BY <1>2, <1>6 DEF Hubs
  <2>2. scan' \in Scans /\ scan'.at = "tick"
    BY <1>2, <1>6 DEF Scans
  <2> QED BY <1>1, <2>1, <2>2, NotScanning, ScannerWaits
<1>7. CASE h # Waits!None /\ scan' = [scan EXCEPT !.at = "checkpoint", !.hash = h] /\ hub' = hub
  <2>1. scan' \in Scans /\ scan'.at = "checkpoint" /\ scan'.hash = h /\ scan'.head = scan.head /\ scan'.plan = scan.plan
        /\ scan'.generation = scan.generation /\ scan'.logs = scan.logs
    BY <1>2, <1>3, <1>7 DEF Scans
  <2>2. Chains' = Chains /\ hub.errors <= hub'.errors
    BY <1>1, <1>2, <1>7 DEF Chains, Hubs
  <2>3. ScanInv
    BY DEF WaitsInv
  <2>4. Scanning' =>
         /\ scan'.plan # {} /\ scan'.generation <= hub'.generation
         /\ \A w \in hub'.interests : wait'[w].generation <= scan'.generation => w \in scan'.plan
         /\ past' = {} /\ updates'.ok => updates'.head <= scan'.head
    BY <1>1, <1>7, <2>1, <2>3 DEF ScanInv
  <2>5. scan'.logs = {} /\ scan'.hash \in Hashes /\ Len(scan'.hash) = scan'.head /\ \E c \in Chains' : Contains(c, scan'.hash)
    BY <1>1, <1>3, <1>5, <1>7, <2>1, <2>2, <2>3 DEF ScanInv
  <2>6. ScanInv'
    BY <1>2, <1>7, <2>1, <2>4, <2>5 DEF ScanInv
  <2> QED BY <1>1, <1>2, <1>7, <2>1, <2>2, <2>6, ScannerWaits
<1>8. CASE h # Waits!None /\ Waits!ReadLogs(h) /\ (hub' = hub \/ Waits!NewEpoch)
  <2>1. hub' \in Hubs /\ hub'.generation = hub.generation /\ hub'.interests = hub.interests
        /\ hub'.errors = hub.errors /\ hub'.failures = hub.failures
    BY <1>2, <1>8, NewEpochFacts
  <2>2. hub'.failures <= hub'.errors /\ hub.errors <= hub'.errors
    BY <1>2, <2>1 DEF Hubs
  <2>3. scan' \in Scans /\ ScanInv'
    BY <1>1, <1>3, <1>5, <1>8, <2>1, <2>2, ReadLogsScans
  <2> QED BY <1>1, <2>1, <2>2, <2>3, ScannerWaits
<1> QED BY <1>4, <1>6, <1>7, <1>8

LEMMA CheckAncestorKeeps == ASSUME WaitsInv, Waits!CheckAncestor PROVE WaitsInv'
<1>1. config' = config /\ chain' = chain /\ past' = past /\ updates' = updates /\ unseen' = unseen /\ wait' = wait
      /\ scan.at = "checkpoint" /\ Scanning /\ Waits!ReadLogs(scan.hash) /\ (hub' = hub \/ Waits!NewEpoch)
  BY DEF Waits!CheckAncestor, Scanning
<1>2. hub \in Hubs /\ hub.failures <= hub.errors
  BY DEF WaitsInv, WaitTypes, ScanInv
<1>3. scan.hash \in Hashes /\ Len(scan.hash) = scan.head /\ \E c \in Chains : Contains(c, scan.hash)
  BY <1>1 DEF WaitsInv, ScanInv
<1>4. hub' \in Hubs /\ hub'.generation = hub.generation /\ hub'.interests = hub.interests
      /\ hub'.errors = hub.errors /\ hub'.failures = hub.failures
  BY <1>1, <1>2, NewEpochFacts
<1>5. hub'.failures <= hub'.errors /\ hub.errors <= hub'.errors
  BY <1>2, <1>4 DEF Hubs
<1>6. PICK h : h = scan.hash
  OBVIOUS
<1>7. scan' \in Scans /\ ScanInv'
  BY <1>1, <1>3, <1>4, <1>5, <1>6, ReadLogsScans
<1> QED BY <1>1, <1>4, <1>5, <1>7, ScannerWaits

\* One request goes on where the one before it ended, and not beyond the head.
LEMMA ChunkFacts ==
    ASSUME WaitsInv, Scanning, scan.cursor <= scan.head
    PROVE  Waits!Chunk \in Nat /\ scan.cursor <= Waits!Chunk /\ Waits!Chunk <= scan.head
<1> DEFINE ranges == {config.want[w].max_block_range : w \in scan.plan}
           m == Waits!Min(ranges)
<1>1. scan.head \in Nat /\ scan.cursor \in Nat /\ scan.plan \subseteq Waits!Wait /\ scan.plan # {} /\ config \in WaitConfigs
  BY DEF WaitsInv, WaitTypes, Scans, ScanInv
<1>2. ranges \subseteq Nat \ {0} /\ ranges # {}
  BY <1>1, Requests
<1>3. m \in ranges
  BY <1>2, LeastOf
<1>4. m \in Nat \ {0}
  BY <1>2, <1>3
<1>5. Waits!Chunk = Waits!Min({scan.cursor + m - 1, scan.head})
  BY DEF Waits!Chunk, Waits!Through
<1> HIDE DEF m
<1>6. Waits!Chunk = IF scan.cursor + m - 1 <= scan.head THEN scan.cursor + m - 1 ELSE scan.head
  BY <1>1, <1>4, <1>5, LesserOf
<1> QED BY <1>1, <1>4, <1>6

LEMMA GetLogsKeeps == ASSUME WaitsInv, Waits!GetLogs PROVE WaitsInv'
<1> DEFINE through == Waits!Chunk
           last == Waits!Min({through, Len(chain)})
           new == {Waits!Hash(n) : n \in {k \in scan.cursor .. last : Waits!Selected(chain[k])}}
<1>1. config' = config /\ chain' = chain /\ past' = past /\ updates' = updates /\ unseen' = unseen /\ wait' = wait /\ hub' = hub
      /\ scan.at = "logs" /\ Scanning /\ scan.cursor <= scan.head
  BY DEF Waits!GetLogs, Scanning
<1>2. scan' = [scan EXCEPT !.cursor = through + 1, !.logs = scan.logs \cup new]
  BY DEF Waits!GetLogs, Waits!Height
<1>3. hub \in Hubs /\ scan \in Scans /\ chain \in Hashes /\ ScanInv /\ Len(chain) \in Nat
  BY LenProperties DEF WaitsInv, WaitTypes, ForkInv, Hashes
<1>4. through \in Nat /\ scan.cursor <= through /\ through <= scan.head
  BY <1>1, ChunkFacts
<1>5. scan.head \in Nat /\ scan.cursor \in Nat /\ scan.start \in Nat /\ scan.start >= 1 /\ scan.cursor >= scan.start
      /\ scan.logs \subseteq Hashes
  BY <1>1, <1>3 DEF Scans, ScanInv
<1> HIDE DEF through
<1>6. last = IF through <= Len(chain) THEN through ELSE Len(chain)
  BY <1>3, <1>4, LesserOf
<1> HIDE DEF last
<1>7. new \subseteq Hashes
  <2> SUFFICES ASSUME NEW n \in scan.cursor .. last PROVE Waits!Hash(n) \in Hashes
    OBVIOUS
  <2>1. n \in Nat /\ n <= Len(chain)
    BY <1>3, <1>4, <1>5, <1>6
  <2> QED BY <1>3, <2>1, HashFacts
<1>8. Contains(chain, scan.hash) => new = {SubSeq(scan.hash, 1, n) : n \in {k \in scan.cursor .. through : Waits!Selected(scan.hash[k])}}
  <2> SUFFICES ASSUME Contains(chain, scan.hash)
               PROVE  new = {SubSeq(scan.hash, 1, n) : n \in {k \in scan.cursor .. through : Waits!Selected(scan.hash[k])}}
    OBVIOUS
  <2>1. scan.hash \in Hashes /\ Len(scan.hash) = scan.head
    BY <1>1, <1>3 DEF ScanInv
  <2>2. scan.head <= Len(chain) /\ last = through
    BY <1>3, <1>4, <1>5, <1>6, <2>1 DEF Contains
  <2>3. \A k \in scan.cursor .. through : chain[k] = scan.hash[k] /\ Waits!Hash(k) = SubSeq(scan.hash, 1, k)
    <3> SUFFICES ASSUME NEW k \in scan.cursor .. through PROVE chain[k] = scan.hash[k] /\ Waits!Hash(k) = SubSeq(scan.hash, 1, k)
      OBVIOUS
    <3>1. k \in Nat /\ k \in 1 .. Len(scan.hash) /\ k <= Len(chain)
      BY <1>3, <1>4, <1>5, <2>1, <2>2
    <3>2. Waits!Hash(k) = SubSeq(chain, 1, k)
      BY <1>3, <3>1, HashFacts
    <3>3. SubSeq(chain, 1, k) = SubSeq(scan.hash, 1, k)
      BY <1>3, <2>1, <3>1, SamePrefix
    <3> QED BY <3>1, <3>2, <3>3 DEF Contains
  <2> QED BY <2>2, <2>3
<1>9. Contains(chain, scan.hash) => scan.logs \cup new =
        {SubSeq(scan.hash, 1, n) : n \in {k \in scan.start .. through : Waits!Selected(scan.hash[k])}}
  <2> SUFFICES ASSUME Contains(chain, scan.hash)
               PROVE  scan.logs \cup new =
                        {SubSeq(scan.hash, 1, n) : n \in {k \in scan.start .. through : Waits!Selected(scan.hash[k])}}
    OBVIOUS
  <2>1. scan.logs = {SubSeq(scan.hash, 1, n) : n \in {k \in scan.start .. scan.cursor - 1 : Waits!Selected(scan.hash[k])}}
    BY <1>1, <1>3 DEF ScanInv, Read
  <2>2. \A k : k \in scan.start .. through <=> k \in scan.start .. scan.cursor - 1 \/ k \in scan.cursor .. through
    BY <1>4, <1>5
  <2> HIDE DEF new
  <2> QED BY <1>8, <2>1, <2>2
<1> HIDE DEF new
<1>10. scan' \in Scans /\ scan'.at = "logs" /\ scan'.hash = scan.hash /\ scan'.head = scan.head /\ scan'.plan = scan.plan
      /\ scan'.generation = scan.generation /\ scan'.logs = scan.logs \cup new /\ scan'.start = scan.start
      /\ scan'.cursor = through + 1
  <2> DEFINE logs == scan.logs \cup new
  <2>1. through + 1 \in Nat /\ logs \subseteq Hashes
    BY <1>4, <1>5, <1>7
  <2>2. scan' = [scan EXCEPT !.cursor = through + 1, !.logs = logs]
    BY <1>2
  <2> HIDE DEF logs
  <2>3. scan' \in Scans /\ scan'.at = scan.at /\ scan'.hash = scan.hash /\ scan'.head = scan.head /\ scan'.plan = scan.plan
        /\ scan'.generation = scan.generation /\ scan'.logs = logs /\ scan'.start = scan.start /\ scan'.cursor = through + 1
    BY <1>3, <2>1, <2>2 DEF Scans
  <2> QED BY <1>1, <2>3 DEF logs
<1>11. Contains(chain, scan.hash) => scan'.logs = Read'
  <2>1. \A b : Waits!Selected(b)' <=> Waits!Selected(b)
    BY <1>1, <1>10 DEF Waits!Selected, Waits!Topic
  <2>2. scan'.start .. scan'.cursor - 1 = scan.start .. through
    BY <1>4, <1>10
  <2>3. Read' = {SubSeq(scan.hash, 1, n) : n \in {k \in scan.start .. through : Waits!Selected(scan.hash[k])}}
    BY <1>10, <2>1, <2>2 DEF Read
  <2> QED BY <1>9, <1>10, <2>3
<1>12. Chains' = Chains /\ \A w : From(w)' = From(w)
  BY <1>1 DEF Chains, From
<1>13. Scanning' =>
         /\ scan'.plan # {} /\ scan'.generation <= hub'.generation
         /\ \A w \in hub'.interests : wait'[w].generation <= scan'.generation => w \in scan'.plan
         /\ past' = {} /\ updates'.ok => updates'.head <= scan'.head
  BY <1>1, <1>3, <1>10 DEF ScanInv
<1>14. /\ scan'.hash \in Hashes /\ Len(scan'.hash) = scan'.head /\ \E c \in Chains' : Contains(c, scan'.hash)
       /\ scan'.start >= 1 /\ scan'.cursor >= scan'.start /\ scan'.cursor <= scan'.head + 1
       /\ scan'.start <= scan'.head \/ \A w \in scan'.plan : scan'.start <= From(w)'
       /\ hub'.failures <= hub'.errors
  BY <1>1, <1>3, <1>4, <1>5, <1>10, <1>12 DEF ScanInv
<1>15. Contains(chain', scan'.hash) => scan'.logs = Read'
  BY <1>1, <1>10, <1>11
<1>16. ScanInv'
  BY <1>10, <1>13, <1>14, <1>15 DEF ScanInv
<1>17. hub.errors <= hub'.errors
  BY <1>1, <1>3 DEF Hubs
<1> QED BY <1>1, <1>3, <1>10, <1>16, <1>17, ScannerWaits

LEMMA PublishFacts ==
    ASSUME WaitTypes, NEW u \in Windows, Waits!Publish(u)
    PROVE  /\ updates' \in Windows /\ unseen' \subseteq Waits!Wait
           /\ \/ hub.interests = {} /\ updates' = updates
              \/ updates' = u
BY DEF WaitTypes, Hubs, Waits!Publish

\* The window of a scan whose head is still on the chain shows that chain.
LEMMA ScannedShows ==
    ASSUME WaitsInv, scan.at = "logs", scan.cursor > scan.head, Waits!Hash(scan.head) = scan.hash,
           config' = config, chain' = chain, updates' = Waits!Scanned, NEW w \in scan.plan
    PROVE  Shows(chain, w)'
<1>1. chain \in Hashes /\ scan \in Scans /\ ScanInv /\ scan.head \in Nat /\ scan.cursor \in Nat /\ scan.start \in Nat
      /\ Len(chain) \in Nat
  BY LenProperties DEF WaitsInv, WaitTypes, ForkInv, Scans, Hashes
<1>2. scan.hash \in Hashes /\ Len(scan.hash) = scan.head /\ Contains(chain, scan.hash) /\ scan.start >= 1
  BY <1>1, HashIs DEF ScanInv
<1>3. scan.head <= Len(chain)
  BY <1>2 DEF Contains
<1>4. scan.start .. scan.cursor - 1 = scan.start .. scan.head
  BY <1>1 DEF ScanInv
<1>5. scan.logs = {SubSeq(scan.hash, 1, n) : n \in {k \in scan.start .. scan.head : Waits!Selected(scan.hash[k])}}
  BY <1>1, <1>2, <1>4 DEF ScanInv, Read
<1>6. ASSUME NEW k \in scan.start .. scan.head
      PROVE  /\ SubSeq(scan.hash, 1, k) = SubSeq(chain, 1, k) /\ scan.hash[k] = chain[k]
             /\ SubSeq(chain, 1, k)[Len(SubSeq(chain, 1, k))] = chain[k]
  <2>1. k \in Nat /\ k <= Len(scan.hash) /\ k <= Len(chain) /\ k \in 1 .. Len(scan.hash) /\ k \in 1 .. k
    BY <1>1, <1>2, <1>3
  <2>2. SubSeq(chain, 1, k) = SubSeq(scan.hash, 1, k)
    BY <1>1, <1>2, <2>1, SamePrefix
  <2>3. Len(SubSeq(chain, 1, k)) = k /\ SubSeq(chain, 1, k)[k] = chain[k]
    BY <1>1, <2>1, UpTo
  <2> QED BY <1>2, <2>1, <2>2, <2>3 DEF Contains
<1>7. scan.logs = {SubSeq(chain, 1, n) : n \in {k \in scan.start .. scan.head : Waits!Selected(chain[k])}}
  BY ZenonT(60), <1>5, <1>6
<1>8. \A b : b.log = Waits!Topic(w) => Waits!Selected(b)
  BY DEF Waits!Selected
<1>9. {h \in scan.logs : h[Len(h)].log = Waits!Topic(w)}
        = {SubSeq(chain, 1, n) : n \in {k \in scan.start .. scan.head : chain[k].log = Waits!Topic(w)}}
  <2>1. \A n \in {k \in scan.start .. scan.head : Waits!Selected(chain[k])} :
          SubSeq(chain, 1, n)[Len(SubSeq(chain, 1, n))].log = Waits!Topic(w) <=> chain[n].log = Waits!Topic(w)
    BY <1>6
  <2>2. ASSUME NEW h \in {g \in scan.logs : g[Len(g)].log = Waits!Topic(w)}
        PROVE  h \in {SubSeq(chain, 1, n) : n \in {k \in scan.start .. scan.head : chain[k].log = Waits!Topic(w)}}
    BY <1>7, <2>1
  <2>3. ASSUME NEW n \in {k \in scan.start .. scan.head : chain[k].log = Waits!Topic(w)}
        PROVE  SubSeq(chain, 1, n) \in {g \in scan.logs : g[Len(g)].log = Waits!Topic(w)}
    BY <1>7, <1>8, <2>1
  <2> QED BY <2>2, <2>3
<1>10. updates'.start = scan.start /\ updates'.head = scan.head /\ updates'.logs = scan.logs
  BY DEF Waits!Scanned
<1>11. Waits!Topic(w)' = Waits!Topic(w) /\ From(w)' = From(w)
  BY DEF Waits!Topic, From
<1>12. scan.start <= scan.head \/ scan.start <= From(w)
  BY <1>1 DEF ScanInv
<1> QED BY <1>9, <1>10, <1>11, <1>12 DEF Shows

LEMMA CommitKeeps == ASSUME WaitsInv, Waits!Commit PROVE WaitsInv'
<1> DEFINE scanned == Waits!Scanned
           idle == [Waits!Scan0 EXCEPT !.at = "tick"]
<1>1. config' = config /\ chain' = chain /\ past' = past /\ wait' = wait
      /\ scan.at = "logs" /\ Scanning /\ scan.cursor > scan.head /\ scan' = idle
  BY DEF Waits!Commit, Scanning
<1>2. hub \in Hubs /\ scan \in Scans /\ ScanInv /\ WindowInv /\ updates \in Windows
  BY DEF WaitsInv, WaitTypes
<1>3. idle \in Scans /\ idle.at = "tick"
  BY IdleScan DEF WaitsInv, Scans
<1>4. scanned \in Windows /\ scanned.ok /\ scanned.generation = scan.generation /\ scanned.head = scan.head
      /\ scanned.start = scan.start
  BY <1>2 DEF Waits!Scanned, Windows, Scans, Hubs
<1>5. CASE Waits!Hash(scan.head) = scan.hash
  <2>1. hub' = [hub EXCEPT !.checkpoint = scan.hash, !.failures = 0] /\ Waits!Publish(scanned)
    BY <1>5 DEF Waits!Commit
  <2> HIDE DEF scanned, idle
  <2>2. scan.hash \in Hashes \cup {Waits!None}
    BY <1>2 DEF Scans
  <2>3. hub' \in Hubs /\ hub'.generation = hub.generation /\ hub'.interests = hub.interests /\ hub'.errors = hub.errors
        /\ hub'.failures = 0
    BY <1>2, <2>1, <2>2 DEF Hubs
  <2>4. hub.errors <= hub'.errors /\ hub'.failures <= hub'.errors
    BY <1>2, <2>3 DEF Hubs
  <2>5. updates' \in Windows /\ unseen' \subseteq Waits!Wait
        /\ ((hub.interests = {} /\ updates' = updates) \/ updates' = scanned)
    BY <1>4, <2>1, PublishFacts DEF WaitsInv
  <2>6. ScanInv'
    BY <1>1, <1>3, <2>4, NotScanning
  <2>7. CASE hub.interests = {} /\ updates' = updates
    <3>1. ForkInv' /\ Moves
      BY <1>1, Stays DEF WaitsInv
    <3>2. hub.generation \in Nat
      BY <1>2 DEF Hubs
    <3>3. WindowInv'
      BY <1>2, <2>3, <2>7, <3>1, <3>2, WindowStays DEF WaitsInv
    <3>4. Steady' /\ updates.ok => updates'.ok /\ updates.head <= updates'.head
      BY <1>2, <2>7 DEF Windows
    <3> QED BY <1>1, <1>3, <2>3, <2>4, <2>5, <2>6, <3>3, <3>4, ScannerMoves
  <2>8. CASE updates' = scanned
    <3>1. scan.hash \in Hashes /\ Len(scan.hash) = scan.head /\ Contains(chain, scan.hash)
      BY <1>1, <1>2, <1>5, HashIs DEF ScanInv, WaitsInv, ForkInv
    <3>2. scan.head <= Len(chain) /\ chain \in Chains'
      BY <1>1, <3>1 DEF Contains, Chains
    <3>3. \A w \in hub'.interests : wait'[w].generation \in 1 .. updates'.generation => w \in scan.plan
      BY <1>1, <1>2, <1>4, <2>3, <2>8 DEF ScanInv, Scans
    <3>4. \A w \in scan.plan : Shows(chain, w)'
      BY <1>1, <1>5, <2>8, ScannedShows DEF scanned
    <3>5. \E c \in Chains' :
             /\ updates'.head <= Len(c)
             /\ \A w \in hub'.interests : wait'[w].generation \in 1 .. updates'.generation => Shows(c, w)'
      <4>1. PICK c : c = chain
        OBVIOUS
      <4>2. \A w \in scan.plan : Shows(c, w)'
        BY <1>1, <3>4, <4>1 DEF Shows
      <4>3. c \in Chains' /\ updates'.head <= Len(c)
        BY <1>4, <2>8, <3>2, <4>1
      <4>4. \A w \in hub'.interests : wait'[w].generation \in 1 .. updates'.generation => Shows(c, w)'
        BY <3>3, <4>2
      <4> QED BY <4>3, <4>4
    <3>6. updates'.generation <= hub'.generation /\ updates'.start >= 1
      BY <1>1, <1>2, <1>4, <2>3, <2>8 DEF ScanInv
    <3>7. WindowInv'
      BY <3>5, <3>6 DEF WindowInv
    <3>8. Steady' /\ updates.ok => updates'.ok /\ updates.head <= updates'.head
      BY <1>1, <1>2, <1>4, <2>8 DEF Steady, ScanInv
    <3> QED BY <1>1, <1>3, <2>3, <2>4, <2>5, <2>6, <3>7, <3>8, ScannerMoves
  <2> QED BY <2>5, <2>7, <2>8
<1>6. CASE Waits!Hash(scan.head) # scan.hash
  <2>1. hub' = [hub EXCEPT !.checkpoint = Waits!None, !.epoch = hub.epoch + 1, !.failures = 0]
        /\ updates' = updates /\ unseen' = unseen
    BY <1>6 DEF Waits!Commit
  <2> HIDE DEF scanned, idle
  <2>2. hub.epoch + 1 \in Nat
    BY <1>2 DEF Hubs
  <2>3. hub' \in Hubs /\ hub'.generation = hub.generation /\ hub'.interests = hub.interests /\ hub'.errors = hub.errors
        /\ hub'.failures = 0
    BY <1>2, <2>1, <2>2 DEF Hubs
  <2>4. hub.errors <= hub'.errors /\ hub'.failures <= hub'.errors
    BY <1>2, <2>3 DEF Hubs
  <2>5. ScanInv'
    BY <1>1, <1>3, <2>4, NotScanning
  <2> QED BY <1>1, <1>3, <2>1, <2>3, <2>4, <2>5, ScannerWaits
<1> QED BY <1>5, <1>6

LEMMA ScanFailsKeeps == ASSUME WaitsInv, Waits!ScanFails PROVE WaitsInv'
<1> DEFINE idle == [Waits!Scan0 EXCEPT !.at = "tick"]
           told == [Waits!Window0 EXCEPT !.generation = scan.generation]
           count == hub.failures + 1
           kept == IF count < ScanRetries THEN count ELSE 0
<1>1. config' = config /\ chain' = chain /\ past' = past /\ wait' = wait /\ Scanning /\ scan' = idle
      /\ hub' = [hub EXCEPT !.errors = hub.errors + 1, !.failures = kept]
      /\ (IF count < ScanRetries THEN updates' = updates /\ unseen' = unseen ELSE Waits!Publish(told))
  BY DEF Waits!ScanFails, Scanning
<1>2. hub \in Hubs /\ scan \in Scans /\ ScanInv /\ WindowInv /\ updates \in Windows
  BY DEF WaitsInv, WaitTypes
<1>3. idle \in Scans /\ idle.at = "tick"
  BY IdleScan DEF WaitsInv, Scans
<1>4. told \in Windows /\ ~told.ok /\ told.generation = scan.generation
  BY <1>2 DEF Waits!Window0, Windows, Scans
<1>5. hub.failures \in Nat /\ hub.errors \in Nat /\ hub.failures <= hub.errors /\ ScanRetries \in Nat \ {0}
  BY <1>2, PartsAssumption DEF Hubs, ScanInv, Waits!ScenarioWaitsAssumption
<1>6. kept \in Nat /\ kept <= hub.errors + 1
  BY <1>5
<1> HIDE DEF idle, told, kept
<1>7. hub' \in Hubs /\ hub'.generation = hub.generation /\ hub'.interests = hub.interests /\ hub'.errors = hub.errors + 1
      /\ hub'.failures = kept
  <2>1. PICK errors : errors = hub.errors + 1
    OBVIOUS
  <2>2. errors \in Nat
    BY <1>5, <2>1
  <2>3. hub' = [hub EXCEPT !.errors = errors, !.failures = kept]
    BY <1>1, <2>1
  <2>4. hub' \in Hubs /\ hub'.generation = hub.generation /\ hub'.interests = hub.interests /\ hub'.errors = errors
        /\ hub'.failures = kept
    BY <1>2, <1>6, <2>2, <2>3 DEF Hubs
  <2> QED BY <2>1, <2>4
<1>8. ScanInv' /\ hub.errors <= hub'.errors
  BY <1>1, <1>3, <1>5, <1>6, <1>7, NotScanning
<1>9. CASE updates' = updates /\ unseen' \subseteq Waits!Wait
  <2>1. ForkInv' /\ Moves
    BY <1>1, Stays DEF WaitsInv
  <2>2. hub.generation \in Nat
    BY <1>2 DEF Hubs
  <2>3. WindowInv'
    BY <1>1, <1>2, <1>7, <1>9, <2>1, <2>2, WindowStays DEF WaitsInv
  <2>4. Steady' /\ updates.ok => updates'.ok /\ updates.head <= updates'.head
    BY <1>2, <1>9 DEF Windows
  <2> QED BY <1>1, <1>2, <1>3, <1>7, <1>8, <1>9, <2>3, <2>4, ScannerMoves
<1>10. CASE updates' = told /\ unseen' \subseteq Waits!Wait /\ ~(count < ScanRetries)
  <2>1. WindowInv'
    BY <1>1, <1>2, <1>4, <1>7, <1>10 DEF WindowInv, ScanInv
  <2>2. ~Steady'
    BY <1>5, <1>7, <1>10 DEF Steady
  <2> QED BY <1>1, <1>2, <1>3, <1>4, <1>7, <1>8, <1>10, <2>1, <2>2, ScannerMoves
<1>11. WaitTypes /\ unseen \subseteq Waits!Wait
  BY DEF WaitsInv, WaitTypes
<1>12. count < ScanRetries => updates' = updates /\ unseen' \subseteq Waits!Wait
  BY <1>1, <1>11
<1>13. ~(count < ScanRetries) => (updates' = updates \/ updates' = told) /\ unseen' \subseteq Waits!Wait
  BY <1>1, <1>4, <1>11, PublishFacts
<1> QED BY <1>9, <1>10, <1>12, <1>13

-----------------------------------------------------------------------------
(* The steps of the waits                                                  *)

\* A wait moves on: its record changes, but its generation does not.
LEMMA WaitMoves ==
    ASSUME WaitsInv, config' = config, chain' = chain, past' = past, hub' = hub, scan' = scan, updates' = updates,
           unseen' \subseteq Waits!Wait, NEW w \in Waits!Wait, NEW r, wait' = [wait EXCEPT ![w] = r],
           r.generation = wait[w].generation, Standing(w, r)
    PROVE  WaitsInv'
<1>1. ForkInv' /\ Moves
  BY Stays DEF WaitsInv
<1>2. hub.generation \in Nat /\ hub.errors \in Nat /\ updates.head \in Nat /\ hub.interests \subseteq Waits!Wait
      /\ hub.failures <= hub.errors
  BY DEF WaitsInv, WaitTypes, Hubs, Windows, ScanInv
<1>3. \A v \in Waits!Wait : ScannerKeeps(v)
  BY <1>1, <1>2 DEF ScannerKeeps, Moves, Steady
<1>4. Standing(w, r)'
  BY <1>1, <1>3, Keeps DEF WaitsInv
<1>5. StandInv' /\ wait' = [v \in Waits!Wait' |-> wait'[v]]
  BY <1>1, <1>3, <1>4, OneMoves DEF WaitsInv
<1>6. \A v \in Waits!Wait : wait'[v].generation = wait[v].generation
  <2>1. \A v \in Waits!Wait \ {w} : wait'[v] = wait[v]
    BY DEF WaitsInv, WaitTypes
  <2>2. wait'[w] = r
    BY DEF WaitsInv, WaitTypes
  <2> QED BY <2>1, <2>2
<1>7. ScanInv'
  <2>1. Scanning => \A v \in hub'.interests : wait'[v].generation <= scan.generation => v \in scan.plan
    BY <1>2, <1>6 DEF WaitsInv, ScanInv
  <2>2. hub'.generation \in Nat /\ hub.generation <= hub'.generation /\ hub'.failures <= hub'.errors
    BY <1>2
  <2> QED BY <1>1, <2>1, <2>2, ScanStays DEF WaitsInv
<1>8. WindowInv'
  <2>1. \A v \in hub'.interests : wait'[v].generation \in 1 .. updates.generation =>
             v \in hub.interests /\ wait[v].generation \in 1 .. updates.generation
    BY <1>2, <1>6
  <2> QED BY <1>1, <1>2, <2>1, WindowStays DEF WaitsInv
<1>9. Waits!Wait' = Waits!Wait
  BY DEF Waits!Wait
<1>10. Hubs' = Hubs /\ Scans' = Scans /\ Windows' = Windows
  BY <1>9 DEF Hubs, Scans, Windows
<1>11. WaitTypes'
  BY <1>5, <1>9, <1>10 DEF WaitTypes, WaitsInv
<1> QED BY <1>1, <1>5, <1>7, <1>8, <1>11 DEF WaitsInv

LEMMA EndRecord ==
    ASSUME NEW a, NEW f, NEW d
    PROVE  [Waits!Wait0 EXCEPT !.at = a, !.found = f, !.depth = d]
             = [at |-> a, generation |-> 0, epoch |-> -1, next |-> 0, head |-> 0, queue |-> {},
                from |-> 0, cursor |-> 0, through |-> 0, before |-> Waits!None, found |-> f, depth |-> d, events |-> <<>>]
<1>1. PICK none, empty, nothing, b, c, e : none = Waits!None /\ empty = {} /\ nothing = <<>> /\ b = Waits!Wait0
        /\ c = [b EXCEPT !.at = a] /\ e = [c EXCEPT !.found = f]
  OBVIOUS
<1>2. b = [at |-> "new", generation |-> 0, epoch |-> -1, next |-> 0, head |-> 0, queue |-> empty,
           from |-> 0, cursor |-> 0, through |-> 0, before |-> none, found |-> none, depth |-> 0, events |-> nothing]
  BY <1>1 DEF Waits!Wait0
<1> DEFINE R(x, g, y) == [at |-> x, generation |-> 0, epoch |-> -1, next |-> 0, head |-> 0, queue |-> empty, from |-> 0,
                          cursor |-> 0, through |-> 0, before |-> none, found |-> g, depth |-> y, events |-> nothing]
<1>3. c = R(a, none, 0)
  <2>1. c = [b EXCEPT !.at = a]
    BY <1>1
  <2> QED BY <1>2, <2>1
<1>4. e = R(a, f, 0)
  <2>1. e = [c EXCEPT !.found = f]
    BY <1>1
  <2> QED BY <1>3, <2>1
<1>5. [e EXCEPT !.depth = d] = R(a, f, d)
  BY <1>4
<1>6. [e EXCEPT !.depth = d] = [Waits!Wait0 EXCEPT !.at = a, !.found = f, !.depth = d]
  BY <1>1
<1> QED BY <1>1, <1>5, <1>6

\* A wait ends: it leaves the registry, and of its record the outcome remains.
LEMMA EndMoves ==
    ASSUME WaitsInv, config' = config, chain' = chain, past' = past, scan' = scan, updates' = updates,
           unseen' \subseteq Waits!Wait, NEW w \in Waits!Wait, NEW s, Waits!End(w, s),
           s.at \in {"done", "failed"}, s.found = wait[w].found,
           s.at = "done" => s.found # Waits!None /\ Logs(w) /\ (Steady => Clear(w, Len(s.found) - 1))
    PROVE  WaitsInv'
<1> DEFINE r == [Waits!Wait0 EXCEPT !.at = s.at, !.found = s.found, !.depth = s.depth]
<1>1. wait' = [wait EXCEPT ![w] = r]
  BY DEF Waits!End, Waits!Becomes
<1>2. r = [at |-> s.at, generation |-> 0, epoch |-> -1, next |-> 0, head |-> 0, queue |-> {},
           from |-> 0, cursor |-> 0, through |-> 0, before |-> Waits!None, found |-> s.found, depth |-> s.depth, events |-> <<>>]
  BY EndRecord
<1> HIDE DEF r
<1>3. hub \in Hubs /\ hub.failures <= hub.errors /\ updates \in Windows /\ config \in WaitConfigs
  BY DEF WaitsInv, WaitTypes, ScanInv
<1>4. hub' \in Hubs /\ hub.generation <= hub'.generation /\ hub'.interests = hub.interests \ {w}
      /\ hub'.failures = hub.failures /\ hub'.errors = hub.errors
  <2>1. CASE w \in hub.interests
    <3>1. PICK generation, interests : generation = hub.generation + 1 /\ interests = hub.interests \ {w}
      OBVIOUS
    <3>2. hub' = [hub EXCEPT !.generation = generation, !.interests = interests]
      BY <2>1, <3>1 DEF Waits!End, Waits!Unsubscribed
    <3>3. generation \in Nat /\ interests \in SUBSET Waits!Wait /\ hub.generation <= generation
      BY <1>3, <3>1 DEF Hubs
    <3> QED BY <1>3, <3>1, <3>2, <3>3 DEF Hubs
  <2>2. CASE w \notin hub.interests
    <3>1. hub' = hub
      BY <2>2 DEF Waits!End, Waits!Unsubscribed
    <3>2. hub.generation \in Nat
      BY <1>3 DEF Hubs
    <3> QED BY <1>3, <2>2, <3>1, <3>2
  <2> QED BY <2>1, <2>2
<1>5. hub'.generation \in Nat /\ hub.generation \in Nat /\ hub'.errors \in Nat /\ hub.errors \in Nat
      /\ hub'.failures <= hub'.errors /\ updates.head \in Nat /\ hub.interests \subseteq Waits!Wait
  BY <1>3, <1>4 DEF Hubs, Windows
<1>6. ForkInv' /\ Moves
  BY Stays DEF WaitsInv
<1>7. \A v \in Waits!Wait \ {w} : ScannerKeeps(v)
  BY <1>4, <1>5, <1>6 DEF ScannerKeeps, Moves, Steady
<1>8. Standing(w, wait[w]) /\ wait[w].found \in Hashes \cup {Waits!None}
  BY DEF WaitsInv, StandInv, Standing, RecordOk
<1>9. Standing(w, r)'
  <2>1. From(w)' = From(w) /\ Waits!Confirmations(w)' = Waits!Confirmations(w) /\ Waits!Topic(w)' = Waits!Topic(w)
        /\ (Logs(w)' <=> Logs(w)) /\ (Receipts(w)' <=> Receipts(w)) /\ Chains' = Chains
    BY DEF From, Waits!Confirmations, Waits!Topic, Logs, Receipts, Waits!Wait, Chains
  <2>2. RecordOk(w, r)'
    BY <1>2, <1>8, <2>1 DEF RecordOk
  <2>3. Found(w, r)'
    <3>1. Found(w, wait[w])
      BY <1>8 DEF Standing
    <3>2. r.found = wait[w].found /\ r.at = s.at
      BY <1>2
    <3> QED BY <2>1, <3>1, <3>2 DEF Found
  <2>4. Confirmed(w, r)'
    <3>1. s.at = "failed" \/ ~Receipts(w)
      BY DEF Logs, Receipts
    <3> QED BY <1>2, <2>1, <3>1 DEF Confirmed
  <2>5. Registered(w, r)'
    BY <1>2, <1>5, <2>1 DEF Registered
  <2>6. Searched(w, r)'
    <3>1. Steady' => Steady
      BY <1>4 DEF Steady
    <3>2. \A n : Clear(w, n)' <=> Clear(w, n)
      BY <2>1 DEF Clear
    <3> HIDE DEF Clear
    <3> QED BY <1>2, <2>1, <3>1, <3>2 DEF Searched
  <2> QED BY <2>2, <2>3, <2>4, <2>5, <2>6 DEF Standing
<1>10. StandInv' /\ wait' = [v \in Waits!Wait' |-> wait'[v]]
  BY <1>1, <1>6, <1>7, <1>9, OneMoves DEF WaitsInv
<1>11. \A v \in Waits!Wait \ {w} : wait'[v] = wait[v]
  BY <1>1 DEF WaitsInv, WaitTypes
<1>12. \A v \in hub'.interests : v \in hub.interests /\ wait'[v] = wait[v]
  BY <1>4, <1>5, <1>11
<1>13. ScanInv'
  <2>1. Scanning => \A v \in hub'.interests : wait'[v].generation <= scan.generation => v \in scan.plan
    BY <1>12 DEF WaitsInv, ScanInv
  <2> QED BY <1>4, <1>5, <1>6, <2>1, ScanStays DEF WaitsInv
<1>14. WindowInv'
  BY <1>4, <1>5, <1>6, <1>12, WindowStays DEF WaitsInv
<1>15. Waits!Wait' = Waits!Wait
  BY DEF Waits!Wait
<1>16. Hubs' = Hubs /\ Scans' = Scans /\ Windows' = Windows
  BY <1>15 DEF Hubs, Scans, Windows
<1>17. WaitTypes'
  BY <1>3, <1>4, <1>10, <1>15, <1>16 DEF WaitTypes, WaitsInv
<1> QED BY <1>6, <1>10, <1>13, <1>14, <1>17 DEF WaitsInv

LEMMA KindsDiffer == ASSUME NEW w, Logs(w), Receipts(w) PROVE FALSE
BY DEF Logs, Receipts

\* A record of which only `at` changes.
LEMMA AtIs ==
    ASSUME NEW w, NEW s, RecordOk(w, s), NEW a, NEW r, r = [s EXCEPT !.at = a],
           Logs(w) => a \in {"new", "window", "before", "search", "after", "depth", "block", "done", "failed"},
           Receipts(w) => a \in {"new", "receipt", "confirm", "refetch", "block", "depth", "done", "failed"}
    PROVE  /\ RecordOk(w, r) /\ r.at = a /\ r.generation = s.generation /\ r.epoch = s.epoch /\ r.next = s.next
           /\ r.head = s.head /\ r.queue = s.queue /\ r.from = s.from /\ r.cursor = s.cursor /\ r.through = s.through
           /\ r.before = s.before /\ r.found = s.found /\ r.depth = s.depth /\ r.events = s.events
<1>1. s = [at |-> s.at, generation |-> s.generation, epoch |-> s.epoch, next |-> s.next, head |-> s.head, queue |-> s.queue,
           from |-> s.from, cursor |-> s.cursor, through |-> s.through, before |-> s.before, found |-> s.found,
           depth |-> s.depth, events |-> s.events]
  BY DEF RecordOk
<1>2. r = [at |-> a, generation |-> s.generation, epoch |-> s.epoch, next |-> s.next, head |-> s.head, queue |-> s.queue,
           from |-> s.from, cursor |-> s.cursor, through |-> s.through, before |-> s.before, found |-> s.found,
           depth |-> s.depth, events |-> s.events]
  BY <1>1
<1>3. /\ r.at = a /\ r.generation = s.generation /\ r.epoch = s.epoch /\ r.next = s.next
      /\ r.head = s.head /\ r.queue = s.queue /\ r.from = s.from /\ r.cursor = s.cursor /\ r.through = s.through
      /\ r.before = s.before /\ r.found = s.found /\ r.depth = s.depth /\ r.events = s.events
  BY <1>2
<1>4. RecordOk(w, r)
  BY <1>2, <1>3 DEF RecordOk
<1> QED BY <1>3, <1>4

\* Of a receipt's wait the invariant says where it is, and what it found.
LEMMA ReceiptStands ==
    ASSUME NEW w, Receipts(w), NEW r, RecordOk(w, r), Found(w, r), Confirmed(w, r), r.generation <= hub.generation
    PROVE  Standing(w, r)
<1>1. ~Logs(w)
  BY KindsDiffer
<1> QED BY <1>1 DEF Standing, Registered, Searched

LEMMA ReceiptFacts ==
    ASSUME WaitsInv, NEW w \in Waits!Wait, Receipts(w)
    PROVE  Waits!Receipt(w) # Waits!None =>
             /\ Waits!Receipt(w) \in Hashes /\ Len(Waits!Receipt(w)) >= 1 /\ Contains(chain, Waits!Receipt(w))
             /\ Waits!Receipt(w)[Len(Waits!Receipt(w))].log = Waits!Topic(w)
<1> DEFINE hits == {k \in DOMAIN chain : chain[k].log = Waits!Topic(w)}
<1>1. chain \in Hashes /\ Len(chain) \in Nat /\ DOMAIN chain = 1 .. Len(chain)
  BY LenProperties DEF WaitsInv, ForkInv, Hashes
<1>2. CASE hits = {}
  BY <1>2 DEF Waits!Receipt
<1>3. CASE hits # {}
  <2>1. Waits!Receipt(w) = Waits!Hash(Waits!Min(hits))
    BY <1>3 DEF Waits!Receipt
  <2>2. hits \subseteq Nat
    BY <1>1
  <2>3. PICK m : m = Waits!Min(hits)
    OBVIOUS
  <2>4. m \in hits
    BY <1>3, <2>2, <2>3, LeastOf
  <2>5. m \in Nat /\ m >= 1 /\ m <= Len(chain) /\ chain[m].log = Waits!Topic(w)
    BY <1>1, <2>4
  <2>6. PICK h : h = Waits!Hash(m)
    OBVIOUS
  <2>7. h \in Hashes /\ Len(h) = m /\ Contains(chain, h)
    BY <1>1, <2>5, <2>6, HashFacts
  <2>8. h[m] = chain[m]
    BY <2>5, <2>7 DEF Contains
  <2> QED BY <2>1, <2>3, <2>5, <2>6, <2>7, <2>8
<1> QED BY <1>2, <1>3

LEMMA StandsNow ==
    ASSUME WaitsInv, NEW w \in Waits!Wait
    PROVE  /\ Standing(w, wait[w]) /\ RecordOk(w, wait[w]) /\ Found(w, wait[w]) /\ Confirmed(w, wait[w])
           /\ Registered(w, wait[w]) /\ Searched(w, wait[w]) /\ config \in WaitConfigs
           /\ chain \in Hashes /\ Len(chain) \in Nat /\ chain \in Chains
BY LenProperties DEF WaitsInv, WaitTypes, StandInv, Standing, ForkInv, Hashes, Chains

\* The node's answer finds the receipt.
LEMMA FetchReceiptKeeps == ASSUME WaitsInv, NEW w \in Waits!Wait, Waits!FetchReceipt(w) PROVE WaitsInv'
<1>1. PICK s, h, a : s = wait[w] /\ h = Waits!Receipt(w) /\ a = IF Waits!Confirmations(w) = 0 THEN "refetch" ELSE "confirm"
  OBVIOUS
<1>2. PICK r : r = [s EXCEPT !.found = h, !.at = a]
  OBVIOUS
<1>3. Receipts(w) /\ h # Waits!None /\ wait' = [wait EXCEPT ![w] = r] /\ UNCHANGED Waits!Waiting
  BY <1>1, <1>2 DEF Waits!FetchReceipt, Waits!Becomes, Receipts
<1>4. h \in Hashes /\ Len(h) >= 1 /\ Contains(chain, h) /\ h[Len(h)].log = Waits!Topic(w)
  BY <1>1, <1>3, ReceiptFacts
<1>5. RecordOk(w, s) /\ s.generation <= hub.generation
  BY <1>1, StandsNow DEF Registered
<1>6. a \in {"refetch", "confirm"} /\ (a = "refetch" => Waits!Confirmations(w) = 0)
  BY <1>1
<1>7. r = [at |-> a, generation |-> s.generation, epoch |-> s.epoch, next |-> s.next, head |-> s.head, queue |-> s.queue,
           from |-> s.from, cursor |-> s.cursor, through |-> s.through, before |-> s.before, found |-> h,
           depth |-> s.depth, events |-> s.events]
  <2>1. s = [at |-> s.at, generation |-> s.generation, epoch |-> s.epoch, next |-> s.next, head |-> s.head, queue |-> s.queue,
             from |-> s.from, cursor |-> s.cursor, through |-> s.through, before |-> s.before, found |-> s.found,
             depth |-> s.depth, events |-> s.events]
    BY <1>5 DEF RecordOk
  <2> QED BY <1>2, <2>1
<1>8. r.at = a /\ r.found = h /\ r.generation = s.generation
  BY <1>7
<1>9. RecordOk(w, r)
  BY <1>3, <1>4, <1>5, <1>6, <1>7, KindsDiffer DEF RecordOk
<1>10. Found(w, r)
  BY <1>3, <1>4, <1>8, StandsNow, KindsDiffer DEF Found
<1>11. Confirmed(w, r)
  <2>1. r.at = "refetch" => Deepened(w, r)
    <3>1. Len(h) \in Nat /\ Len(h) <= Len(chain)
      BY <1>4, LenProperties DEF Hashes, Contains
    <3> QED BY <1>4, <1>6, <1>8, <3>1, StandsNow DEF Deepened
  <2> QED BY <1>6, <1>8, <2>1 DEF Confirmed
<1>12. Standing(w, r)
  BY <1>3, <1>5, <1>8, <1>9, <1>10, <1>11, ReceiptStands
<1>13. unseen' \subseteq Waits!Wait
  BY <1>3 DEF WaitsInv, WaitTypes, Waits!Waiting
<1> QED BY <1>1, <1>3, <1>8, <1>12, <1>13, WaitMoves DEF Waits!Waiting

\* A receipt's wait changes only in where it is.
LEMMA ReceiptMoves ==
    ASSUME WaitsInv, NEW w \in Waits!Wait, Receipts(w), NEW a \in {"receipt", "refetch", "block", "depth", "done", "failed"},
           UNCHANGED Waits!Waiting, wait' = [wait EXCEPT ![w] = [wait[w] EXCEPT !.at = a]],
           a \in {"refetch", "block", "depth", "done"} => wait[w].found # Waits!None,
           a = "refetch" /\ Contains(chain, wait[w].found) => Deepened(w, wait[w]),
           a \in {"block", "depth", "done"} => Deepened(w, wait[w])
    PROVE  WaitsInv'
<1>1. PICK s : s = wait[w]
  OBVIOUS
<1>2. PICK r : r = [s EXCEPT !.at = a]
  OBVIOUS
<1>3. RecordOk(w, s) /\ Found(w, s) /\ s.generation <= hub.generation
  BY <1>1, StandsNow DEF Registered
<1>4. RecordOk(w, r) /\ r.at = a /\ r.generation = s.generation /\ r.found = s.found
  BY <1>2, <1>3, AtIs, KindsDiffer
<1>5. Found(w, r)
  BY <1>1, <1>3, <1>4 DEF Found
<1>6. Confirmed(w, r)
  BY <1>1, <1>4 DEF Confirmed, Deepened
<1>7. Standing(w, r)
  BY <1>3, <1>4, <1>5, <1>6, ReceiptStands
<1>8. unseen' \subseteq Waits!Wait
  BY DEF WaitsInv, WaitTypes, Waits!Waiting
<1>9. wait' = [wait EXCEPT ![w] = r]
  BY <1>1, <1>2
<1> QED BY <1>1, <1>4, <1>7, <1>8, <1>9, WaitMoves DEF Waits!Waiting

LEMMA WaitForConfirmationsKeeps == ASSUME WaitsInv, NEW w \in Waits!Wait, Waits!WaitForConfirmations(w) PROVE WaitsInv'
<1>1. PICK s : s = wait[w]
  OBVIOUS
<1>2. s.at = "confirm" /\ RecordOk(w, s) /\ Found(w, s) /\ chain \in Chains
      /\ Len(chain) >= Len(s.found) + Waits!Confirmations(w)
  BY <1>1, StandsNow DEF Waits!WaitForConfirmations, Waits!Target, Waits!Height
<1>3. Receipts(w)
  BY <1>2, StandsNow, Requests DEF RecordOk
<1>4. s.found # Waits!None
  BY <1>2 DEF Found
<1>5. Contains(chain, s.found) => Deepened(w, s)
  BY <1>2 DEF Deepened
<1>6. UNCHANGED Waits!Waiting /\ wait' = [wait EXCEPT ![w] = [wait[w] EXCEPT !.at = "refetch"]]
  BY DEF Waits!WaitForConfirmations, Waits!Becomes
<1> QED BY <1>1, <1>3, <1>4, <1>5, <1>6, ReceiptMoves

LEMMA RefetchKeeps == ASSUME WaitsInv, NEW w \in Waits!Wait, Waits!Refetch(w) PROVE WaitsInv'
<1>1. PICK s, a : s = wait[w] /\ a = IF Waits!Receipt(w) = wait[w].found THEN "block" ELSE "receipt"
  OBVIOUS
<1>2. s.at = "refetch" /\ RecordOk(w, s) /\ Found(w, s) /\ Confirmed(w, s)
  BY <1>1, StandsNow DEF Waits!Refetch
<1>3. Receipts(w)
  BY <1>2, StandsNow, Requests DEF RecordOk
<1>4. s.found # Waits!None
  BY <1>2 DEF Found
<1>5. a \in {"block", "receipt"} /\ (a = "block" => Waits!Receipt(w) = s.found)
  BY <1>1
<1>6. a = "block" => Contains(chain, s.found)
  BY <1>3, <1>4, <1>5, ReceiptFacts
<1>7. a = "block" => Deepened(w, s)
  BY <1>2, <1>3, <1>6 DEF Confirmed
<1>8. UNCHANGED Waits!Waiting /\ wait' = [wait EXCEPT ![w] = [wait[w] EXCEPT !.at = a]]
  BY <1>1 DEF Waits!Refetch, Waits!Becomes
<1> QED BY <1>1, <1>3, <1>4, <1>5, <1>7, <1>8, ReceiptMoves

\* The receipt's events are assigned, or its wait fails.
LEMMA AssignedMoves ==
    ASSUME WaitsInv, NEW w \in Waits!Wait, Receipts(w), NEW d, UNCHANGED Waits!Waiting,
           wait' = [wait EXCEPT ![w] = Waits!Assigned(w, d)], wait[w].found # Waits!None, Deepened(w, wait[w])
    PROVE  WaitsInv'
<1> DEFINE full == Waits!Completes(config.want[w].events, {})
<1>1. CASE full
  <2>1. PICK s, e : s = wait[w] /\ e = Waits!Assignment(config.want[w].events)
    OBVIOUS
  <2>2. PICK r : r = [s EXCEPT !.at = "done", !.depth = d, !.events = e]
    OBVIOUS
  <2>3. wait' = [wait EXCEPT ![w] = r]
    BY <1>1, <2>1, <2>2 DEF Waits!Assigned
  <2>4. RecordOk(w, s) /\ Found(w, s) /\ s.generation <= hub.generation /\ s.found # Waits!None /\ Deepened(w, s)
    BY <2>1, StandsNow DEF Registered
  <2>5. r = [at |-> "done", generation |-> s.generation, epoch |-> s.epoch, next |-> s.next, head |-> s.head,
             queue |-> s.queue, from |-> s.from, cursor |-> s.cursor, through |-> s.through, before |-> s.before,
             found |-> s.found, depth |-> d, events |-> e]
    <3>1. s = [at |-> s.at, generation |-> s.generation, epoch |-> s.epoch, next |-> s.next, head |-> s.head, queue |-> s.queue,
               from |-> s.from, cursor |-> s.cursor, through |-> s.through, before |-> s.before, found |-> s.found,
               depth |-> s.depth, events |-> s.events]
      BY <2>4 DEF RecordOk
    <3> QED BY <2>2, <3>1
  <2>6. r.at = "done" /\ r.found = s.found /\ r.generation = s.generation
    BY <2>5
  <2>7. RecordOk(w, r)
    BY <2>4, <2>5, KindsDiffer DEF RecordOk
  <2>8. Found(w, r)
    BY <2>4, <2>6 DEF Found
  <2>9. Confirmed(w, r)
    BY <2>4, <2>6 DEF Confirmed, Deepened
  <2>10. Standing(w, r)
    BY <2>4, <2>6, <2>7, <2>8, <2>9, ReceiptStands
  <2>11. unseen' \subseteq Waits!Wait
    BY DEF WaitsInv, WaitTypes, Waits!Waiting
  <2> QED BY <2>1, <2>3, <2>6, <2>10, <2>11, WaitMoves DEF Waits!Waiting
<1>2. CASE ~full
  <2>1. wait' = [wait EXCEPT ![w] = [wait[w] EXCEPT !.at = "failed"]]
    BY <1>2 DEF Waits!Assigned
  <2> QED BY <2>1, ReceiptMoves
<1> QED BY <1>1, <1>2

LEMMA ConfirmBlockKeeps == ASSUME WaitsInv, NEW w \in Waits!Wait, Waits!ConfirmBlock(w) PROVE WaitsInv'
<1>1. Receipts(w) /\ wait[w].at = "block" /\ UNCHANGED Waits!Waiting
  BY DEF Waits!ConfirmBlock, Receipts
<1>2. wait[w].found # Waits!None /\ Deepened(w, wait[w])
  BY <1>1, StandsNow DEF Found, Confirmed
<1>3. \/ wait' = [wait EXCEPT ![w] = [wait[w] EXCEPT !.at = "receipt"]]
      \/ wait' = [wait EXCEPT ![w] = [wait[w] EXCEPT !.at = "depth"]]
      \/ wait' = [wait EXCEPT ![w] = Waits!Assigned(w, 0)]
  <2>1. PICK r : r = CASE Waits!Hash(Len(wait[w].found)) # wait[w].found -> [wait[w] EXCEPT !.at = "receipt"]
                    [] Waits!Hash(Len(wait[w].found)) = wait[w].found /\ Waits!Confirmations(w) = 0 -> Waits!Assigned(w, 0)
                    [] OTHER -> [wait[w] EXCEPT !.at = "depth"]
    OBVIOUS
  <2>2. wait' = [wait EXCEPT ![w] = r]
    BY <2>1 DEF Waits!ConfirmBlock, Waits!Becomes
  <2>3. r \in {[wait[w] EXCEPT !.at = "receipt"], Waits!Assigned(w, 0), [wait[w] EXCEPT !.at = "depth"]}
    BY <2>1
  <2> QED BY <2>2, <2>3
<1> QED BY <1>1, <1>2, <1>3, ReceiptMoves, AssignedMoves

LEMMA CurrentDepthKeeps == ASSUME WaitsInv, NEW w \in Waits!Wait, Waits!CurrentDepth(w) PROVE WaitsInv'
<1>1. Receipts(w) /\ wait[w].at = "depth" /\ UNCHANGED Waits!Waiting
  BY DEF Waits!CurrentDepth, Receipts
<1>2. wait[w].found # Waits!None /\ Deepened(w, wait[w])
  BY <1>1, StandsNow DEF Found, Confirmed
<1>3. \/ wait' = [wait EXCEPT ![w] = [wait[w] EXCEPT !.at = "receipt"]]
      \/ wait' = [wait EXCEPT ![w] = Waits!Assigned(w, Len(chain) - Len(wait[w].found))]
  BY DEF Waits!CurrentDepth, Waits!Becomes, Waits!Height
<1> QED BY <1>1, <1>2, <1>3, ReceiptMoves, AssignedMoves

LEMMA GiveUpKeeps == ASSUME WaitsInv, NEW w \in Waits!Wait, Waits!GiveUp(w) PROVE WaitsInv'
<1>1. PICK s : s = [wait[w] EXCEPT !.at = "failed"]
  OBVIOUS
<1>2. RecordOk(w, wait[w])
  BY StandsNow
<1>3. s.at = "failed" /\ s.found = wait[w].found
  BY <1>1, <1>2, AtIs
<1>4. Waits!End(w, s) /\ unseen' \subseteq Waits!Wait
  BY <1>1 DEF Waits!GiveUp, WaitsInv, WaitTypes
<1>5. config' = config /\ chain' = chain /\ past' = past /\ scan' = scan /\ updates' = updates
  BY DEF Waits!GiveUp
<1> QED BY <1>3, <1>4, <1>5, EndMoves

-----------------------------------------------------------------------------
(* The steps of a log's wait                                               *)

\* A log's wait goes on after what it has searched, and leaves no match of its
\* window behind.
LEMMA ContinueStands ==
    ASSUME WaitsInv, NEW w \in Waits!Wait, Logs(w), NEW r, RecordOk(w, r), Found(w, r),
           r.generation <= hub.generation, r.generation >= 1, w \in hub.interests, r.next >= From(w),
           \A k \in r.queue : k >= From(w),
           Steady => /\ r.head <= Len(chain) /\ Clear(w, r.next - 1) /\ \A k \in r.queue : k <= r.head
                     /\ \A k \in From(w) .. r.head : chain[k].log = Waits!Topic(w) => k \in r.queue
    PROVE  Standing(w, Waits!Continue(w, r)) /\ Waits!Continue(w, r).generation = r.generation
<1>1. r = [at |-> r.at, generation |-> r.generation, epoch |-> r.epoch, next |-> r.next, head |-> r.head, queue |-> r.queue,
           from |-> r.from, cursor |-> r.cursor, through |-> r.through, before |-> r.before, found |-> r.found,
           depth |-> r.depth, events |-> r.events]
      /\ r.next \in Nat /\ r.head \in Nat /\ r.queue \subseteq Nat
  BY DEF RecordOk
<1>2. ~Receipts(w) /\ From(w) \in Nat \ {0} /\ chain \in Hashes /\ Len(chain) \in Nat
  BY KindsDiffer, StandsNow, Requests
<1>3. CASE r.queue = {}
  <2>1. PICK next : next = Waits!Max({r.next, r.head + 1})
    OBVIOUS
  <2>2. next \in Nat /\ (next = r.next \/ next = r.head + 1) /\ next >= r.next
    <3>1. PICK a, b : a = r.next /\ b = r.head + 1
      OBVIOUS
    <3>2. a \in Int /\ b \in Int /\ a \in Nat /\ b \in Nat
      BY <1>1, <3>1
    <3>3. next = Waits!Max({a, b})
      BY <2>1, <3>1
    <3>4. next = IF a >= b THEN a ELSE b
      BY <3>2, <3>3, GreaterOf
    <3> QED BY <3>1, <3>2, <3>4
  <2>3. PICK s : s = [r EXCEPT !.at = "window", !.next = next]
    OBVIOUS
  <2>4. s = [at |-> "window", generation |-> r.generation, epoch |-> r.epoch, next |-> next, head |-> r.head, queue |-> r.queue,
             from |-> r.from, cursor |-> r.cursor, through |-> r.through, before |-> r.before, found |-> r.found,
             depth |-> r.depth, events |-> r.events]
    BY <1>1, <2>3
  <2>5. s.at = "window" /\ s.generation = r.generation /\ s.next = next /\ s.found = r.found /\ s.queue = r.queue
    BY <2>4
  <2>6. RecordOk(w, s)
    BY <1>2, <2>2, <2>4 DEF RecordOk
  <2>7. Found(w, s) /\ Confirmed(w, s)
    BY <1>2, <2>5 DEF Found, Confirmed
  <2>8. Registered(w, s)
    BY <1>1, <1>2, <2>2, <2>5 DEF Registered
  <2>9. Steady => Clear(w, next - 1)
    BY <1>1, <1>2, <1>3, <2>2 DEF Clear
  <2>10. Searched(w, s)
    BY <2>5, <2>9 DEF Searched
  <2>11. Waits!Continue(w, r) = s
    BY <1>3, <2>1, <2>3 DEF Waits!Continue
  <2> QED BY <2>5, <2>6, <2>7, <2>8, <2>10, <2>11 DEF Standing
<1>4. CASE r.queue # {}
  <2>1. PICK m, rest, from : m = Waits!Min(r.queue) /\ rest = r.queue \ {m} /\ from = From(w)
    OBVIOUS
  <2>2. m \in r.queue /\ m \in Nat /\ rest \subseteq r.queue /\ from \in Nat
    BY <1>1, <1>2, <1>4, <2>1, LeastOf
  <2>3. PICK q, s : /\ q = [r EXCEPT !.queue = rest]
                    /\ s = [q EXCEPT !.at = "before", !.from = from, !.cursor = from, !.through = m]
    OBVIOUS
  <2>4. q = [at |-> r.at, generation |-> r.generation, epoch |-> r.epoch, next |-> r.next, head |-> r.head, queue |-> rest,
             from |-> r.from, cursor |-> r.cursor, through |-> r.through, before |-> r.before, found |-> r.found,
             depth |-> r.depth, events |-> r.events]
    BY <1>1, <2>3
  <2>5. s = [at |-> "before", generation |-> r.generation, epoch |-> r.epoch, next |-> r.next, head |-> r.head, queue |-> rest,
             from |-> from, cursor |-> from, through |-> m, before |-> r.before, found |-> r.found,
             depth |-> r.depth, events |-> r.events]
    BY ZenonT(60), <2>3, <2>4
  <2>6. s.at = "before" /\ s.generation = r.generation /\ s.next = r.next /\ s.found = r.found /\ s.queue = rest
        /\ s.from = from /\ s.cursor = from /\ s.through = m /\ s.head = r.head
    BY <2>5
  <2>7. RecordOk(w, s)
    BY <1>1, <1>2, <2>2, <2>5 DEF RecordOk
  <2>8. Found(w, s) /\ Confirmed(w, s)
    BY <1>2, <2>6 DEF Found, Confirmed
  <2>9. Registered(w, s)
    BY <1>1, <1>2, <2>1, <2>2, <2>6 DEF Registered
  <2>10. Clear(w, from - 1)
    BY <1>2, <2>1 DEF Clear
  <2>11. Steady => /\ m <= Len(chain) /\ \A k \in rest : k <= r.head
                   /\ \A k \in From(w) .. r.head : chain[k].log = Waits!Topic(w) => k <= m \/ k \in rest
    BY <1>1, <1>2, <2>1, <2>2
  <2>12. Searched(w, s)
    BY <2>6, <2>10, <2>11 DEF Searched
  <2>13. Waits!Continue(w, r) = s
    BY <1>4, <2>1, <2>3 DEF Waits!Continue, Waits!Find, From
  <2> QED BY <2>6, <2>7, <2>8, <2>9, <2>12, <2>13 DEF Standing
<1> QED BY <1>3, <1>4

\* What a log's wait relies on while it searches.
LEMMA SearchFacts ==
    ASSUME WaitsInv, NEW w \in Waits!Wait, wait[w].at \in {"window", "before", "search", "after"}
    PROVE  /\ Logs(w) /\ ~Receipts(w) /\ From(w) \in Nat \ {0} /\ Waits!Confirmations(w) \in Nat
           /\ wait[w].generation <= hub.generation /\ wait[w].generation >= 1 /\ w \in hub.interests
           /\ wait[w].next >= From(w) /\ \A k \in wait[w].queue : k >= From(w)
<1>1. Logs(w)
  BY StandsNow, Requests DEF RecordOk
<1> QED BY <1>1, StandsNow, KindsDiffer, Requests DEF Registered

LEMMA Unchanged == ASSUME WaitsInv, UNCHANGED Waits!Waiting
                   PROVE  /\ config' = config /\ chain' = chain /\ past' = past /\ hub' = hub /\ scan' = scan
                          /\ updates' = updates /\ unseen' \subseteq Waits!Wait
BY DEF WaitsInv, WaitTypes, Waits!Waiting

LEMMA EndpointBeforeKeeps == ASSUME WaitsInv, NEW w \in Waits!Wait, Waits!EndpointBefore(w) PROVE WaitsInv'
<1>1. PICK s, h : s = wait[w] /\ h = Waits!Hash(wait[w].through)
  OBVIOUS
<1>2. s.at = "before" /\ UNCHANGED Waits!Waiting
  BY <1>1 DEF Waits!EndpointBefore
<1>3. Logs(w) /\ ~Receipts(w) /\ From(w) \in Nat \ {0} /\ RecordOk(w, s) /\ Found(w, s) /\ Registered(w, s) /\ Searched(w, s)
  BY <1>1, <1>2, SearchFacts, StandsNow
<1>4. s.through \in Nat /\ chain \in Hashes /\ Len(chain) \in Nat
  BY <1>3, StandsNow DEF RecordOk
<1>5. CASE h = Waits!None
  <2>1. wait' = [wait EXCEPT ![w] = Waits!Continue(w, s)]
    BY <1>1, <1>5 DEF Waits!EndpointBefore, Waits!Becomes
  <2>2. ~Steady
    BY <1>1, <1>2, <1>3, <1>4, <1>5, HashFacts DEF Searched
  <2>3. Standing(w, Waits!Continue(w, s)) /\ Waits!Continue(w, s).generation = s.generation
    BY <1>1, <1>2, <1>3, <2>2, SearchFacts, ContinueStands
  <2>4. PICK r : r = Waits!Continue(w, s)
    OBVIOUS
  <2> QED BY <1>1, <1>2, <2>1, <2>3, <2>4, Unchanged, WaitMoves
<1>6. CASE h # Waits!None
  <2>1. PICK r : r = [s EXCEPT !.at = "search", !.before = h]
    OBVIOUS
  <2>2. wait' = [wait EXCEPT ![w] = r]
    BY <1>1, <1>6, <2>1 DEF Waits!EndpointBefore, Waits!Becomes
  <2>3. h \in Hashes /\ Len(h) = s.through /\ Contains(chain, h) /\ s.through <= Len(chain)
    BY <1>1, <1>4, <1>6, HashFacts
  <2>4. r = [at |-> "search", generation |-> s.generation, epoch |-> s.epoch, next |-> s.next, head |-> s.head,
             queue |-> s.queue, from |-> s.from, cursor |-> s.cursor, through |-> s.through, before |-> h, found |-> s.found,
             depth |-> s.depth, events |-> s.events]
    <3>1. s = [at |-> s.at, generation |-> s.generation, epoch |-> s.epoch, next |-> s.next, head |-> s.head, queue |-> s.queue,
               from |-> s.from, cursor |-> s.cursor, through |-> s.through, before |-> s.before, found |-> s.found,
               depth |-> s.depth, events |-> s.events]
      BY <1>3 DEF RecordOk
    <3> QED BY <2>1, <3>1
  <2>5. r.at = "search" /\ r.generation = s.generation /\ r.next = s.next /\ r.head = s.head /\ r.queue = s.queue
        /\ r.from = s.from /\ r.cursor = s.cursor /\ r.through = s.through /\ r.before = h /\ r.found = s.found
    BY <2>4
  <2>6. RecordOk(w, r)
    BY <1>3, <2>3, <2>4 DEF RecordOk
  <2>7. Found(w, r) /\ Confirmed(w, r)
    BY <1>3, <2>5 DEF Found, Confirmed
  <2>8. s.cursor = s.from /\ From(w) <= s.from /\ s.from <= s.through /\ s.from \in Nat
    BY <1>2, <1>3 DEF Registered, RecordOk
  <2>9. Registered(w, r)
    BY <1>2, <1>3, <2>5, <2>8 DEF Registered
  <2>10. Searched(w, r)
    BY <1>2, <1>3, <2>3, <2>5, <2>8 DEF Searched
  <2>11. Standing(w, r)
    BY <2>6, <2>7, <2>9, <2>10 DEF Standing
  <2> QED BY <1>1, <1>2, <2>2, <2>5, <2>11, Unchanged, WaitMoves
<1> QED BY <1>5, <1>6

LEMMA ThroughFacts ==
    ASSUME NEW from \in Nat, NEW to \in Nat, NEW range \in Nat \ {0}, from <= to
    PROVE  /\ Waits!Through(from, to, range) \in Nat /\ from <= Waits!Through(from, to, range)
           /\ Waits!Through(from, to, range) <= to
<1>1. from + range - 1 \in Int
  OBVIOUS
<1>2. Waits!Through(from, to, range) = IF from + range - 1 <= to THEN from + range - 1 ELSE to
  BY <1>1, LesserOf DEF Waits!Through
<1> QED BY <1>2

\* What is searched up to c, and then from c on, is searched.
LEMMA ClearFurther ==
    ASSUME NEW w, NEW c \in Nat, NEW n \in Int, From(w) \in Nat, Len(chain) \in Nat, n <= Len(chain), Clear(w, c - 1),
           \A k \in c .. n : chain[k].log # Waits!Topic(w)
    PROVE  Clear(w, n)
<1> SUFFICES ASSUME NEW k \in From(w) .. n PROVE k <= Len(chain) /\ chain[k].log # Waits!Topic(w)
  BY DEF Clear
<1>1. CASE k <= c - 1
  BY <1>1 DEF Clear
<1>2. CASE k > c - 1
  BY <1>2
<1> QED BY <1>1, <1>2

\* One request of the search: the first match of its range, or none in it.
LEMMA SearchKeeps == ASSUME WaitsInv, NEW w \in Waits!Wait, Waits!Search(w) PROVE WaitsInv'
<1>1. PICK s, end, last, hits :
        /\ s = wait[w] /\ end = Waits!Through(wait[w].cursor, wait[w].through, config.want[w].max_block_range)
        /\ last = Waits!Min({end, Len(chain)})
        /\ hits = {k \in s.cursor .. last : chain[k].log = Waits!Topic(w)}
  OBVIOUS
<1>2. s.at = "search" /\ UNCHANGED Waits!Waiting
  BY <1>1 DEF Waits!Search
<1>3. Logs(w) /\ ~Receipts(w) /\ From(w) \in Nat \ {0} /\ RecordOk(w, s) /\ Found(w, s) /\ Registered(w, s) /\ Searched(w, s)
  BY <1>1, <1>2, SearchFacts, StandsNow
<1>4. s.through \in Nat /\ s.cursor \in Nat /\ s.from \in Nat /\ From(w) <= s.from /\ s.from <= s.cursor /\ s.cursor <= s.through
      /\ chain \in Hashes /\ Len(chain) \in Nat
  BY <1>2, <1>3, StandsNow DEF RecordOk, Registered
<1>5. end \in Nat /\ s.cursor <= end /\ end <= s.through
  BY <1>1, <1>4, ThroughFacts, Requests, StandsNow
<1>6. last = IF end <= Len(chain) THEN end ELSE Len(chain)
  BY <1>1, <1>4, <1>5, LesserOf
<1>7. Steady => s.through <= Len(chain) /\ last = end /\ Clear(w, s.cursor - 1)
  BY <1>2, <1>3, <1>4, <1>5, <1>6 DEF Searched
<1>8. hits = {k \in s.cursor .. last : chain[k].log = Waits!Topic(w)}
  BY <1>1
<1>9. s = [at |-> s.at, generation |-> s.generation, epoch |-> s.epoch, next |-> s.next, head |-> s.head, queue |-> s.queue,
           from |-> s.from, cursor |-> s.cursor, through |-> s.through, before |-> s.before, found |-> s.found,
           depth |-> s.depth, events |-> s.events]
  BY <1>3 DEF RecordOk
<1>10. PICK r : r = CASE hits # {} -> [s EXCEPT !.at = "after", !.found = Waits!Hash(Waits!Min(hits))]
                     [] hits = {} /\ end = s.through -> [s EXCEPT !.at = "after", !.found = Waits!None]
                     [] OTHER -> [s EXCEPT !.cursor = end + 1]
  OBVIOUS
<1>11. wait' = [wait EXCEPT ![w] = r]
  BY <1>1, <1>10 DEF Waits!Search, Waits!Becomes, Waits!Height
<1>12. SUFFICES Standing(w, r) /\ r.generation = s.generation
  BY <1>1, <1>2, <1>11, Unchanged, WaitMoves
<1>13. CASE hits # {}
  <2>1. PICK m, h : m = Waits!Min(hits) /\ h = Waits!Hash(m)
    OBVIOUS
  <2>2. hits \subseteq Nat
    BY <1>1, <1>4, <1>5, <1>6
  <2>3. m \in hits /\ \A k \in hits : m <= k
    BY <1>13, <2>1, <2>2, LeastOf
  <2>4. m \in Nat /\ s.cursor <= m /\ m <= last /\ m <= Len(chain) /\ m >= 1 /\ m >= From(w) /\ chain[m].log = Waits!Topic(w)
    BY <1>1, <1>3, <1>4, <1>5, <1>6, <2>2, <2>3
  <2>5. h \in Hashes /\ Len(h) = m /\ Contains(chain, h)
    BY <1>4, <2>1, <2>4, HashFacts
  <2>6. h[m].log = Waits!Topic(w) /\ h # Waits!None
    BY <2>4, <2>5, NoneIsNoHash DEF Contains
  <2>7. r = [s EXCEPT !.at = "after", !.found = h]
    BY <1>10, <1>13, <2>1
  <2>8. r = [at |-> "after", generation |-> s.generation, epoch |-> s.epoch, next |-> s.next, head |-> s.head, queue |-> s.queue,
             from |-> s.from, cursor |-> s.cursor, through |-> s.through, before |-> s.before, found |-> h,
             depth |-> s.depth, events |-> s.events]
    BY <1>9, <2>7
  <2>9. r.at = "after" /\ r.generation = s.generation /\ r.next = s.next /\ r.head = s.head /\ r.queue = s.queue
        /\ r.from = s.from /\ r.cursor = s.cursor /\ r.through = s.through /\ r.before = s.before /\ r.found = h
    BY <2>8
  <2>10. RecordOk(w, r)
    BY <1>3, <2>5, <2>8 DEF RecordOk
  <2>11. Found(w, r) /\ Confirmed(w, r)
    BY <1>3, <2>4, <2>5, <2>6, <2>9, StandsNow DEF Found, Confirmed
  <2>12. Registered(w, r)
    BY <1>2, <1>3, <2>9 DEF Registered
  <2>13. Steady => Clear(w, m - 1)
    <3>1. \A k \in s.cursor .. m - 1 : k \notin hits /\ k \in s.cursor .. last
      BY <1>4, <1>5, <1>6, <2>2, <2>3, <2>4
    <3>2. \A k \in s.cursor .. m - 1 : chain[k].log # Waits!Topic(w)
      BY <1>8, <3>1
    <3>3. m - 1 \in Int /\ m - 1 <= Len(chain)
      BY <1>4, <2>4
    <3> QED BY <1>3, <1>4, <1>7, <3>2, <3>3, ClearFurther
  <2>14. Searched(w, r)
    BY <1>2, <1>3, <2>5, <2>6, <2>9, <2>13 DEF Searched
  <2> QED BY <2>9, <2>10, <2>11, <2>12, <2>14 DEF Standing
<1>14. CASE hits = {} /\ end = s.through
  <2>1. PICK none : none = Waits!None
    OBVIOUS
  <2>2. r = [s EXCEPT !.at = "after", !.found = none]
    BY <1>10, <1>14, <2>1
  <2>3. r = [at |-> "after", generation |-> s.generation, epoch |-> s.epoch, next |-> s.next, head |-> s.head, queue |-> s.queue,
             from |-> s.from, cursor |-> s.cursor, through |-> s.through, before |-> s.before, found |-> none,
             depth |-> s.depth, events |-> s.events]
    BY <1>9, <2>2
  <2>4. r.at = "after" /\ r.generation = s.generation /\ r.next = s.next /\ r.head = s.head /\ r.queue = s.queue
        /\ r.from = s.from /\ r.cursor = s.cursor /\ r.through = s.through /\ r.before = s.before /\ r.found = none
    BY <2>3
  <2>5. RecordOk(w, r)
    BY <1>3, <2>1, <2>3 DEF RecordOk
  <2>6. Found(w, r) /\ Confirmed(w, r)
    BY <1>3, <2>1, <2>4 DEF Found, Confirmed
  <2>7. Registered(w, r)
    BY <1>2, <1>3, <2>4 DEF Registered
  <2>8. Steady => Clear(w, s.through)
    <3>1. Steady => \A k \in s.cursor .. s.through : chain[k].log # Waits!Topic(w)
      BY <1>7, <1>14, <1>8
    <3> QED BY <1>3, <1>4, <1>7, <3>1, ClearFurther
  <2>9. Searched(w, r)
    BY <1>2, <1>3, <2>1, <2>4, <2>8 DEF Searched
  <2> QED BY <2>4, <2>5, <2>6, <2>7, <2>9 DEF Standing
<1>15. CASE hits = {} /\ end # s.through
  <2>1. PICK next : next = end + 1
    OBVIOUS
  <2>2. next \in Nat /\ next <= s.through /\ s.from <= next
    BY <1>4, <1>5, <1>15, <2>1
  <2>3. r = [s EXCEPT !.cursor = next]
    BY <1>10, <1>15, <2>1
  <2>4. r = [at |-> "search", generation |-> s.generation, epoch |-> s.epoch, next |-> s.next, head |-> s.head, queue |-> s.queue,
             from |-> s.from, cursor |-> next, through |-> s.through, before |-> s.before, found |-> s.found,
             depth |-> s.depth, events |-> s.events]
    BY <1>2, <1>9, <2>3
  <2>5. r.at = "search" /\ r.generation = s.generation /\ r.next = s.next /\ r.head = s.head /\ r.queue = s.queue
        /\ r.from = s.from /\ r.cursor = next /\ r.through = s.through /\ r.before = s.before /\ r.found = s.found
    BY <2>4
  <2>6. RecordOk(w, r)
    BY <1>3, <2>2, <2>4 DEF RecordOk
  <2>7. Found(w, r) /\ Confirmed(w, r)
    BY <1>3, <2>5 DEF Found, Confirmed
  <2>8. Registered(w, r)
    BY <1>2, <1>3, <2>2, <2>5 DEF Registered
  <2>9. Steady => Clear(w, next - 1)
    <3>1. Steady => \A k \in s.cursor .. end : chain[k].log # Waits!Topic(w)
      BY <1>7, <1>15, <1>8
    <3>2. Steady => end <= Len(chain)
      BY <1>4, <1>5, <1>7
    <3>3. next - 1 = end
      BY <1>5, <2>1
    <3> QED BY <1>3, <1>4, <1>5, <1>7, <3>1, <3>2, <3>3, ClearFurther
  <2>10. Searched(w, r)
    BY <1>2, <1>3, <2>5, <2>9 DEF Searched
  <2> QED BY <2>5, <2>6, <2>7, <2>8, <2>10 DEF Standing
<1> QED BY <1>13, <1>14, <1>15

\* A log's wait changes only in where it is.
LEMMA LogMoves ==
    ASSUME WaitsInv, NEW w \in Waits!Wait, Logs(w), NEW s, s = wait[w], NEW a, a \in {"depth", "block"},
           NEW r, r = [s EXCEPT !.at = a], s.at \in {"after", "depth"}, s.found # Waits!None,
           a = "block" /\ Waits!Confirmations(w) > 0 =>
             updates.ok /\ updates.head >= Len(s.found) + Waits!Confirmations(w)
    PROVE  Standing(w, r) /\ r.generation = wait[w].generation
<1>1. ~Receipts(w) /\ RecordOk(w, s) /\ Found(w, s) /\ Registered(w, s) /\ Searched(w, s)
  BY KindsDiffer, StandsNow
<1>2. a \in {"new", "window", "before", "search", "after", "depth", "block", "done", "failed"}
  OBVIOUS
<1>3. /\ RecordOk(w, r) /\ r.at = a /\ r.generation = s.generation /\ r.next = s.next
      /\ r.head = s.head /\ r.queue = s.queue /\ r.from = s.from /\ r.cursor = s.cursor /\ r.through = s.through
      /\ r.before = s.before /\ r.found = s.found
  BY <1>1, <1>2, AtIs
<1>4. Found(w, r) /\ Confirmed(w, r)
  BY <1>1, <1>3 DEF Found, Confirmed
<1>5. Registered(w, r)
  BY <1>1, <1>3 DEF Registered
<1>6. Searched(w, r)
  BY <1>1, <1>3 DEF Searched
<1> QED BY <1>3, <1>4, <1>5, <1>6 DEF Standing

LEMMA EndpointAfterKeeps == ASSUME WaitsInv, NEW w \in Waits!Wait, Waits!EndpointAfter(w) PROVE WaitsInv'
<1>1. PICK s : s = wait[w]
  OBVIOUS
<1>2. s.at = "after" /\ UNCHANGED Waits!Waiting
  BY <1>1 DEF Waits!EndpointAfter
<1>3. Logs(w) /\ ~Receipts(w) /\ From(w) \in Nat \ {0} /\ Waits!Confirmations(w) \in Nat
      /\ RecordOk(w, s) /\ Found(w, s) /\ Registered(w, s) /\ Searched(w, s)
  BY <1>1, <1>2, SearchFacts, StandsNow
<1>4. s = [at |-> s.at, generation |-> s.generation, epoch |-> s.epoch, next |-> s.next, head |-> s.head, queue |-> s.queue,
           from |-> s.from, cursor |-> s.cursor, through |-> s.through, before |-> s.before, found |-> s.found,
           depth |-> s.depth, events |-> s.events]
      /\ s.from \in Nat /\ s.through \in Nat /\ s.head \in Nat
  BY <1>3 DEF RecordOk
<1>5. CASE Waits!Hash(s.through) # s.before
  <2>1. PICK from, r : from = s.from /\ r = [s EXCEPT !.at = "before", !.cursor = from]
    OBVIOUS
  <2>2. wait' = [wait EXCEPT ![w] = r]
    BY <1>1, <1>5, <2>1 DEF Waits!EndpointAfter, Waits!Becomes
  <2>3. r = [at |-> "before", generation |-> s.generation, epoch |-> s.epoch, next |-> s.next, head |-> s.head, queue |-> s.queue,
             from |-> s.from, cursor |-> from, through |-> s.through, before |-> s.before, found |-> s.found,
             depth |-> s.depth, events |-> s.events]
    <3>1. r = [s EXCEPT !.at = "before", !.cursor = from]
      BY <2>1
    <3> QED BY <1>4, <3>1
  <2>4. r.at = "before" /\ r.generation = s.generation /\ r.next = s.next /\ r.head = s.head /\ r.queue = s.queue
        /\ r.from = s.from /\ r.cursor = from /\ r.through = s.through /\ r.before = s.before /\ r.found = s.found
    BY <2>3
  <2>5. RecordOk(w, r)
    BY ZenonT(60), <1>3, <1>4, <2>1, <2>3 DEF RecordOk
  <2>6. Found(w, r) /\ Confirmed(w, r)
    BY <1>3, <2>4 DEF Found, Confirmed
  <2>7. Registered(w, r)
    BY <1>2, <1>3, <2>1, <2>4 DEF Registered
  <2>8. Searched(w, r)
    BY <1>2, <1>3, <2>4 DEF Searched
  <2>9. Standing(w, r)
    BY <2>5, <2>6, <2>7, <2>8 DEF Standing
  <2> QED BY <1>1, <1>2, <2>2, <2>4, <2>9, Unchanged, WaitMoves
<1>6. CASE Waits!Hash(s.through) = s.before /\ s.found = Waits!None
  <2>1. wait' = [wait EXCEPT ![w] = Waits!Continue(w, s)]
    BY <1>1, <1>6 DEF Waits!EndpointAfter, Waits!AfterSearch, Waits!Becomes
  <2>2. Steady => /\ s.head <= Len(chain) /\ Clear(w, s.next - 1) /\ \A k \in s.queue : k <= s.head
                  /\ \A k \in From(w) .. s.head : chain[k].log = Waits!Topic(w) => k \in s.queue
    <3> SUFFICES ASSUME Steady PROVE /\ s.head <= Len(chain) /\ Clear(w, s.next - 1) /\ \A k \in s.queue : k <= s.head
                                     /\ \A k \in From(w) .. s.head : chain[k].log = Waits!Topic(w) => k \in s.queue
      OBVIOUS
    <3>1. /\ s.head <= Len(chain) /\ Clear(w, s.next - 1) /\ \A k \in s.queue : k <= s.head
          /\ \A k \in From(w) .. s.head : chain[k].log = Waits!Topic(w) => k <= s.through \/ k \in s.queue
          /\ Clear(w, s.through)
      BY <1>2, <1>3, <1>6 DEF Searched
    <3>2. \A k \in From(w) .. s.head : chain[k].log = Waits!Topic(w) => ~(k <= s.through)
      BY <1>3, <1>4, <3>1 DEF Clear
    <3> QED BY <3>1, <3>2
  <2>3. Standing(w, Waits!Continue(w, s)) /\ Waits!Continue(w, s).generation = s.generation
    BY <1>1, <1>2, <1>3, <2>2, SearchFacts, ContinueStands
  <2>4. PICK r : r = Waits!Continue(w, s)
    OBVIOUS
  <2> QED BY <1>1, <1>2, <2>1, <2>3, <2>4, Unchanged, WaitMoves
<1>7. CASE Waits!Hash(s.through) = s.before /\ s.found # Waits!None
  <2>1. PICK a : a = IF Waits!Confirmations(w) = 0 THEN "block" ELSE "depth"
    OBVIOUS
  <2>2. wait' = [wait EXCEPT ![w] = [wait[w] EXCEPT !.at = a]]
    BY <1>1, <1>7, <2>1 DEF Waits!EndpointAfter, Waits!AfterSearch, Waits!Becomes
  <2>3. a \in {"depth", "block"} /\ (a = "block" => Waits!Confirmations(w) = 0)
    BY <2>1
  <2>4. PICK r : r = [s EXCEPT !.at = a]
    OBVIOUS
  <2>5. Standing(w, r) /\ r.generation = wait[w].generation
    BY SMTT(60), <1>1, <1>2, <1>3, <1>7, <2>3, <2>4, LogMoves
  <2> QED BY <1>1, <1>2, <2>2, <2>4, <2>5, Unchanged, WaitMoves
<1> QED BY <1>5, <1>6, <1>7

LEMMA DepthFacts ==
    ASSUME WaitsInv, NEW w \in Waits!Wait, Logs(w), wait[w].at \in {"depth", "block"}
    PROVE  /\ wait[w].found \in Hashes /\ wait[w].found # Waits!None /\ ~Receipts(w) /\ From(w) \in Nat \ {0}
           /\ wait[w].generation <= hub.generation /\ wait[w].generation >= 1 /\ w \in hub.interests
           /\ wait[w].next >= From(w) /\ \A k \in wait[w].queue : k >= From(w)
           /\ Steady => Contains(chain, wait[w].found) /\ Clear(w, Len(wait[w].found) - 1)
<1>1. PICK s : s = wait[w]
  OBVIOUS
<1>2. ~Receipts(w) /\ RecordOk(w, s) /\ Found(w, s) /\ Registered(w, s) /\ Searched(w, s) /\ s.at \in {"depth", "block"}
      /\ From(w) \in Nat \ {0}
  BY <1>1, KindsDiffer, StandsNow, Requests
<1>3. s.found # Waits!None /\ s.found \in Hashes /\ \E c \in Chains : Contains(c, s.found)
  BY <1>2 DEF Found, RecordOk
<1>4. Steady => Contains(chain, s.found) /\ Clear(w, Len(s.found) - 1)
  BY <1>2, <1>3 DEF Searched, Steady, Chains
<1> QED BY <1>1, <1>2, <1>3, <1>4 DEF Registered

LEMMA WaitForHeadKeeps == ASSUME WaitsInv, NEW w \in Waits!Wait, Waits!WaitForHead(w) PROVE WaitsInv'
<1>1. Logs(w) /\ wait[w].at = "depth" /\ config' = config /\ chain' = chain /\ past' = past /\ scan' = scan
      /\ updates' = updates /\ unseen' \subseteq Waits!Wait
  BY DEF Waits!WaitForHead, Logs, WaitsInv, WaitTypes
<1>2. CASE Waits!Deep(w) /\ Waits!Becomes(w, [wait[w] EXCEPT !.at = "block"]) /\ hub' = hub
  <2>1. wait[w].found # Waits!None
    BY <1>1, DepthFacts
  <2>2. updates.ok /\ updates.head >= Len(wait[w].found) + Waits!Confirmations(w)
    BY <1>2 DEF Waits!Deep, Waits!Target
  <2>3. PICK s, r : s = wait[w] /\ r = [s EXCEPT !.at = "block"]
    OBVIOUS
  <2>4. Standing(w, r) /\ r.generation = wait[w].generation
    BY <1>1, <2>1, <2>2, <2>3, LogMoves
  <2> QED BY <1>1, <1>2, <2>3, <2>4, WaitMoves DEF Waits!Becomes
<1>3. CASE Waits!End(w, [wait[w] EXCEPT !.at = "failed"])
  <2>1. PICK s : s = [wait[w] EXCEPT !.at = "failed"]
    OBVIOUS
  <2>2. s.at = "failed" /\ s.found = wait[w].found
    BY <2>1, StandsNow, AtIs
  <2> QED BY <1>1, <1>3, <2>1, <2>2, EndMoves
<1> QED BY <1>2, <1>3 DEF Waits!WaitForHead

LEMMA FinalizeLogKeeps == ASSUME WaitsInv, NEW w \in Waits!Wait, Waits!FinalizeLog(w) PROVE WaitsInv'
<1> DEFINE kept == Waits!Hash(Len(wait[w].found)) = wait[w].found /\ (Waits!Confirmations(w) = 0 \/ Waits!Deep(w))
<1>1. Logs(w) /\ wait[w].at = "block" /\ config' = config /\ chain' = chain /\ past' = past /\ scan' = scan
      /\ updates' = updates /\ unseen' \subseteq Waits!Wait
  BY DEF Waits!FinalizeLog, Logs, WaitsInv, WaitTypes
<1>2. wait[w].found \in Hashes /\ wait[w].found # Waits!None
      /\ (Steady => Contains(chain, wait[w].found) /\ Clear(w, Len(wait[w].found) - 1))
  BY <1>1, DepthFacts
<1>3. CASE kept
  <2>1. PICK s, d : s = [wait[w] EXCEPT !.at = "done", !.depth = d] /\ Waits!End(w, s)
    BY <1>3 DEF Waits!FinalizeLog
  <2>2. RecordOk(w, wait[w])
    BY StandsNow
  <2>3. s.at = "done" /\ s.found = wait[w].found
    BY <2>1, <2>2 DEF RecordOk
  <2> QED BY <1>1, <1>2, <2>1, <2>3, EndMoves
<1>4. CASE ~kept
  <2>1. wait' = [wait EXCEPT ![w] = Waits!Continue(w, wait[w])] /\ hub' = hub
    BY <1>4 DEF Waits!FinalizeLog, Waits!Becomes
  <2>2. Steady => Waits!Hash(Len(wait[w].found)) = wait[w].found
    BY <1>2, HashIs, StandsNow
  <2>3. Steady => Waits!Confirmations(w) = 0 \/ Waits!Deep(w)
    <3>1. Waits!Confirmations(w) \in Nat
      BY StandsNow, Requests
    <3>2. Searched(w, wait[w])
      BY StandsNow
    <3> QED BY <1>1, <3>1, <3>2 DEF Searched, Waits!Deep, Waits!Target
  <2>4. ~Steady
    BY <1>4, <2>2, <2>3
  <2>5. PICK s, r : s = wait[w] /\ r = Waits!Continue(w, s)
    OBVIOUS
  <2>6. /\ RecordOk(w, s) /\ Found(w, s) /\ s.generation <= hub.generation /\ s.generation >= 1 /\ w \in hub.interests
        /\ s.next >= From(w) /\ \A k \in s.queue : k >= From(w)
    BY <1>1, <2>5, DepthFacts, StandsNow
  <2>7. Standing(w, r) /\ r.generation = s.generation
    BY <1>1, <2>4, <2>5, <2>6, ContinueStands
  <2> QED BY <1>1, <2>1, <2>5, <2>7, WaitMoves
<1> QED BY <1>3, <1>4

LEMMA SubscribeRecord ==
    ASSUME NEW n, NEW g
    PROVE  [Waits!Wait0 EXCEPT !.at = "window", !.next = n, !.generation = g]
             = [at |-> "window", generation |-> g, epoch |-> -1, next |-> n, head |-> 0, queue |-> {}, from |-> 0, cursor |-> 0,
                through |-> 0, before |-> Waits!None, found |-> Waits!None, depth |-> 0, events |-> <<>>]
<1>1. PICK none, empty, nothing, b, c, e : none = Waits!None /\ empty = {} /\ nothing = <<>> /\ b = Waits!Wait0
        /\ c = [b EXCEPT !.at = "window"] /\ e = [c EXCEPT !.next = n]
  OBVIOUS
<1>2. b = [at |-> "new", generation |-> 0, epoch |-> -1, next |-> 0, head |-> 0, queue |-> empty,
           from |-> 0, cursor |-> 0, through |-> 0, before |-> none, found |-> none, depth |-> 0, events |-> nothing]
  BY <1>1 DEF Waits!Wait0
<1> DEFINE R(x, f, y) == [at |-> x, generation |-> y, epoch |-> -1, next |-> f, head |-> 0, queue |-> empty, from |-> 0,
                          cursor |-> 0, through |-> 0, before |-> none, found |-> none, depth |-> 0, events |-> nothing]
<1>3. c = R("window", 0, 0)
  <2>1. c = [b EXCEPT !.at = "window"]
    BY <1>1
  <2> QED BY <1>2, <2>1
<1>4. e = R("window", n, 0)
  <2>1. e = [c EXCEPT !.next = n]
    BY <1>1
  <2> QED BY <1>3, <2>1
<1>5. [e EXCEPT !.generation = g] = R("window", n, g)
  BY <1>4
<1>6. [e EXCEPT !.generation = g] = [Waits!Wait0 EXCEPT !.at = "window", !.next = n, !.generation = g]
  BY <1>1
<1> QED BY <1>1, <1>5, <1>6

\* A log's wait registers, and starts the scanner unless it runs; no scan and
\* no window from before is for it.
LEMMA SubscribeWaitKeeps == ASSUME WaitsInv, NEW w \in Waits!Wait, Waits!SubscribeWait(w) PROVE WaitsInv'
<1>1. Logs(w) /\ Waits!Subscribed(w) /\ config' = config /\ chain' = chain /\ past' = past /\ updates' = updates
      /\ unseen' \subseteq Waits!Wait
  BY DEF Waits!SubscribeWait, Logs, WaitsInv, WaitTypes
<1>2. PICK generation, interests, checkpoint, epoch, count, next :
        /\ generation = hub.generation + 1 /\ interests = hub.interests \cup {w} /\ next = From(w)
        /\ checkpoint = IF hub.running THEN hub.checkpoint ELSE Waits!None
        /\ epoch = IF hub.running THEN hub.epoch ELSE 0
        /\ count = IF hub.running THEN hub.failures ELSE 0
  OBVIOUS
<1>3. hub \in Hubs /\ hub.failures <= hub.errors /\ updates \in Windows /\ config \in WaitConfigs
  BY DEF WaitsInv, WaitTypes, ScanInv
<1>4. generation \in Nat /\ hub.generation <= generation /\ hub.generation < generation /\ generation >= 1
      /\ interests \in SUBSET Waits!Wait /\ checkpoint \in Hashes \cup {Waits!None} /\ epoch \in Nat /\ count \in Nat
      /\ hub.errors \in Nat /\ count <= hub.errors /\ hub.interests \subseteq Waits!Wait /\ updates.head \in Nat
      /\ hub.generation \in Nat
  BY <1>2, <1>3 DEF Hubs, Windows
<1>5. hub' = [hub EXCEPT !.generation = generation, !.interests = interests, !.running = TRUE, !.checkpoint = checkpoint,
                         !.epoch = epoch, !.failures = count]
  BY <1>1, <1>2 DEF Waits!Subscribed
<1>6. hub' \in Hubs /\ hub'.generation = generation /\ hub'.interests = interests /\ hub'.errors = hub.errors
      /\ hub'.failures = count
  BY <1>3, <1>4, <1>5 DEF Hubs
<1>7. PICK r : r = [Waits!Wait0 EXCEPT !.at = "window", !.next = next, !.generation = generation]
  OBVIOUS
<1>8. wait' = [wait EXCEPT ![w] = r]
  BY <1>1, <1>2, <1>7 DEF Waits!SubscribeWait, Waits!Becomes, From
<1>9. r = [at |-> "window", generation |-> generation, epoch |-> -1, next |-> next, head |-> 0, queue |-> {}, from |-> 0,
           cursor |-> 0, through |-> 0, before |-> Waits!None, found |-> Waits!None, depth |-> 0, events |-> <<>>]
  BY <1>7, SubscribeRecord
<1>10. ForkInv' /\ Moves
  BY <1>1, Stays DEF WaitsInv
<1>11. \A v \in Waits!Wait : ScannerKeeps(v)
  BY <1>1, <1>2, <1>4, <1>6, <1>10 DEF ScannerKeeps, Moves, Steady
<1>12. r.at = "window" /\ r.generation = generation /\ r.next = next /\ r.queue = {} /\ r.found = Waits!None
  BY <1>9
<1>13. next = From(w) /\ next \in Nat \ {0} /\ ~Receipts(w)
  BY <1>1, <1>2, <1>3, Requests, KindsDiffer
<1>14. From(w)' = From(w) /\ Waits!Topic(w)' = Waits!Topic(w) /\ (Logs(w)' <=> Logs(w)) /\ (Receipts(w)' <=> Receipts(w))
  BY <1>1 DEF From, Waits!Topic, Logs, Receipts, Waits!Wait
<1>15. Standing(w, r)'
  <2>1. RecordOk(w, r)'
    BY <1>4, <1>9, <1>13, <1>14 DEF RecordOk
  <2>2. Found(w, r)' /\ Confirmed(w, r)'
    BY <1>12, <1>13, <1>14 DEF Found, Confirmed
  <2>3. Registered(w, r)'
    BY <1>2, <1>4, <1>6, <1>12, <1>13, <1>14 DEF Registered
  <2>4. Clear(w, next - 1)'
    BY <1>13, <1>14 DEF Clear
  <2>5. Searched(w, r)'
    BY <1>12, <2>4 DEF Searched
  <2> QED BY <2>1, <2>2, <2>3, <2>5 DEF Standing
<1>16. StandInv' /\ wait' = [v \in Waits!Wait' |-> wait'[v]]
  BY <1>8, <1>10, <1>11, <1>15, OneMoves DEF WaitsInv
<1>17. wait'[w] = r /\ \A v \in Waits!Wait \ {w} : wait'[v] = wait[v]
  BY <1>8 DEF WaitsInv, WaitTypes
<1>18. \A v \in hub'.interests : v = w \/ (v \in hub.interests /\ wait'[v] = wait[v])
  BY <1>2, <1>4, <1>6, <1>17
<1>19. scan' \in Scans /\ ScanInv'
  <2>1. CASE hub.running
    <3>1. scan' = scan /\ scan \in Scans
      BY <1>1, <2>1 DEF Waits!Subscribed, WaitsInv, WaitTypes
    <3>2. scan.generation \in Nat
      BY <3>1 DEF Scans
    <3>3. Scanning => \A v \in hub'.interests : wait'[v].generation <= scan.generation => v \in scan.plan
      <4>1. Scanning => ~(r.generation <= scan.generation)
        BY <1>4, <1>12, <3>2 DEF WaitsInv, ScanInv
      <4> QED BY <1>17, <1>18, <4>1 DEF WaitsInv, ScanInv
    <3> QED BY <1>1, <1>4, <1>6, <1>10, <3>1, <3>3, ScanStays DEF WaitsInv
  <2>2. CASE ~hub.running
    <3>1. scan' = [Waits!Scan0 EXCEPT !.at = "tick"]
      BY <1>1, <2>2 DEF Waits!Subscribed
    <3>2. Waits!Scan0 \in Scans
      BY IdleScan DEF WaitsInv
    <3>3. scan' \in Scans /\ scan'.at = "tick"
      BY <3>1, <3>2 DEF Scans
    <3> QED BY <1>4, <1>6, <3>3, NotScanning
  <2> QED BY <2>1, <2>2
<1>20. WindowInv'
  <2>1. updates.generation \in Nat /\ updates.generation <= hub.generation
    BY <1>3 DEF WaitsInv, WindowInv, Windows
  <2>2. r.generation \notin 1 .. updates.generation
    BY <1>4, <1>12, <2>1
  <2>3. \A v \in hub'.interests : wait'[v].generation \in 1 .. updates.generation =>
             v \in hub.interests /\ wait[v].generation \in 1 .. updates.generation
    BY <1>17, <1>18, <2>2
  <2> QED BY <1>1, <1>4, <1>6, <1>10, <2>3, WindowStays DEF WaitsInv
<1>21. Waits!Wait' = Waits!Wait
  BY <1>1 DEF Waits!Wait
<1>22. Hubs' = Hubs /\ Scans' = Scans /\ Windows' = Windows
  BY <1>21 DEF Hubs, Scans, Windows
<1>23. WaitTypes'
  BY <1>1, <1>3, <1>6, <1>16, <1>19, <1>21, <1>22 DEF WaitTypes
<1> QED BY <1>10, <1>16, <1>19, <1>20, <1>23 DEF WaitsInv

\* The candidates of a window, in the wait's own range; while nothing is
\* reorganised, these are the matches of the chain that it covers.
LEMMA CandidateFacts ==
    ASSUME WaitsInv, NEW w \in Waits!Wait, Logs(w), wait[w].at = "window", updates.ok, updates.generation >= wait[w].generation
    PROVE  /\ Waits!Candidates(w) \subseteq Nat /\ \A k \in Waits!Candidates(w) : k >= From(w)
           /\ Steady => /\ updates.head <= Len(chain) /\ (updates.start <= updates.head \/ updates.start <= From(w))
                        /\ \A k \in Waits!Candidates(w) : k <= updates.head
                        /\ \A k \in From(w) .. updates.head :
                             k >= updates.start /\ chain[k].log = Waits!Topic(w) => k \in Waits!Candidates(w)
<1> DEFINE mine == {g \in updates.logs : g[Len(g)].log = Waits!Topic(w)}
<1>1. updates.logs \subseteq Hashes /\ updates.start \in Nat /\ updates.head \in Nat /\ updates.generation \in Nat
      /\ updates.start >= 1
  BY DEF WaitsInv, WaitTypes, Windows, WindowInv
<1>2. From(w) \in Nat \ {0} /\ chain \in Hashes /\ Len(chain) \in Nat
  BY StandsNow, Requests
<1>3. {g \in updates.logs : Waits!Last(g).log = Waits!Topic(w)} = mine
  BY DEF Waits!Last
<1>4. Waits!Candidates(w) = {n \in {Len(h) : h \in mine} : n >= From(w)}
  BY <1>3 DEF Waits!Candidates, From
<1>5. \A h \in mine : Len(h) \in Nat
  BY <1>1, LenProperties DEF Hashes
<1>6. Steady => /\ updates.head <= Len(chain) /\ (updates.start <= updates.head \/ updates.start <= From(w))
                /\ mine = {SubSeq(chain, 1, n) : n \in {k \in updates.start .. updates.head : chain[k].log = Waits!Topic(w)}}
  <2>1. w \in hub.interests /\ wait[w].generation \in Nat /\ wait[w].generation >= 1
    BY SearchFacts, StandsNow DEF RecordOk
  <2>2. wait[w].generation \in 1 .. updates.generation
    BY <1>1, <2>1
  <2>3. Steady => updates.head <= Len(chain) /\ Shows(chain, w)
    BY <2>1, <2>2 DEF WaitsInv, WindowInv, Steady, Chains
  <2> QED BY <2>3 DEF Shows
<1>7. Steady => \A k \in updates.start .. updates.head : Len(SubSeq(chain, 1, k)) = k /\ k \in Nat
  <2> SUFFICES ASSUME Steady, NEW k \in updates.start .. updates.head PROVE Len(SubSeq(chain, 1, k)) = k /\ k \in Nat
    OBVIOUS
  <2>1. k \in Nat /\ k <= Len(chain)
    BY <1>1, <1>2, <1>6
  <2> QED BY <1>2, <2>1, UpTo
<1> HIDE DEF mine
<1>8. Waits!Candidates(w) \subseteq Nat /\ \A k \in Waits!Candidates(w) : k >= From(w)
  BY <1>4, <1>5
<1>9. Steady => /\ \A k \in Waits!Candidates(w) : k <= updates.head
                /\ \A k \in From(w) .. updates.head :
                     k >= updates.start /\ chain[k].log = Waits!Topic(w) => k \in Waits!Candidates(w)
  <2> SUFFICES ASSUME Steady
               PROVE  /\ \A k \in Waits!Candidates(w) : k <= updates.head
                      /\ \A k \in From(w) .. updates.head :
                           k >= updates.start /\ chain[k].log = Waits!Topic(w) => k \in Waits!Candidates(w)
    OBVIOUS
  <2>1. ASSUME NEW k \in Waits!Candidates(w) PROVE k <= updates.head
    <3>1. PICK h \in mine : k = Len(h)
      BY <1>4
    <3>2. PICK n \in updates.start .. updates.head : h = SubSeq(chain, 1, n)
      BY <1>6, <3>1
    <3>3. k = n
      BY <1>7, <3>1, <3>2
    <3> QED BY <1>1, <3>3
  <2>2. ASSUME NEW k \in From(w) .. updates.head, k >= updates.start, chain[k].log = Waits!Topic(w)
        PROVE  k \in Waits!Candidates(w)
    <3>1. k \in updates.start .. updates.head /\ k >= From(w)
      BY <1>1, <1>2, <2>2
    <3>2. SubSeq(chain, 1, k) \in mine
      BY <1>6, <2>2, <3>1
    <3>3. Len(SubSeq(chain, 1, k)) = k
      BY <1>7, <3>1
    <3> QED BY <1>4, <3>1, <3>2, <3>3
  <2> QED BY <2>1, <2>2
<1> QED BY <1>6, <1>8, <1>9

\* What a wait does with a window that is for it.
LEMMA ReceivedStands ==
    ASSUME WaitsInv, NEW w \in Waits!Wait, wait[w].at = "window", updates.ok, updates.generation >= wait[w].generation,
           NEW next, next \in {wait[w].next, From(w)}
    PROVE  Standing(w, Waits!Received(w, next)) /\ Waits!Received(w, next).generation = wait[w].generation
<1>1. PICK s, epoch, head, queue : s = wait[w] /\ epoch = updates.epoch /\ head = updates.head /\ queue = Waits!Candidates(w)
  OBVIOUS
<1>2. /\ Logs(w) /\ ~Receipts(w) /\ From(w) \in Nat \ {0}
      /\ s.generation <= hub.generation /\ s.generation >= 1 /\ w \in hub.interests /\ s.next >= From(w)
      /\ s.at = "window" /\ RecordOk(w, s) /\ Found(w, s) /\ Searched(w, s) /\ chain \in Hashes /\ Len(chain) \in Nat
  BY <1>1, SearchFacts, StandsNow
<1>3. epoch \in Nat /\ head \in Nat /\ updates.start \in Nat /\ updates.start >= 1
  BY <1>1 DEF WaitsInv, WaitTypes, Windows, WindowInv
<1>4. /\ queue \subseteq Nat /\ \A k \in queue : k >= From(w)
      /\ Steady => /\ head <= Len(chain) /\ (updates.start <= head \/ updates.start <= From(w))
                   /\ \A k \in queue : k <= head
                   /\ \A k \in From(w) .. head : k >= updates.start /\ chain[k].log = Waits!Topic(w) => k \in queue
  BY <1>1, <1>2, CandidateFacts
<1>5. next \in Nat /\ next >= From(w)
  BY <1>1, <1>2 DEF RecordOk
<1>6. Steady => Clear(w, next - 1)
  <2>1. Steady => Clear(w, s.next - 1)
    BY <1>2 DEF Searched
  <2>2. Clear(w, From(w) - 1)
    BY <1>2 DEF Clear
  <2> QED BY <1>1, <2>1, <2>2
<1>7. PICK r : r = [s EXCEPT !.epoch = epoch, !.next = next, !.head = head, !.queue = queue]
  OBVIOUS
<1>8. r = [at |-> s.at, generation |-> s.generation, epoch |-> epoch, next |-> next, head |-> head, queue |-> queue,
           from |-> s.from, cursor |-> s.cursor, through |-> s.through, before |-> s.before, found |-> s.found,
           depth |-> s.depth, events |-> s.events]
  <2>1. s = [at |-> s.at, generation |-> s.generation, epoch |-> s.epoch, next |-> s.next, head |-> s.head, queue |-> s.queue,
             from |-> s.from, cursor |-> s.cursor, through |-> s.through, before |-> s.before, found |-> s.found,
             depth |-> s.depth, events |-> s.events]
    BY <1>2 DEF RecordOk
  <2> QED BY <1>7, <2>1
<1>9. r.at = "window" /\ r.generation = s.generation /\ r.next = next /\ r.head = head /\ r.queue = queue /\ r.found = s.found
  BY <1>2, <1>8
<1>10. RecordOk(w, r)
  BY <1>2, <1>3, <1>4, <1>5, <1>8 DEF RecordOk
<1>11. Found(w, r) /\ Confirmed(w, r)
  BY <1>2, <1>9 DEF Found, Confirmed
<1>12. Waits!Received(w, next) = IF updates.start > next THEN Waits!Find(r, next, updates.start - 1) ELSE Waits!Continue(w, r)
  BY <1>1, <1>7 DEF Waits!Received
<1>13. CASE ~(updates.start > next)
  <2>1. Steady => \A k \in From(w) .. head : chain[k].log = Waits!Topic(w) => k \in queue
    <3> SUFFICES ASSUME Steady, NEW k \in From(w) .. head, chain[k].log = Waits!Topic(w) PROVE k \in queue
      OBVIOUS
    <3>1. ~(k <= next - 1)
      BY <1>2, <1>5, <1>6 DEF Clear
    <3>2. k >= updates.start
      BY <1>2, <1>3, <1>5, <1>13, <3>1
    <3> QED BY <1>4, <3>2
  <2>2. Standing(w, Waits!Continue(w, r)) /\ Waits!Continue(w, r).generation = r.generation
    BY <1>2, <1>4, <1>5, <1>6, <1>9, <1>10, <1>11, <2>1, ContinueStands
  <2> QED BY <1>1, <1>9, <1>12, <1>13, <2>2
<1>14. CASE updates.start > next
  <2>1. PICK through : through = updates.start - 1
    OBVIOUS
  <2>2. through \in Nat /\ next <= through
    BY <1>3, <1>5, <1>14, <2>1
  <2>3. PICK q : q = [r EXCEPT !.at = "before", !.from = next, !.cursor = next, !.through = through]
    OBVIOUS
  <2>4. q = [at |-> "before", generation |-> s.generation, epoch |-> epoch, next |-> next, head |-> head, queue |-> queue,
             from |-> next, cursor |-> next, through |-> through, before |-> s.before, found |-> s.found,
             depth |-> s.depth, events |-> s.events]
    BY <1>8, <2>3
  <2>5. q.at = "before" /\ q.generation = s.generation /\ q.next = next /\ q.head = head /\ q.queue = queue
        /\ q.found = s.found /\ q.from = next /\ q.cursor = next /\ q.through = through
    BY <2>4
  <2>6. RecordOk(w, q)
    BY <1>2, <1>3, <1>4, <1>5, <2>2, <2>4 DEF RecordOk
  <2>7. Found(w, q) /\ Confirmed(w, q)
    BY <1>2, <2>5 DEF Found, Confirmed
  <2>8. Registered(w, q)
    BY <1>2, <1>4, <1>5, <2>2, <2>5 DEF Registered
  <2>9. Steady => through <= Len(chain)
    BY <1>2, <1>3, <1>4, <1>5, <1>14, <2>1
  <2>10. Steady => \A k \in From(w) .. head : chain[k].log = Waits!Topic(w) => k <= through \/ k \in queue
    BY <1>2, <1>3, <1>4, <2>1
  <2>11. Searched(w, q)
    BY <1>4, <1>6, <2>5, <2>9, <2>10 DEF Searched
  <2>12. Waits!Received(w, next) = q
    BY <1>12, <1>14, <2>1, <2>3 DEF Waits!Find
  <2> QED BY <1>1, <2>5, <2>6, <2>7, <2>8, <2>11, <2>12 DEF Standing
<1> QED BY <1>13, <1>14

LEMMA NextWindowKeeps == ASSUME WaitsInv, NEW w \in Waits!Wait, Waits!NextWindow(w) PROVE WaitsInv'
<1>1. wait[w].at = "window" /\ config' = config /\ chain' = chain /\ past' = past /\ scan' = scan
      /\ updates' = updates /\ unseen' \subseteq Waits!Wait
  BY DEF Waits!NextWindow, WaitsInv, WaitTypes
<1>2. CASE ~updates.ok
  <2>1. PICK s : s = [wait[w] EXCEPT !.at = "failed"]
    OBVIOUS
  <2>2. Waits!End(w, s)
    BY <1>2, <2>1 DEF Waits!NextWindow
  <2>3. s.at = "failed" /\ s.found = wait[w].found
    BY <2>1, StandsNow, AtIs
  <2> QED BY <1>1, <2>2, <2>3, EndMoves
<1>3. CASE updates.ok /\ updates.generation < wait[w].generation
  <2>1. wait' = wait /\ hub' = hub
    BY <1>3 DEF Waits!NextWindow
  <2>2. PICK r : r = wait[w]
    OBVIOUS
  <2>3. wait' = [wait EXCEPT ![w] = r] /\ Standing(w, r)
    BY <2>1, <2>2, StandsNow DEF WaitsInv, WaitTypes
  <2> QED BY <1>1, <2>1, <2>2, <2>3, WaitMoves
<1>4. CASE updates.ok /\ ~(updates.generation < wait[w].generation)
  <2>1. PICK next : next = IF updates.epoch = wait[w].epoch THEN wait[w].next ELSE config.want[w].start
    OBVIOUS
  <2>2. PICK r : r = Waits!Received(w, next)
    OBVIOUS
  <2>3. wait' = [wait EXCEPT ![w] = r] /\ hub' = hub
    BY <1>4, <2>1, <2>2 DEF Waits!NextWindow, Waits!Becomes
  <2>4. updates.generation \in Nat /\ wait[w].generation \in Nat
    BY StandsNow DEF WaitsInv, WaitTypes, Windows, RecordOk
  <2>5. next \in {wait[w].next, From(w)} /\ updates.generation >= wait[w].generation
    BY <1>4, <2>1, <2>4 DEF From
  <2>6. Standing(w, r) /\ r.generation = wait[w].generation
    BY <1>1, <1>4, <2>2, <2>5, ReceivedStands
  <2> QED BY <1>1, <2>3, <2>6, WaitMoves
<1> QED BY <1>2, <1>3, <1>4

-----------------------------------------------------------------------------
(* Every step, and what the invariant is for                               *)

\* The chain grows or is reorganised, and nobody has noticed yet.
LEMMA ChainKeeps == ASSUME WaitsInv, Waits!Mine \/ Waits!Reorganise PROVE WaitsInv'
<1>1. ForkInv' /\ Moves
  BY MineMoves, ReorganiseMoves DEF WaitsInv
<1>2. config' = config /\ hub' = hub /\ scan' = scan /\ updates' = updates /\ unseen' = unseen /\ wait' = wait
  BY DEF Waits!Mine, Waits!Reorganise
<1>3. hub \in Hubs /\ updates \in Windows /\ hub.failures <= hub.errors
  BY DEF WaitsInv, WaitTypes, ScanInv
<1>4. hub.generation \in Nat /\ hub.errors \in Nat /\ updates.head \in Nat
  BY <1>3 DEF Hubs, Windows
<1>5. \A v \in Waits!Wait : ScannerKeeps(v)
  BY <1>1, <1>2, <1>4 DEF ScannerKeeps, Moves, Steady
<1>6. StandInv' /\ wait' = [v \in Waits!Wait' |-> wait'[v]]
  BY <1>1, <1>2, <1>5, NoneMoves DEF WaitsInv
<1>7. ScanInv'
  <2>1. Scanning => \A v \in hub'.interests : wait'[v].generation <= scan.generation => v \in scan.plan
    BY <1>2 DEF WaitsInv, ScanInv
  <2>2. hub'.generation \in Nat /\ hub.generation <= hub'.generation /\ hub'.failures <= hub'.errors
    BY <1>2, <1>3, <1>4
  <2> QED BY <1>1, <1>2, <2>1, <2>2, ScanStays DEF WaitsInv
<1>8. WindowInv'
  BY <1>1, <1>2, <1>4, WindowStays DEF WaitsInv
<1>9. Waits!Wait' = Waits!Wait
  BY <1>2 DEF Waits!Wait
<1>10. Hubs' = Hubs /\ Scans' = Scans /\ Windows' = Windows
  BY <1>9 DEF Hubs, Scans, Windows
<1>11. WaitTypes'
  BY <1>2, <1>6, <1>9, <1>10 DEF WaitTypes, WaitsInv
<1> QED BY <1>1, <1>6, <1>7, <1>8, <1>11 DEF WaitsInv

LEMMA NewRecord ==
    Waits!Wait0 = [at |-> "new", generation |-> 0, epoch |-> -1, next |-> 0, head |-> 0, queue |-> {}, from |-> 0, cursor |-> 0,
                   through |-> 0, before |-> Waits!None, found |-> Waits!None, depth |-> 0, events |-> <<>>]
BY DEF Waits!Wait0

LEMMA WaitsInvInit == ASSUME Waits!Init PROVE WaitsInv
<1>1. config \in WaitConfigs /\ chain = <<>> /\ past = {} /\ scan = Waits!Scan0 /\ updates = Waits!Window0 /\ unseen = {}
      /\ wait = [w \in Waits!Wait |-> Waits!Wait0]
  BY DEF Waits!Init
<1>2. hub = [generation |-> 0, interests |-> {}, running |-> FALSE, checkpoint |-> Waits!None,
             epoch |-> 0, failures |-> 0, errors |-> 0]
  BY DEF Waits!Init
<1>3. hub \in Hubs /\ hub.generation = 0 /\ hub.interests = {} /\ hub.failures = 0 /\ hub.errors = 0
  BY <1>2 DEF Hubs
<1>4. scan \in Scans /\ scan.at = "off"
  BY <1>1 DEF Waits!Scan0, Scans
<1>5. updates \in Windows /\ ~updates.ok /\ updates.generation = 0
  BY <1>1 DEF Waits!Window0, Windows
<1>6. WaitTypes
  BY <1>1, <1>3, <1>4, <1>5 DEF WaitTypes
<1>7. chain \in Hashes /\ Len(chain) = 0
  BY <1>1 DEF Hashes
<1>8. ForkInv
  BY <1>1, <1>7, FS_EmptySet DEF ForkInv, Chains
<1>9. ScanInv
  BY <1>3, <1>4 DEF ScanInv, Scanning
<1>10. WindowInv
  BY <1>3, <1>5 DEF WindowInv
<1>11. ASSUME NEW w \in Waits!Wait PROVE Standing(w, wait[w])
  <2>1. PICK r : r = Waits!Wait0
    OBVIOUS
  <2>2. r = [at |-> "new", generation |-> 0, epoch |-> -1, next |-> 0, head |-> 0, queue |-> {}, from |-> 0, cursor |-> 0,
             through |-> 0, before |-> Waits!None, found |-> Waits!None, depth |-> 0, events |-> <<>>]
    BY <2>1, NewRecord
  <2>3. wait[w] = r
    BY <1>1, <2>1
  <2>4. r.at = "new" /\ r.generation = 0 /\ r.found = Waits!None
    BY <2>2
  <2>5. RecordOk(w, r)
    BY <2>2 DEF RecordOk
  <2>6. Found(w, r) /\ Confirmed(w, r)
    BY <2>4 DEF Found, Confirmed
  <2>7. Registered(w, r)
    BY <1>3, <2>4 DEF Registered
  <2>8. Searched(w, r)
    BY <2>4 DEF Searched
  <2> QED BY <2>3, <2>5, <2>6, <2>7, <2>8 DEF Standing
<1> QED BY <1>6, <1>8, <1>9, <1>10, <1>11 DEF WaitsInv, StandInv

\* Each step of the scanner, of a wait or of the chain preserves the invariant.
LEMMA WaitsInvStep == ASSUME WaitsInv, Waits!Next PROVE WaitsInv'
<1>1. CASE Waits!Scanner
  BY <1>1, TickKeeps, HeadHashKeeps, CheckAncestorKeeps, GetLogsKeeps, CommitKeeps DEF Waits!Scanner
<1>2. CASE Waits!ScanFails \/ Waits!Mine \/ Waits!Reorganise
  BY <1>2, ScanFailsKeeps, ChainKeeps
<1>3. CASE \E w \in Waits!Wait : Waits!Progress(w) \/ Waits!GiveUp(w)
  <2>1. PICK w \in Waits!Wait : Waits!Progress(w) \/ Waits!GiveUp(w)
    BY <1>3
  <2>2. CASE Waits!SubscribeWait(w) \/ Waits!NextWindow(w) \/ Waits!EndpointBefore(w) \/ Waits!Search(w) \/ Waits!EndpointAfter(w)
             \/ Waits!WaitForHead(w) \/ Waits!FinalizeLog(w)
    BY <2>2, SubscribeWaitKeeps, NextWindowKeeps, EndpointBeforeKeeps, SearchKeeps, EndpointAfterKeeps, WaitForHeadKeeps,
       FinalizeLogKeeps
  <2>3. CASE Waits!FetchReceipt(w) \/ Waits!WaitForConfirmations(w) \/ Waits!Refetch(w) \/ Waits!ConfirmBlock(w)
             \/ Waits!CurrentDepth(w)
    BY <2>3, FetchReceiptKeeps, WaitForConfirmationsKeeps, RefetchKeeps, ConfirmBlockKeeps, CurrentDepthKeeps
  <2> QED BY <2>1, <2>2, <2>3, GiveUpKeeps DEF Waits!Progress
<1> QED BY <1>1, <1>2, <1>3 DEF Waits!Next

LEMMA WaitsInvStutter == ASSUME WaitsInv, UNCHANGED <<config, WaitVars>> PROVE WaitsInv'
<1>1. config' = config /\ chain' = chain /\ past' = past /\ hub' = hub /\ scan' = scan /\ updates' = updates
      /\ unseen' = unseen /\ wait' = wait
  BY DEF WaitVars
<1>2. ForkInv' /\ Moves /\ hub \in Hubs
  BY <1>1, Stays DEF WaitsInv, WaitTypes
<1>3. hub.generation \in Nat /\ hub.errors \in Nat /\ hub.failures <= hub.errors /\ scan \in Scans
  BY <1>2 DEF WaitsInv, WaitTypes, ScanInv, Hubs
<1>4. ScanInv'
  <2>1. Scanning => \A v \in hub'.interests : wait'[v].generation <= scan.generation => v \in scan.plan
    BY <1>1 DEF WaitsInv, ScanInv
  <2> QED BY <1>1, <1>2, <1>3, <2>1, ScanStays DEF WaitsInv
<1> QED BY <1>1, <1>2, <1>3, <1>4, ScannerWaits

\* A chain that contains a block's hash has it as a prefix.
LEMMA PrefixOf ==
    ASSUME NEW c \in Hashes, NEW h \in Hashes, Contains(c, h)
    PROVE  Waits!IsPrefix(h, c)
<1>1. Len(h) \in Nat /\ Len(c) \in Nat /\ Len(h) <= Len(c)
  BY LenProperties DEF Hashes, Contains
<1>2. h = SubSeq(c, 1, Len(h)) /\ h = SubSeq(h, 1, Len(h))
  BY ContainedIsUpTo, ContainsItself
<1> QED BY <1>1, <1>2 DEF Waits!IsPrefix

\* What a wait ends with: a match, of a chain there is or was, as deep there as
\* a receipt has to be, and the first while nothing is reorganised.
LEMMA WaitsEndWell == ASSUME WaitsInv PROVE Waits!EndsWithCanonicalMatch
<1> SUFFICES ASSUME NEW w \in Waits!Wait, wait[w].at = "done"
             PROVE  LET h == wait[w].found
                    IN  /\ Waits!Last(h).log = Waits!Topic(w)
                        /\ \E c \in past \cup {chain} : Waits!IsPrefix(h, c)
                        /\ config.want[w].kind = "receipt" => Waits!HadDepth(w)
                        /\ config.want[w].kind = "log" =>
                             /\ Len(h) >= config.want[w].start
                             /\ past = {} /\ hub.errors < ScanRetries =>
                                  \A k \in config.want[w].start .. Len(h) - 1 : h[k].log # Waits!Topic(w)
  BY DEF Waits!EndsWithCanonicalMatch
<1>1. PICK r, h : r = wait[w] /\ h = r.found
  OBVIOUS
<1>2. r.at = "done" /\ RecordOk(w, r) /\ Found(w, r) /\ Confirmed(w, r) /\ Searched(w, r)
  BY <1>1, StandsNow
<1>3. h # Waits!None /\ h \in Hashes /\ h[Len(h)].log = Waits!Topic(w) /\ (\E c \in Chains : Contains(c, h))
      /\ (Logs(w) => Len(h) >= From(w))
  BY <1>1, <1>2 DEF Found, RecordOk
<1>4. Chains \subseteq Hashes /\ Chains = past \cup {chain}
  BY ChainsAreHashes DEF WaitsInv, Chains
<1>5. Waits!Last(h).log = Waits!Topic(w)
  BY <1>3 DEF Waits!Last
<1>6. \E c \in past \cup {chain} : Waits!IsPrefix(h, c)
  BY <1>3, <1>4, PrefixOf
<1>7. Receipts(w) => Waits!HadDepth(w)
  <2>1. Receipts(w) => \E c \in Chains : Contains(c, h) /\ Len(c) >= Len(h) + Waits!Confirmations(w)
    BY <1>1, <1>2 DEF Confirmed, Deepened
  <2>2. Receipts(w) => \E c \in past \cup {chain} : Waits!IsPrefix(h, c) /\ Len(c) >= Len(h) + Waits!Confirmations(w)
    BY <1>3, <1>4, <2>1, PrefixOf
  <2> QED BY <1>1, <2>2 DEF Waits!HadDepth
<1>8. Logs(w) /\ Steady => \A k \in From(w) .. Len(h) - 1 : h[k].log # Waits!Topic(w)
  <2> SUFFICES ASSUME Logs(w), Steady, NEW k \in From(w) .. Len(h) - 1 PROVE h[k].log # Waits!Topic(w)
    OBVIOUS
  <2>1. Clear(w, Len(h) - 1)
    BY <1>1, <1>2, <1>3 DEF Searched
  <2>2. Contains(chain, h)
    BY <1>3 DEF Steady, Chains
  <2>3. Len(h) \in Nat /\ From(w) \in Nat \ {0}
    BY <1>3, LenProperties, Requests, StandsNow DEF Hashes
  <2>4. k \in 1 .. Len(h)
    BY <2>3
  <2> QED BY <2>1, <2>2, <2>4 DEF Clear, Contains
<1> QED BY <1>1, <1>3, <1>5, <1>6, <1>7, <1>8 DEF Logs, Receipts, Steady, From

\* The window that was published last shows one chain.
LEMMA WindowsAreWhole == ASSUME WaitsInv PROVE Waits!WindowIsOneChain
<1> SUFFICES ASSUME updates.ok
             PROVE  \E c \in past \cup {chain} :
                      /\ updates.head <= Len(c)
                      /\ \A w \in Waits!Wait : wait[w].generation \in 1 .. updates.generation /\ w \in hub.interests =>
                           {h \in updates.logs : Waits!Last(h).log = Waits!Topic(w)}
                             = {SubSeq(c, 1, n) : n \in {k \in updates.start .. updates.head : c[k].log = Waits!Topic(w)}}
  BY DEF Waits!WindowIsOneChain
<1>1. PICK c \in Chains :
        /\ updates.head <= Len(c)
        /\ \A w \in hub.interests : wait[w].generation \in 1 .. updates.generation => Shows(c, w)
  BY DEF WaitsInv, WindowInv
<1>2. c \in past \cup {chain}
  BY DEF Chains
<1>3. \A h : Waits!Last(h) = h[Len(h)]
  BY DEF Waits!Last
<1>4. \A w : {h \in updates.logs : Waits!Last(h).log = Waits!Topic(w)} = {h \in updates.logs : h[Len(h)].log = Waits!Topic(w)}
  BY <1>3
<1>5. \A w \in Waits!Wait : wait[w].generation \in 1 .. updates.generation /\ w \in hub.interests =>
        {h \in updates.logs : Waits!Last(h).log = Waits!Topic(w)}
          = {SubSeq(c, 1, n) : n \in {k \in updates.start .. updates.head : c[k].log = Waits!Topic(w)}}
  BY <1>1, <1>4 DEF Shows
<1> QED BY <1>1, <1>2, <1>5
=============================================================================
