--------------------------- MODULE LiquidationProofs ---------------------------
(***************************************************************************)
(* Theorems about the vetting of opportunities: types, and that every      *)
(* verdict has its reason in the lists that were in force during its check. *)
(*                                                                         *)
(* A check and the changes of the lists interleave question by question.   *)
(* The invariant says of a check under way that the lists in force lie     *)
(* between what was listed all through and what was listed some time, and  *)
(* that no question answered so far was about something listed all through. *)
(***************************************************************************)
EXTENDS Liquidation, SeqFoldsProofs

\* Question n about path p, put to lists that need not be those in force.
ListedIn(lists, p, n) ==
  \/ n % 3 = 0 /\ p[(n \div 3) + 1].pool_address \in lists.pools
  \/ n % 3 = 1 /\ p[(n \div 3) + 1].input_mint \in lists.tokens
  \/ n % 3 = 2 /\ p[(n \div 3) + 1].output_mint \in lists.tokens

Within(smaller, larger) ==
  smaller.tokens \subseteq larger.tokens /\ smaller.pools \subseteq larger.pools

\* The lists in force lie between the two histories of a check under way.
Watched(t) ==
  /\ Within(always[t], Current)
  /\ path[t] # <<>> => Within(Current, ever[t])

\* What the answers so far say of the lists since the check began.
Progress(t) ==
  /\ path[t] = <<>> => verdict[t] = "none" /\ asked[t] = 0
  /\ verdict[t] # "blocked" =>
       \A n \in Nat : n < asked[t] => ~ListedIn(always[t], path[t], n)
  /\ verdict[t] = "passed" => asked[t] = 3 * Len(path[t])
  /\ verdict[t] = "blocked" => Bans(ever[t], path[t])

Inv == TypeOK /\ \A t \in Tasks : Watched(t) /\ Progress(t)

------------------------------------------------------------------------------
(* Lists and questions *)

\* A question answered with yes by lists is answered so by lists that hold more.
LEMMA ListedMonotone ==
  ASSUME NEW smaller, NEW larger, Within(smaller, larger), NEW p, NEW n,
         ListedIn(smaller, p, n)
  PROVE  ListedIn(larger, p, n)
BY DEF ListedIn, Within

\* A path that lists ban is banned by lists that hold more.
LEMMA BansMonotone ==
  ASSUME NEW smaller, NEW larger, Within(smaller, larger), NEW p, Bans(smaller, p)
  PROVE  Bans(larger, p)
BY DEF Bans, BansStep, Within

\* The questions about a path of n steps are those below 3 * n: a path with a
\* question answered with yes is banned.
LEMMA ListedBans ==
  ASSUME NEW lists, NEW p \in Paths, NEW n \in Nat, n < 3 * Len(p), ListedIn(lists, p, n)
  PROVE  Bans(lists, p)
<1>1. p \in Seq(Steps) /\ Len(p) \in Nat /\ DOMAIN p = 1..Len(p)
  BY BlacklistAssumption
<1>2. n \div 3 \in Nat /\ (n \div 3) + 1 <= Len(p)
  BY <1>1
<1>3. (n \div 3) + 1 \in DOMAIN p
  BY <1>1, <1>2
<1>4. BansStep(lists, p[(n \div 3) + 1])
  BY DEF ListedIn, BansStep
<1> QED BY <1>3, <1>4 DEF Bans

\* And a banned path has a question that is answered with yes.
LEMMA BansListed ==
  ASSUME NEW lists, NEW p \in Paths, Bans(lists, p)
  PROVE  \E n \in Nat : n < 3 * Len(p) /\ ListedIn(lists, p, n)
<1>1. p \in Seq(Steps) /\ Len(p) \in Nat /\ DOMAIN p = 1..Len(p)
  BY BlacklistAssumption
<1>2. PICK k \in DOMAIN p : BansStep(lists, p[k])
  BY DEF Bans
<1>3. k \in Nat /\ 1 <= k /\ k <= Len(p)
  BY <1>1, <1>2
<1>4. PICK j \in Nat : k = j + 1
  BY <1>3
<1>5. /\ 3 * j \in Nat /\ 3 * j + 1 \in Nat /\ 3 * j + 2 \in Nat
      /\ 3 * j + 2 < 3 * Len(p) /\ 3 * j + 1 < 3 * Len(p) /\ 3 * j < 3 * Len(p)
  BY <1>1, <1>3, <1>4
<1>6. /\ (3 * j) % 3 = 0 /\ (3 * j) \div 3 = j
      /\ (3 * j + 1) % 3 = 1 /\ (3 * j + 1) \div 3 = j
      /\ (3 * j + 2) % 3 = 2 /\ (3 * j + 2) \div 3 = j
  BY <1>4
<1>7. CASE p[k].pool_address \in lists.pools
  <2>1. ListedIn(lists, p, 3 * j)
    BY <1>4, <1>6, <1>7 DEF ListedIn
  <2> QED BY <2>1, <1>5
<1>8. CASE p[k].input_mint \in lists.tokens
  <2>1. ListedIn(lists, p, 3 * j + 1)
    BY <1>4, <1>6, <1>8 DEF ListedIn
  <2> QED BY <2>1, <1>5
<1>9. CASE p[k].output_mint \in lists.tokens
  <2>1. ListedIn(lists, p, 3 * j + 2)
    BY <1>4, <1>6, <1>9 DEF ListedIn
  <2> QED BY <2>1, <1>5
<1> QED BY <1>2, <1>7, <1>8, <1>9 DEF BansStep

\* Ask puts its question to the lists in force.
LEMMA ListedNow ==
  ASSUME NEW p, NEW n \in Nat
  PROVE  Listed(p, n) <=> ListedIn(Current, p, n)
<1>1. \/ n % 3 = 0 /\ n % 3 # 1 /\ n % 3 # 2
      \/ n % 3 = 1 /\ n % 3 # 0 /\ n % 3 # 2
      \/ n % 3 = 2 /\ n % 3 # 0 /\ n % 3 # 1
  OBVIOUS
<1>2. CASE n % 3 = 0 /\ n % 3 # 1 /\ n % 3 # 2
  BY <1>2, Zenon DEF Listed, ListedIn, Current
<1>3. CASE n % 3 = 1 /\ n % 3 # 0 /\ n % 3 # 2
  BY <1>3, Zenon DEF Listed, ListedIn, Current
<1>4. CASE n % 3 = 2 /\ n % 3 # 0 /\ n % 3 # 1
  BY <1>4, Zenon DEF Listed, ListedIn, Current
<1> QED BY <1>1, <1>2, <1>3, <1>4

------------------------------------------------------------------------------
(* The invariant *)

\* A change of the lists leaves every check where it was between its histories.
LEMMA ChangeKeepsChecks ==
  ASSUME BlacklistTypeOK, \A t \in Tasks : Watched(t) /\ Progress(t), Changed
  PROVE  \A t \in Tasks : Watched(t)' /\ Progress(t)'
<1> SUFFICES ASSUME NEW t \in Tasks PROVE Watched(t)' /\ Progress(t)'
  OBVIOUS
<1>1. path' = path /\ asked' = asked /\ verdict' = verdict
  BY DEF Changed, checkVars
<1>2. always[t]' = [tokens |-> always[t].tokens \cap token_mints',
                    pools |-> always[t].pools \cap pool_addresses']
  BY DEF Changed
<1>3. Within(always[t]', always[t]) /\ Within(always[t]', Current')
  BY <1>2 DEF Within, Current
<1>4. ASSUME path[t] # <<>>
      PROVE  Within(Current', ever[t]') /\ Within(ever[t], ever[t]')
  <2>1. ever[t]' = [tokens |-> ever[t].tokens \cup token_mints',
                    pools |-> ever[t].pools \cup pool_addresses']
    BY <1>4 DEF Changed
  <2> QED BY <2>1 DEF Within, Current
<1>5. Watched(t)'
  BY <1>1, <1>3, <1>4 DEF Watched
<1>6. Progress(t)'
  <2>1. ASSUME verdict[t] # "blocked", NEW n \in Nat, n < asked[t]
        PROVE  ~ListedIn(always[t]', path[t], n)
    <3>1. ~ListedIn(always[t], path[t], n)
      BY <2>1 DEF Progress
    <3> QED BY <1>3, <3>1, ListedMonotone
  <2>2. ASSUME verdict[t] = "blocked"
        PROVE  Bans(ever[t]', path[t])
    <3>1. Bans(ever[t], path[t]) /\ path[t] # <<>>
      BY <2>2 DEF Progress
    <3> QED BY <1>4, <3>1, BansMonotone
  <2> QED BY <1>1, <2>1, <2>2 DEF Progress
<1> QED BY <1>5, <1>6

\* A change of the lists keeps the types, if the lists keep theirs.
LEMMA ChangeKeepsTypes ==
  ASSUME BlacklistTypeOK, Changed, Current' \in Lists,
         reloading' \in Lists \cup {NoLists}, changes' \in 0..MaxChanges,
         configs' \in SUBSET Lists
  PROVE  BlacklistTypeOK'
<1>1. path' = path /\ asked' = asked /\ verdict' = verdict
  BY DEF Changed, checkVars
<1>2. token_mints' \in SUBSET Tokens /\ pool_addresses' \in SUBSET PoolAddresses
  BY DEF Current, Lists
<1>3. always' \in [Tasks -> Lists]
  <2>1. ASSUME NEW t \in Tasks
        PROVE  [tokens |-> always[t].tokens \cap token_mints',
                pools |-> always[t].pools \cap pool_addresses'] \in Lists
    <3>1. always[t].tokens \cap token_mints' \in SUBSET Tokens
      BY <1>2
    <3>2. always[t].pools \cap pool_addresses' \in SUBSET PoolAddresses
      BY <1>2
    <3> QED BY <3>1, <3>2 DEF Lists
  <2> QED BY <2>1, Zenon DEF Changed
<1>4. ever' \in [Tasks -> Lists]
  <2>1. ASSUME NEW t \in Tasks
        PROVE  [tokens |-> ever[t].tokens \cup token_mints',
                pools |-> ever[t].pools \cup pool_addresses'] \in Lists
    <3>1. ever[t] \in Lists
      BY DEF BlacklistTypeOK
    <3>2. ever[t].tokens \in SUBSET Tokens /\ ever[t].pools \in SUBSET PoolAddresses
      BY <3>1 DEF Lists
    <3>3. ever[t].tokens \cup token_mints' \in SUBSET Tokens
      BY <1>2, <3>2
    <3>4. ever[t].pools \cup pool_addresses' \in SUBSET PoolAddresses
      BY <1>2, <3>2
    <3> QED BY <3>3, <3>4 DEF Lists
  <2>2. Empty \in Lists
    BY DEF Empty, Lists
  <2> QED BY <2>1, <2>2, Zenon DEF Changed
<1>5. covered' \in [Tasks -> BOOLEAN]
  BY Zenon DEF Changed, BlacklistTypeOK
<1> QED BY <1>1, <1>3, <1>4, <1>5 DEF BlacklistTypeOK, Checking

\* Each operation that changes the lists leaves them, and what it loads, of their types.
LEMMA ChangesKeepTypes ==
  ASSUME BlacklistTypeOK, ChangeLists
  PROVE  BlacklistTypeOK' /\ Changed
<1>1. token_mints \in SUBSET Tokens /\ pool_addresses \in SUBSET PoolAddresses
  BY DEF BlacklistTypeOK, Current, Lists
<1>2. ASSUME Counted PROVE changes' \in 0..MaxChanges
  BY <1>2, BlacklistAssumption DEF Counted, BlacklistTypeOK
<1>3. ASSUME NEW tokens \in SUBSET Tokens, SetTokens(tokens)
      PROVE  BlacklistTypeOK' /\ Changed
  <2>1. Current' \in Lists
    BY <1>1, <1>3 DEF SetTokens, Current, Lists
  <2>2. configs' \in SUBSET Lists
    <3>1. ASSUME NEW lists \in Lists PROVE [lists EXCEPT !.tokens = tokens] \in Lists
      BY DEF Lists
    <3>2. configs \subseteq Lists
      BY DEF BlacklistTypeOK
    <3>3. configs' = {[lists EXCEPT !.tokens = tokens] : lists \in configs}
      BY <1>3 DEF SetTokens
    <3> QED BY <3>1, <3>2, <3>3
  <2>3. Changed /\ Counted /\ reloading' = reloading
    BY <1>3 DEF SetTokens
  <2>4. reloading' \in Lists \cup {NoLists} /\ changes' \in 0..MaxChanges
    BY <1>2, <2>3 DEF BlacklistTypeOK
  <2> QED BY <2>1, <2>2, <2>3, <2>4, ChangeKeepsTypes
<1>4. ASSUME NEW pools \in SUBSET PoolAddresses, SetPools(pools)
      PROVE  BlacklistTypeOK' /\ Changed
  <2>1. Current' \in Lists
    BY <1>1, <1>4 DEF SetPools, Current, Lists
  <2>2. configs' \in SUBSET Lists
    <3>1. ASSUME NEW lists \in Lists PROVE [lists EXCEPT !.pools = pools] \in Lists
      BY DEF Lists
    <3>2. configs \subseteq Lists
      BY DEF BlacklistTypeOK
    <3>3. configs' = {[lists EXCEPT !.pools = pools] : lists \in configs}
      BY <1>4 DEF SetPools
    <3> QED BY <3>1, <3>2, <3>3
  <2>3. Changed /\ Counted /\ reloading' = reloading
    BY <1>4 DEF SetPools
  <2>4. reloading' \in Lists \cup {NoLists} /\ changes' \in 0..MaxChanges
    BY <1>2, <2>3 DEF BlacklistTypeOK
  <2> QED BY <2>1, <2>2, <2>3, <2>4, ChangeKeepsTypes
<1>5. CASE AddToken \/ RemoveToken
  <2>1. \E tokens \in SUBSET Tokens : SetTokens(tokens)
    BY <1>1, <1>5 DEF AddToken, RemoveToken
  <2> QED BY <1>3, <2>1
<1>6. CASE AddPool \/ RemovePool
  <2>1. \E pools \in SUBSET PoolAddresses : SetPools(pools)
    BY <1>1, <1>6 DEF AddPool, RemovePool
  <2> QED BY <1>4, <2>1
<1>7. ASSUME NEW lists \in Lists, ReloadTokens(lists)
      PROVE  BlacklistTypeOK' /\ Changed
  <2>1. lists.tokens \in SUBSET Tokens /\ lists.pools \in SUBSET PoolAddresses
    BY DEF Lists
  <2>2. Current' \in Lists
    BY <1>1, <1>7, <2>1 DEF ReloadTokens, Current, Lists
  <2>3. configs' \in SUBSET Lists /\ reloading' \in Lists \cup {NoLists}
    BY <1>7 DEF ReloadTokens, BlacklistTypeOK
  <2>4. Changed /\ changes' \in 0..MaxChanges
    BY <1>2, <1>7 DEF ReloadTokens
  <2> QED BY <2>2, <2>3, <2>4, ChangeKeepsTypes
<1>8. CASE ReloadPools
  <2>1. reloading \in Lists
    BY <1>8 DEF ReloadPools, BlacklistTypeOK
  <2>2. reloading.pools \in SUBSET PoolAddresses
    BY <2>1 DEF Lists
  <2>3. Current' \in Lists
    BY <1>1, <1>8, <2>2 DEF ReloadPools, Current, Lists
  <2>4. [tokens |-> token_mints, pools |-> reloading.pools] \in Lists
    BY <1>1, <2>2 DEF Lists
  <2>5. configs' \in SUBSET Lists /\ reloading' \in Lists \cup {NoLists}
    BY <1>8, <2>4 DEF ReloadPools
  <2>6. Changed /\ changes' \in 0..MaxChanges
    BY <1>8 DEF ReloadPools, BlacklistTypeOK
  <2> QED BY <2>3, <2>5, <2>6, ChangeKeepsTypes
<1> QED BY <1>5, <1>6, <1>7, <1>8 DEF ChangeLists

\* A question moves a check one answer on, or ends it with a verdict that the lists
\* between the two histories justify.
LEMMA AskKeeps ==
  ASSUME BlacklistTypeOK, \A t \in Tasks : Watched(t) /\ Progress(t),
         NEW s \in Tasks, Ask(s)
  PROVE  BlacklistTypeOK' /\ \A t \in Tasks : Watched(t)' /\ Progress(t)'
<1>1. /\ UNCHANGED <<listVars, path, windowVars>>
      /\ Current' = Current
  BY DEF Ask, listVars, windowVars, Current
<1>2. /\ path[s] # <<>> /\ verdict[s] = "none" /\ asked[s] \in Nat
      /\ path[s] \in Paths
      /\ asked[s] < 3 * Len(path[s]) /\ Len(path[s]) \in Nat
  <2>1. path[s] # <<>> /\ verdict[s] = "none" /\ path[s] \in Paths /\ asked[s] \in Nat
    BY DEF Ask, Checking, BlacklistTypeOK
  <2> QED BY <2>1, BlacklistAssumption DEF Checking, BlacklistTypeOK
<1>3. \A t \in Tasks \ {s} : asked'[t] = asked[t] /\ verdict'[t] = verdict[t]
  BY DEF Ask, BlacklistTypeOK
<1>4. asked'[s] = asked[s] + 1
  BY DEF Ask, BlacklistTypeOK
<1>5. verdict'[s] = IF Listed(path[s], asked[s]) THEN "blocked"
                    ELSE IF Exhausted(path[s], asked[s]) THEN "passed" ELSE "none"
  BY DEF Ask, BlacklistTypeOK
<1>6. BlacklistTypeOK'
  <2>1. asked' \in [Tasks -> Nat]
    BY DEF Ask, BlacklistTypeOK
  <2>2. verdict' \in [Tasks -> {"none", "passed", "blocked"}]
    <3>1. verdict'[s] \in {"none", "passed", "blocked"}
      BY <1>5
    <3> QED BY <1>5, <3>1 DEF Ask, BlacklistTypeOK
  <2>3. ASSUME NEW t \in Tasks, Checking(t)'
        PROVE  asked'[t] < 3 * Len(path'[t])
    <3>1. CASE t = s
      <4>1. asked[s] + 1 # 3 * Len(path[s])
        BY <1>5, <2>3, <3>1 DEF Checking, Exhausted
      <4> QED BY <1>1, <1>2, <1>4, <3>1, <4>1
    <3>2. CASE t # s
      BY <1>1, <1>3, <2>3, <3>2 DEF Checking, BlacklistTypeOK
    <3> QED BY <3>1, <3>2
  <2> QED BY <1>1, <2>1, <2>2, <2>3 DEF BlacklistTypeOK, listVars, windowVars
<1>7. \A t \in Tasks : Watched(t)'
  BY <1>1 DEF Watched, windowVars
<1>8. ASSUME NEW t \in Tasks, t # s
      PROVE  Progress(t)'
  BY <1>1, <1>3, <1>8 DEF Progress, windowVars
<1>9. Progress(s)'
  <2>1. Listed(path[s], asked[s]) <=> ListedIn(Current, path[s], asked[s])
    BY <1>2, ListedNow
  <2>2. path'[s] = path[s] /\ always'[s] = always[s] /\ ever'[s] = ever[s]
    BY <1>1 DEF windowVars
  <2>3. CASE Listed(path[s], asked[s])
    <3>1. Bans(Current, path[s])
      BY <1>2, <2>1, <2>3, ListedBans
    <3>2. Bans(ever[s], path[s])
      BY <1>2, <3>1, BansMonotone DEF Watched
    <3> QED BY <1>2, <1>5, <2>2, <2>3, <3>2 DEF Progress
  <2>4. CASE ~Listed(path[s], asked[s])
    <3>1. ASSUME NEW n \in Nat, n < asked'[s]
          PROVE  ~ListedIn(always[s], path[s], n)
      <4>1. CASE n < asked[s]
        BY <1>2, <4>1 DEF Progress
      <4>2. CASE n = asked[s]
        BY <2>1, <2>4, <4>2, ListedMonotone DEF Watched
      <4> QED BY <1>2, <1>4, <3>1, <4>1, <4>2
    <3>2. verdict'[s] = "passed" => asked'[s] = 3 * Len(path[s])
      BY <1>4, <1>5, <2>4 DEF Exhausted
    <3>3. verdict'[s] # "blocked"
      BY <1>5, <2>4
    <3> QED BY <1>2, <2>2, <3>1, <3>2, <3>3 DEF Progress
  <2> QED BY <2>3, <2>4
<1> QED BY <1>6, <1>7, <1>8, <1>9

\* A check that begins has asked nothing, and its histories are the lists in force.
LEMMA BeginKeeps ==
  ASSUME BlacklistTypeOK, \A t \in Tasks : Watched(t) /\ Progress(t),
         NEW s \in Tasks, NEW p \in Paths, Begin(s, p)
  PROVE  BlacklistTypeOK' /\ \A t \in Tasks : Watched(t)' /\ Progress(t)'
<1>1. UNCHANGED <<listVars, asked, verdict>> /\ Current' = Current
  BY DEF Begin, listVars, Current
<1>2. p # <<>> /\ Len(p) \in Nat /\ Len(p) > 0
  BY BlacklistAssumption
<1>3. path[s] = <<>> /\ verdict[s] = "none" /\ asked[s] = 0
  BY DEF Begin, Progress
<1>4. path'[s] = p /\ always'[s] = Current /\ ever'[s] = Current
  BY DEF Begin, BlacklistTypeOK
<1>5. \A t \in Tasks \ {s} : /\ path'[t] = path[t]
                             /\ always'[t] = always[t] /\ ever'[t] = ever[t]
  BY DEF Begin, BlacklistTypeOK
<1>6. BlacklistTypeOK'
  <2>1. path' \in [Tasks -> Paths \cup {<<>>}]
    BY DEF Begin, BlacklistTypeOK
  <2>2. always' \in [Tasks -> Lists] /\ ever' \in [Tasks -> Lists]
    BY DEF Begin, BlacklistTypeOK
  <2>3. covered' \in [Tasks -> BOOLEAN]
    BY Zenon DEF Begin, BlacklistTypeOK
  <2>4. ASSUME NEW t \in Tasks, Checking(t)'
        PROVE  asked'[t] < 3 * Len(path'[t])
    <3>1. CASE t = s
      BY <1>1, <1>2, <1>3, <1>4, <3>1
    <3>2. CASE t # s
      BY <1>1, <1>5, <2>4, <3>2 DEF Checking, BlacklistTypeOK
    <3> QED BY <3>1, <3>2
  <2> QED BY <1>1, <2>1, <2>2, <2>3, <2>4 DEF BlacklistTypeOK, listVars
<1>7. Watched(s)' /\ Progress(s)'
  <2>1. Within(Current, Current)
    BY DEF Within
  <2>2. \A n \in Nat : ~(n < 0)
    OBVIOUS
  <2> QED BY <1>1, <1>2, <1>3, <1>4, <2>1, <2>2 DEF Watched, Progress
<1>8. ASSUME NEW t \in Tasks, t # s
      PROVE  Watched(t)' /\ Progress(t)'
  BY <1>1, <1>5, <1>8 DEF Watched, Progress
<1> QED BY <1>6, <1>7, <1>8

\* A task that has its verdict has nothing left to justify.
LEMMA AnsweredKeeps ==
  ASSUME BlacklistTypeOK, \A t \in Tasks : Watched(t) /\ Progress(t),
         NEW s \in Tasks, Answered(s)
  PROVE  BlacklistTypeOK' /\ \A t \in Tasks : Watched(t)' /\ Progress(t)'
<1>1. UNCHANGED listVars /\ Current' = Current
  BY DEF Answered, listVars, Current
<1>2. Empty \in Lists
  BY DEF Empty, Lists
<1>3. /\ path'[s] = <<>> /\ verdict'[s] = "none" /\ asked'[s] = 0
      /\ always'[s] = Empty
  BY DEF Answered, BlacklistTypeOK
<1>4. \A t \in Tasks \ {s} : /\ path'[t] = path[t] /\ asked'[t] = asked[t]
                             /\ verdict'[t] = verdict[t]
                             /\ always'[t] = always[t] /\ ever'[t] = ever[t]
  BY DEF Answered, BlacklistTypeOK
<1>5. BlacklistTypeOK'
  <2>1. path' \in [Tasks -> Paths \cup {<<>>}] /\ asked' \in [Tasks -> Nat]
    BY DEF Answered, BlacklistTypeOK
  <2>2. verdict' \in [Tasks -> {"none", "passed", "blocked"}]
    BY DEF Answered, BlacklistTypeOK
  <2>3. always' \in [Tasks -> Lists] /\ ever' \in [Tasks -> Lists]
    BY <1>2 DEF Answered, BlacklistTypeOK
  <2>4. covered' \in [Tasks -> BOOLEAN]
    BY Zenon DEF Answered, BlacklistTypeOK
  <2>5. \A t \in Tasks : Checking(t)' => asked'[t] < 3 * Len(path'[t])
    BY <1>3, <1>4 DEF Checking, BlacklistTypeOK
  <2> QED BY <1>1, <2>1, <2>2, <2>3, <2>4, <2>5 DEF BlacklistTypeOK, listVars
<1>6. Watched(s)' /\ Progress(s)'
  <2>1. \A n \in Nat : ~(n < 0)
    OBVIOUS
  <2> QED BY <1>3, <2>1 DEF Watched, Progress, Within, Empty
<1>7. ASSUME NEW t \in Tasks, t # s
      PROVE  Watched(t)' /\ Progress(t)'
  BY <1>1, <1>4, <1>7 DEF Watched, Progress
<1> QED BY <1>5, <1>6, <1>7

\* The program starts with no check under way.
LEMMA InitInv == Init => Inv
<1> SUFFICES ASSUME Init PROVE Inv
  OBVIOUS
<1>1. Current \in Lists
  <2>1. PICK lists \in InitialLists : token_mints = lists.tokens /\ pool_addresses = lists.pools
    BY DEF Init, InitBlacklist
  <2> QED BY <2>1, BlacklistAssumption DEF Current, Lists
<1>2. Empty \in Lists
  BY DEF Empty, Lists
<1>3. BlacklistTypeOK
  BY <1>1, <1>2, BlacklistAssumption DEF Init, InitBlacklist, BlacklistTypeOK, Checking
<1>4. ASSUME NEW t \in Tasks PROVE Watched(t) /\ Progress(t)
  <2>1. \A n \in Nat : ~(n < 0)
    OBVIOUS
  <2> QED BY <2>1 DEF Init, InitBlacklist, Watched, Progress, Within, Empty
<1> QED BY <1>3, <1>4 DEF Init, Inv, TypeOK

\* Every step keeps the invariant, one case per disjunct of Next.
LEMMA NextInv == Inv /\ [Next]_vars => Inv'
<1> SUFFICES ASSUME Inv, [Next]_vars PROVE Inv'
  OBVIOUS
<1>0. BlacklistTypeOK /\ (\A t \in Tasks : Watched(t) /\ Progress(t))
      /\ account \in Accounts \cup {NoAccount}
  BY DEF Inv, TypeOK
<1>1. ASSUME NEW a \in Accounts, ProcessUpdate(a) PROVE Inv'
  <2>1. PICK o \in process_update(a) : Begin("liquidation", o.path)
    BY <1>1 DEF ProcessUpdate
  <2>2. o.path \in Paths /\ "liquidation" \in Tasks
    BY <2>1, LiquidationAssumption
  <2>3. BlacklistTypeOK' /\ \A t \in Tasks : Watched(t)' /\ Progress(t)'
    BY <1>0, <2>1, <2>2, BeginKeeps
  <2> QED BY <1>1, <2>3 DEF ProcessUpdate, Inv, TypeOK
<1>2. ASSUME NEW p \in DexPaths, DexOpportunity(p) PROVE Inv'
  <2>1. p \in Paths /\ "dex_arb" \in Tasks
    BY LiquidationAssumption
  <2>2. Begin("dex_arb", p) /\ account' = account
    BY <1>2 DEF DexOpportunity
  <2>3. BlacklistTypeOK' /\ \A t \in Tasks : Watched(t)' /\ Progress(t)'
    BY <1>0, <2>1, <2>2, BeginKeeps
  <2> QED BY <1>0, <2>2, <2>3 DEF Inv, TypeOK
<1>3. ASSUME NEW t \in Tasks, Ask(t), UNCHANGED account PROVE Inv'
  <2>1. BlacklistTypeOK' /\ \A s \in Tasks : Watched(s)' /\ Progress(s)'
    BY <1>0, <1>3, AskKeeps
  <2> QED BY <1>0, <1>3, <2>1 DEF Inv, TypeOK
<1>4. ASSUME NEW t \in Tasks, Finish(t) PROVE Inv'
  <2>1. BlacklistTypeOK' /\ \A s \in Tasks : Watched(s)' /\ Progress(s)'
    BY <1>0, <1>4, AnsweredKeeps DEF Finish
  <2> QED BY <1>0, <1>4, <2>1 DEF Finish, Inv, TypeOK
<1>5. CASE ChangeLists /\ UNCHANGED account
  <2>1. BlacklistTypeOK' /\ Changed
    BY <1>0, <1>5, ChangesKeepTypes
  <2>2. \A t \in Tasks : Watched(t)' /\ Progress(t)'
    BY <1>0, <2>1, ChangeKeepsChecks
  <2> QED BY <1>0, <1>5, <2>1, <2>2 DEF Inv, TypeOK
<1>6. CASE UNCHANGED vars
  BY <1>0, <1>6 DEF Inv, TypeOK, BlacklistTypeOK, Watched, Progress, Checking, Current,
    vars, blacklistVars, listVars, checkVars, windowVars
<1> QED BY <1>1, <1>2, <1>3, <1>4, <1>5, <1>6 DEF Next

\* A passed path has had all its questions answered with no.
LEMMA InvJustifies == Inv => VerdictsJustified
<1> SUFFICES ASSUME Inv, NEW t \in Tasks
             PROVE  /\ verdict[t] = "passed" => ~Bans(always[t], path[t])
                    /\ verdict[t] = "blocked" => Bans(ever[t], path[t])
  BY DEF VerdictsJustified
<1>1. Progress(t) /\ path[t] \in Paths \cup {<<>>}
  BY DEF Inv, TypeOK, BlacklistTypeOK
<1>2. ASSUME verdict[t] = "passed", Bans(always[t], path[t]) PROVE FALSE
  <2>1. path[t] \in Paths
    BY <1>1, <1>2 DEF Progress
  <2>2. PICK n \in Nat : n < 3 * Len(path[t]) /\ ListedIn(always[t], path[t], n)
    BY <1>2, <2>1, BansListed
  <2> QED BY <1>1, <1>2, <2>2 DEF Progress
<1> QED BY <1>1, <1>2 DEF Progress

\* The lists, the checks and the histories keep their types, and no task asks beyond
\* its path, for every set of tokens, pools and paths and every order of changes.
THEOREM VettingTypes == Spec => []TypeOK
<1>1. Inv => TypeOK
  BY DEF Inv
<1> QED BY <1>1, InitInv, NextInv, PTL DEF Spec

\* No token or pool listed all through a check gets past it, and nothing is blocked
\* that was not listed at some moment of it, whatever changes and reloads come in
\* between its questions (check_opportunity, blacklist.rs).
THEOREM VerdictsHaveReasons == Spec => []VerdictsJustified
BY InitInv, NextInv, InvJustifies, PTL DEF Spec

------------------------------------------------------------------------------
(* What an account offered for liquidation owes *)

\* A cast keeps a value below the word size, and never makes one larger.
LEMMA CastBounds ==
  ASSUME NEW x \in Nat
  PROVE  AsU64(x) \in Nat /\ AsU64(x) <= x /\ (x < U64 => AsU64(x) = x)
BY WordAssumption DEF AsU64

\* The first n values of a list, cut to a u64 and scaled.
LEMMA ReadTypes ==
  ASSUME NEW list \in Positions, NEW n \in Nat, n <= Len(list)
  PROVE  /\ MarketValuesRead(list, n) \in Seq(Int)
         /\ Len(MarketValuesRead(list, n)) = n
         /\ \A k \in 1..n :
              /\ MarketValuesRead(list, n)[k] \in Nat
              /\ Scale * MarketValuesRead(list, n)[k] <= list[k].market_value
              /\ list[k].market_value < U64 =>
                   list[k].market_value <= Scale * MarketValuesRead(list, n)[k] + (Scale - 1)
<1> DEFINE u == MarketValuesRead(list, n)
<1>1. Len(list) \in Nat /\ \A k \in 1..n : list[k].market_value \in Nat
  <2>1. \A k \in 1..Len(list) : list[k] \in [amount : Nat, market_value : Nat]
    BY ElementOfSeq DEF Positions
  <2>2. Len(list) \in Nat
    BY LenProperties DEF Positions
  <2> QED BY <2>1, <2>2
<1>2. u = [k \in 1..n |-> AsU64(list[k].market_value) \div Scale]
  BY DEF MarketValuesRead
<1>3. ASSUME NEW k \in 1..n
      PROVE  /\ u[k] \in Nat
             /\ Scale * u[k] <= list[k].market_value
             /\ list[k].market_value < U64 => list[k].market_value <= Scale * u[k] + (Scale - 1)
  <2> DEFINE x == list[k].market_value
             c == AsU64(x)
             q == c \div Scale
  <2>1. x \in Nat
    BY <1>1
  <2>2. c \in Nat /\ c <= x /\ (x < U64 => c = x)
    BY <2>1, CastBounds
  <2> HIDE DEF x, c
  <2>3. q \in Nat /\ Scale * q <= c /\ c < Scale * q + Scale
    BY <2>2, DivisionBounds, LendingAssumption
  <2>4. u[k] = q
    BY <1>2 DEF x, c
  <2>5. Scale * q \in Nat
    BY <2>3, LendingAssumption
  <2> HIDE DEF q
  <2>6. Scale * q <= x /\ (x < U64 => x <= Scale * q + (Scale - 1))
    <3> DEFINE s == Scale * q
    <3>1. s \in Nat /\ s <= c /\ c < s + Scale
      BY <2>3, <2>5
    <3> HIDE DEF s
    <3>2. s <= x /\ (x < U64 => x <= s + (Scale - 1))
      BY <2>1, <2>2, <3>1, LendingAssumption
    <3> QED BY <3>2 DEF s
  <2> QED BY <2>3, <2>4, <2>6 DEF x
<1>4. u \in [1..n -> Int]
  BY <1>2, <1>3
<1>5. u \in Seq(Int) /\ Len(u) = n
  BY <1>4, SeqDef, LenProperties
<1> QED BY <1>3, <1>5

\* The values of a list as they are.
LEMMA ValueTypes ==
  ASSUME NEW list \in Positions, NEW m \in Nat
  PROVE  /\ MarketValues(list, m) \in Seq(Int)
         /\ Len(MarketValues(list, m)) = Lesser(m, Len(list))
         /\ \A k \in 1..Lesser(m, Len(list)) :
              /\ MarketValues(list, m)[k] = list[k].market_value
              /\ list[k].market_value \in Nat
<1> DEFINE w == MarketValues(list, m)
           l == Lesser(m, Len(list))
<1>1. \A k \in 1..Len(list) : list[k].market_value \in Nat
  <2>1. \A k \in 1..Len(list) : list[k] \in [amount : Nat, market_value : Nat]
    BY ElementOfSeq DEF Positions
  <2> QED BY <2>1
<1>2. l \in Nat /\ l <= Len(list)
  <2>1. Len(list) \in Nat
    BY LenProperties DEF Positions
  <2> QED BY <2>1 DEF Lesser
<1>3. w = [k \in 1..l |-> list[k].market_value]
  BY DEF MarketValues
<1>4. Len(list) \in Nat
  BY LenProperties DEF Positions
<1> HIDE DEF l
<1>5. \A k \in 1..l : w[k] = list[k].market_value /\ list[k].market_value \in Nat
  BY <1>1, <1>2, <1>3, <1>4
<1>6. w \in [1..l -> Int]
  BY <1>3, <1>5
<1>7. w \in Seq(Int) /\ Len(w) = l
  BY <1>2, <1>6, SeqDef, LenProperties
<1> QED BY <1>5, <1>7 DEF l

\* The borrows counted, scaled back, are no more than the borrows are worth: items
\* left unread, fractions lost and sums that wrap only make the total smaller.
LEMMA ReadBelow ==
  ASSUME NEW list \in Positions, NEW n \in Nat, NEW m \in Nat, n <= Lesser(m, Len(list))
  PROVE  /\ Total(MarketValuesRead(list, n)) \in Nat
         /\ Scale * Total(MarketValuesRead(list, n)) <= SumSeq(MarketValues(list, m))
<1> DEFINE u == MarketValuesRead(list, n)
           w == MarketValues(list, m)
           su == [k \in 1..n |-> Scale * u[k]]
<1>0. Len(list) \in Nat /\ n <= Len(list)
  BY LenProperties DEF Positions, Lesser
<1>1. /\ u \in Seq(Int) /\ Len(u) = n
      /\ \A k \in 1..n : u[k] \in Nat /\ Scale * u[k] <= list[k].market_value
  BY <1>0, ReadTypes
<1>2. /\ w \in Seq(Int) /\ Len(w) = Lesser(m, Len(list))
      /\ \A k \in 1..Lesser(m, Len(list)) : w[k] = list[k].market_value /\ w[k] \in Nat
  BY ValueTypes
<1> HIDE DEF u, w
<1>3. su \in Seq(Int) /\ Len(su) = n /\ \A k \in 1..n : su[k] = Scale * u[k]
  <2>1. su \in [1..n -> Int]
    BY <1>1, LendingAssumption
  <2> QED BY <2>1, SeqDef, LenProperties
<1> HIDE DEF su
<1>4. SumSeq(su) = Scale * SumSeq(u)
  <2>1. Scale \in Int
    BY LendingAssumption
  <2>2. Len(su) = Len(u) /\ \A k \in 1..Len(u) : su[k] = Scale * u[k]
    BY <1>1, <1>3, Zenon
  <2> QED BY <1>1, <1>3, <2>1, <2>2, SumSeqScaled, Zenon
<1>5. SumSeq(su) <= SumSeq(w) + 0 * Len(su)
  <2>1. Len(su) <= Len(w) /\ \A k \in 1..Len(w) : w[k] >= 0
    BY <1>2, <1>3
  <2>2. Lesser(m, Len(list)) \in Nat
    BY <1>0 DEF Lesser
  <2>3. ASSUME NEW k \in 1..Len(su) PROVE su[k] <= w[k] + 0
    <3>1. k \in 1..n /\ k \in 1..Lesser(m, Len(list))
      BY <1>3, <2>2
    <3>2. su[k] <= w[k] /\ w[k] \in Nat
      BY <1>1, <1>2, <1>3, <3>1, Zenon
    <3>3. w[k] + 0 = w[k]
      BY <3>2
    <3> QED BY <3>2, <3>3, Zenon
  <2> QED BY <1>2, <1>3, <2>1, <2>3, SumSeqAtMost, Zenon
<1>6. SumSeq(su) \in Int /\ SumSeq(w) \in Int /\ SumSeq(u) \in Nat
  BY <1>1, <1>2, <1>3, SumSeqType, SumSeqNonNegative
<1>7. SumSeq(su) <= SumSeq(w)
  BY <1>3, <1>5, <1>6
<1>8. Total(u) \in Nat /\ Total(u) <= SumSeq(u)
  BY <1>6, CastBounds DEF Total
<1>9. Scale * Total(u) <= Scale * SumSeq(u)
  <2>1. Total(u) * Scale <= SumSeq(u) * Scale
    BY <1>6, <1>8, ProductMonotone, LendingAssumption
  <2> QED BY <1>6, <1>8, <2>1, LendingAssumption
<1>10. Scale * Total(u) <= SumSeq(w)
  <2>1. \A a, b, c \in Int : a <= b /\ b <= c => a <= c
    OBVIOUS
  <2>2. Scale * Total(u) \in Int
    BY <1>8, LendingAssumption
  <2> QED BY <1>4, <1>6, <1>7, <1>9, <2>1, <2>2, Zenon
<1> QED BY <1>8, <1>10 DEF u, w

\* Deposits that fit a u64 and are read in full are worth no more than what is
\* counted of them, scaled back, and the fraction each may have lost.
LEMMA ReadAbove ==
  ASSUME NEW list \in Positions, NEW n \in Nat, NEW m \in Nat, n = Lesser(m, Len(list)),
         FitsU64(MarketValues(list, m))
  PROVE  /\ Total(MarketValuesRead(list, n)) \in Nat
         /\ SumSeq(MarketValues(list, m)) <=
              Scale * Total(MarketValuesRead(list, n)) + (Scale - 1) * n
<1> DEFINE u == MarketValuesRead(list, n)
           w == MarketValues(list, m)
           su == [k \in 1..n |-> Scale * u[k]]
<1>0. Len(list) \in Nat /\ n <= Len(list)
  BY LenProperties DEF Positions, Lesser
<1>1. /\ u \in Seq(Int) /\ Len(u) = n
      /\ \A k \in 1..n : /\ u[k] \in Nat
                         /\ Scale * u[k] <= list[k].market_value
                         /\ list[k].market_value < U64 =>
                              list[k].market_value <= Scale * u[k] + (Scale - 1)
  BY <1>0, ReadTypes
<1>2. /\ w \in Seq(Int) /\ Len(w) = n
      /\ \A k \in 1..n : w[k] = list[k].market_value /\ w[k] \in Nat
  BY ValueTypes
<1> HIDE DEF u, w
<1>3. su \in Seq(Int) /\ Len(su) = n /\ \A k \in 1..n : su[k] = Scale * u[k]
  <2>1. su \in [1..n -> Int]
    BY <1>1, LendingAssumption
  <2> QED BY <2>1, SeqDef, LenProperties
<1> HIDE DEF su
<1>4. SumSeq(su) = Scale * SumSeq(u)
  <2>1. Scale \in Int
    BY LendingAssumption
  <2>2. Len(su) = Len(u) /\ \A k \in 1..Len(u) : su[k] = Scale * u[k]
    BY <1>1, <1>3, Zenon
  <2> QED BY <1>1, <1>3, <2>1, <2>2, SumSeqScaled, Zenon
<1>5. SumSeq(su) \in Int /\ SumSeq(w) \in Int /\ SumSeq(u) \in Nat /\ SumSeq(w) < U64
  BY <1>1, <1>2, <1>3, SumSeqType, SumSeqNonNegative DEF FitsU64, w
<1>6. \A k \in 1..n : w[k] <= su[k] + (Scale - 1) /\ u[k] <= w[k] /\ su[k] >= 0
  <2> SUFFICES ASSUME NEW k \in 1..n
               PROVE  w[k] <= su[k] + (Scale - 1) /\ u[k] <= w[k] /\ su[k] >= 0
    OBVIOUS
  <2>1. w[k] <= SumSeq(w)
    BY <1>2, SumSeqElement
  <2>2. w[k] < U64 /\ w[k] \in Nat /\ u[k] \in Nat
    BY <1>1, <1>2, <1>5, <2>1, WordAssumption
  <2>3. w[k] <= su[k] + (Scale - 1) /\ su[k] <= w[k]
    BY <1>1, <1>2, <1>3, <2>2
  <2>4. su[k] \in Nat /\ u[k] <= su[k]
    <3>1. su[k] = Scale * u[k]
      BY <1>3
    <3>2. 1 * u[k] <= Scale * u[k]
      <4> DEFINE x == u[k]
      <4>1. x \in Nat /\ Scale \in Nat /\ 1 <= Scale
        BY <2>2, LendingAssumption
      <4> HIDE DEF x
      <4>2. 1 * x <= Scale * x
        BY <4>1, ProductMonotone
      <4> QED BY <4>2 DEF x
    <3>3. Scale * u[k] \in Nat
      BY <2>2, LendingAssumption
    <3> QED BY <2>2, <3>1, <3>2, <3>3
  <2> QED BY <2>2, <2>3, <2>4
<1>7. SumSeq(w) <= SumSeq(su) + (Scale - 1) * n
  <2>1. Scale - 1 \in Nat /\ Len(w) <= Len(su)
    BY <1>2, <1>3, LendingAssumption
  <2>2. \A k \in 1..Len(su) : su[k] >= 0
    BY <1>3, <1>6
  <2>3. \A k \in 1..Len(w) : w[k] <= su[k] + (Scale - 1)
    BY <1>2, <1>6
  <2>4. SumSeq(w) <= SumSeq(su) + (Scale - 1) * Len(w)
    BY <1>2, <1>3, <2>1, <2>2, <2>3, SumSeqAtMost
  <2> QED BY <1>2, <2>4
<1>8. SumSeq(u) <= SumSeq(w) + 0 * Len(u)
  <2>1. Len(u) <= Len(w) /\ \A k \in 1..Len(w) : w[k] >= 0
    BY <1>1, <1>2
  <2>2. \A k \in 1..Len(u) : u[k] <= w[k] + 0
    BY <1>1, <1>2, <1>6
  <2> QED BY <1>1, <1>2, <2>1, <2>2, SumSeqAtMost
<1>9. SumSeq(u) < U64
  BY <1>1, <1>5, <1>8, WordAssumption
<1>10. Total(u) = SumSeq(u)
  BY <1>5, <1>9, CastBounds DEF Total
<1>11. SumSeq(w) <= Scale * Total(u) + (Scale - 1) * n
  BY <1>4, <1>7, <1>10, Zenon
<1> QED BY <1>5, <1>10, <1>11 DEF u, w

\* As many items are read as are announced, unless the rest of the room is too small
\* for another.
LEMMA ItemsReadBounds ==
  ASSUME NEW announced \in Nat, NEW room \in Nat, NEW size \in Nat \ {0}
  PROVE  /\ ItemsRead(announced, room, size) \in Nat
         /\ ItemsRead(announced, room, size) <= announced
         /\ ItemsRead(announced, room, size) < announced =>
              room - ItemsRead(announced, room, size) * size < size
<1> DEFINE q == room \div size
<1>1. q \in Nat /\ size * q <= room /\ room < size * q + size
  BY DivisionBounds
<1>2. size * q = q * size /\ q * size \in Nat
  BY <1>1
<1>3. room - q * size < size
  <2> DEFINE s == q * size
  <2>1. s \in Nat /\ room < s + size
    BY <1>1, <1>2, Zenon
  <2> HIDE DEF s
  <2>2. room - s < size
    BY <2>1
  <2> QED BY <2>2 DEF s
<1> HIDE DEF q
<1>4. ItemsRead(announced, room, size) = IF announced <= q THEN announced ELSE q
  BY DEF ItemsRead, Lesser, q
<1>5. CASE announced <= q
  BY <1>4, <1>5
<1>6. CASE ~(announced <= q)
  <2>1. ItemsRead(announced, room, size) = q /\ q <= announced
    BY <1>1, <1>4, <1>6
  <2> QED BY <1>1, <1>3, <2>1, Zenon
<1> QED BY <1>5, <1>6

\* Data that end among the deposits have no room for a borrow.
LEMMA NoRoomForBorrows ==
  ASSUME NEW a, a.room \in Nat, a.deposits_len \in Nat, a.borrows_len \in Nat,
         ItemsRead(a.deposits_len, a.room, CollateralSize) < a.deposits_len
  PROVE  BorrowsRead(a, ItemsRead(a.deposits_len, a.room, CollateralSize)) = 0
<1> DEFINE deposits == ItemsRead(a.deposits_len, a.room, CollateralSize)
           left == a.room - deposits * CollateralSize
           announced == Lesser(a.borrows_len, MaxItems)
<1>1. deposits \in Nat /\ left < CollateralSize /\ left \in Int
  <2>1. CollateralSize \in Nat \ {0}
    BY LendingAssumption
  <2>2. deposits \in Nat /\ left < CollateralSize
    BY <2>1, ItemsReadBounds
  <2> HIDE DEF deposits
  <2> QED BY <2>1, <2>2
<1>2. announced \in Nat
  BY LendingAssumption DEF Lesser
<1>3. BorrowsRead(a, deposits) = IF left < LengthSize THEN 0
                                 ELSE ItemsRead(announced, left - LengthSize, LiquiditySize)
  BY DEF BorrowsRead
<1> HIDE DEF deposits, left, announced
<1>4. ASSUME ~(left < LengthSize)
      PROVE  ItemsRead(announced, left - LengthSize, LiquiditySize) = 0
  <2>1. left - LengthSize \in 0..(LiquiditySize - 1)
    BY <1>1, <1>4, LendingAssumption
  <2>2. (left - LengthSize) \div LiquiditySize = 0
    BY <2>1, LendingAssumption
  <2> QED BY <1>2, <2>2 DEF ItemsRead, Lesser
<1> QED BY <1>3, <1>4 DEF deposits

\* What the property says of one account.
Underwater(a) ==
  SumSeq(WorthOf(a).deposits) <
    SumSeq(WorthOf(a).borrows) + Len(WorthOf(a).deposits) * Scale

\* The order of the totals counted is that of the values they were counted from, up
\* to the fraction of n deposits.
LEMMA OrderOfTotals ==
  ASSUME NEW held \in Int, NEW owed \in Int, NEW n \in Nat, NEW td \in Nat, NEW tb \in Nat,
         held <= Scale * td + (Scale - 1) * n,
         Scale * tb <= owed, td < tb
  PROVE  held < owed + n * Scale
<1>1. Scale \in Nat /\ Scale > 0
  BY LendingAssumption
<1>2. (td + 1) * Scale <= tb * Scale
  BY <1>1, ProductMonotone
<1>3. (td + 1) * Scale = Scale * td + Scale /\ tb * Scale = Scale * tb
  BY <1>1
<1>4. (Scale - 1) * n = n * Scale - n
  BY <1>1
<1> DEFINE std == Scale * td
           stb == Scale * tb
           sn == n * Scale
<1>5. std \in Int /\ stb \in Int /\ sn \in Int
  BY <1>1
<1>6. held <= std + (sn - n) /\ stb <= owed /\ std + Scale <= stb
  BY <1>2, <1>3, <1>4, Zenon
<1> HIDE DEF std, stb, sn
<1>7. held < owed + sn
  <2>1. \A x, y, z \in Int : held <= x + (z - n) /\ y <= owed /\ x + Scale <= y => held < owed + z
    BY <1>1
  <2> QED BY <1>5, <1>6, <2>1, Zenon
<1> QED BY <1>7 DEF sn

\* A position-by-position valuation: a Kamino obligation offered owes more than it
\* holds.  If the data end among the deposits, nothing is owed and nothing offered.
LEMMA KaminoUnderwater ==
  ASSUME NEW a, a.owner = "kamino", WellFormed(a), process_update(a) # {},
         FitsU64(WorthOf(a).deposits)
  PROVE  Underwater(a)
<1> DEFINE deposits == ItemsRead(a.deposits_len, a.room, CollateralSize)
           borrows == BorrowsRead(a, deposits)
           td == Total(MarketValuesRead(a.deposits, deposits))
           tb == Total(MarketValuesRead(a.borrows, borrows))
           state == ObligationState("kamino", td, tb,
                                    CloseAmount(AmountsRead(a.borrows, borrows)))
           held == MarketValues(a.deposits, a.deposits_len)
           owed == MarketValues(a.borrows, a.borrows_len)
<1>1. /\ a.deposits \in Positions /\ a.borrows \in Positions
      /\ a.deposits_len \in Nat /\ a.borrows_len \in Nat /\ a.room \in Nat
      /\ deposits <= Len(a.deposits) /\ borrows <= Len(a.borrows)
  BY DEF WellFormed
<1>2. WorthOf(a) = [deposits |-> held, borrows |-> owed]
  BY DEF WorthOf
<1>3. td < tb
  <2>1. decode_obligation(a) \subseteq {state}
    BY DEF decode_obligation, Kamino
  <2>2. PICK o \in decode_obligation(a) : evaluate_obligation(a.address, o) # {}
    BY DEF process_update
  <2>3. is_liquidatable(state)
    <3> HIDE DEF state
    <3> QED BY <2>1, <2>2 DEF evaluate_obligation
  <2>4. state.total_deposit_usd = td /\ state.total_borrow_usd = tb
    BY DEF ObligationState
  <2> QED BY <2>3, <2>4 DEF is_liquidatable
<1>4. FitsU64(held) /\ Len(held) = Lesser(a.deposits_len, Len(a.deposits))
      /\ held \in Seq(Int) /\ owed \in Seq(Int)
  <2>1. held \in Seq(Int) /\ Len(held) = Lesser(a.deposits_len, Len(a.deposits))
    BY <1>1, ValueTypes, Zenon
  <2>2. owed \in Seq(Int)
    BY <1>1, ValueTypes, Zenon
  <2>3. WorthOf(a).deposits = held
    BY <1>2
  <2> QED BY <2>1, <2>2, <2>3, Zenon
<1>5. deposits \in Nat /\ deposits <= a.deposits_len
      /\ (deposits < a.deposits_len => borrows = 0)
  <2>1. CollateralSize \in Nat \ {0}
    BY LendingAssumption
  <2> QED BY <1>1, <2>1, ItemsReadBounds, NoRoomForBorrows
<1>6. borrows \in Nat /\ borrows <= Lesser(a.borrows_len, Len(a.borrows))
  <2> DEFINE left == a.room - deposits * CollateralSize
             announced == Lesser(a.borrows_len, MaxItems)
  <2>1. borrows = IF left < LengthSize THEN 0
                  ELSE ItemsRead(announced, left - LengthSize, LiquiditySize)
    BY DEF BorrowsRead
  <2>2. announced \in Nat /\ announced <= a.borrows_len
    BY <1>1, LendingAssumption DEF Lesser
  <2>3. LiquiditySize \in Nat \ {0} /\ LengthSize \in Nat
    BY LendingAssumption
  <2>4. left \in Int
    <3>1. CollateralSize \in Nat
      BY LendingAssumption
    <3> HIDE DEF deposits
    <3> QED BY <1>1, <1>5, <3>1
  <2> HIDE DEF left, announced, deposits
  <2>5. ASSUME ~(left < LengthSize)
        PROVE  /\ ItemsRead(announced, left - LengthSize, LiquiditySize) \in Nat
               /\ ItemsRead(announced, left - LengthSize, LiquiditySize) <= announced
    <3>1. left - LengthSize \in Nat
      BY <2>3, <2>4, <2>5
    <3> QED BY <2>2, <2>3, <3>1, ItemsReadBounds
  <2> DEFINE items == ItemsRead(announced, left - LengthSize, LiquiditySize)
  <2> HIDE DEF items
  <2>6. borrows \in Nat /\ borrows <= a.borrows_len
    <3> DEFINE b == borrows
    <3>1. b = IF left < LengthSize THEN 0 ELSE items
      BY <2>1 DEF items
    <3>2. ~(left < LengthSize) => items \in Nat /\ items <= announced
      BY <2>5 DEF items
    <3> HIDE DEF b
    <3>3. b \in Nat /\ b <= a.borrows_len
      BY <1>1, <2>2, <3>1, <3>2
    <3> QED BY <3>3 DEF b
  <2>7. borrows <= Len(a.borrows)
    BY <1>1
  <2> QED BY <2>6, <2>7, Zenon DEF Lesser
<1> HIDE DEF deposits, borrows, held, owed
<1>7. borrows # 0
  <2> SUFFICES ASSUME borrows = 0 PROVE FALSE
    OBVIOUS
  <2> DEFINE u == MarketValuesRead(a.borrows, 0)
             v == MarketValuesRead(a.deposits, deposits)
  <2>1. Len(a.borrows) \in Nat /\ 0 <= Len(a.borrows)
    BY <1>1, LenProperties DEF Positions
  <2>2. u \in Seq(Int) /\ Len(u) = 0
    BY <1>1, <2>1, ReadTypes
  <2>3. Total(u) = 0
    <3> HIDE DEF u
    <3>1. SumSeq(u) = 0
      BY <2>2, SumSeqEmpty
    <3> QED BY <3>1, WordAssumption DEF Total, AsU64
  <2>4. v \in Seq(Int) /\ Len(v) = deposits /\ \A k \in 1..deposits : v[k] \in Nat
    BY <1>1, <1>5, ReadTypes
  <2>5. Total(v) \in Nat
    <3> HIDE DEF v
    <3>1. SumSeq(v) \in Nat
      BY <2>4, SumSeqType, SumSeqNonNegative
    <3> QED BY <3>1, CastBounds DEF Total
  <2>6. Total(v) < Total(u)
    BY <1>3
  <2> HIDE DEF u, v
  <2> QED BY <2>3, <2>5, <2>6
<1>8. deposits = Lesser(a.deposits_len, Len(a.deposits))
  <2>1. deposits = a.deposits_len
    BY <1>1, <1>5, <1>7
  <2> QED BY <1>1, <2>1 DEF Lesser
<1>9. td \in Nat /\ SumSeq(held) <= Scale * td + (Scale - 1) * deposits
  BY <1>1, <1>4, <1>5, <1>8, ReadAbove DEF held
<1>10. tb \in Nat /\ Scale * tb <= SumSeq(owed)
  BY <1>1, <1>6, ReadBelow DEF owed
<1>11. SumSeq(held) \in Int /\ SumSeq(owed) \in Int
  BY <1>4, SumSeqType
<1> HIDE DEF td, tb
<1>12. SumSeq(held) < SumSeq(owed) + deposits * Scale
  BY <1>3, <1>5, <1>9, <1>10, <1>11, OrderOfTotals, Zenon
<1>13. WorthOf(a).deposits = held /\ WorthOf(a).borrows = owed /\ Len(held) = deposits
  BY <1>2, <1>4, <1>8
<1> QED BY <1>12, <1>13, Zenon DEF Underwater

\* The sum of one value is the value.
LEMMA SumOfOne ==
  ASSUME NEW x \in Int
  PROVE  SumSeq(<<x>>) = x /\ Len(<<x>>) = 1
<1> DEFINE one == <<x>>
           none == << >>
<1>1. one \in Seq(Int) /\ Len(one) = 1 /\ one[1] = x
  OBVIOUS
<1>2. none \in Seq(Int) /\ Len(none) = 0
  OBVIOUS
<1> HIDE DEF one, none
<1>3. SumSeq(none) = 0
  BY <1>2, SumSeqEmpty
<1>4. Len(one) = Len(none) + 1 /\ \A i \in 1..Len(none) : one[i] = none[i]
  BY <1>1, <1>2
<1>5. SumSeq(one) = SumSeq(none) + one[Len(none) + 1]
  BY <1>1, <1>2, <1>4, SumSeqOneMore
<1>6. SumSeq(one) = x /\ Len(one) = 1
  BY <1>1, <1>2, <1>3, <1>5
<1> QED BY <1>6 DEF one

\* A header's totals: a Save obligation offered owes more than it holds.
LEMMA SaveUnderwater ==
  ASSUME NEW a, a.owner = "save", WellFormed(a), process_update(a) # {},
         FitsU64(WorthOf(a).deposits)
  PROVE  Underwater(a)
<1> DEFINE x == a.deposited_value
           y == a.borrowed_value
           td == AsU64(x \div Scale)
           tb == AsU64(y \div Scale)
           close == CloseAmount(AmountsRead(a.borrows,
                      IF a.room < 0 THEN 0
                      ELSE BorrowsRead(a, ItemsRead(Lesser(a.deposits_len, MaxItems),
                                                    a.room, CollateralSize))))
           state == ObligationState("save", td, tb, close)
<1>1. x \in Nat /\ y \in Nat /\ Scale \in Nat /\ Scale > 0
  BY LendingAssumption DEF WellFormed
<1>2. WorthOf(a).deposits = <<x>> /\ WorthOf(a).borrows = <<y>>
  BY DEF WorthOf
<1>3. td < tb
  <2>1. decode_obligation(a) \subseteq {state}
    BY DEF decode_obligation, Save
  <2>2. PICK o \in decode_obligation(a) : evaluate_obligation(a.address, o) # {}
    BY DEF process_update
  <2>3. is_liquidatable(state)
    <3> HIDE DEF state
    <3> QED BY <2>1, <2>2 DEF evaluate_obligation
  <2>4. state.total_deposit_usd = td /\ state.total_borrow_usd = tb
    BY DEF ObligationState
  <2> QED BY <2>3, <2>4 DEF is_liquidatable
<1>4. SumSeq(<<x>>) = x /\ SumSeq(<<y>>) = y /\ Len(<<x>>) = 1
  BY <1>1, SumOfOne
<1>5. x < U64
  BY <1>2, <1>4 DEF FitsU64
<1> DEFINE dq == x \div Scale
           bq == y \div Scale
<1>6. /\ dq \in Nat /\ Scale * dq <= x /\ x < Scale * dq + Scale
      /\ bq \in Nat /\ Scale * bq <= y
  BY <1>1, DivisionBounds
<1>7. td = dq /\ td \in Nat
  <2>1. 1 * dq <= Scale * dq
    BY <1>1, <1>6, ProductMonotone
  <2>2. Scale * dq \in Nat
    BY <1>1, <1>6
  <2> HIDE DEF dq
  <2>3. dq <= x
    BY <1>1, <1>6, <2>1, <2>2
  <2>4. dq < U64
    BY <1>1, <1>5, <1>6, <2>3, WordAssumption
  <2> QED BY <1>6, <2>4, CastBounds DEF dq
<1>8. tb \in Nat /\ tb <= bq
  <2> HIDE DEF bq
  <2>1. AsU64(bq) \in Nat /\ AsU64(bq) <= bq
    BY <1>6, CastBounds
  <2> QED BY <2>1 DEF bq
<1> HIDE DEF x, y, td, tb, dq, bq
<1>9. Scale * tb <= y
  <2>1. tb * Scale <= bq * Scale
    BY <1>1, <1>6, <1>8, ProductMonotone
  <2>2. tb * Scale = Scale * tb /\ bq * Scale = Scale * bq
    BY <1>1, <1>6, <1>8
  <2>3. Scale * tb \in Int /\ Scale * bq \in Int
    BY <1>1, <1>6, <1>8
  <2>4. \A p, q, r \in Int : p <= q /\ q <= r => p <= r
    OBVIOUS
  <2>5. y \in Int
    BY <1>1
  <2> QED BY <1>6, <2>1, <2>2, <2>3, <2>4, <2>5, Zenon
<1>10. x <= Scale * td + (Scale - 1) * 1
  BY <1>1, <1>6, <1>7
<1>11. x < y + 1 * Scale
  <2>1. x \in Int /\ y \in Int /\ 1 \in Int
    BY <1>1
  <2> QED BY <1>3, <1>7, <1>8, <1>9, <1>10, <2>1, OrderOfTotals
<1> QED BY <1>2, <1>4, <1>11, Zenon DEF Underwater

\* The account the task has in hand is one of which an opportunity came.
InHand == account # NoAccount => process_update(account) # {}

\* Only an update with an opportunity is taken in hand, and only the verdict ends it.
LEMMA NextInHand == InHand /\ [Next]_vars => InHand'
<1> SUFFICES ASSUME InHand, [Next]_vars PROVE InHand'
  OBVIOUS
<1>1. ASSUME NEW a \in Accounts, ProcessUpdate(a) PROVE InHand'
  BY <1>1 DEF ProcessUpdate, InHand
<1>2. ASSUME NEW t \in Tasks, Finish(t) PROVE InHand'
  <2>1. account' = account \/ account' = NoAccount
    BY <1>2 DEF Finish
  <2> QED BY <2>1 DEF InHand
<1>3. CASE UNCHANGED account
  BY <1>3 DEF InHand
<1> QED BY <1>1, <1>2, <1>3 DEF Next, DexOpportunity, vars

\* An account offered for liquidation owes more than it holds, give or take one unit
\* a deposit, for every scale, word width, and number and value of positions: cutting
\* to a u64, dividing, summing and stopping at the end of the data (kamino.rs,
\* save.rs) keep the order that the health factor is about, as long as what it holds
\* fits a u64.
THEOREM OffersAreUnderwater == Spec => []OffersOnlyUnderwater
<1>1. Init => InHand
  BY DEF Init, InHand
<1>2. TypeOK /\ InHand => OffersOnlyUnderwater
  <2> SUFFICES ASSUME TypeOK, InHand, account # NoAccount, account.owner \in {"kamino", "save"},
                      FitsU64(WorthOf(account).deposits)
               PROVE  Underwater(account)
    BY DEF OffersOnlyUnderwater, Underwater
  <2>1. WellFormed(account) /\ process_update(account) # {}
    BY LiquidationAssumption DEF TypeOK, InHand
  <2> QED BY <2>1, KaminoUnderwater, SaveUnderwater
<1> QED BY <1>1, <1>2, NextInHand, VettingTypes, PTL DEF Spec
==============================================================================
