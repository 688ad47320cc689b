------------------------------- MODULE Blacklist -------------------------------
(***************************************************************************)
(* The blacklist of tokens and pools, each set under a lock of its own, as *)
(* the strategy tasks ask it and others change it.  A check goes through   *)
(* the steps of an opportunity and takes a lock for every question; a      *)
(* reload replaces the tokens, then the pools.  Only from_config and the   *)
(* check have callers in the program; the rest is the type's interface.    *)
(***************************************************************************)
EXTENDS Integers, Sequences

CONSTANTS
  Tokens, PoolAddresses,  \* what a configuration may list
  Tasks,                  \* the strategy tasks
  Paths,                  \* the opportunities' paths they may ask about
  InitialLists,           \* the configurations the program may start with
  NoLists,                \* no reload is under way
  MaxChanges              \* bound: changes of the lists

Lists == [tokens : SUBSET Tokens, pools : SUBSET PoolAddresses]
Steps == [pool_address : PoolAddresses, input_mint : Tokens, output_mint : Tokens]

ASSUME BlacklistAssumption ==
  /\ NoLists \notin Lists
  /\ InitialLists \subseteq Lists
  /\ Paths \subseteq Seq(Steps) \ {<<>>}
  /\ MaxChanges \in Nat

VARIABLES
  token_mints, pool_addresses,  \* the two sets
  reloading,                    \* the lists whose pools are still to be loaded
  changes,                      \* bound: changes so far, a reload being one
  path, asked,                  \* each task's opportunity, questions it has behind it
  verdict,                      \* of its latest check: "none", "passed", "blocked"
  configs,                      \* history variable: the complete lists in force
  always, ever,                 \* history: what was listed all through, some time in, its check
  covered                       \* history: all complete lists since its start ban its path

listVars == <<token_mints, pool_addresses, reloading, changes, configs>>
checkVars == <<path, asked, verdict>>
windowVars == <<always, ever, covered>>
blacklistVars == <<listVars, checkVars, windowVars>>

Empty == [tokens |-> {}, pools |-> {}]
Current == [tokens |-> token_mints, pools |-> pool_addresses]

BansStep(lists, step) ==
  \/ step.pool_address \in lists.pools
  \/ step.input_mint \in lists.tokens
  \/ step.output_mint \in lists.tokens

Bans(lists, p) == \E k \in DOMAIN p : BansStep(lists, p[k])

\* from_config, before any task runs; entries that do not parse are left out.
InitBlacklist ==
  /\ \E lists \in InitialLists : token_mints = lists.tokens /\ pool_addresses = lists.pools
  /\ reloading = NoLists /\ changes = 0
  /\ configs = {Current}
  /\ path = [t \in Tasks |-> <<>>] /\ asked = [t \in Tasks |-> 0]
  /\ verdict = [t \in Tasks |-> "none"]
  /\ always = [t \in Tasks |-> Empty] /\ ever = [t \in Tasks |-> Empty]
  /\ covered = [t \in Tasks |-> FALSE]

------------------------------------------------------------------------------
(* Changes to the lists, each in one critical section.  Adding what is there and  *)
(* removing what is not change nothing.                                         *)

\* The history variables follow a change of the lists.
Changed ==
  /\ always' = [t \in Tasks |-> [tokens |-> always[t].tokens \cap token_mints',
                                 pools |-> always[t].pools \cap pool_addresses']]
  /\ ever' = [t \in Tasks |->
       IF path[t] = <<>> THEN Empty
       ELSE [tokens |-> ever[t].tokens \cup token_mints', pools |-> ever[t].pools \cup pool_addresses']]
  /\ covered' = [t \in Tasks |-> covered[t] /\ \A lists \in configs' : Bans(lists, path[t])]
  /\ UNCHANGED checkVars

Counted == changes < MaxChanges /\ changes' = changes + 1

SetTokens(tokens) ==
  /\ Counted
  /\ token_mints' = tokens
  /\ configs' = {[lists EXCEPT !.tokens = tokens] : lists \in configs}
  /\ UNCHANGED <<pool_addresses, reloading>>
  /\ Changed

SetPools(pools) ==
  /\ Counted
  /\ pool_addresses' = pools
  /\ configs' = {[lists EXCEPT !.pools = pools] : lists \in configs}
  /\ UNCHANGED <<token_mints, reloading>>
  /\ Changed

AddToken == \E m \in Tokens \ token_mints : SetTokens(token_mints \cup {m})
RemoveToken == \E m \in token_mints : SetTokens(token_mints \ {m})
AddPool == \E p \in PoolAddresses \ pool_addresses : SetPools(pool_addresses \cup {p})
RemovePool == \E p \in pool_addresses : SetPools(pool_addresses \ {p})

\* reload: the tokens are cleared and refilled under their lock, which is let go ...
ReloadTokens(lists) ==
  /\ Counted
  /\ reloading = NoLists /\ reloading' = lists
  /\ token_mints' = lists.tokens
  /\ configs' = configs \cup {lists}
  /\ UNCHANGED pool_addresses
  /\ Changed

\* ... before the pools are, under theirs.
ReloadPools ==
  /\ reloading # NoLists
  /\ pool_addresses' = reloading.pools
  /\ configs' = {[tokens |-> token_mints, pools |-> reloading.pools]}
  /\ reloading' = NoLists
  /\ UNCHANGED <<token_mints, changes>>
  /\ Changed

------------------------------------------------------------------------------
(* check_opportunity *)

Begin(t, p) ==
  /\ path[t] = <<>>
  /\ path' = [path EXCEPT ![t] = p]
  /\ always' = [always EXCEPT ![t] = Current]
  /\ ever' = [ever EXCEPT ![t] = Current]
  /\ covered' = [covered EXCEPT ![t] = \A lists \in configs : Bans(lists, p)]
  /\ UNCHANGED <<listVars, asked, verdict>>

Checking(t) == path[t] # <<>> /\ verdict[t] = "none"

Listed_InputTwice(p, n) ==
  LET step == p[(n \div 3) + 1]
  IN  IF n % 3 = 0 THEN step.pool_address \in pool_addresses
      ELSE step.input_mint \in token_mints

\* The answer to question n about path p: three to a step, each under a read lock.
Listed(p, n) ==
  LET step == p[(n \div 3) + 1]
  IN  CASE n % 3 = 0 -> step.pool_address \in pool_addresses
        [] n % 3 = 1 -> step.input_mint \in token_mints
        [] n % 3 = 2 -> step.output_mint \in token_mints

Exhausted_OneLate(p, n) == n = 3 * Len(p)

\* Question n was the last about p.
Exhausted(p, n) == n + 1 = 3 * Len(p)

Ask(t) ==
  /\ Checking(t)
  /\ asked' = [asked EXCEPT ![t] = @ + 1]
  /\ verdict' = [verdict EXCEPT ![t] =
       IF Listed(path[t], asked[t]) THEN "blocked"
       ELSE IF Exhausted(path[t], asked[t]) THEN "passed" ELSE "none"]
  /\ UNCHANGED <<listVars, path, windowVars>>

\* The task goes on: a passed opportunity to the risk limits, a blocked one nowhere.
Answered(t) ==
  /\ path[t] # <<>> /\ ~Checking(t)
  /\ path' = [path EXCEPT ![t] = <<>>]
  /\ asked' = [asked EXCEPT ![t] = 0]
  /\ verdict' = [verdict EXCEPT ![t] = "none"]
  /\ always' = [always EXCEPT ![t] = Empty]
  /\ ever' = [ever EXCEPT ![t] = Empty]
  /\ covered' = [covered EXCEPT ![t] = FALSE]
  /\ UNCHANGED listVars

ChangeLists ==
  \/ AddToken \/ RemoveToken \/ AddPool \/ RemovePool
  \/ \E lists \in Lists : ReloadTokens(lists)
  \/ ReloadPools

------------------------------------------------------------------------------
(* Properties *)

\* What the blacklist and the checks in progress hold; a task never asks beyond
\* its path.
BlacklistTypeOK ==
  /\ Current \in Lists
  /\ reloading \in Lists \cup {NoLists} /\ changes \in 0..MaxChanges
  /\ configs \in SUBSET Lists
  /\ path \in [Tasks -> Paths \cup {<<>>}]
  /\ asked \in [Tasks -> Nat]
  /\ verdict \in [Tasks -> {"none", "passed", "blocked"}]
  /\ always \in [Tasks -> Lists] /\ ever \in [Tasks -> Lists]
  /\ covered \in [Tasks -> BOOLEAN]
  /\ \A t \in Tasks : Checking(t) => asked[t] < 3 * Len(path[t])

\* While the lists are changed and reloaded between a check's questions: no token
\* or pool listed from the check's beginning to its end gets past it, and nothing
\* is blocked that was not listed at some moment in between.
VerdictsJustified ==
  \A t \in Tasks :
    /\ verdict[t] = "passed" => ~Bans(always[t], path[t])
    /\ verdict[t] = "blocked" => Bans(ever[t], path[t])

\* What "thread-safe and hot-reloadable" asks for: an opportunity that all lists in
\* force during its check ban, those before and those after a reload, is blocked.
CoveredIsBlocked == \A t \in Tasks : verdict[t] = "passed" => ~covered[t]
==============================================================================
