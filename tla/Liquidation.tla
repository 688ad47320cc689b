------------------------------ MODULE Liquidation ------------------------------
(***************************************************************************)
(* The liquidation strategy and the vetting of opportunities: an update of *)
(* a lending account is decoded and evaluated on the spot, and what comes  *)
(* of it goes past the blacklist, as the opportunities of the DEX strategy *)
(* do in a task of their own.                                              *)
(***************************************************************************)
EXTENDS Blacklist, Lending

CONSTANTS
  Accounts,   \* the lending accounts that may be written
  DexPaths,   \* the paths the DEX strategy may offer
  NoAccount

ASSUME LiquidationAssumption ==
  /\ Tasks = {"dex_arb", "liquidation"}
  /\ DexPaths \subseteq Paths
  /\ \A a \in Accounts : WellFormed(a) /\ \A o \in process_update(a) : o.path \in Paths
  /\ NoAccount \notin Accounts

VARIABLE account  \* the account whose opportunity the liquidation task has in hand

vars == <<blacklistVars, account>>

Init == InitBlacklist /\ account = NoAccount

\* An update of which nothing comes leaves no trace.
ProcessUpdate(a) ==
  /\ \E o \in process_update(a) : Begin("liquidation", o.path)
  /\ account' = a

DexOpportunity(p) == Begin("dex_arb", p) /\ UNCHANGED account

Finish(t) ==
  /\ Answered(t)
  /\ account' = IF t = "liquidation" THEN NoAccount ELSE account

Next ==
  \/ \E a \in Accounts : ProcessUpdate(a)
  \/ \E p \in DexPaths : DexOpportunity(p)
  \/ \E t \in Tasks : Ask(t) /\ UNCHANGED account
  \/ \E t \in Tasks : Finish(t)
  \/ ChangeLists /\ UNCHANGED account

Spec == Init /\ [][Next]_vars

------------------------------------------------------------------------------
(* Properties *)

TypeOK == BlacklistTypeOK /\ account \in Accounts \cup {NoAccount}

\* The values an obligation gives its positions, or its header, before any is cut
\* to a u64 and scaled.
MarketValues(list, n) == [k \in 1..Lesser(n, Len(list)) |-> list[k].market_value]
WorthOf(a) ==
  CASE a.owner = "kamino" -> [deposits |-> MarketValues(a.deposits, a.deposits_len),
                              borrows |-> MarketValues(a.borrows, a.borrows_len)]
    [] a.owner = "save" -> [deposits |-> <<a.deposited_value>>, borrows |-> <<a.borrowed_value>>]

FitsU64(values) == SumSeq(values) < U64

\* The health factor's meaning (traits.rs: "deposit_value / borrow_value. < 1.0
\* means liquidatable") survives scaling position by position, lists cut at ten
\* items or at the end of the data, and the loss of the fractions: as long as the
\* values fit a u64, an account offered for liquidation owes more than it holds,
\* give or take one unit a deposit.  Marginfi's totals are not values at all.
OffersOnlyUnderwater ==
  (account # NoAccount /\ account.owner \in {"kamino", "save"}) =>
    LET worth == WorthOf(account)
    IN  FitsU64(worth.deposits) =>
          SumSeq(worth.deposits) < SumSeq(worth.borrows) + Len(worth.deposits) * Scale
==============================================================================
