---------------------------- MODULE MCBundleTracker ----------------------------
(* A small instance of BundleTracker: a deque of two, three bundles, two ids   *)
(* (so that two bundles can share one), one kind of trade.                     *)
EXTENDS BundleTracker

MCTrades == {[profit |-> 2, tip |-> 1]}
==============================================================================
