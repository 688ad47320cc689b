------------------------------- MODULE SeqFolds -------------------------------
(***************************************************************************)
(* Iterator chains over sequences: `.iter().map(..).sum()` and the loop    *)
(* that moves the elements to keep into a new deque.  Both are recursive   *)
(* functions, not operators of the community modules, so that the proof    *)
(* modules can reason about them (SeqFoldsProofs).                         *)
(***************************************************************************)
EXTENDS Integers, Sequences

\* The sums of the prefixes of v: PrefixSums(v)[i] = v[1] + ... + v[i].
PrefixSums(v) ==
  LET sum[i \in 0..Len(v)] == IF i = 0 THEN 0 ELSE sum[i - 1] + v[i]
  IN  sum

SumSeq(v) == PrefixSums(v)[Len(v)]

\* The elements of s that are in the set keep, in the order of s, for every
\* prefix of s.
PrefixRetains(s, keep) ==
  LET kept[i \in 0..Len(s)] ==
        IF i = 0 THEN <<>>
        ELSE IF s[i] \in keep THEN Append(kept[i - 1], s[i]) ELSE kept[i - 1]
  IN  kept

Retain(s, keep) == PrefixRetains(s, keep)[Len(s)]
==============================================================================
