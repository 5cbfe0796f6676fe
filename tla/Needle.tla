------------------------------- MODULE Needle -------------------------------
(***************************************************************************)
(* The needle machinery every wire machine is built on                     *)
(* (crates/hodor-proxy/src/transports/engine/mod.rs): what it computes, as *)
(* operators on sequences of bytes.  A pair is a record with a needle and  *)
(* its replacement; positions are 1-based.                                 *)
(***************************************************************************)
EXTENDS Naturals, Sequences, FiniteSetsExt, SequencesExt

\* haystack[i..].starts_with(needle)
MatchAt(h, n, i) == i + Len(n) - 1 <= Len(h) /\ SubSeq(h, i, i + Len(n) - 1) = n

Occurs(h, n) == \E i \in 1..Len(h) : MatchAt(h, n, i)

\* Cross-chunk overlap window: longest needle minus one; zero with no pair.
MaxTailSize(pairs) == Max({0} \cup {Len(pairs[i].needle) - 1 : i \in DOMAIN pairs})

\* All non-overlapping occurrences, leftmost first.
ReplaceBytes(h, n, r) ==
  LET from[i \in 1..(Len(h) + 1)] ==
        IF i > Len(h) THEN <<>>
        ELSE IF MatchAt(h, n, i) THEN r \o from[i + Len(n)]
        ELSE <<h[i]>> \o from[i + 1]
  IN  from[1]

\* One pass per pair, in the order of the pairs.
ReplaceIn(data, pairs) ==
  LET pass[k \in 0..Len(pairs)] ==
        IF k = 0 THEN data
        ELSE ReplaceBytes(pass[k - 1], pairs[k].needle, pairs[k].replacement)
  IN  pass[Len(pairs)]

\* Mutant: a fixed hold-back window instead of one that looks at the bytes.
NeedlePrefixSuffixLen_Fixed(data, pairs, bound) == Min({bound, Len(data)})

\* Longest suffix of data, within the bound, that is a proper prefix of some
\* needle: exactly the bytes that might still grow into a match.
NeedlePrefixSuffixLen(data, pairs, bound) ==
  Max({0} \cup {keep \in 1..Min({bound, Len(data)}) :
        \E i \in DOMAIN pairs :
          /\ Len(pairs[i].needle) > keep
          /\ SubSeq(pairs[i].needle, 1, keep) = SubSeq(data, Len(data) - keep + 1, Len(data))})

\* Where the leftmost-first non-overlapping matches of n end.
MatchEnds(h, n) ==
  LET from[i \in 1..(Len(h) + 1)] ==
        IF i > Len(h) THEN {}
        ELSE IF MatchAt(h, n, i) THEN {i + Len(n) - 1} \cup from[i + Len(n)]
        ELSE from[i + 1]
  IN  from[1]

\* Mutant: the hold-back may slice a complete match.
NeedleSafeEmitLen_Slicing(data, pairs, bound) ==
  Len(data) - NeedlePrefixSuffixLen(data, pairs, bound)

\* How much may be emitted now: past every complete match, and short of any
\* trailing partial one.
NeedleSafeEmitLen(data, pairs, bound) ==
  Max({Len(data) - NeedlePrefixSuffixLen(data, pairs, bound)}
      \cup UNION {MatchEnds(data, pairs[i].needle) : i \in DOMAIN pairs})

\* A match that ends past the tail already reported.
FindNewMatch(h, n, tailLen) == \E i \in 1..Len(h) : MatchAt(h, n, i) /\ i + Len(n) - 1 > tailLen

\* Mutant: a match that starts with the last byte of the old tail is missed.
FindCrossing_OffByOne(window, n, oldLen) == \E i \in 1..(oldLen - 1) : MatchAt(window, n, i)

\* A match that starts inside the old tail.
FindCrossing(window, n, oldLen) == \E i \in 1..oldLen : MatchAt(window, n, i)

\* The first k, and all but the first k.
Prefix(s, k) == SubSeq(s, 1, k)
Rest(s, k)   == SubSeq(s, k + 1, Len(s))
=============================================================================
