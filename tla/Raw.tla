-------------------------------- MODULE Raw --------------------------------
(***************************************************************************)
(* The raw wire (crates/hodor-proxy/src/transports/tcp/machine.rs): swaps  *)
(* that keep lengths, over a stream without a format.  It serves tcp://    *)
(* rules, and the steady state of the Postgres and Redis wires.  Its only  *)
(* state is the held suffix, so a feed is an operator from held bytes and  *)
(* a chunk to what is emitted and what is held.                            *)
(***************************************************************************)
EXTENDS Needle

\* Raw::new keeps only the pairs that are equal in length.
RawPairs(pairs) ==
  LET from[k \in 1..(Len(pairs) + 1)] ==
        IF k > Len(pairs) THEN <<>>
        ELSE IF Len(pairs[k].needle) = Len(pairs[k].replacement) THEN <<pairs[k]>> \o from[k + 1]
        ELSE from[k + 1]
  IN  from[1]

\* The tiny window of the probe: what is held and the first bytes of the chunk.
ProbeWindow(pairs, held, chunk) == held \o Prefix(chunk, Min({MaxTailSize(pairs), Len(chunk)}))

Hit(pairs, held, chunk) ==
  \E i \in DOMAIN pairs :
    \/ FindNewMatch(chunk, pairs[i].needle, 0)
    \/ held # <<>> /\ FindCrossing(ProbeWindow(pairs, held, chunk), pairs[i].needle, Len(held))

\* No hit: the chunk less its hold-back.  held is taken for the window and not
\* put back.
FeedMiss(pairs, held, chunk) ==
  LET probed  == IF held = <<>> THEN chunk ELSE ProbeWindow(pairs, held, chunk)
      hold    == NeedlePrefixSuffixLen(probed, pairs, MaxTailSize(pairs))
      emitLen == IF Len(chunk) > hold THEN Len(chunk) - hold ELSE 0
  IN  [out |-> Prefix(chunk, emitLen), held |-> IF hold > 0 THEN Rest(chunk, emitLen) ELSE <<>>]

\* Mutant: a fixed window is held back after a hit, whatever it slices.
FeedHit_Slicing(pairs, held, chunk) ==
  LET combined == held \o chunk
      emitLen  == Len(combined) - NeedlePrefixSuffixLen(combined, pairs, MaxTailSize(pairs))
  IN  [out |-> ReplaceIn(Prefix(combined, emitLen), pairs), held |-> Rest(combined, emitLen)]

\* A hit: substitute held and chunk together.
FeedHit(pairs, held, chunk) ==
  LET combined == held \o chunk
      emitLen  == NeedleSafeEmitLen(combined, pairs, MaxTailSize(pairs))
  IN  [out |-> ReplaceIn(Prefix(combined, emitLen), pairs), held |-> Rest(combined, emitLen)]

\* Raw::feed; the empty chunk is the end of the stream and flushes.
RawFeed(pairs, held, chunk) ==
  IF chunk = <<>> THEN [out |-> held, held |-> <<>>]
  ELSE IF Hit(pairs, held, chunk) THEN FeedHit(pairs, held, chunk)
  ELSE FeedMiss(pairs, held, chunk)

\* For the properties: this feed drops held bytes.
Forgets(pairs, held, chunk) == chunk # <<>> /\ held # <<>> /\ ~Hit(pairs, held, chunk)
=============================================================================
