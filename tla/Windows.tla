------------------------------ MODULE Windows ------------------------------
(***************************************************************************)
(* One stream, cut into arbitrary arrivals, through the three windows with *)
(* which the proxy looks for needles across arrivals:                      *)
(*                                                                         *)
(*   swap   Http::swap_region (http/machine.rs): substitute, and hold what *)
(*          may still grow into a match;                                   *)
(*   scan   scan_with_tail (engine/mod.rs): only report, with the tail of  *)
(*          the previous arrival;                                          *)
(*   raw    Raw::feed (tcp/machine.rs): probe, and substitute on a hit.    *)
(*                                                                         *)
(* The windows share nothing but the arrivals.                             *)
(***************************************************************************)
EXTENDS Raw

CONSTANTS Bytes, Pairs,
          MaxArrival,   \* bound: bytes of one arrival
          MaxStream     \* bound: bytes of the stream

ASSUME BytesAssumption == Bytes \subseteq Nat

ASSUME PairsAssumption ==
  /\ Pairs \in Seq([needle : Seq(Nat), replacement : Seq(Nat)])
  /\ \A i \in DOMAIN Pairs : Pairs[i].needle # <<>> /\ Pairs[i].replacement # <<>>

ASSUME BoundsAssumption == MaxArrival \in Nat /\ MaxStream \in Nat

VARIABLES
  stream,           \* everything that arrived (history)
  eof,
  held, out,        \* swap: raw_held, and everything emitted
  tail, hits,       \* scan: the rolling window, and the pairs reported
  rawHeld, rawOut,  \* raw: Raw.held, and everything emitted
  \* history, for the properties only
  shortest,         \* the shortest arrival so far
  forgot            \* a miss of the raw probe met held bytes

vars == <<stream, eof, held, out, tail, hits, rawHeld, rawOut, shortest, forgot>>

TailSize == MaxTailSize(Pairs)

EqualPairs == RawPairs(Pairs)

Init ==
  /\ stream = <<>> /\ eof = FALSE
  /\ held = <<>> /\ out = <<>>
  /\ tail = <<>> /\ hits = {}
  /\ rawHeld = <<>> /\ rawOut = <<>>
  /\ shortest = MaxStream /\ forgot = FALSE

-----------------------------------------------------------------------------
(* swap                                                                    *)

SwapRegion(data, atEof) ==
  LET combined == held \o data
      emitLen  == IF atEof THEN Len(combined) ELSE NeedleSafeEmitLen(combined, Pairs, TailSize)
  IN  /\ out' = out \o ReplaceIn(Prefix(combined, emitLen), Pairs)
      /\ held' = Rest(combined, emitLen)

-----------------------------------------------------------------------------
(* scan                                                                    *)

\* The window for the next arrival: the last bytes of this one.
NextTail(data) == LET keep == Min({TailSize, Len(data)}) IN Rest(data, Len(data) - keep)

\* Mutant: a partial match at the end of an arrival is reported already.
NewHits_Partial(data) ==
  {i \in DOMAIN Pairs : NeedlePrefixSuffixLen(data, <<Pairs[i]>>, TailSize) > 0}

\* The pairs this arrival reports: inside it, or across its boundary.
NewHits(data) ==
  LET window == tail \o Prefix(data, Min({TailSize, Len(data)})) IN
  {i \in DOMAIN Pairs :
     \/ FindNewMatch(data, Pairs[i].needle, 0)
     \/ tail # <<>> /\ FindCrossing(window, Pairs[i].needle, Len(tail))}

ScanWithTail(data) ==
  /\ hits' = hits \cup NewHits(data)
  /\ tail' = NextTail(data)

-----------------------------------------------------------------------------
(* raw                                                                     *)

Feed(chunk) ==
  LET fed == RawFeed(EqualPairs, rawHeld, chunk) IN
  /\ rawOut' = rawOut \o fed.out /\ rawHeld' = fed.held
  /\ forgot' = (forgot \/ Forgets(EqualPairs, rawHeld, chunk))

-----------------------------------------------------------------------------

Arrive ==
  /\ ~eof
  /\ \E data \in SeqOf(Bytes, MaxArrival) \ {<<>>} :
       /\ Len(stream) + Len(data) <= MaxStream
       /\ stream' = stream \o data
       /\ shortest' = Min({shortest, Len(data)})
       /\ SwapRegion(data, FALSE)
       /\ ScanWithTail(data)
       /\ Feed(data)
  /\ UNCHANGED eof

\* The stream ends: an empty chunk flushes swap and raw.
End ==
  /\ ~eof
  /\ eof' = TRUE
  /\ SwapRegion(<<>>, TRUE)
  /\ Feed(<<>>)
  /\ UNCHANGED <<stream, tail, hits, shortest>>

Ended == eof /\ UNCHANGED vars

Next == Arrive \/ End \/ Ended

Spec == Init /\ [][Next]_vars

-----------------------------------------------------------------------------
(* Properties.                                                             *)

\* A window never outgrows the longest needle less one.
TypeOK ==
  /\ stream \in Seq(Bytes) /\ eof \in BOOLEAN
  /\ held \in Seq(Bytes) /\ Len(held) <= TailSize
  /\ tail \in Seq(Bytes) /\ Len(tail) <= TailSize /\ hits \subseteq DOMAIN Pairs
  /\ rawHeld \in Seq(Bytes) /\ Len(rawHeld) <= MaxTailSize(EqualPairs)

\* However the stream is cut into arrivals, what swap_region emitted and what it
\* holds are together what one substitution of the whole stream gives: no byte
\* is lost, duplicated or reordered, no split needle passes unswapped.
StreamFaithful == out \o held = ReplaceIn(stream, Pairs)

\* Only the tail of a partial match is ever held, so a peer waiting for the end
\* of a line gets it; nothing is held after the end.  (With a needle that
\* overlaps itself the start of the partial match may have gone out as the end
\* of a complete one.)
HeldMayGrow ==
  /\ held # <<>> => \E i \in DOMAIN Pairs : \E k \in 1..(Len(Pairs[i].needle) - 1) :
                      IsSuffix(held, SubSeq(Pairs[i].needle, 1, k))
  /\ eof => held = <<>>

\* scan_with_tail only reports needles that are in the stream.
ScanSound == \A i \in hits : Occurs(stream, Pairs[i].needle)

\* scan_with_tail has reported every needle of the stream by the time its last
\* byte arrived, as long as no arrival was shorter than the tail it keeps.
ScanComplete ==
  shortest >= TailSize => \A i \in DOMAIN Pairs : Occurs(stream, Pairs[i].needle) => i \in hits

\* The raw wire is as faithful as swap_region as long as no chunk completed no
\* match of the bytes held from the one before.
RawFaithful == ~forgot => rawOut \o rawHeld = ReplaceIn(stream, EqualPairs)

\* The two substitutions, of swap_region and of the raw wire, within the bounds
\* on what they hold.
Faithful == TypeOK /\ StreamFaithful /\ HeldMayGrow /\ RawFaithful

\* What scan_with_tail reports is what is there.
ScanExact == ScanSound /\ ScanComplete

\* "Substitution never reframes the byte stream": every byte that reached the raw
\* wire is emitted or held.
NothingLost == Len(rawOut) + Len(rawHeld) = Len(stream)
=============================================================================
