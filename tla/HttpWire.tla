------------------------------ MODULE HttpWire ------------------------------
(***************************************************************************)
(* The HTTP/1 substitution machine of one direction of one connection      *)
(* (crates/hodor-proxy/src/transports/http/machine.rs, struct Http), fed   *)
(* the bytes of a few messages in arrivals of any size.                    *)
(*                                                                         *)
(* w is the struct.  `substitute` is the loop of the actions below over    *)
(* the arrival (rest), collecting out; Return is the end of `feed`, which  *)
(* hands out to the relay, or drops it and closes when must_close is set.  *)
(* The swap of a region and its hold-back are Needle's operators, checked  *)
(* by themselves in Windows.                                               *)
(***************************************************************************)
EXTENDS HttpMessages, TLC

CONSTANTS MaxMessages,  \* bound: messages of the connection
          MintCap,      \* MAX_MINT_BODY
          Fresh, Decoy  \* a freshly issued token, and what is minted for it

\* A connection: what Http::new is given (dir, pairs, hook, mint plan) and what
\* its peers may do.
Hooked    == Connections[conn].hooked      \* a plugin's RewriteHook is attached
Minting   == Connections[conn].minting     \* a flow-granted token issuer
Catalog   == Connections[conn].catalog     \* the messages the peer may send
Pipelined == Connections[conn].pipelined   \* requests before the last answer
Truncated == Connections[conn].truncated   \* the end may come in mid-message

ASSUME WireAssumption ==
  /\ MaxMessages \in Nat \ {0} /\ MintCap \in Nat
  /\ \A c \in DOMAIN Connections :
       /\ Connections[c].dir \in {"up", "down"}
       /\ {Connections[c].hooked, Connections[c].minting,
           Connections[c].pipelined, Connections[c].truncated} \subseteq BOOLEAN
       /\ Connections[c].minting => Connections[c].dir = "up"

VARIABLES msgs,       \* what the peer sends, chosen once
          pos,        \* atoms that have arrived
          asked,      \* requests whose facts reached the response machine
          phase,      \* "idle", "busy" (inside feed), "closed" or "eof"
          rest, out,  \* locals of substitute
          delivered,  \* everything handed to the other peer
          w           \* struct Http

vars == <<conn, msgs, pos, asked, phase, rest, out, delivered, w>>

TailSize == MaxTailSize(Pairs)

Http0 ==
  [state |-> "Head", headBuf |-> <<>>, rawHeld |-> <<>>, lineBuf |-> <<>>,
   trailerBuf |-> <<>>, chunkPhase |-> "SizeLine", dataRemaining |-> 0,
   scanTail |-> <<>>, fixedRemaining |-> 0, bodyMode |-> "Substitute",
   scanRemaining |-> 0, headRequests |-> 0, suppressBody |-> 0,
   mustClose |-> FALSE, mintHead |-> <<>>, mintBody |-> <<>>, mintRemaining |-> -1]

\* A close-delimited message is the last of its connection; an interim response
\* is followed by the final one.
Streams == UNION {{s \in [1..n -> Catalog] :
                     /\ s[n].class # "interim"
                     /\ \A i \in 1..(n - 1) : ~CloseDelimited(s[i])} : n \in 1..MaxMessages}

Init ==
  /\ conn \in DOMAIN Connections
  /\ msgs \in Streams
  /\ pos = 0 /\ asked = 0 /\ phase = "idle"
  /\ rest = <<>> /\ out = <<>> /\ delivered = <<>>
  /\ w = Http0

-----------------------------------------------------------------------------
(* The peers.                                                              *)

\* The messages that end a request's exchange, before message i.
Answers(i) == Cardinality({j \in 1..(i - 1) : msgs[j].class # "interim"})
Finals     == Cardinality({j \in DOMAIN msgs : msgs[j].class # "interim"})

\* Atoms of the messages 1..i, and how many the peer may have sent by now: a
\* response follows its request.
WireLen(i) == Len(Wire(SubSeq(msgs, 1, i)))
Sendable == IF Dir = "down" THEN WireLen(Len(msgs))
            ELSE WireLen(Max({0} \cup {i \in DOMAIN msgs : Answers(i) < asked}))

\* Relay's request pump hands over the fact that a request was a HEAD before
\* the request's bytes leave (Relay: FactsBeforeAnswers); a client that does
\* not pipeline asks again only when its last answer was delivered.
ApplyPeerNote ==
  /\ Dir = "up" /\ phase = "idle" /\ asked < Finals
  /\ Pipelined \/ pos = Sendable
  /\ LET d == CHOOSE m \in {msgs[i] : i \in {j \in DOMAIN msgs :
                                 msgs[j].class # "interim" /\ Answers(j) = asked}} : TRUE
     IN  w' = [w EXCEPT !.suppressBody = @ + (IF d.head THEN 1 ELSE 0)]
  /\ asked' = asked + 1
  /\ UNCHANGED <<conn, msgs, pos, phase, rest, out, delivered>>

Feed ==
  /\ phase = "idle"
  /\ \E n \in 1..(Sendable - pos) :
       /\ rest' = SubSeq(Wire(msgs), pos + 1, pos + n)
       /\ pos' = pos + n
  /\ phase' = "busy" /\ out' = <<>>
  /\ UNCHANGED <<conn, msgs, asked, delivered, w>>

\* Only a broken chunked body still has something to do with nothing left.
Busy(s) == phase = "busy" /\ w.state = s /\ rest # <<>>

Return ==
  /\ phase = "busy" /\ rest = <<>>
  /\ ~(w.state = "Chunked" /\ w.chunkPhase = "Broken")
  /\ phase' = IF w.mustClose THEN "closed" ELSE "idle"
  /\ delivered' = IF w.mustClose THEN delivered ELSE delivered \o out
  /\ out' = <<>>
  /\ UNCHANGED <<conn, msgs, pos, asked, rest, w>>

Framed == <<conn, msgs, pos, asked, phase, delivered>>

-----------------------------------------------------------------------------
(* Helpers of the machine.                                                 *)

\* Mutant: the degrade is let through.
FailClosedOnDegrade_Open(x) == x

\* A plugin is attached and the connection leaves the framed path.
FailClosedOnDegrade(x) == [x EXCEPT !.mustClose = @ \/ Hooked]

\* Does this text atom hold a needle?
Holds(a) == /\ a.k \in {"head", "long"} /\ msgs[a.v].secret
            /\ a.k = "long" <=> msgs[a.v].text = "long"

ScanHits(x, data) ==
  \/ \E i \in DOMAIN data : Holds(data[i])
  \/ \E i \in DOMAIN Pairs :
       \/ FindNewMatch(data, Pairs[i].needle, 0)
       \/ FindCrossing(x.scanTail \o Prefix(data, Min({TailSize, Len(data)})),
                       Pairs[i].needle, Len(x.scanTail))

\* Mutant: no tail is kept.
ScanChunk_NoTail(x, data) == x

\* scan_chunk: log the hits, keep the tail.
ScanChunk(x, data) ==
  [x EXCEPT !.scanTail = Rest(data, Len(data) - Min({TailSize, Len(data)}))]

\* Mutant: a hit that is only logged.
ForwardScanned_Logged(x, data) == ScanChunk(x, data)

\* Forward unchanged; a hit on its way to the guest closes.
ForwardScanned(x, data) ==
  [ScanChunk(x, data) EXCEPT !.mustClose = @ \/ (Dir = "up" /\ ScanHits(x, data))]

\* What a plugin may do with a region: sign it, make it longer, or veto it.
\* It is not asked about nothing, except at the end.
Verdicts(region, eof) ==
  IF ~Hooked \/ (region = <<>> /\ ~eof) THEN {"none"} ELSE {"sign", "grow", "close"}

Rewritten(region, v) ==
  LET signed == [i \in DOMAIN region |-> [region[i] EXCEPT !.k = "signed"]]
  IN  CASE v = "sign" -> signed
        [] v = "grow" -> Append(signed, Atom("signed", 0, 0))
        [] OTHER      -> region

\* swap_region: what is held afterwards, the length consumed, the region.
SwapRegion(data, eof) ==
  LET combined == w.rawHeld \o data
      n == IF eof THEN Len(combined) ELSE NeedleSafeEmitLen(combined, Pairs, TailSize)
  IN  [n |-> n, held |-> Rest(combined, n), region |-> ReplaceIn(Prefix(combined, n), Pairs)]

\* Mutant: any length goes.
Drifts_Never(region, n) == FALSE

\* A region of another length than its source breaks a Content-Length.
Drifts(region, n) == Len(region) # n

\* Mutant: an empty region is a chunk, too.
EmitDataChunk_Empty(region) == <<Size(Len(region))>> \o CRLF \o region \o CRLF

EmitDataChunk(region) ==
  IF region = <<>> THEN <<>> ELSE <<Size(Len(region))>> \o CRLF \o region \o CRLF

\* Where in data the first CRLF starts, if it has one.
Crlfs(data) == {i \in 1..(Len(data) - 1) : SubSeq(data, i, i + 1) = CRLF}

-----------------------------------------------------------------------------
(* State::Head                                                             *)

\* At most MAX_HEAD_BYTES + 4 bytes are taken: an overlong text stops it.
Take == Min({Len(rest)} \cup {i \in DOMAIN rest : rest[i].k = "long"})
Buffered == w.headBuf \o Prefix(rest, Take)

\* Mutant: a boundary is found only once something follows it.
Boundaries_Late(data) == {e \in 4..(Len(data) - 1) : SubSeq(data, e - 3, e) = CRLF \o CRLF}

\* find_header_boundary: where an empty line ends.
Boundaries(data) == {e \in 4..Len(data) : SubSeq(data, e - 3, e) = CRLF \o CRLF}

HeadPark ==
  /\ Busy("Head") /\ Boundaries(Buffered) = {}
  /\ \A i \in DOMAIN Buffered : Buffered[i].k # "long"
  /\ w' = [w EXCEPT !.headBuf = Buffered]
  /\ rest' = <<>>
  /\ UNCHANGED <<Framed, out>>

HeadOversize ==
  /\ Busy("Head") /\ Boundaries(Buffered) = {}
  /\ \E i \in DOMAIN Buffered : Buffered[i].k = "long"
  /\ w' = FailClosedOnDegrade([ScanChunk(w, Buffered) EXCEPT !.headBuf = <<>>, !.state = "Drain"])
  /\ out' = out \o Buffered
  /\ rest' = Rest(rest, Take)
  /\ UNCHANGED Framed

\* process_head is given Block; what follows it goes round the loop again.
Block == Prefix(Buffered, Min(Boundaries(Buffered)))
HeadReady ==
  /\ Busy("Head") /\ Boundaries(Buffered) # {}
  /\ rest' = Rest(Buffered, Len(Block)) \o Rest(rest, Take)
  /\ UNCHANGED Framed
Unbuffered == [w EXCEPT !.headBuf = <<>>]

Texts(block) == SelectSeq(block, LAMBDA a : a \notin {CR, LF})
Binary(block) == \E i \in DOMAIN block : block[i].k = "head" /\ msgs[block[i].v].text = "binary"

\* One readable header block; the parser skips an empty line in front of it.
Parsed(block) ==
  /\ Len(Texts(block)) = 1 /\ Texts(block)[1].k = "head"
  /\ msgs[Texts(block)[1].v].text = "ok"
  /\ block \in {Texts(block) \o CRLF \o CRLF, CRLF \o Texts(block) \o CRLF \o CRLF}

SubstituteHead(block) ==
  [i \in DOMAIN block |-> IF block[i].k = "head" THEN [block[i] EXCEPT !.k = "swap"] ELSE block[i]]

\* Not UTF-8: forward, scan, give up on framing.
HeadBinary ==
  /\ HeadReady /\ Binary(Block)
  /\ w' = FailClosedOnDegrade([ScanChunk(Unbuffered, Block) EXCEPT !.state = "Opaque"])
  /\ out' = out \o Block

HeadUnparsed ==
  /\ HeadReady /\ ~Binary(Block) /\ ~Parsed(Block)
  /\ w' = FailClosedOnDegrade([Unbuffered EXCEPT !.state = "Opaque"])
  /\ out' = out \o SubstituteHead(Block)

HeadParsed == HeadReady /\ ~Binary(Block) /\ Parsed(Block)

\* The hook vetoes the head, or makes it unreadable.
HeadRefused ==
  /\ HeadParsed /\ Hooked
  /\ \E opaque \in BOOLEAN :
       w' = [Unbuffered EXCEPT !.mustClose = TRUE, !.state = IF opaque THEN "Opaque" ELSE @]
  /\ out' = out \o SubstituteHead(Block)

\* A response without a body: an interim one keeps the pending suppression.
Bodiless(d)   == Dir = "up" /\ d.framing # "broken" /\ d.class \in {"interim", "empty"}

Suppressed(d) == /\ Dir = "up" /\ d.framing # "broken" /\ ~Bodiless(d)
                 /\ w.suppressBody > 0

HeadBodiless ==
  /\ HeadParsed
  /\ LET d == msgs[Texts(Block)[1].v] IN
       /\ Bodiless(d) \/ Suppressed(d)
       /\ w' = [Unbuffered EXCEPT !.suppressBody =
                  IF d.class = "interim" \/ @ = 0 THEN @ ELSE @ - 1]
  /\ out' = out \o SubstituteHead(Block)

Mintable(d) == /\ Minting /\ ~d.enc
               /\ \/ d.framing = "chunked"
                  \/ d.framing = "fixed" /\ Len(Declared(d)) <= MintCap

EnterChunked(x, d) ==
  LET y == [x EXCEPT !.bodyMode = IF d.enc THEN "ScanOnly" ELSE "Substitute",
                     !.lineBuf = <<>>, !.trailerBuf = <<>>, !.dataRemaining = 0,
                     !.chunkPhase = "SizeLine", !.state = "Chunked"]
  IN  IF d.enc THEN FailClosedOnDegrade(y) ELSE y

EnterFixed(x, d) ==
  CASE Declared(d) = <<>> -> x
    [] Declared(d) # <<>> /\ d.enc ->
         FailClosedOnDegrade([x EXCEPT !.scanRemaining = Len(Declared(d)), !.state = "Scan"])
    [] OTHER -> [x EXCEPT !.fixedRemaining = Len(Declared(d)), !.state = "Fixed"]

EnterUnframed(x) ==
  CASE Dir = "down" -> x
    [] Dir = "up" /\ Pairs = <<>> -> FailClosedOnDegrade([x EXCEPT !.state = "Opaque"])
    [] OTHER -> [x EXCEPT !.state = "CloseDelimited"]

\* enter_framing_state, without the buffering of a token response.
EnterFramingState(x, d) ==
  IF d.framing = "broken" THEN FailClosedOnDegrade([x EXCEPT !.state = "Opaque"])
  ELSE IF d.framing = "chunked" THEN EnterChunked(x, d)
  ELSE IF d.framing = "fixed" THEN EnterFixed(x, d)
  ELSE EnterUnframed(x)

HeadFramed ==
  /\ HeadParsed
  /\ LET d == msgs[Texts(Block)[1].v] IN
       /\ ~Bodiless(d) /\ ~Suppressed(d) /\ ~Mintable(d)
       /\ w' = EnterFramingState(
                 [Unbuffered EXCEPT !.headRequests =
                    @ + (IF Dir = "down" /\ d.head /\ d.framing # "broken" THEN 1 ELSE 0)], d)
  /\ out' = out \o SubstituteHead(Block)

HeadMint ==
  /\ HeadParsed
  /\ LET d == msgs[Texts(Block)[1].v] IN
       /\ ~Bodiless(d) /\ ~Suppressed(d) /\ Mintable(d)
       /\ w' = [Unbuffered EXCEPT
                  !.mintRemaining = IF d.framing = "fixed" THEN Len(Declared(d)) ELSE -1,
                  !.mintHead = SubstituteHead(Block), !.mintBody = <<>>, !.state = "MintBody"]
  /\ UNCHANGED out

-----------------------------------------------------------------------------
(* State::Fixed, Scan, Drain, Opaque, CloseDelimited                       *)

\* Content-Length went out already: a region of another length closes.
StepFixed ==
  /\ Busy("Fixed")
  /\ LET take == Min({w.fixedRemaining, Len(rest)})
         eof  == take = w.fixedRemaining
         s    == SwapRegion(Prefix(rest, take), eof)
         x    == [w EXCEPT !.fixedRemaining = @ - take, !.rawHeld = s.held]
     IN  \E v \in Verdicts(s.region, eof) :
           LET region == Rewritten(s.region, v) IN
           IF v = "close" \/ Drifts(region, s.n)
           THEN w' = [x EXCEPT !.mustClose = TRUE] /\ rest' = <<>> /\ out' = out
           ELSE /\ w' = [x EXCEPT !.state = IF eof THEN "Head" ELSE @]
                /\ rest' = Rest(rest, take)
                /\ out' = out \o region
  /\ UNCHANGED Framed

StepScan ==
  /\ Busy("Scan")
  /\ LET take == Min({w.scanRemaining, Len(rest)}) IN
       /\ w' = [ForwardScanned(w, Prefix(rest, take)) EXCEPT
                  !.scanRemaining = @ - take,
                  !.state = IF take = w.scanRemaining THEN "Head" ELSE @]
       /\ out' = out \o Prefix(rest, take)
       /\ rest' = Rest(rest, take)
  /\ UNCHANGED Framed

\* Resync at a boundary in this arrival, else give up.
StepDrain ==
  /\ Busy("Drain")
  /\ LET ends == Boundaries(rest)
         take == IF ends = {} THEN Len(rest) ELSE Min(ends)
         x    == ForwardScanned(w, Prefix(rest, take))
     IN  /\ w' = IF ends = {} THEN FailClosedOnDegrade([x EXCEPT !.state = "Opaque"])
                              ELSE [x EXCEPT !.state = "Head"]
         /\ out' = out \o Prefix(rest, take)
         /\ rest' = Rest(rest, take)
  /\ UNCHANGED Framed

StepOpaque ==
  /\ Busy("Opaque")
  /\ w' = FailClosedOnDegrade(ForwardScanned(w, rest))
  /\ out' = out \o rest /\ rest' = <<>>
  /\ UNCHANGED Framed

StepClose ==
  /\ Busy("CloseDelimited")
  /\ LET s == SwapRegion(rest, FALSE) IN
       \E v \in Verdicts(s.region, FALSE) :
         /\ w' = [w EXCEPT !.rawHeld = s.held, !.mustClose = @ \/ v = "close"]
         /\ out' = IF v = "close" THEN out ELSE out \o Rewritten(s.region, v)
  /\ rest' = <<>>
  /\ UNCHANGED Framed

-----------------------------------------------------------------------------
(* State::Chunked, one action per outcome of the framing parser            *)

InChunk(p) == Busy("Chunked") /\ w.chunkPhase = p
ScanOnly   == w.bodyMode = "ScanOnly"

\* take_line: a line may have begun in an earlier arrival, and its CRLF may
\* straddle two.
Straddles == w.lineBuf # <<>> /\ Last(w.lineBuf) = CR /\ rest[1] = LF
HasLine   == Straddles \/ Crlfs(rest) # {}
Line      == IF Straddles THEN Front(w.lineBuf)
                          ELSE w.lineBuf \o Prefix(rest, Min(Crlfs(rest)) - 1)
AfterLine == IF Straddles THEN Tail(rest) ELSE Rest(rest, Min(Crlfs(rest)) + 1)

ParseChunkSize(line) == IF Len(line) = 1 /\ line[1].k = "size" THEN line[1].v ELSE -1

LinePark ==
  /\ InChunk("SizeLine") \/ InChunk("Trailers")
  /\ ~HasLine
  /\ LET buf      == w.lineBuf \o rest
         measured == IF w.chunkPhase = "Trailers" THEN w.trailerBuf \o buf ELSE buf
     IN  IF \E i \in DOMAIN measured : measured[i].k = "long"
         THEN /\ w' = [ForwardScanned(w, buf) EXCEPT !.lineBuf = <<>>, !.chunkPhase = "Broken"]
              /\ out' = out \o buf
         ELSE w' = [w EXCEPT !.lineBuf = buf] /\ out' = out
  /\ rest' = <<>>
  /\ UNCHANGED Framed

FinishChunkedMessage(x) ==
  [x EXCEPT !.lineBuf = <<>>, !.trailerBuf = <<>>, !.dataRemaining = 0,
            !.chunkPhase = "SizeLine", !.state = "Head"]

\* A complete size line.
SizeLine == InChunk("SizeLine") /\ HasLine

ChunkSize ==
  /\ SizeLine /\ ParseChunkSize(Line) > 0
  /\ w' = [w EXCEPT !.lineBuf = <<>>, !.dataRemaining = ParseChunkSize(Line), !.chunkPhase = "Data"]
  /\ out' = IF ScanOnly THEN out \o Line \o CRLF ELSE out
  /\ rest' = AfterLine
  /\ UNCHANGED Framed

ChunkJunk ==
  /\ SizeLine /\ ParseChunkSize(Line) < 0
  /\ w' = [ForwardScanned(w, Line) EXCEPT !.lineBuf = <<>>, !.chunkPhase = "Broken"]
  /\ out' = out \o Line \o CRLF
  /\ rest' = AfterLine
  /\ UNCHANGED Framed

\* Terminal chunk of an opaque body: an empty trailer is written at once.
TerminalScanOnly ==
  /\ SizeLine /\ ParseChunkSize(Line) = 0 /\ ScanOnly
  /\ w' = FinishChunkedMessage(w)
  /\ out' = out \o Line \o CRLF \o CRLF
  /\ rest' = AfterLine
  /\ UNCHANGED Framed

\* Terminal chunk: the held window goes out first.
TerminalChunk ==
  /\ SizeLine /\ ParseChunkSize(Line) = 0 /\ ~ScanOnly
  /\ LET s == SwapRegion(<<>>, TRUE)
         x == [w EXCEPT !.lineBuf = <<>>, !.rawHeld = s.held]
     IN  \E v \in Verdicts(s.region, TRUE) :
           IF v = "close"
           THEN w' = [x EXCEPT !.mustClose = TRUE] /\ out' = out /\ rest' = <<>>
           ELSE /\ w' = [x EXCEPT !.chunkPhase = "Trailers"]
                /\ out' = out \o EmitDataChunk(Rewritten(s.region, v)) \o <<Size(0)>> \o CRLF
                /\ rest' = AfterLine
  /\ UNCHANGED Framed

TrailerField ==
  /\ InChunk("Trailers") /\ HasLine /\ Line # <<>>
  /\ w' = [w EXCEPT !.lineBuf = <<>>, !.trailerBuf = @ \o Line \o CRLF]
  /\ rest' = AfterLine
  /\ UNCHANGED <<Framed, out>>

\* The empty line: the trailers are hooked if there are any.
TrailersEnd ==
  /\ InChunk("Trailers") /\ HasLine /\ Line = <<>>
  /\ \E v \in IF Hooked /\ w.trailerBuf # <<>> THEN {"sign", "close"} ELSE {"none"} :
       IF v = "close"
       THEN /\ w' = [w EXCEPT !.mustClose = TRUE, !.lineBuf = <<>>, !.trailerBuf = <<>>]
            /\ out' = out /\ rest' = <<>>
       ELSE /\ w' = FinishChunkedMessage(w)
            /\ out' = out \o w.trailerBuf \o CRLF
            /\ rest' = AfterLine
  /\ UNCHANGED Framed

ChunkData ==
  /\ InChunk("Data")
  /\ LET take == Min({w.dataRemaining, Len(rest)})
         s    == SwapRegion(Prefix(rest, take), FALSE)
         x    == [w EXCEPT !.dataRemaining = @ - take]
         next == IF take = w.dataRemaining THEN "AfterData" ELSE "Data"
     IN  IF ScanOnly
         THEN /\ w' = [ForwardScanned(x, Prefix(rest, take)) EXCEPT !.chunkPhase = next]
              /\ out' = out \o Prefix(rest, take)
              /\ rest' = Rest(rest, take)
         ELSE \E v \in Verdicts(s.region, FALSE) :
                IF v = "close"
                THEN /\ w' = [x EXCEPT !.rawHeld = s.held, !.mustClose = TRUE]
                     /\ out' = out /\ rest' = <<>>
                ELSE /\ w' = [x EXCEPT !.rawHeld = s.held, !.chunkPhase = next]
                     /\ out' = out \o EmitDataChunk(Rewritten(s.region, v))
                     /\ rest' = Rest(rest, take)
  /\ UNCHANGED Framed

\* The CRLF after a chunk's data, whole or in two arrivals.
AfterDataCrlf ==
  /\ InChunk("AfterData")
  /\ \/ w.lineBuf = <<>> /\ Len(rest) >= 2 /\ Prefix(rest, 2) = CRLF
     \/ w.lineBuf # <<>> /\ rest[1] = LF
  /\ w' = [w EXCEPT !.lineBuf = <<>>, !.chunkPhase = "SizeLine"]
  /\ out' = IF ScanOnly THEN out \o CRLF ELSE out
  /\ rest' = Rest(rest, 2 - Len(w.lineBuf))
  /\ UNCHANGED Framed

AfterDataHalf ==
  /\ InChunk("AfterData") /\ w.lineBuf = <<>> /\ rest = <<CR>>
  /\ w' = [w EXCEPT !.lineBuf = <<CR>>]
  /\ rest' = <<>>
  /\ UNCHANGED <<Framed, out>>

\* Anything else: the bytes in hand are forwarded, the framing is broken.
AfterDataJunk ==
  /\ InChunk("AfterData")
  /\ LET two == Prefix(rest, Min({2, Len(rest)})) IN
       \/ /\ w.lineBuf = <<>> /\ two \notin {CRLF, <<CR>>}
          /\ w' = [ForwardScanned(w, two) EXCEPT !.chunkPhase = "Broken"]
          /\ out' = out \o two
          /\ rest' = Rest(rest, Len(two))
       \/ /\ w.lineBuf # <<>> /\ rest[1] # LF
          /\ w' = [ForwardScanned(w, w.lineBuf) EXCEPT !.lineBuf = <<>>, !.chunkPhase = "Broken"]
          /\ out' = out \o w.lineBuf
          /\ rest' = Tail(rest)
  /\ UNCHANGED Framed

ChunkBroken ==
  /\ phase = "busy" /\ w.state = "Chunked" /\ w.chunkPhase = "Broken"
  /\ w' = FailClosedOnDegrade([ForwardScanned(w, rest) EXCEPT !.state = "Opaque"])
  /\ out' = out \o rest /\ rest' = <<>>
  /\ UNCHANGED Framed

-----------------------------------------------------------------------------
(* State::MintBody                                                         *)

\* Mutant: nothing is minted.
MintAndRedact_PairsOnly(head, body) == ReplaceIn(body, Pairs)

\* A token response that parses has its fresh tokens replaced; every body has
\* the pairs redacted.
MintAndRedact(head, body) ==
  LET d == msgs[Texts(head)[1].v] IN
  ReplaceIn(IF body = Declared(d)
            THEN [i \in DOMAIN body |-> IF body[i] = Fresh THEN Decoy ELSE body[i]]
            ELSE body, Pairs)

RewriteContentLength(head, n) ==
  [i \in DOMAIN head |-> IF head[i].k = "swap" THEN [head[i] EXCEPT !.n = n] ELSE head[i]]

Terminator == <<Size(0)>> \o CRLF \o CRLF

FindChunkedTerminator(data) ==
  \/ IsPrefix(Terminator, data)
  \/ Occurs(data, CRLF \o Terminator)

\* dechunk: the payload, or that there is none to be had.
Dechunk(data) ==
  LET from[i \in 1..(Len(data) + 1)] ==
        LET left == Rest(data, i - 1)
            line == Prefix(left, Min(Crlfs(left)) - 1)
            size == ParseChunkSize(line)
            body == i + Len(line) + 2
        IN  CASE Crlfs(left) = {} -> [ok |-> FALSE, payload |-> <<>>]
              [] Crlfs(left) # {} /\ size = 0 -> [ok |-> TRUE, payload |-> <<>>]
              [] Crlfs(left) # {} /\ size > 0 /\ body + size + 1 <= Len(data) ->
                   LET more == from[body + size + 2]
                   IN  [more EXCEPT !.payload = SubSeq(data, body, body + size - 1) \o @]
              [] OTHER -> [ok |-> FALSE, payload |-> <<>>]
  IN  from[1]

Minted(x) == [x EXCEPT !.mintHead = <<>>, !.mintBody = <<>>, !.mintRemaining = -1, !.state = "Head"]

\* Fixed framing: until the declared length is there.
MintFixed ==
  /\ Busy("MintBody") /\ w.mintRemaining >= 0
  /\ LET take == Min({w.mintRemaining, Len(rest)})
         body == w.mintBody \o Prefix(rest, take)
         final == MintAndRedact(w.mintHead, body)
     IN  /\ IF take = w.mintRemaining
            THEN /\ w' = Minted(w)
                 /\ out' = out \o RewriteContentLength(w.mintHead, Len(final)) \o final
            ELSE /\ w' = [w EXCEPT !.mintBody = body, !.mintRemaining = @ - take]
                 /\ out' = out
         /\ rest' = Rest(rest, take)
  /\ UNCHANGED Framed

\* Chunked framing: the whole arrival is taken, until the terminator is
\* seen or the body outgrows the cap (its 4096 of slack are for the framing).
MintChunked ==
  /\ Busy("MintBody") /\ w.mintRemaining < 0
  /\ LET body == w.mintBody \o rest
         d    == Dechunk(body)
         final == MintAndRedact(w.mintHead, d.payload)
         big  == Len(SelectSeq(body, IsPayload)) > MintCap
     IN  CASE big -> w' = [w EXCEPT !.mintBody = body, !.mustClose = TRUE] /\ out' = out
           [] ~big /\ ~FindChunkedTerminator(body) ->
                w' = [w EXCEPT !.mintBody = body] /\ out' = out
           [] ~big /\ FindChunkedTerminator(body) /\ ~d.ok ->
                w' = [Minted(w) EXCEPT !.mustClose = TRUE] /\ out' = out
           [] OTHER ->
                /\ w' = Minted(w)
                /\ out' = out \o w.mintHead \o <<Size(Len(final))>> \o CRLF \o final
                              \o CRLF \o Terminator
  /\ rest' = <<>>
  /\ UNCHANGED Framed

-----------------------------------------------------------------------------
(* End of stream: flush_held.  A hook gets its last call even with nothing *)
(* held.                                                                   *)

\* Mutant: the window is dropped.
FlushSwap_Drops(x) == w' = [x EXCEPT !.rawHeld = <<>>] /\ out' = w.headBuf

\* The states that hold a window.
FlushSwap(x) ==
  LET s == SwapRegion(<<>>, TRUE)
      fragments == IF w.state = "Chunked" THEN w.lineBuf \o w.trailerBuf ELSE <<>>
  IN  \E v \in Verdicts(s.region, TRUE) :
        LET region == Rewritten(s.region, v)
            drop   == v = "close" \/ (w.state = "Fixed" /\ Drifts(region, s.n))
        IN  /\ w' = [x EXCEPT !.rawHeld = <<>>, !.mustClose = @ \/ drop]
            /\ out' = w.headBuf \o fragments \o (IF drop THEN <<>> ELSE region)

\* A token response that ends early.
FlushMint(x) ==
  LET d     == Dechunk(w.mintBody)
      body  == IF w.mintRemaining >= 0 THEN w.mintBody ELSE d.payload
      final == MintAndRedact(w.mintHead, body)
      y     == [x EXCEPT !.mintHead = <<>>, !.mintBody = <<>>]
  IN  CASE w.mintRemaining >= 0 ->
             /\ w' = [y EXCEPT !.mustClose = TRUE]
             /\ out' = w.headBuf \o RewriteContentLength(w.mintHead, Len(final)) \o final
        [] w.mintRemaining < 0 /\ d.ok ->
             w' = y /\ out' = w.headBuf \o w.mintHead \o <<Size(Len(final))>> \o CRLF \o final
        [] OTHER ->
             w' = [y EXCEPT !.mustClose = TRUE] /\ out' = w.headBuf \o w.mintBody

FlushHeld ==
  /\ phase = "idle"
  /\ Truncated \/ pos = WireLen(Len(msgs))
  /\ LET x == [w EXCEPT !.headBuf = <<>>, !.state = "Opaque", !.lineBuf = <<>>, !.trailerBuf = <<>>]
     IN  CASE w.state \in {"Fixed", "CloseDelimited", "Chunked"} -> FlushSwap(x)
           [] w.state = "MintBody" -> FlushMint(x)
           [] OTHER -> w' = x /\ out' = w.headBuf
  /\ phase' = "eof"
  /\ delivered' = IF w'.mustClose THEN delivered ELSE delivered \o out'
  /\ UNCHANGED <<conn, msgs, pos, asked, rest>>

Ended == phase \in {"closed", "eof"} /\ UNCHANGED vars

Next ==
  \/ ApplyPeerNote \/ Feed \/ Return \/ FlushHeld \/ Ended
  \/ HeadPark \/ HeadOversize \/ HeadBinary \/ HeadUnparsed \/ HeadRefused
  \/ HeadBodiless \/ HeadFramed \/ HeadMint
  \/ StepFixed \/ StepScan \/ StepDrain \/ StepOpaque \/ StepClose
  \/ LinePark \/ ChunkSize \/ ChunkJunk \/ TerminalScanOnly \/ TerminalChunk
  \/ TrailerField \/ TrailersEnd \/ ChunkData
  \/ AfterDataCrlf \/ AfterDataHalf \/ AfterDataJunk \/ ChunkBroken
  \/ MintFixed \/ MintChunked

Spec == Init /\ [][Next]_vars

-----------------------------------------------------------------------------

TypeOK ==
  /\ phase \in {"idle", "busy", "closed", "eof"}
  /\ pos \in 0..WireLen(Len(msgs)) /\ asked \in 0..Len(msgs)
  /\ w.state \in {"Head", "Fixed", "Chunked", "Scan", "Drain", "Opaque",
                  "CloseDelimited", "MintBody"}
  /\ w.chunkPhase \in {"SizeLine", "Data", "AfterData", "Trailers", "Broken"}
  /\ w.rawHeld # <<>> => w.state \in {"Fixed", "Chunked", "CloseDelimited", "Opaque"}
  /\ {w.suppressBody, w.headRequests} \subseteq 0..Len(msgs)
  /\ Len(w.rawHeld) <= TailSize /\ Len(w.scanTail) <= TailSize

Peer == Reads(msgs, delivered)

\* Payload and texts of a stream, without the framing of a chunked body.
Visible(s) == SelectSeq(s, LAMBDA a : a.k \notin {"cr", "lf", "size"})

\* A message a strict parser can frame.
Framable(d) == /\ d.text = "ok" /\ d.framing # "broken"
               /\ d.tear = "no" /\ d.trailer # "long"

\* What reaches the other peer parses, message by message, and is the original
\* with its needles swapped and its fresh tokens minted.
Parses ==
  LET seen == SeenAll(msgs)
  IN  /\ Peer.st # "bad"
      /\ IsPrefix(Peer.got, [i \in DOMAIN seen |->
                               IF Minting /\ seen[i] = Fresh THEN Decoy ELSE seen[i]])

\* A compressed chunked body, which is forwarded with its framing.
ScannedChunks(d) == d.enc /\ d.framing = "chunked"

\* The framing is never desynchronised, however the bytes were cut, whatever
\* lengths the swap or a plugin changed; with a plugin, not even by messages
\* that cannot be framed.  (CompressedReads is about the one exception; what an
\* early end of the connection flushes need not parse.)
PeerReads ==
  /\ TypeOK
  /\ (/\ Hooked \/ \A i \in DOMAIN msgs : Framable(msgs[i]) /\ ~ScannedChunks(msgs[i])
      /\ phase = "eof" => pos = WireLen(Len(msgs)))
     => Parses

\* "Chunked output must re-parse", a compressed body's as well.
CompressedReads == (\A i \in DOMAIN msgs : Framable(msgs[i])) => Parses

\* A message that has arrived whole has been handed over whole by the end of the
\* same feed: nothing waits for bytes that need not come.  (Token responses are
\* buffered; the ones that do wait are PROJECT.json's and the README's subject.)
Prompt ==
  (phase = "idle" /\ \A i \in DOMAIN msgs : Framable(msgs[i]) /\ ~ScannedChunks(msgs[i])) =>
    \A i \in DOMAIN msgs :
      (pos >= WireLen(i) /\ ~CloseDelimited(msgs[i])) =>
        \E j \in DOMAIN Peer.got : Peer.got[j] = Over(i)

\* Neither the bytes delivered to the guest nor the payload it decodes from them
\* hold a needle, nor does a header block: a needle that cannot be swapped closes
\* the connection before it is complete.
Redacted ==
  Dir = "up" =>
    /\ \A i \in DOMAIN Pairs : /\ ~Occurs(delivered, Pairs[i].needle)
                               /\ ~Occurs(Peer.got, Pairs[i].needle)
    /\ \A i \in DOMAIN delivered : ~Holds(delivered[i])

\* The machine forwards what it does not frame: bytes no plugin is shown.
Unframed == \/ w.state \in {"Scan", "Drain", "Opaque"}
            \/ w.state = "Chunked" /\ (ScanOnly \/ w.chunkPhase = "Broken")

\* A connection a plugin is attached to is open between two arrivals only on the
\* framed path: whatever the peer sent, a head that is too long, unreadable or
\* ambiguous, an encoded body and a broken chunk all close it.
HookFramed == Hooked /\ phase = "idle" => ~Unframed

\* With a plugin attached no payload byte leaves without having passed it.
HookCovers == HookFramed /\ (Hooked => \A i \in DOMAIN delivered : delivered[i].k # "byte")

\* No freshly issued token reaches the guest.
NoFreshToken == Minting => \A i \in DOMAIN delivered : delivered[i] # Fresh

\* Neither a stored secret nor one issued just now comes back to the guest.
NoSecretBack == Redacted /\ NoFreshToken

\* A stream in which nothing is to be swapped.
NeedleFree ==
  \A i \in DOMAIN Pairs :
    ~Occurs(FlattenSeq([j \in DOMAIN msgs |-> Payload(msgs[j])]), Pairs[i].needle)

\* Payload and texts of a request come out in the order they came in, none lost:
\* whatever has arrived is delivered or still held, at the end delivered.
Unchanged ==
  LET swapped == [i \in DOMAIN delivered |->
                    IF delivered[i].k = "swap" THEN [delivered[i] EXCEPT !.k = "head"] ELSE delivered[i]]
  IN  (Dir = "down" /\ NeedleFree /\ phase \in {"idle", "eof"}) =>
        Visible(swapped) \o Visible(w.rawHeld \o w.lineBuf \o w.trailerBuf \o w.headBuf)
          = Visible(SubSeq(Wire(msgs), 1, pos))
=============================================================================
