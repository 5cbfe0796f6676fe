------------------------------- MODULE Redis -------------------------------
(***************************************************************************)
(* The request direction of a redis:// connection                          *)
(* (crates/hodor-proxy/src/transports/redis/machine.rs): client commands,  *)
(* RESP arrays or inline lines, cut into arrivals anywhere, with AUTH and  *)
(* HELLO rewritten to the upstream's credentials at any length.            *)
(*                                                                         *)
(* An atom is a byte of a token, a space, a line end, or the line that     *)
(* states an array's count or a bulk string's length.  Verbs are in one    *)
(* case (the code compares them without regard to it).                     *)
(***************************************************************************)
EXTENDS Raw

CONSTANTS Commands,     \* commands guests send: [form, tokens]
          MaxCommands,  \* bound: commands of a connection
          RulePairs,    \* credential pairs of the rule
          Fake, Real,   \* the password's two spellings
          UpUser,       \* the upstream user
          MaxCommand,   \* MAX_COMMAND
          MaxRead       \* bound: atoms of one read (32 KiB in the relay)

VARIABLES
  renames,    \* the rule's legs name different users
  cmds, arrivedLen, \* what the guest sends, and how much of it arrived
  legBuf,     \* Leg.buf: bytes waiting for a complete command
  closed,     \* Leg.closed
  busy, batch,      \* inside feed_downstream, and its local out
  ended,      \* the guest's end was fed
  out,        \* what was emitted to the server
  flushed     \* what the guest's end made it emit besides

redisVars == <<renames, cmds, arrivedLen, legBuf, closed, busy, batch, ended, out, flushed>>

Count(n)  == <<"count", n>>    \* *n CR LF
Bulk(n)   == <<"bulk", n>>     \* $n CR LF
Space     == <<"text", "space">>
LineEnd   == <<"text", "crlf">>
TokenByte(b) == <<"byte", b>>
RedisAtoms == ({"count", "bulk"} \X Nat) \cup {Space, LineEnd} \cup ({"byte"} \X STRING)
AUTH      == <<TokenByte("A"), TokenByte("T")>>
HELLO     == <<TokenByte("H")>>

(* A command has a verb, the first argument of HELLO is a version, and the *)
(* password's decoy is not empty (the code swaps none that is).            *)
ASSUME CommandsAssumption ==
  /\ Commands \subseteq [form : {"array", "inline"}, tokens : Seq(Seq(RedisAtoms))]
  /\ \A c \in Commands : /\ c.tokens # <<>>
                         /\ c.tokens[1] = HELLO /\ Len(c.tokens) > 1 => c.tokens[2] # AUTH
  /\ {Fake, Real, UpUser} \subseteq Seq(RedisAtoms) /\ Fake # <<>> /\ {MaxCommand, MaxRead} \subseteq Nat

-----------------------------------------------------------------------------
(* How a client spells a command (and a server reads it).                  *)

Frame(c) ==
  IF c.form = "array"
  THEN <<Count(Len(c.tokens))>> \o
       FlattenSeq([i \in DOMAIN c.tokens |-> <<Bulk(Len(c.tokens[i]))>> \o c.tokens[i] \o <<LineEnd>>])
  ELSE FlattenSeq([i \in DOMAIN c.tokens |-> (IF i > 1 THEN <<Space>> ELSE <<>>) \o c.tokens[i]]) \o <<LineEnd>>

CommandStream == FlattenSeq([i \in DOMAIN cmds |-> Frame(cmds[i])])

RedisInit ==
  /\ renames \in BOOLEAN
  /\ cmds \in SeqOf(Commands, MaxCommands) \ {<<>>}
  /\ arrivedLen = 0 /\ legBuf = <<>> /\ closed = FALSE
  /\ busy = FALSE /\ batch = <<>> /\ ended = FALSE /\ out = <<>>
  /\ flushed = <<>>

-----------------------------------------------------------------------------
(* take_command: one complete command off the buffer.  A result is the     *)
(* frame's length, 0 while it is incomplete.                               *)

\* take_array: after[k] is where the first k arguments end, 0 if they do not.
ArgEnds(b) ==
  LET after[k \in 0..b[1][2]] ==
        IF k = 0 THEN 1
        ELSE LET p   == after[k - 1]
                 end == p + b[p + 1][2] + 2
             IN  IF p = 0 \/ p >= Len(b) \/ b[p + 1][1] # "bulk" THEN 0
                 ELSE IF end > Len(b) \/ b[end] # LineEnd THEN 0
                 ELSE end
  IN  after

IsArray(b) == b # <<>> /\ b[1][1] = "count"

\* take_inline: up to the first line end.
InlineEnd(b) == IF \E i \in DOMAIN b : b[i] = LineEnd THEN Min({i \in DOMAIN b : b[i] = LineEnd}) ELSE 0

CommandLen(b) == IF IsArray(b) THEN ArgEnds(b)[b[1][2]] ELSE InlineEnd(b)

\* Where the tokens of a frame are: <<first, last>>, empty ones left out of an
\* inline line.
Args(f) ==
  IF IsArray(f)
  THEN [k \in 1..f[1][2] |-> LET p == ArgEnds(f)[k - 1] IN <<p + 2, p + 1 + f[p + 1][2]>>]
  ELSE LET gaps   == {0} \cup {i \in DOMAIN f : f[i] \in {Space, LineEnd}}
           starts == {i \in DOMAIN f : i \notin gaps /\ i - 1 \in gaps}
       IN  [k \in 1..Cardinality(starts) |->
              LET s == CHOOSE i \in starts : Cardinality({j \in starts : j <= i}) = k
              IN  <<s, Min({g \in gaps : g > s}) - 1>>]

Token(f, arg) == SubSeq(f, arg[1], arg[2])

-----------------------------------------------------------------------------
(* rewrite_command                                                         *)

Splice(f, first, last, body) == Prefix(f, first - 1) \o body \o Rest(f, last)

\* Mutant: the body only.
SwapToken_NoLength(f, arg, body) == Splice(f, arg[1], arg[2], body)

\* swap_token: the body, then the digits of the $ line before it.
SwapToken(f, arg, body) == [Splice(f, arg[1], arg[2], body) EXCEPT ![arg[1] - 1] = Bulk(Len(body))]

\* splice_inline: the token's text, wherever the line has it first.
SpliceInline(f, token, body) ==
  LET at == Min({i \in DOMAIN f : MatchAt(f, token, i)}) IN Splice(f, at, at + Len(token) - 1, body)

\* The credential arguments of a command: none, the password, or user and
\* password; or the command breaks its own arity.  auth_block and the first
\* lines of rewrite_array and rewrite_inline.
Credentials(f) ==
  LET args   == Args(f)
      count  == Len(args)
      is(k, verb) == k <= count /\ Token(f, args[k]) = verb
      first  == IF IsArray(f) THEN 2 ELSE 3
      blocks == {k \in first..count : is(k, AUTH)}
      block  == Min(blocks)
  IN  IF is(1, AUTH)
      THEN IF count \notin 2..3 THEN [user |-> 0, pass |-> -1]
           ELSE [user |-> IF count = 3 THEN 2 ELSE 0, pass |-> count]
      ELSE IF ~is(1, HELLO) \/ blocks = {} \/ block = count \/ (~IsArray(f) /\ block + 2 > count)
      THEN [user |-> 0, pass |-> 0]
      ELSE IF block + 2 > count
      THEN [user |-> 0, pass |-> -1]
      ELSE [user |-> block + 1, pass |-> block + 2]

\* rewrite_array: password first, so that the user's offsets stay valid.
RewriteArray(f, c) ==
  LET args == Args(f)
      swapped == IF Token(f, args[c.pass]) = Fake THEN SwapToken(f, args[c.pass], Real) ELSE f
  IN  IF c.user # 0 /\ renames THEN SwapToken(swapped, args[c.user], UpUser) ELSE swapped

\* rewrite_inline: user first, then the password, both by their text.
RewriteInline(f, c) ==
  LET args == Args(f)
      renamed == IF c.user # 0 /\ renames THEN SpliceInline(f, Token(f, args[c.user]), UpUser) ELSE f
  IN  IF Token(f, args[c.pass]) = Fake THEN SpliceInline(renamed, Fake, Real) ELSE renamed

Rewrite(f) ==
  LET c == Credentials(f) IN
  IF c.pass = 0 THEN f ELSE IF IsArray(f) THEN RewriteArray(f, c) ELSE RewriteInline(f, c)

-----------------------------------------------------------------------------
(* feed_downstream                                                         *)

Arrive ==
  /\ ~busy /\ ~closed /\ ~ended
  /\ \E n \in 1..Min({MaxRead, Len(CommandStream) - arrivedLen}) :
       /\ legBuf' = legBuf \o SubSeq(CommandStream, arrivedLen + 1, arrivedLen + n)
       /\ arrivedLen' = arrivedLen + n
  /\ busy' = TRUE /\ batch' = <<>>
  /\ UNCHANGED <<renames, cmds, closed, ended, out, flushed>>

\* Mutant: the cap is not checked, so a drip is buffered for ever.
OverCap_Never == FALSE

OverCap == Len(legBuf) > MaxCommand

\* The latch: what this call collected is dropped with the Close.
LatchClosed ==
  /\ closed' = TRUE /\ busy' = FALSE
  /\ UNCHANGED <<renames, cmds, arrivedLen, legBuf, batch, ended, out, flushed>>

TooLong == busy /\ OverCap /\ LatchClosed

BadArity ==
  /\ busy /\ ~OverCap /\ CommandLen(legBuf) > 0
  /\ Credentials(Prefix(legBuf, CommandLen(legBuf))).pass = -1
  /\ LatchClosed

TakeCommand ==
  /\ busy /\ ~OverCap /\ CommandLen(legBuf) > 0
  /\ LET f == Prefix(legBuf, CommandLen(legBuf)) IN
     /\ Credentials(f).pass # -1
     /\ batch' = batch \o Rewrite(f)
     /\ legBuf' = Rest(legBuf, Len(f))
  /\ UNCHANGED <<renames, cmds, arrivedLen, closed, busy, ended, out, flushed>>

\* The buffer holds no complete command: what was collected is emitted.
Return ==
  /\ busy /\ ~OverCap /\ CommandLen(legBuf) = 0
  /\ busy' = FALSE /\ out' = out \o batch
  /\ UNCHANGED <<renames, cmds, arrivedLen, legBuf, closed, batch, ended, flushed>>

\* The guest's end: the rest of the buffer goes through the raw wire.
GuestEnd ==
  /\ ~busy /\ ~closed /\ ~ended
  /\ ended' = TRUE
  /\ flushed' = RawFeed(RawPairs(RulePairs), <<>>, legBuf).out /\ legBuf' = <<>>
  /\ UNCHANGED <<renames, cmds, arrivedLen, closed, busy, batch, out>>

Done == (closed \/ ended) /\ UNCHANGED redisVars

RedisNext == Arrive \/ TooLong \/ BadArity \/ TakeCommand \/ Return \/ GuestEnd \/ Done

RedisSpec == RedisInit /\ [][RedisNext]_redisVars

-----------------------------------------------------------------------------
(* Properties.                                                             *)

\* The first AUTH among the options of a HELLO, 0 if it has none.
Option(t) == LET at == {k \in 3..Len(t) : t[1] = HELLO /\ t[k] = AUTH}
             IN  IF at = {} THEN 0 ELSE Min(at)

\* What a command means to the server: AUTH password, AUTH user password,
\* HELLO version ... AUTH user password.
Meant(c) ==
  LET t    == c.tokens
      user == IF t[1] = AUTH THEN (IF Len(t) = 3 THEN 2 ELSE 0)
              ELSE IF Option(t) # 0 /\ Option(t) + 2 <= Len(t) THEN Option(t) + 1 ELSE 0
      pass == IF t[1] = AUTH /\ Len(t) = 2 THEN 2 ELSE IF user # 0 THEN user + 1 ELSE 0
  IN  [c EXCEPT !.tokens = [i \in DOMAIN t |-> IF i = pass /\ t[i] = Fake THEN Real
                                               ELSE IF i = user /\ renames THEN UpUser ELSE t[i]]]

\* A command that breaks its own arity (the inline HELLO that does so passes
\* unchanged), or is longer than a command may be.
Refused(c) ==
  \/ c.tokens[1] = AUTH /\ Len(c.tokens) \notin 2..3
  \/ c.form = "array" /\ Option(c.tokens) # 0 /\ Option(c.tokens) + 1 = Len(c.tokens)
  \/ Len(Frame(c)) > MaxCommand

\* An inline line on which a credential's text appears before its token does.
Aliased(c) ==
  /\ c.form = "inline"
  /\ \E k \in 2..Len(c.tokens) : Min({i \in DOMAIN Frame(c) : MatchAt(Frame(c), c.tokens[k], i)}) # Args(Frame(c))[k][1]

\* The server reads the guest's commands in order and whole, each with its
\* credentials and only these replaced, framed with the lengths they have; each
\* complete command goes on at once, none from a refused one on, and nothing is
\* left for the end of the stream when all of them arrived.
CommandsRead ==
  LET upTo(n) == FlattenSeq([i \in 1..n |-> Frame(Meant(cmds[i]))])
      arrived == Cardinality({i \in DOMAIN cmds : Len(FlattenSeq([j \in 1..i |-> Frame(cmds[j])])) <= arrivedLen})
      refused == {i \in DOMAIN cmds : Refused(cmds[i])}
      last    == IF refused = {} THEN Len(cmds) ELSE Min(refused) - 1
  IN  (\A i \in DOMAIN cmds : ~Aliased(cmds[i])) =>
        /\ IsPrefix(out, upTo(last))
        /\ ~closed /\ ~busy => arrived <= last /\ out = upTo(arrived)
        /\ arrivedLen = Len(CommandStream) => flushed = <<>>

\* A guest that drips one endless command does not grow the buffer: it never
\* exceeds the cap between two reads.
BufferBounded == ~busy => Len(legBuf) <= MaxCommand \/ closed

\* "Cap for one buffered command": the connection is closed for a command that is
\* longer than the cap or breaks its arity, not for how many arrive together.
ClosedForACommand ==
  closed => \E i \in DOMAIN cmds : Refused(cmds[i])
=============================================================================
