--------------------------- MODULE SshLegsProofs ---------------------------
(***************************************************************************)
(* Proofs about KeyFiles and SshLegs, for any number of processes, of      *)
(* crashes and of retries, any servers, users and keys.                    *)
(***************************************************************************)
EXTENDS SshLegs, FiniteSetTheorems, TLAPS

Keys == (Tasks \X Nat) \cup {NoKey}
KeyFile == [of : Keys, whole : BOOLEAN]

(* The steps that only a task of one job reaches.                          *)
CaSteps == {"create", "load", "write", "retry", "crt", "opencrt", "putcrt", "key", "openkey", "putkey"}
HostSteps == {"hcreate", "hwrite"}
SplitSteps == {"crt", "opencrt", "putcrt", "key", "openkey", "putkey"}

Steps == CaSteps \cup HostSteps \cup {"start", "opem", "wpem", "opkey", "wpkey", "ready", "failed"}

KeyTypeOK ==
  /\ at \in [Tasks -> Steps]
  /\ got \in [Tasks -> Keys]
  /\ tries \in [Tasks -> Nat]
  /\ files \in [Paths -> KeyFile]
  /\ runs \in [Tasks -> Nat]
  /\ anchor \in [{"ca", "host"} -> Keys]
  /\ since \subseteq Tasks
  /\ cached \in Keys

(* A task is at a step of its own job.                                     *)
OwnSteps ==
  \A t \in Tasks : /\ at[t] \in CaSteps => job[t] = "ca"
                   /\ at[t] \in HostSteps => job[t] = "host"

(* The one task that created a file is the one that will fill it.          *)
OneWriter ==
  \A t \in Tasks : /\ at[t] = "write" => files["ca"] = Opened(Fresh(t))
                   /\ at[t] = "hwrite" => files["host"] = Opened(Fresh(t))

(* What a reader of the file finds is the first key returned.              *)
Anchored == anchor["ca"] = Parsed("ca") /\ anchor["host"] = Parsed("host")

(* Whoever has a key has the one in the file.                              *)
Held ==
  /\ \A t \in Tasks : /\ job[t] = "ca" /\ got[t] # NoKey => got[t] = anchor["ca"]
                      /\ job[t] = "host" /\ got[t] # NoKey => got[t] = anchor["host"]
                      /\ at[t] \in SplitSteps => got[t] # NoKey
                      /\ at[t] = "ready" /\ job[t] \in {"ca", "host"} => got[t] # NoKey
  /\ cached # NoKey => cached = anchor["host"]

(* A task that synced the split files since the last crash inside a sync   *)
(* leaves a file behind it right, or in the hands of a task about to write *)
(* it.                                                                     *)
Synced ==
  \A t \in since :
    /\ job[t] = "ca" /\ at[t] \in SplitSteps \cup {"ready"}
    /\ at[t] \in {"key", "openkey", "putkey", "ready"} =>
         files["crt"] = Holding(anchor["ca"]) \/ \E u \in Tasks : at[u] = "putcrt"
    /\ at[t] = "ready" =>
         files["key"] = Holding(anchor["ca"]) \/ \E u \in Tasks : at[u] = "putkey"

KeyInv == KeyTypeOK /\ OwnSteps /\ OneWriter /\ Anchored /\ Held /\ Synced

-----------------------------------------------------------------------------
(* The dial.                                                               *)

Marks == {"auth", "open", "dial", "verify", "read", "truncate", "record", "identify", "channel", "ended"}
Lines == SUBSET (Names \X (HostKeys \cup {""}))
LegRecord == [at : Marks, name : Names, user : Users \cup {""},
              proven : {<<>>} \cup (Users \X {"decoy"}), tried : BOOLEAN,
              seen : HostKeys \cup {""}, text : Lines, as : Users \cup {""}]

LegTypeOK ==
  /\ leg \in [Tasks -> LegRecord]
  /\ pins \in [lines : Lines, whole : BOOLEAN]
  /\ server \in [now : [Names -> HostKeys], first : [Names -> HostKeys \cup {""}]]

(* Past the door, the guest has signed as the user of the session.         *)
Signed ==
  \A c \in Tasks : /\ leg[c].at \notin {"auth", "ended"} => leg[c].proven = <<leg[c].user, "decoy">>
                   /\ leg[c].as # "" => leg[c].proven = <<leg[c].as, "decoy">>
                   /\ leg[c].at = "auth" => leg[c].as = ""

(* The lines pin every server that was accepted, with its first key.       *)
PinsFirst(lines, first) ==
  /\ \A l \in lines : l[2] = first[l[1]] /\ l[2] # ""
  /\ \A n \in Names : first[n] # "" => <<n, first[n]>> \in lines

OneDial ==
  \A c, d \in Conns : leg[c].at \in Dialling /\ leg[d].at \in Dialling => c = d

\* What a leg past the dial has been shown, given the keys first accepted.
PinOk(l, first) ==
  /\ l.at \in {"read", "truncate", "record"} => first[l.name] = ""
  /\ l.at \in Dialling \ {"dial"} => l.seen \in HostKeys
  /\ l.at \in {"truncate", "record"} => PinsFirst(l.text, first)
  /\ l.at = "identify" => l.seen = first[l.name]

Pinned ==
  /\ (\A c \in Conns : leg[c].at # "record") => PinsFirst(pins.lines, server.first)
  /\ \A c \in Conns : PinOk(leg[c], server.first)

IdentityInv == LegTypeOK /\ Signed
DialInv == LegTypeOK /\ OneDial /\ Pinned

-----------------------------------------------------------------------------
(* The key files.                                                          *)

\* A task's fresh key is a key.
LEMMA FreshKey ==
  ASSUME KeyTypeOK, NEW t \in Tasks
  PROVE  Fresh(t) \in Keys /\ Fresh(t) # NoKey /\ \A u \in Tasks : Fresh(u) = Fresh(t) => u = t
  BY DEF KeyTypeOK, Fresh, Keys, NoKey

\* What a reader finds in a file that is whole, being filled, or absent.
LEMMA FileType ==
  ASSUME NEW k \in Keys
  PROVE  /\ Holding(k) \in KeyFile /\ Holding(k).of = k /\ Holding(k).whole
         /\ Opened(k) \in KeyFile /\ Opened(k).of = k /\ ~Opened(k).whole
         /\ Absent \in KeyFile /\ ~Absent.whole
         /\ k # NoKey => Opened(k) # Absent /\ Holding(k) # Absent
  BY DEF Holding, Opened, Absent, KeyFile, Keys

\* What is parsed from a file is a key, or no key.
LEMMA FileParsed ==
  ASSUME KeyTypeOK, NEW f \in Paths
  PROVE  Parsed(f) \in Keys
  BY DEF KeyTypeOK, Parsed, KeyFile, Keys

\* A directory without key files, and tasks without keys.
LEMMA KeyInitInv == Init => KeyInv
<1>1. SUFFICES ASSUME Init PROVE KeyInv
  OBVIOUS
<1>2. NoKey \in Keys /\ Absent \in KeyFile /\ ~Absent.whole
  BY DEF Keys, Absent, KeyFile
<1> USE <1>1, <1>2 DEF Init, KeyInit, LegInit
<1>3. KeyTypeOK
  BY DEF KeyTypeOK, Steps
<1>4. OwnSteps /\ OneWriter /\ Synced
  BY DEF OwnSteps, OneWriter, Synced, CaSteps, HostSteps
<1>5. Anchored
  BY DEF Anchored, Parsed, Paths
<1>6. Held
  BY DEF Held, SplitSteps
<1>7. QED
  BY <1>3, <1>4, <1>5, <1>6 DEF KeyInv

\* A step on the key files: of a task, of a connection that finds its keys
\* loaded, or a kill, which may take the loaded keys with it.
KeyMove(t) ==
  \/ KeyStep(t) /\ UNCHANGED cached
  \/ job[t] = "host" /\ LegsCached(t)
  \/ Crash(t) /\ cached' \in {cached, NoKey}

\* The ways to take such a step, and what every one of them leaves alone.
LEMMA KeyMoves ==
  ASSUME NEW t \in Tasks, KeyMove(t)
  PROVE  /\ \/ load_or_generate(t) \/ load_ca_file(t) \/ persist_ca_0600(t) \/ PersistWritten(t)
            \/ load_ca_file_with_retry(t)
            \/ sync_split_pems(t, "crt") \/ sync_split_pems(t, "key")
            \/ write_with_mode(t, "crt") \/ write_with_mode(t, "key")
            \/ load_or_generate_host_key(t) \/ generate_host_key(t) \/ HostWritten(t)
            \/ load_or_generate_client_pair(t) \/ OpenRefused(t)
            \/ job[t] = "host" /\ LegsCached(t)
            \/ Crash(t)
         /\ cached' \in {cached, NoKey}
  BY DEF KeyMove, KeyStep, LegsCached, legVars

\* Every step on the key files keeps the types.
LEMMA KeyTypeKept ==
  ASSUME KeyInv, NEW t \in Tasks, KeyMove(t)
  PROVE  KeyTypeOK'
<1> USE DEF Goto, Paths, CaSteps, HostSteps, SplitSteps
<1>0. /\ KeyTypeOK /\ cached' \in Keys /\ NoKey \in Keys /\ Fresh(t) \in Keys
      /\ Parsed("ca") \in Keys /\ Parsed("host") \in Keys
      /\ \A k \in Keys : Holding(k) \in KeyFile /\ Opened(k) \in KeyFile
  BY KeyMoves, FreshKey, FileParsed, FileType DEF KeyInv, KeyTypeOK, Keys
<1>1. CASE load_or_generate(t)
  BY <1>0, <1>1 DEF load_or_generate, KeyTypeOK, Steps
<1>2. CASE load_ca_file(t)
  BY <1>0, <1>2 DEF load_ca_file, Take, Fail, KeyTypeOK, Steps
<1>3. CASE persist_ca_0600(t)
  BY <1>0, <1>3 DEF persist_ca_0600, Put, KeyTypeOK, Steps
<1>4. CASE PersistWritten(t)
  BY <1>0, <1>4 DEF PersistWritten, Put, Take, KeyTypeOK, Steps
<1>5. CASE load_ca_file_with_retry(t)
  <2>1. tries' \in [Tasks -> Nat]
    BY <1>0, <1>5 DEF load_ca_file_with_retry, KeyTypeOK
  <2>2. /\ at' \in [Tasks -> Steps] /\ got' \in [Tasks -> Keys]
        /\ anchor' \in [{"ca", "host"} -> Keys] /\ since' \subseteq Tasks
    BY <1>0, <1>5 DEF load_ca_file_with_retry, Take, Fail, KeyTypeOK, Steps
  <2>3. QED
    BY <1>0, <1>5, <2>1, <2>2 DEF load_ca_file_with_retry, KeyTypeOK
<1>6. CASE sync_split_pems(t, "crt")
  BY <1>0, <1>6 DEF sync_split_pems, AfterSplit, OpenSplit, KeyTypeOK, Steps
<1>7. CASE sync_split_pems(t, "key")
  BY <1>0, <1>7 DEF sync_split_pems, AfterSplit, OpenSplit, KeyTypeOK, Steps
<1>8. CASE write_with_mode(t, "crt")
  <2>1. CASE at[t] = "opencrt"
    BY <1>0, <1>8, <2>1 DEF write_with_mode, Put, AfterSplit, OpenSplit, PutSplit, KeyTypeOK, Steps
  <2>2. CASE at[t] = "putcrt"
    BY <1>0, <1>8, <2>2 DEF write_with_mode, Put, AfterSplit, OpenSplit, PutSplit, KeyTypeOK, Steps
  <2>3. QED
    BY <1>8, <2>1, <2>2 DEF write_with_mode, OpenSplit, PutSplit
<1>9. CASE write_with_mode(t, "key")
  <2>1. CASE at[t] = "openkey"
    BY <1>0, <1>9, <2>1 DEF write_with_mode, Put, AfterSplit, OpenSplit, PutSplit, KeyTypeOK, Steps
  <2>2. CASE at[t] = "putkey"
    BY <1>0, <1>9, <2>2 DEF write_with_mode, Put, AfterSplit, OpenSplit, PutSplit, KeyTypeOK, Steps
  <2>3. QED
    BY <1>9, <2>1, <2>2 DEF write_with_mode, OpenSplit, PutSplit
<1>10. CASE load_or_generate_host_key(t)
  BY <1>0, <1>10 DEF load_or_generate_host_key, Take, Fail, KeyTypeOK, Steps
<1>11. CASE generate_host_key(t)
  BY <1>0, <1>11 DEF generate_host_key, Put, KeyTypeOK, Steps
<1>12. CASE HostWritten(t)
  BY <1>0, <1>12 DEF HostWritten, Put, Take, KeyTypeOK, Steps
<1>13. CASE load_or_generate_client_pair(t)
  <2>1. at' \in [Tasks -> Steps]
    BY <1>0, <1>13 DEF load_or_generate_client_pair, PairSteps, KeyTypeOK, Steps
  <2>2. files' \in [Paths -> KeyFile]
    <3>1. CASE UNCHANGED files
      BY <1>0, <3>1 DEF KeyTypeOK
    <3>2. CASE \E f \in {"pem", "pkey"} : Put(f, Opened(Fresh(t))) \/ Put(f, Holding(Fresh(t)))
      BY <1>0, <3>2 DEF Put, KeyTypeOK
    <3>3. QED
      BY <1>13, <3>1, <3>2 DEF load_or_generate_client_pair
  <2>3. QED
    BY <1>0, <1>13, <2>1, <2>2 DEF load_or_generate_client_pair, KeyTypeOK
<1>14. CASE OpenRefused(t)
  BY <1>0, <1>14 DEF OpenRefused, AfterSplit, OpenSplit, KeyTypeOK, Steps
<1>15. CASE job[t] = "host" /\ LegsCached(t)
  BY <1>0, <1>15 DEF LegsCached, Take, legVars, KeyTypeOK, Steps
<1>16. CASE Crash(t)
  BY <1>0, <1>16 DEF Crash, Syncing, OpenSplit, PutSplit, KeyTypeOK, Steps
<1>17. QED
  BY KeyMoves, <1>1, <1>2, <1>3, <1>4, <1>5, <1>6, <1>7, <1>8, <1>9, <1>10, <1>11, <1>12, <1>13,
     <1>14, <1>15, <1>16

\* No step of one job leads into the steps of another.
LEMMA OwnStepsKept ==
  ASSUME KeyInv, NEW t \in Tasks, KeyMove(t)
  PROVE  OwnSteps'
<1> USE DEF Goto, Paths, CaSteps, HostSteps, SplitSteps
<1>0. /\ KeyTypeOK /\ OwnSteps /\ OneWriter /\ Anchored /\ Held /\ Synced
      /\ Parsed("ca") \in Keys /\ Parsed("host") \in Keys /\ NoKey \in Keys
      /\ \A u \in Tasks : Fresh(u) \in Keys /\ Fresh(u) # NoKey
      /\ \A u \in Tasks : Fresh(u) = Fresh(t) => u = t
      /\ cached' \in {cached, NoKey}
  BY KeyMoves, FreshKey, FileParsed DEF KeyInv, Keys
<1>1. CASE load_or_generate(t)
  BY <1>0, <1>1, FileType DEF load_or_generate, OwnSteps, KeyTypeOK
<1>2. CASE load_ca_file(t)
  BY <1>0, <1>2, FileType DEF load_ca_file, Take, Fail, OwnSteps, KeyTypeOK
<1>3. CASE persist_ca_0600(t)
  BY <1>0, <1>3, FileType DEF persist_ca_0600, Put, OwnSteps, KeyTypeOK
<1>4. CASE PersistWritten(t)
  BY <1>0, <1>4, FileType DEF PersistWritten, Put, Take, OwnSteps, KeyTypeOK
<1>5. CASE load_ca_file_with_retry(t)
  BY <1>0, <1>5, FileType DEF load_ca_file_with_retry, Take, Fail, OwnSteps, KeyTypeOK
<1>6. CASE sync_split_pems(t, "crt")
  BY <1>0, <1>6, FileType DEF sync_split_pems, AfterSplit, OpenSplit, OwnSteps, KeyTypeOK
<1>7. CASE sync_split_pems(t, "key")
  BY <1>0, <1>7, FileType DEF sync_split_pems, AfterSplit, OpenSplit, OwnSteps, KeyTypeOK
<1>8. CASE write_with_mode(t, "crt")
  BY <1>0, <1>8, FileType DEF write_with_mode, Put, AfterSplit, OpenSplit, PutSplit, OwnSteps, KeyTypeOK
<1>9. CASE write_with_mode(t, "key")
  BY <1>0, <1>9, FileType DEF write_with_mode, Put, AfterSplit, OpenSplit, PutSplit, OwnSteps, KeyTypeOK
<1>10. CASE load_or_generate_host_key(t)
  BY <1>0, <1>10, FileType DEF load_or_generate_host_key, Take, Fail, OwnSteps, KeyTypeOK
<1>11. CASE generate_host_key(t)
  BY <1>0, <1>11, FileType DEF generate_host_key, Put, OwnSteps, KeyTypeOK
<1>12. CASE HostWritten(t)
  BY <1>0, <1>12, FileType DEF HostWritten, Put, Take, OwnSteps, KeyTypeOK
<1>13. CASE load_or_generate_client_pair(t)
  BY <1>0, <1>13, FileType DEF load_or_generate_client_pair, Put, PairSteps, OwnSteps, KeyTypeOK
<1>14. CASE OpenRefused(t)
  BY <1>0, <1>14, FileType DEF OpenRefused, AfterSplit, OpenSplit, OwnSteps, KeyTypeOK
<1>15. CASE job[t] = "host" /\ LegsCached(t)
  BY <1>0, <1>15, FileType DEF LegsCached, Take, legVars, OwnSteps, KeyTypeOK
<1>16. CASE Crash(t)
  BY <1>0, <1>16, FileType DEF Crash, Syncing, OpenSplit, PutSplit, OwnSteps, KeyTypeOK
<1>17. QED
  BY KeyMoves, <1>1, <1>2, <1>3, <1>4, <1>5, <1>6, <1>7, <1>8, <1>9, <1>10, <1>11, <1>12, <1>13,
     <1>14, <1>15, <1>16

\* create_new elects one writer per file: a file that is being filled is
\* opened by nobody else, and a killed writer's file is filled by nobody.
LEMMA OneWriterKept ==
  ASSUME KeyInv, NEW t \in Tasks, KeyMove(t)
  PROVE  OneWriter'
<1> USE DEF Goto, Paths, CaSteps, HostSteps, SplitSteps
<1>0. /\ KeyTypeOK /\ OwnSteps /\ OneWriter /\ Anchored /\ Held /\ Synced
      /\ Parsed("ca") \in Keys /\ Parsed("host") \in Keys /\ NoKey \in Keys
      /\ \A u \in Tasks : Fresh(u) \in Keys /\ Fresh(u) # NoKey
      /\ \A u \in Tasks : Fresh(u) = Fresh(t) => u = t
      /\ cached' \in {cached, NoKey}
  BY KeyMoves, FreshKey, FileParsed DEF KeyInv, Keys
<1>1. CASE load_or_generate(t)
  BY <1>0, <1>1, FileType DEF load_or_generate, OneWriter, KeyTypeOK, Fresh
<1>2. CASE load_ca_file(t)
  BY <1>0, <1>2, FileType DEF load_ca_file, Take, Fail, OneWriter, KeyTypeOK, Fresh
<1>3. CASE persist_ca_0600(t)
  BY <1>0, <1>3, FileType DEF persist_ca_0600, Put, OneWriter, KeyTypeOK, Fresh
<1>4. CASE PersistWritten(t)
  BY <1>0, <1>4, FileType DEF PersistWritten, Put, Take, OneWriter, KeyTypeOK, Fresh
<1>5. CASE load_ca_file_with_retry(t)
  BY <1>0, <1>5, FileType DEF load_ca_file_with_retry, Take, Fail, OneWriter, KeyTypeOK, Fresh
<1>6. CASE sync_split_pems(t, "crt")
  BY <1>0, <1>6, FileType DEF sync_split_pems, AfterSplit, OpenSplit, OneWriter, KeyTypeOK, Fresh
<1>7. CASE sync_split_pems(t, "key")
  BY <1>0, <1>7, FileType DEF sync_split_pems, AfterSplit, OpenSplit, OneWriter, KeyTypeOK, Fresh
<1>8. CASE write_with_mode(t, "crt")
  BY <1>0, <1>8, FileType DEF write_with_mode, Put, AfterSplit, OpenSplit, PutSplit, OneWriter, KeyTypeOK, Fresh
<1>9. CASE write_with_mode(t, "key")
  BY <1>0, <1>9, FileType DEF write_with_mode, Put, AfterSplit, OpenSplit, PutSplit, OneWriter, KeyTypeOK, Fresh
<1>10. CASE load_or_generate_host_key(t)
  BY <1>0, <1>10, FileType DEF load_or_generate_host_key, Take, Fail, OneWriter, KeyTypeOK, Fresh
<1>11. CASE generate_host_key(t)
  BY <1>0, <1>11, FileType DEF generate_host_key, Put, OneWriter, KeyTypeOK, Fresh
<1>12. CASE HostWritten(t)
  BY <1>0, <1>12, FileType DEF HostWritten, Put, Take, OneWriter, KeyTypeOK, Fresh
<1>13. CASE load_or_generate_client_pair(t)
  BY <1>0, <1>13, FileType DEF load_or_generate_client_pair, Put, PairSteps, OneWriter, KeyTypeOK, Fresh
<1>14. CASE OpenRefused(t)
  BY <1>0, <1>14, FileType DEF OpenRefused, AfterSplit, OpenSplit, OneWriter, KeyTypeOK, Fresh
<1>15. CASE job[t] = "host" /\ LegsCached(t)
  BY <1>0, <1>15, FileType DEF LegsCached, Take, legVars, OneWriter, KeyTypeOK, Fresh
<1>16. CASE Crash(t)
  BY <1>0, <1>16, FileType DEF Crash, Syncing, OpenSplit, PutSplit, OneWriter, KeyTypeOK, Fresh
<1>17. QED
  BY KeyMoves, <1>1, <1>2, <1>3, <1>4, <1>5, <1>6, <1>7, <1>8, <1>9, <1>10, <1>11, <1>12, <1>13,
     <1>14, <1>15, <1>16

\* The first key returned is the key in the file, from then on.
LEMMA AnchoredKept ==
  ASSUME KeyInv, NEW t \in Tasks, KeyMove(t)
  PROVE  Anchored'
<1> USE DEF Goto, Paths, CaSteps, HostSteps, SplitSteps
<1>0. /\ KeyTypeOK /\ OwnSteps /\ OneWriter /\ Anchored /\ Held /\ Synced
      /\ Parsed("ca") \in Keys /\ Parsed("host") \in Keys /\ NoKey \in Keys
      /\ \A u \in Tasks : Fresh(u) \in Keys /\ Fresh(u) # NoKey
      /\ \A u \in Tasks : Fresh(u) = Fresh(t) => u = t
      /\ cached' \in {cached, NoKey}
  BY KeyMoves, FreshKey, FileParsed DEF KeyInv, Keys
<1>1. CASE load_or_generate(t)
  BY <1>0, <1>1, FileType DEF load_or_generate, Anchored, Parsed, OneWriter, KeyTypeOK
<1>2. CASE load_ca_file(t)
  BY <1>0, <1>2, FileType DEF load_ca_file, Take, Fail, Anchored, Parsed, OneWriter, KeyTypeOK
<1>3. CASE persist_ca_0600(t)
  BY <1>0, <1>3, FileType DEF persist_ca_0600, Put, Anchored, Parsed, OneWriter, KeyTypeOK
<1>4. CASE PersistWritten(t)
  BY <1>0, <1>4, FileType DEF PersistWritten, Put, Take, Anchored, Parsed, OneWriter, KeyTypeOK
<1>5. CASE load_ca_file_with_retry(t)
  BY <1>0, <1>5, FileType DEF load_ca_file_with_retry, Take, Fail, Anchored, Parsed, OneWriter, KeyTypeOK
<1>6. CASE sync_split_pems(t, "crt")
  BY <1>0, <1>6, FileType DEF sync_split_pems, AfterSplit, OpenSplit, Anchored, Parsed, OneWriter, KeyTypeOK
<1>7. CASE sync_split_pems(t, "key")
  BY <1>0, <1>7, FileType DEF sync_split_pems, AfterSplit, OpenSplit, Anchored, Parsed, OneWriter, KeyTypeOK
<1>8. CASE write_with_mode(t, "crt")
  BY <1>0, <1>8, FileType DEF write_with_mode, Put, AfterSplit, OpenSplit, PutSplit, Anchored, Parsed, OneWriter, KeyTypeOK
<1>9. CASE write_with_mode(t, "key")
  BY <1>0, <1>9, FileType DEF write_with_mode, Put, AfterSplit, OpenSplit, PutSplit, Anchored, Parsed, OneWriter, KeyTypeOK
<1>10. CASE load_or_generate_host_key(t)
  BY <1>0, <1>10, FileType DEF load_or_generate_host_key, Take, Fail, Anchored, Parsed, OneWriter, KeyTypeOK
<1>11. CASE generate_host_key(t)
  BY <1>0, <1>11, FileType DEF generate_host_key, Put, Anchored, Parsed, OneWriter, KeyTypeOK
<1>12. CASE HostWritten(t)
  BY <1>0, <1>12, FileType DEF HostWritten, Put, Take, Anchored, Parsed, OneWriter, KeyTypeOK
<1>13. CASE load_or_generate_client_pair(t)
  BY <1>0, <1>13, FileType DEF load_or_generate_client_pair, Put, PairSteps, Anchored, Parsed, OneWriter, KeyTypeOK
<1>14. CASE OpenRefused(t)
  BY <1>0, <1>14, FileType DEF OpenRefused, AfterSplit, OpenSplit, Anchored, Parsed, OneWriter, KeyTypeOK
<1>15. CASE job[t] = "host" /\ LegsCached(t)
  BY <1>0, <1>15, FileType DEF LegsCached, Take, legVars, Anchored, Held, Parsed, KeyTypeOK
<1>16. CASE Crash(t)
  BY <1>0, <1>16, FileType DEF Crash, Syncing, OpenSplit, PutSplit, Anchored, Parsed, OneWriter, KeyTypeOK
<1>17. QED
  BY KeyMoves, <1>1, <1>2, <1>3, <1>4, <1>5, <1>6, <1>7, <1>8, <1>9, <1>10, <1>11, <1>12, <1>13,
     <1>14, <1>15, <1>16

\* Every other key returned, cached keys included, is the one in the file.
LEMMA HeldKept ==
  ASSUME KeyInv, NEW t \in Tasks, KeyMove(t)
  PROVE  Held'
<1> USE DEF Goto, Paths, CaSteps, HostSteps, SplitSteps
<1>0. /\ KeyTypeOK /\ OwnSteps /\ OneWriter /\ Anchored /\ Held /\ Synced
      /\ Parsed("ca") \in Keys /\ Parsed("host") \in Keys /\ NoKey \in Keys
      /\ \A u \in Tasks : Fresh(u) \in Keys /\ Fresh(u) # NoKey
      /\ \A u \in Tasks : Fresh(u) = Fresh(t) => u = t
      /\ cached' \in {cached, NoKey}
  BY KeyMoves, FreshKey, FileParsed DEF KeyInv, Keys
<1>1. CASE load_or_generate(t)
  BY <1>0, <1>1, FileType DEF load_or_generate, Held, Anchored, Parsed, OneWriter, OwnSteps, KeyTypeOK
<1>2. CASE load_ca_file(t)
  BY <1>0, <1>2, FileType DEF load_ca_file, Take, Fail, Held, Anchored, Parsed, OneWriter, OwnSteps, KeyTypeOK
<1>3. CASE persist_ca_0600(t)
  BY <1>0, <1>3, FileType DEF persist_ca_0600, Put, Held, Anchored, Parsed, OneWriter, OwnSteps, KeyTypeOK
<1>4. CASE PersistWritten(t)
  BY <1>0, <1>4, FileType DEF PersistWritten, Put, Take, Held, Anchored, Parsed, OneWriter, OwnSteps, KeyTypeOK
<1>5. CASE load_ca_file_with_retry(t)
  BY <1>0, <1>5, FileType DEF load_ca_file_with_retry, Take, Fail, Held, Anchored, Parsed, OneWriter, OwnSteps, KeyTypeOK
<1>6. CASE sync_split_pems(t, "crt")
  BY <1>0, <1>6, FileType DEF sync_split_pems, AfterSplit, OpenSplit, Held, Anchored, Parsed, OneWriter, OwnSteps, KeyTypeOK
<1>7. CASE sync_split_pems(t, "key")
  BY <1>0, <1>7, FileType DEF sync_split_pems, AfterSplit, OpenSplit, Held, Anchored, Parsed, OneWriter, OwnSteps, KeyTypeOK
<1>8. CASE write_with_mode(t, "crt")
  BY <1>0, <1>8, FileType DEF write_with_mode, Put, AfterSplit, OpenSplit, PutSplit, Held, Anchored, Parsed, OneWriter, OwnSteps, KeyTypeOK
<1>9. CASE write_with_mode(t, "key")
  BY <1>0, <1>9, FileType DEF write_with_mode, Put, AfterSplit, OpenSplit, PutSplit, Held, Anchored, Parsed, OneWriter, OwnSteps, KeyTypeOK
<1>10. CASE load_or_generate_host_key(t)
  BY <1>0, <1>10, FileType DEF load_or_generate_host_key, Take, Fail, Held, Anchored, Parsed, OneWriter, OwnSteps, KeyTypeOK
<1>11. CASE generate_host_key(t)
  BY <1>0, <1>11, FileType DEF generate_host_key, Put, Held, Anchored, Parsed, OneWriter, OwnSteps, KeyTypeOK
<1>12. CASE HostWritten(t)
  BY <1>0, <1>12, FileType DEF HostWritten, Put, Take, Held, Anchored, Parsed, OneWriter, OwnSteps, KeyTypeOK
<1>13. CASE load_or_generate_client_pair(t)
  BY <1>0, <1>13, FileType DEF load_or_generate_client_pair, Put, PairSteps, Held, Anchored, Parsed, OneWriter, OwnSteps, KeyTypeOK
<1>14. CASE OpenRefused(t)
  BY <1>0, <1>14, FileType DEF OpenRefused, AfterSplit, OpenSplit, Held, Anchored, Parsed, OneWriter, OwnSteps, KeyTypeOK
<1>15. CASE job[t] = "host" /\ LegsCached(t)
  BY <1>0, <1>15, FileType DEF LegsCached, Take, legVars, Held, Anchored, Parsed, OneWriter, OwnSteps, KeyTypeOK
<1>16. CASE Crash(t)
  BY <1>0, <1>16, FileType DEF Crash, Syncing, OpenSplit, PutSplit, Held, Anchored, Parsed, OneWriter, OwnSteps, KeyTypeOK
<1>17. QED
  BY KeyMoves, <1>1, <1>2, <1>3, <1>4, <1>5, <1>6, <1>7, <1>8, <1>9, <1>10, <1>11, <1>12, <1>13,
     <1>14, <1>15, <1>16

\* Behind a task that synced them the split files are right, or about to be.
LEMMA SyncedKept ==
  ASSUME KeyInv, NEW t \in Tasks, KeyMove(t)
  PROVE  Synced'
<1> USE DEF Goto, Paths, CaSteps, HostSteps, SplitSteps
<1>0. /\ KeyTypeOK /\ OwnSteps /\ OneWriter /\ Anchored /\ Held /\ Synced
      /\ Parsed("ca") \in Keys /\ Parsed("host") \in Keys /\ NoKey \in Keys
      /\ \A u \in Tasks : Fresh(u) \in Keys /\ Fresh(u) # NoKey
      /\ \A u \in Tasks : Fresh(u) = Fresh(t) => u = t
      /\ cached' \in {cached, NoKey}
  BY KeyMoves, FreshKey, FileParsed DEF KeyInv, Keys
<1>1. CASE load_or_generate(t)
  BY <1>0, <1>1, FileType DEF load_or_generate, Synced, Held, Anchored, OwnSteps, KeyTypeOK
<1>2. CASE load_ca_file(t)
  BY <1>0, <1>2, FileType DEF load_ca_file, Take, Fail, Synced, Held, Anchored, OwnSteps, KeyTypeOK
<1>3. CASE persist_ca_0600(t)
  BY <1>0, <1>3, FileType DEF persist_ca_0600, Put, Synced, Held, Anchored, OwnSteps, KeyTypeOK
<1>4. CASE PersistWritten(t)
  BY <1>0, <1>4, FileType DEF PersistWritten, Put, Take, Synced, Held, Anchored, OwnSteps, KeyTypeOK
<1>5. CASE load_ca_file_with_retry(t)
  BY <1>0, <1>5, FileType DEF load_ca_file_with_retry, Take, Fail, Synced, Held, Anchored, OwnSteps, KeyTypeOK
<1>6. CASE sync_split_pems(t, "crt")
  BY <1>0, <1>6, FileType DEF sync_split_pems, AfterSplit, OpenSplit, Synced, Held, Anchored, OwnSteps, KeyTypeOK
<1>7. CASE sync_split_pems(t, "key")
  BY <1>0, <1>7, FileType DEF sync_split_pems, AfterSplit, OpenSplit, Synced, Held, Anchored, OwnSteps, KeyTypeOK
<1>8. CASE write_with_mode(t, "crt")
  BY <1>0, <1>8, FileType DEF write_with_mode, Put, AfterSplit, OpenSplit, PutSplit, Synced, Held, Anchored, OwnSteps, KeyTypeOK
<1>9. CASE write_with_mode(t, "key")
  BY <1>0, <1>9, FileType DEF write_with_mode, Put, AfterSplit, OpenSplit, PutSplit, Synced, Held, Anchored, OwnSteps, KeyTypeOK
<1>10. CASE load_or_generate_host_key(t)
  <2>1. /\ job[t] = "host" /\ at[t] = "start" /\ UNCHANGED <<job, files, since>>
        /\ \E p \in {"hcreate", "ready", "failed"} : at' = [at EXCEPT ![t] = p]
        /\ anchor' = anchor \/ anchor' = [anchor EXCEPT !["host"] = Parsed("host")]
    BY <1>0, <1>10 DEF load_or_generate_host_key, Take, Fail, Held, Anchored, KeyTypeOK
  <2>2. anchor'["ca"] = anchor["ca"] /\ at \in [Tasks -> Steps] /\ since \subseteq Tasks
    BY <1>0, <2>1 DEF KeyTypeOK
  <2>3. t \notin since /\ at[t] \notin {"putcrt", "putkey"} /\ \A u \in Tasks \ {t} : at'[u] = at[u]
    BY <1>0, <2>1, <2>2 DEF Synced
  <2>4. QED
    BY <1>0, <2>1, <2>2, <2>3 DEF Synced
<1>11. CASE generate_host_key(t)
  BY <1>0, <1>11, FileType DEF generate_host_key, Put, Synced, Held, Anchored, OwnSteps, KeyTypeOK
<1>12. CASE HostWritten(t)
  BY <1>0, <1>12, FileType DEF HostWritten, Put, Take, Synced, Held, Anchored, OwnSteps, KeyTypeOK
<1>13. CASE load_or_generate_client_pair(t)
  BY <1>0, <1>13, FileType DEF load_or_generate_client_pair, Put, PairSteps, Synced, Held, Anchored, OwnSteps, KeyTypeOK
<1>14. CASE OpenRefused(t)
  BY <1>0, <1>14, FileType DEF OpenRefused, AfterSplit, OpenSplit, Synced, Held, Anchored, OwnSteps, KeyTypeOK
<1>15. CASE job[t] = "host" /\ LegsCached(t)
  BY <1>0, <1>15, FileType DEF LegsCached, Take, legVars, Synced, Held, Anchored, OwnSteps, KeyTypeOK
<1>16. CASE Crash(t)
  BY <1>0, <1>16, FileType DEF Crash, Syncing, OpenSplit, PutSplit, Synced, Held, Anchored, OwnSteps, KeyTypeOK
<1>17. QED
  BY KeyMoves, <1>1, <1>2, <1>3, <1>4, <1>5, <1>6, <1>7, <1>8, <1>9, <1>10, <1>11, <1>12, <1>13,
     <1>14, <1>15, <1>16

\* Every step on the key files keeps the invariant.
LEMMA KeyMoveInv ==
  ASSUME KeyInv, NEW t \in Tasks, KeyMove(t)
  PROVE  KeyInv'
  BY KeyTypeKept, OwnStepsKept, OneWriterKept, AnchoredKept, HeldKept, SyncedKept DEF KeyInv

\* Steps that touch no key file: a connection that caches its keys, and the
\* rest of the two legs.
LEMMA LegMoveInv ==
  ASSUME KeyInv, UNCHANGED keyVars,
         cached' # cached => \E c \in Tasks : job[c] = "host" /\ at[c] = "ready" /\ cached' = got[c]
  PROVE  KeyInv'
<1> USE DEF keyVars
<1>1. KeyTypeOK'
  BY DEF KeyInv, KeyTypeOK
<1>2. OwnSteps' /\ OneWriter' /\ Anchored' /\ Synced'
  BY DEF KeyInv, OwnSteps, OneWriter, Anchored, Synced, Fresh, Parsed
<1>3. Held'
  BY DEF KeyInv, Held
<1>4. QED
  BY <1>1, <1>2, <1>3 DEF KeyInv

\* Every step of a connection, of a task, of a server or of a kill is one of
\* the two.
LEMMA KeyNextInv == KeyInv /\ [Next]_vars => KeyInv'
<1>1. SUFFICES ASSUME KeyInv, [Next]_vars PROVE KeyInv'
  OBVIOUS
<1>2. ASSUME NEW t \in Tasks, (KeyStep(t) /\ UNCHANGED legVars) \/ Restart(t)
      PROVE  KeyInv'
  <2>1. KeyMove(t)
    BY <1>2 DEF KeyMove, Restart, legVars
  <2>2. QED
    BY <1>1, <2>1, KeyMoveInv
<1>3. ASSUME NEW c \in Conns, ConnStep(c)
      PROVE  KeyInv'
  <2>1. CASE LegsCached(c)
    <3>1. KeyMove(c)
      BY <2>1 DEF KeyMove, Conns
    <3>2. QED
      BY <1>1, <3>1, KeyMoveInv DEF Conns
  <2>2. CASE LegsLoaded(c)
    BY <1>1, <2>2, LegMoveInv DEF LegsLoaded, Conns
  <2>3. CASE UNCHANGED <<keyVars, cached>>
    BY <1>1, <2>3, LegMoveInv
  <2>4. QED
    BY <1>3, <2>1, <2>2, <2>3
    DEF ConnStep, OnlyLeg, Bridge, auth_publickey_offered, auth_publickey, auth_password, channel_open_session,
        Connect, verify_server_key, append_known_host, Authenticate, Elapsed, OpenRemote, GuestSends, ServerSends,
        ServerLost, Pumps, forward_guest_message, PumpBack, PumpEnds
<1>4. ASSUME NEW n \in Names, Rekey(n)
      PROVE  KeyInv'
  BY <1>1, <1>4, LegMoveInv DEF Rekey
<1>5. CASE UNCHANGED vars
  BY <1>1, <1>5, LegMoveInv DEF vars, legVars
<1>6. QED
  BY <1>1, <1>2, <1>3, <1>4, <1>5 DEF Next

\* One trust anchor and one host key, however many processes race for them
\* and wherever they are killed; and a start that gets through repairs what a
\* killed one left of the split files (load_or_generate and sync_split_pems,
\* ca.rs; load_or_generate_host_key, ssh.rs).
THEOREM KeysKept == Spec => []KeyFilesKept
<1>1. KeyInv => KeyFilesKept
  <2>1. SUFFICES ASSUME KeyInv PROVE KeyFilesKept
    OBVIOUS
  <2>2. OneAuthority /\ HostKeyKept
    BY <2>1 DEF KeyInv, Held, OneAuthority, HostKeyKept
  <2>3. ASSUME \A t \in Tasks : job[t] = "ca" => at[t] \in {"start", "ready", "failed"}
        PROVE  \A u \in Tasks : at[u] \notin {"putcrt", "putkey"}
    BY <2>1, <2>3 DEF KeyInv, OwnSteps, CaSteps
  <2>4. SplitRepaired
    BY <2>1, <2>3 DEF KeyInv, Synced, SplitRepaired
  <2>5. QED
    BY <2>2, <2>4 DEF KeyFilesKept
<1>2. QED
  BY <1>1, KeyInitInv, KeyNextInv, PTL DEF Spec

-----------------------------------------------------------------------------
(* The two legs.                                                           *)

\* The steps of a connection that move its legs.
LegMove(c) ==
  \/ LegsLoaded(c)
  \/ \E u \in Users, k \in {"decoy", "other"} : auth_publickey_offered(c, u, k) \/ auth_publickey(c, u, k)
  \/ auth_password(c) \/ channel_open_session(c) \/ Connect(c) \/ verify_server_key(c)
  \/ append_known_host(c) \/ Authenticate(c) \/ Elapsed(c) \/ OpenRemote(c)

\* A step moves the legs of one connection, loses them all, changes a
\* server's key, or leaves the legs, the pins and the servers as they are.
LEMMA LegMoves ==
  ASSUME [Next]_vars
  PROVE  /\ UNCHANGED job
         /\ \/ \E c \in Conns : LegMove(c)
            \/ \E t \in Tasks : Restart(t)
            \/ \E n \in Names : Rekey(n)
            \/ UNCHANGED <<leg, pins, server>>
<1>1. ASSUME NEW t \in Tasks, KeyStep(t), UNCHANGED legVars
      PROVE  UNCHANGED job /\ UNCHANGED <<leg, pins, server>>
  BY <1>1 DEF legVars, KeyStep, load_or_generate, load_ca_file, persist_ca_0600, PersistWritten,
       load_ca_file_with_retry, sync_split_pems, write_with_mode, load_or_generate_host_key, generate_host_key,
       HostWritten, load_or_generate_client_pair, OpenRefused
<1>2. ASSUME NEW t \in Tasks, Restart(t)
      PROVE  UNCHANGED job
  BY <1>2 DEF Restart, Crash
<1>3. ASSUME NEW c \in Conns, ConnStep(c)
      PROVE  UNCHANGED job /\ (LegMove(c) \/ UNCHANGED <<leg, pins, server>>)
  <2>1. CASE LegMove(c)
    BY <2>1 DEF LegMove, LegsLoaded, keyVars, OnlyLeg, auth_publickey_offered, auth_publickey, auth_password,
         channel_open_session, Connect, verify_server_key, append_known_host, Authenticate, Elapsed, OpenRemote
  <2>2. CASE ~LegMove(c)
    BY <1>3, <2>2 DEF ConnStep, LegMove, LegsCached, legVars, keyVars, GuestSends, ServerSends, ServerLost,
         Pumps, forward_guest_message, PumpBack, PumpEnds, Bridge
  <2>3. QED
    BY <2>1, <2>2
<1>4. ASSUME NEW n \in Names, Rekey(n)
      PROVE  UNCHANGED job
  BY <1>4 DEF Rekey, keyVars
<1>5. CASE UNCHANGED vars
  BY <1>5 DEF vars, keyVars, legVars
<1>6. QED
  BY <1>1, <1>2, <1>3, <1>4, <1>5 DEF Next

\* A leg of a connection just begun, and one that has ended.
LEMMA LegTypes ==
  ASSUME NEW n \in Names, NEW l \in LegRecord
  PROVE  /\ NewLeg(n) \in LegRecord /\ NewLeg(n).at = "auth" /\ NewLeg(n).as = "" /\ NewLeg(n).name = n
         /\ Ended(l) \in LegRecord /\ Ended(l).at = "ended" /\ Ended(l).as = "" /\ Ended(l).name = l.name
  BY DEF NewLeg, Ended, LegRecord, Marks, Lines

\* Connections begin unsigned, with no server pinned.
LEMMA LegInitInv == Init => IdentityInv /\ DialInv
<1>1. SUFFICES ASSUME Init PROVE IdentityInv /\ DialInv
  OBVIOUS
<1>2. PICK names \in [Tasks -> Names] : leg = [t \in Tasks |-> NewLeg(names[t])]
  BY <1>1 DEF Init, LegInit
<1>3. \A t \in Tasks : leg[t] \in LegRecord /\ leg[t].at = "auth" /\ leg[t].as = ""
  BY <1>2 DEF NewLeg, LegRecord, Marks, Lines
<1>4. LegTypeOK
  BY <1>1, <1>2, <1>3, HostKeysAssumption DEF Init, LegInit, LegTypeOK, Lines
<1>5. Signed
  BY <1>3 DEF Signed
<1>6. OneDial /\ Pinned
  BY <1>1, <1>3 DEF Init, LegInit, OneDial, Pinned, PinOk, PinsFirst, Conns, Dialling
<1>7. QED
  BY <1>4, <1>5, <1>6 DEF IdentityInv, DialInv

\* A connection's leg is replaced, the others stay.
LEMMA LegReplaced ==
  ASSUME LegTypeOK, NEW c \in Tasks, NEW l \in LegRecord, Leg(c, l)
  PROVE  /\ leg' \in [Tasks -> LegRecord] /\ leg'[c] = l
         /\ \A d \in Tasks \ {c} : leg'[d] = leg[d]
  BY DEF LegTypeOK, Leg

\* A leg that is moved on keeps everything but its place.
LEMMA LegStepped ==
  ASSUME LegTypeOK, NEW c \in Tasks, NEW s \in Marks, Step(c, s)
  PROVE  /\ leg' \in [Tasks -> LegRecord] /\ leg'[c].at = s /\ leg'[c].name = leg[c].name
         /\ \A d \in Tasks \ {c} : leg'[d] = leg[d]
         /\ s = "ended" => leg'[c].as = ""
         /\ s # "ended" => /\ leg'[c].user = leg[c].user /\ leg'[c].proven = leg[c].proven
                           /\ leg'[c].as = leg[c].as /\ leg'[c].seen = leg[c].seen /\ leg'[c].text = leg[c].text
<1>1. leg[c] \in LegRecord
  BY DEF LegTypeOK
<1>2. CASE s = "ended"
  <2>1. leg[c].name \in Names
    BY <1>1 DEF LegRecord
  <2>2. Ended(leg[c]) \in LegRecord /\ Ended(leg[c]).at = "ended" /\ Ended(leg[c]).as = ""
        /\ Ended(leg[c]).name = leg[c].name
    BY <1>1, <2>1, LegTypes
  <2>3. QED
    BY <1>2, <2>2, LegReplaced DEF Step
<1>3. CASE s # "ended"
  <2> DEFINE l == [leg[c] EXCEPT !.at = s]
  <2>1. /\ l \in LegRecord /\ l.at = s /\ l.name = leg[c].name /\ l.user = leg[c].user
        /\ l.proven = leg[c].proven /\ l.as = leg[c].as /\ l.seen = leg[c].seen /\ l.text = leg[c].text
    BY <1>1 DEF LegRecord
  <2>2. Leg(c, l)
    BY <1>3 DEF Step
  <2>3. QED
    BY <1>3, <2>1, <2>2, LegReplaced
<1>4. QED
  BY <1>2, <1>3

\* Accepting a server's key records it, the first time, and no other.
LEMMA AcceptedFirst ==
  ASSUME LegTypeOK, NEW c, NEW n \in Names, NEW k \in HostKeys \cup {""}, Accepted(c, n, k)
  PROVE  /\ server' \in [now : [Names -> HostKeys], first : [Names -> HostKeys \cup {""}]]
         /\ server'.first[n] = IF server.first[n] = "" THEN k ELSE server.first[n]
         /\ \A m \in Names \ {n} : server'.first[m] = server.first[m]
  BY DEF LegTypeOK, Accepted

-----------------------------------------------------------------------------
(* What each step of a leg does to it, to the pins and to the servers.     *)

Others(c) == \A d \in Tasks \ {c} : leg'[d] = leg[d]
Same(c) == leg'[c].proven = leg[c].proven /\ leg'[c].as = leg[c].as /\ leg'[c].user = leg[c].user

\* A leg that ends: it presents no identity any more.
ToEnd(c) == leg'[c].at = "ended" /\ leg'[c].as = "" /\ UNCHANGED <<pins, server>>
\* The guest signs with the decoy key, or is rejected.
ToSigned(c) == /\ leg[c].at = "auth" /\ UNCHANGED <<pins, server>>
               /\ \/ leg'[c].at = "auth" /\ Same(c)
                  \/ /\ leg'[c].at = "open" /\ leg'[c].as = leg[c].as
                     /\ leg'[c].proven = <<leg'[c].user, "decoy">>
\* Between a channel request and the channel to the server, but for the dial.
ToChannel(c) == /\ leg[c].at \in {"open", "channel"} /\ leg'[c].at \in {"open", "channel"}
                /\ Same(c) /\ UNCHANGED <<pins, server>>
ToDial(c) == /\ leg[c].at = "open" /\ leg'[c].at = "dial" /\ Same(c) /\ UNCHANGED <<pins, server>>
             /\ Cardinality({d \in Conns : leg[d].at \in Dialling}) < MaxDials
ToVerify(c) == /\ leg[c].at = "dial" /\ leg'[c].at = "verify" /\ leg'[c].seen \in HostKeys
               /\ Same(c) /\ UNCHANGED <<pins, server>>
\* The key shown is among the pins, or there are none.
Shown(c) == leg[c].seen \in pinned_host_keys(leg[c].name)
ToKnown(c) == /\ leg[c].at = "verify" /\ leg'[c].at = "identify" /\ leg'[c].seen = leg[c].seen
              /\ Same(c) /\ UNCHANGED pins /\ Shown(c) /\ Accepted(c, leg[c].name, leg[c].seen)
ToRead(c) == /\ leg[c].at = "verify" /\ leg'[c].at = "read" /\ leg'[c].seen = leg[c].seen
             /\ pinned_host_keys(leg[c].name) = {} /\ Same(c) /\ UNCHANGED <<pins, server>>
ToTruncate(c) == /\ leg[c].at = "read" /\ leg'[c].at = "truncate" /\ leg'[c].seen = leg[c].seen
                 /\ leg'[c].text = pins.lines /\ Same(c) /\ UNCHANGED <<pins, server>>
ToRecord(c) == /\ leg[c].at = "truncate" /\ leg'[c].at = "record" /\ leg'[c].seen = leg[c].seen
               /\ leg'[c].text = leg[c].text /\ Same(c) /\ UNCHANGED server
               /\ pins' = [lines |-> {}, whole |-> FALSE]
ToRecorded(c) == /\ leg[c].at = "record" /\ leg'[c].at = "identify" /\ leg'[c].seen = leg[c].seen
                 /\ Same(c) /\ Accepted(c, leg[c].name, leg[c].seen)
                 /\ pins' = [lines |-> leg[c].text \cup {<<leg[c].name, leg[c].seen>>}, whole |-> TRUE]
ToIdentified(c) == /\ leg[c].at = "identify" /\ leg'[c].at = "channel" /\ leg'[c].as = leg[c].user
                   /\ leg'[c].proven = leg[c].proven /\ leg'[c].user = leg[c].user /\ UNCHANGED <<pins, server>>
Stays(c) == leg'[c] = leg[c] /\ UNCHANGED <<pins, server>>

Effect(c) ==
  \/ ToEnd(c) \/ ToSigned(c) \/ ToChannel(c) \/ ToDial(c) \/ ToVerify(c) \/ ToKnown(c) \/ ToRead(c)
  \/ ToTruncate(c) \/ ToRecord(c) \/ ToRecorded(c) \/ ToIdentified(c) \/ Stays(c)

\* Every step of a leg has one of these effects.
LEMMA LegEffect ==
  ASSUME LegTypeOK, NEW c \in Tasks, LegMove(c)
  PROVE  /\ leg' \in [Tasks -> LegRecord] /\ Others(c) /\ leg'[c].name = leg[c].name
         /\ Effect(c)
         /\ ToEnd(c) => leg[c].at \in {"auth", "dial", "verify", "identify", "channel"}
<1> DEFINE Goal == /\ leg' \in [Tasks -> LegRecord] /\ Others(c) /\ leg'[c].name = leg[c].name
                   /\ Effect(c)
                   /\ ToEnd(c) => leg[c].at \in {"auth", "dial", "verify", "identify", "channel"}
<1> SUFFICES Goal
  OBVIOUS
<1> USE DEF Others, Marks
<1>0. leg[c] \in LegRecord /\ leg \in [Tasks -> LegRecord]
  BY DEF LegTypeOK
<1>1. CASE LegsLoaded(c)
  <2>1. CASE UNCHANGED leg
    BY <1>0, <1>1, <2>1 DEF LegsLoaded, Effect, Stays, ToEnd
  <2>2. CASE Step(c, "ended")
    BY <1>0, <1>1, <2>2, LegStepped DEF LegsLoaded, Effect, ToEnd
  <2>3. QED
    BY <1>1, <2>1, <2>2 DEF LegsLoaded
<1>2. CASE \/ auth_password(c)
           \/ \E u \in Users, k \in {"decoy", "other"} :
                auth_publickey_offered(c, u, k) \/ (auth_publickey(c, u, k) /\ k # "decoy")
  <2> DEFINE l == [leg[c] EXCEPT !.tried = TRUE]
  <2>1. /\ l \in LegRecord /\ l.at = leg[c].at /\ l.name = leg[c].name /\ l.user = leg[c].user
        /\ l.proven = leg[c].proven /\ l.as = leg[c].as
    BY <1>0 DEF LegRecord
  <2>2. Leg(c, l) /\ leg[c].at = "auth" /\ UNCHANGED <<pins, server>>
    BY <1>2 DEF auth_publickey_offered, auth_password, auth_publickey, Serving, OnlyLeg
  <2>3. QED
    BY <2>1, <2>2, LegReplaced DEF Effect, ToSigned, Same, ToEnd
<1>3. ASSUME NEW u \in Users, auth_publickey(c, u, "decoy")
      PROVE  Goal
  <2> DEFINE l == [leg[c] EXCEPT !.user = u, !.proven = <<u, "decoy">>, !.tried = FALSE, !.at = "open"]
  <2>1. /\ l \in LegRecord /\ l.at = "open" /\ l.name = leg[c].name
        /\ l.proven = <<l.user, "decoy">> /\ l.as = leg[c].as
    BY <1>0 DEF LegRecord
  <2>2. Leg(c, l) /\ leg[c].at = "auth" /\ UNCHANGED <<pins, server>>
    BY <1>3 DEF auth_publickey, Serving, OnlyLeg
  <2>3. QED
    BY <2>1, <2>2, LegReplaced DEF Effect, ToSigned, ToEnd
<1>4. CASE channel_open_session(c)
  <2>1. PICK s \in {"dial", "channel"} : Step(c, s)
    BY <1>4 DEF channel_open_session
  <2>2. leg[c].at = "open" /\ UNCHANGED <<pins, server>> /\ Cardinality({d \in Conns : leg[d].at \in Dialling}) < MaxDials
    BY <1>4 DEF channel_open_session, Serving, OnlyLeg
  <2>3. QED
    BY <2>1, <2>2, LegStepped DEF Effect, ToDial, ToChannel, Same, ToEnd
<1>5. CASE Connect(c)
  <2> DEFINE l == [leg[c] EXCEPT !.at = "verify", !.seen = server.now[leg[c].name]]
  <2>1. server.now[leg[c].name] \in HostKeys
    BY <1>0 DEF LegTypeOK, LegRecord
  <2>2. /\ l \in LegRecord /\ l.at = "verify" /\ l.name = leg[c].name /\ l.user = leg[c].user
        /\ l.proven = leg[c].proven /\ l.as = leg[c].as /\ l.seen \in HostKeys
    BY <1>0, <2>1 DEF LegRecord
  <2>3. Leg(c, l) /\ leg[c].at = "dial" /\ UNCHANGED <<pins, server>>
    BY <1>5 DEF Connect, Serving, OnlyLeg
  <2>4. QED
    BY <2>2, <2>3, LegReplaced DEF Effect, ToVerify, Same, ToEnd
<1>6. CASE verify_server_key(c)
  <2>1. leg[c].at = "verify" /\ UNCHANGED pins
    BY <1>6 DEF verify_server_key, Serving
  <2>2. CASE pinned_host_keys(leg[c].name) = {}
    <3>1. Step(c, "read") /\ UNCHANGED server
      BY <1>6, <2>2 DEF verify_server_key
    <3>2. QED
      BY <2>1, <2>2, <3>1, LegStepped DEF Effect, ToRead, Same, ToEnd
  <2>3. CASE Shown(c)
    <3>1. Step(c, "identify") /\ Accepted(c, leg[c].name, leg[c].seen)
      BY <1>6, <2>3 DEF verify_server_key, Shown
    <3>2. QED
      BY <2>1, <2>3, <3>1, LegStepped DEF Effect, ToKnown, Same, ToEnd
  <2>4. CASE pinned_host_keys(leg[c].name) # {} /\ ~Shown(c)
    <3>1. Step(c, "ended") /\ UNCHANGED server
      BY <1>6, <2>4 DEF verify_server_key, Shown
    <3>2. QED
      BY <2>1, <3>1, LegStepped DEF Effect, ToEnd
  <2>5. QED
    BY <2>2, <2>3, <2>4
<1>7. CASE append_known_host(c)
  <2>1. CASE leg[c].at = "read"
    <3> DEFINE l == [leg[c] EXCEPT !.at = "truncate", !.text = pins.lines]
    <3>1. pins.lines \in Lines
      BY DEF LegTypeOK
    <3>2. /\ l \in LegRecord /\ l.at = "truncate" /\ l.name = leg[c].name /\ l.user = leg[c].user
          /\ l.proven = leg[c].proven /\ l.as = leg[c].as /\ l.seen = leg[c].seen /\ l.text = pins.lines
      BY <1>0, <3>1 DEF LegRecord
    <3>3. Leg(c, l) /\ UNCHANGED <<pins, server>>
      BY <1>7, <2>1 DEF append_known_host, Serving, OnlyLeg
    <3>4. QED
      BY <2>1, <3>2, <3>3, LegReplaced DEF Effect, ToTruncate, Same, ToEnd
  <2>2. CASE leg[c].at = "truncate"
    <3>1. Step(c, "record") /\ UNCHANGED server /\ pins' = [lines |-> {}, whole |-> FALSE]
      BY <1>7, <2>2 DEF append_known_host, Serving
    <3>2. QED
      BY <2>2, <3>1, LegStepped DEF Effect, ToRecord, Same, ToEnd
  <2>3. CASE leg[c].at = "record"
    <3> DEFINE l == [leg[c] EXCEPT !.at = "identify", !.text = {}]
    <3>1. /\ l \in LegRecord /\ l.at = "identify" /\ l.name = leg[c].name /\ l.user = leg[c].user
          /\ l.proven = leg[c].proven /\ l.as = leg[c].as /\ l.seen = leg[c].seen
      BY <1>0 DEF LegRecord, Lines
    <3>2. /\ Leg(c, l) /\ Accepted(c, leg[c].name, leg[c].seen)
          /\ pins' = [lines |-> leg[c].text \cup {<<leg[c].name, leg[c].seen>>}, whole |-> TRUE]
      BY <1>7, <2>3 DEF append_known_host, Serving
    <3>3. QED
      BY <2>3, <3>1, <3>2, LegReplaced DEF Effect, ToRecorded, Same, ToEnd
  <2>4. QED
    BY <1>7, <2>1, <2>2, <2>3 DEF append_known_host, Serving
<1>8. CASE Authenticate(c)
  <2>1. leg[c].at = "identify" /\ UNCHANGED <<pins, server>>
    BY <1>8 DEF Authenticate, Serving, OnlyLeg
  <2>2. CASE Step(c, "ended")
    BY <2>1, <2>2, LegStepped DEF Effect, ToEnd
  <2> DEFINE l == [leg[c] EXCEPT !.at = "channel", !.as = leg[c].user, !.seen = ""]
  <2>3. CASE Leg(c, l)
    <3>1. /\ l \in LegRecord /\ l.at = "channel" /\ l.name = leg[c].name /\ l.user = leg[c].user
          /\ l.proven = leg[c].proven /\ l.as = leg[c].user
      BY <1>0 DEF LegRecord
    <3>2. QED
      BY <2>1, <2>3, <3>1, LegReplaced DEF Effect, ToIdentified, ToEnd
  <2>4. QED
    BY <1>8, <2>2, <2>3 DEF Authenticate
<1>9. CASE Elapsed(c)
  <2>1. /\ leg[c].at \in {"dial", "verify", "identify", "channel"} /\ UNCHANGED <<pins, server>>
        /\ Step(c, "ended")
    BY <1>9 DEF Elapsed, Serving, OnlyLeg
  <2>2. QED
    BY <2>1, LegStepped DEF Effect, ToEnd
<1>10. CASE OpenRemote(c)
  <2>1. leg[c].at = "channel" /\ UNCHANGED <<pins, server>> /\ Step(c, "open")
    BY <1>10 DEF OpenRemote, Serving
  <2>2. QED
    BY <2>1, LegStepped DEF Effect, ToChannel, Same, ToEnd
<1>11. ASSUME NEW u \in Users, NEW k \in {"decoy", "other"}, auth_publickey(c, u, k)
       PROVE  Goal
  BY <1>2, <1>3, <1>11
<1> HIDE DEF Goal
<1>12. QED
  BY <1>1, <1>2, <1>4, <1>5, <1>6, <1>7, <1>8, <1>9, <1>10, <1>11 DEF LegMove

\* A restart keeps the types of the legs: each begins anew, or has ended,
\* or stays.
LEMMA RestartLegs ==
  ASSUME LegTypeOK, NEW t \in Tasks, Restart(t)
  PROVE  /\ leg' \in [Tasks -> LegRecord] /\ UNCHANGED <<pins, server>>
         /\ \/ job[t] # "host" /\ UNCHANGED leg
            \/ /\ job[t] = "host"
               /\ (\E c \in Conns : leg[c].at = "record") => "known_hosts" \in Interrupted
               /\ \A c \in Tasks : leg'[c].at \in {"auth", "ended"} /\ leg'[c].as = ""
<1>1. CASE job[t] # "host"
  BY <1>1 DEF Restart, LegTypeOK
<1>2. CASE job[t] = "host"
  <2>1. leg' = [c \in Tasks |-> IF c \in Conns \ {t} /\ at[c] = "ready"
                                THEN Ended(leg[c]) ELSE NewLeg(leg[c].name)]
    BY <1>2 DEF Restart
  <2>2. \A c \in Tasks : leg[c] \in LegRecord /\ leg[c].name \in Names
    BY DEF LegTypeOK, LegRecord
  <2>3. \A c \in Tasks : leg'[c] \in {Ended(leg[c]), NewLeg(leg[c].name)}
    BY <2>1
  <2>4. \A c \in Tasks : leg'[c] \in LegRecord /\ leg'[c].at \in {"auth", "ended"} /\ leg'[c].as = ""
    <3>1. TAKE c \in Tasks
    <3>2. leg[c].name \in Names /\ leg[c] \in LegRecord
      BY <2>2
    <3>3. Ended(leg[c]) \in LegRecord /\ Ended(leg[c]).at = "ended" /\ Ended(leg[c]).as = ""
      BY <3>2, LegTypes
    <3>4. /\ NewLeg(leg[c].name) \in LegRecord /\ NewLeg(leg[c].name).at = "auth"
          /\ NewLeg(leg[c].name).as = ""
      BY <3>2, LegTypes
    <3>5. QED
      BY <2>3, <3>3, <3>4
  <2>5. leg' \in [Tasks -> LegRecord]
    BY <2>1, <2>4
  <2>6. UNCHANGED <<pins, server>> /\ ((\E c \in Conns : leg[c].at = "record") => "known_hosts" \in Interrupted)
    BY <1>2 DEF Restart
  <2>7. QED
    BY <1>2, <2>4, <2>5, <2>6
<1>3. QED
  BY <1>1, <1>2

\* A server's new key leaves the first one accepted where it is.
LEMMA RekeyFirst ==
  ASSUME LegTypeOK, NEW n \in Names, Rekey(n)
  PROVE  /\ server' \in [now : [Names -> HostKeys], first : [Names -> HostKeys \cup {""}]]
         /\ server'.first = server.first /\ UNCHANGED <<leg, pins>>
<1>1. PICK k \in HostKeys : server' = [server EXCEPT !.now[n] = k]
  BY DEF Rekey
<1>2. server \in [now : [Names -> HostKeys], first : [Names -> HostKeys \cup {""}]]
  BY DEF LegTypeOK
<1>3. /\ server' \in [now : [Names -> HostKeys], first : [Names -> HostKeys \cup {""}]]
      /\ server'.first = server.first
  BY <1>1, <1>2
<1>4. QED
  BY <1>3 DEF Rekey

\* Every step keeps the types of the legs, the pins and the servers.
LEMMA LegTypeKept ==
  ASSUME LegTypeOK, [Next]_vars
  PROVE  LegTypeOK'
<1>1. ASSUME NEW c \in Conns, LegMove(c)
      PROVE  LegTypeOK'
  <2>1. c \in Tasks
    BY DEF Conns
  <2>2. leg' \in [Tasks -> LegRecord] /\ Effect(c)
    BY <1>1, <2>1, LegEffect
  <2>3. /\ leg[c].name \in Names /\ leg[c].seen \in HostKeys \cup {""} /\ leg[c].text \in Lines
        /\ server \in [now : [Names -> HostKeys], first : [Names -> HostKeys \cup {""}]]
        /\ pins \in [lines : Lines, whole : BOOLEAN]
    BY <2>1 DEF LegTypeOK, LegRecord
  <2>4. server' \in [now : [Names -> HostKeys], first : [Names -> HostKeys \cup {""}]]
    <3>1. CASE UNCHANGED server
      BY <2>3, <3>1
    <3>2. CASE Accepted(c, leg[c].name, leg[c].seen)
      BY <2>3, <3>2, AcceptedFirst
    <3>3. QED
      BY <2>2, <3>1, <3>2 DEF Effect, ToEnd, ToSigned, ToChannel, ToDial, ToVerify, ToKnown, ToRead, ToTruncate,
           ToRecord, ToRecorded, ToIdentified, Stays
  <2>5. pins' \in [lines : Lines, whole : BOOLEAN]
    <3>1. CASE UNCHANGED pins
      BY <2>3, <3>1
    <3>2. CASE pins' = [lines |-> {}, whole |-> FALSE]
      BY <3>2 DEF Lines
    <3>3. CASE pins' = [lines |-> leg[c].text \cup {<<leg[c].name, leg[c].seen>>}, whole |-> TRUE]
      <4>1. <<leg[c].name, leg[c].seen>> \in Names \X (HostKeys \cup {""})
        BY <2>3
      <4>2. leg[c].text \cup {<<leg[c].name, leg[c].seen>>} \in Lines
        BY <2>3, <4>1 DEF Lines
      <4>3. QED
        BY <3>3, <4>2
    <3>4. QED
      BY <2>2, <3>1, <3>2, <3>3 DEF Effect, ToEnd, ToSigned, ToChannel, ToDial, ToVerify, ToKnown, ToRead,
           ToTruncate, ToRecord, ToRecorded, ToIdentified, Stays
  <2>6. QED
    BY <2>2, <2>4, <2>5 DEF LegTypeOK
<1>2. ASSUME NEW t \in Tasks, Restart(t)
      PROVE  LegTypeOK'
  BY <1>2, RestartLegs DEF LegTypeOK
<1>3. ASSUME NEW n \in Names, Rekey(n)
      PROVE  LegTypeOK'
  BY <1>3, RekeyFirst DEF LegTypeOK
<1>4. CASE UNCHANGED <<leg, pins, server>>
  BY <1>4 DEF LegTypeOK
<1>5. QED
  BY <1>1, <1>2, <1>3, <1>4, LegMoves

\* Past the door a guest stays the user it signed as.
LEMMA SignedKept ==
  ASSUME LegTypeOK, Signed, [Next]_vars
  PROVE  Signed'
<1>1. ASSUME NEW c \in Conns, LegMove(c)
      PROVE  Signed'
  <2>1. c \in Tasks
    BY DEF Conns
  <2>2. Others(c) /\ Effect(c)
    BY <1>1, <2>1, LegEffect
  <2> USE <2>1, <2>2 DEF Signed, Others, Same
  <2>3. CASE ToEnd(c) \/ Stays(c)
    BY <2>3 DEF ToEnd, Stays
  <2>4. CASE ToSigned(c)
    BY <2>4 DEF ToSigned
  <2>5. CASE ToChannel(c) \/ ToDial(c) \/ ToVerify(c) \/ ToKnown(c) \/ ToRead(c) \/ ToTruncate(c) \/ ToRecord(c)
    <3>1. leg[c].at \notin {"auth", "ended"} /\ leg'[c].at \notin {"auth", "ended"} /\ Same(c)
      BY <2>5 DEF ToChannel, ToDial, ToVerify, ToKnown, ToRead, ToTruncate, ToRecord
    <3>2. QED
      BY <3>1
  <2>6. CASE ToRecorded(c) \/ ToIdentified(c)
    BY <2>6 DEF ToRecorded, ToIdentified
  <2>7. QED
    BY <2>3, <2>4, <2>5, <2>6 DEF Effect
<1>2. ASSUME NEW t \in Tasks, Restart(t)
      PROVE  Signed'
  BY <1>2, RestartLegs DEF Signed
<1>3. ASSUME NEW n \in Names, Rekey(n)
      PROVE  Signed'
  BY <1>3, RekeyFirst DEF Signed
<1>4. CASE UNCHANGED <<leg, pins, server>>
  BY <1>4 DEF Signed
<1>5. QED
  BY <1>1, <1>2, <1>3, <1>4, LegMoves

\* The real identity is presented only for a guest that has signed with the
\* decoy key, and as the user of that signature, whatever it offered before
\* and however many connections, dials and crashes there are (auth_publickey
\* and dial_upstream, legs.rs).
THEOREM IdentityIsEarned == Spec => []IdentityEarned
<1>1. IdentityInv => IdentityEarned
  BY DEF IdentityInv, Signed, IdentityEarned, Conns
<1>2. IdentityInv /\ [Next]_vars => IdentityInv'
  BY LegTypeKept, SignedKept DEF IdentityInv
<1>3. QED
  BY <1>1, <1>2, LegInitInv, PTL DEF Spec

-----------------------------------------------------------------------------
(* The server's key.  known_hosts is read, truncated and written without a *)
(* lock, so what follows is about dials one at a time, none of them killed *)
(* between the truncation and the write.                                   *)

\* A dial begins only when nobody dials.
LEMMA NobodyDials ==
  ASSUME MaxDials = 1, Cardinality({d \in Conns : leg[d].at \in Dialling}) < MaxDials
  PROVE  \A d \in Conns : leg[d].at \notin Dialling
<1> DEFINE S == {d \in Conns : leg[d].at \in Dialling}
<1>1. IsFiniteSet(S)
  <2>1. S \subseteq Tasks
    BY DEF Conns
  <2>2. QED
    BY <2>1, TasksAssumption, FS_Subset
<1>2. Cardinality(S) = 0
  BY <1>1, FS_CardinalityType
<1>3. S = {}
  BY <1>1, <1>2, FS_EmptySet
<1>4. QED
  BY <1>3

\* One connection dials at a time.
LEMMA OneDialKept ==
  ASSUME MaxDials = 1, LegTypeOK, OneDial, [Next]_vars
  PROVE  OneDial'
<1>0. Conns' = Conns
  BY LegMoves DEF Conns
<1>1. ASSUME NEW c \in Conns, LegMove(c)
      PROVE  OneDial'
  <2>1. c \in Tasks /\ Conns \subseteq Tasks
    BY DEF Conns
  <2>2. Others(c) /\ Effect(c)
    BY <1>1, <2>1, LegEffect
  <2>3. CASE ToDial(c)
    <3>1. \A d \in Conns : leg[d].at \notin Dialling
      BY <2>3, NobodyDials DEF ToDial
    <3>2. QED
      BY <1>0, <2>1, <2>2, <3>1 DEF OneDial, Others
  <2>4. CASE ~ToDial(c)
    <3>1. leg'[c].at \in Dialling => leg[c].at \in Dialling
      BY <2>2, <2>4 DEF Effect, ToEnd, ToSigned, ToChannel, ToVerify, ToKnown, ToRead, ToTruncate,
           ToRecord, ToRecorded, ToIdentified, Stays, Dialling
    <3>2. QED
      BY <1>0, <2>1, <2>2, <3>1 DEF OneDial, Others
  <2>5. QED
    BY <2>3, <2>4
<1>2. ASSUME NEW t \in Tasks, Restart(t)
      PROVE  OneDial'
  BY <1>0, <1>2, RestartLegs DEF OneDial, Dialling, Conns
<1>3. ASSUME NEW n \in Names, Rekey(n)
      PROVE  OneDial'
  BY <1>0, <1>3, RekeyFirst DEF OneDial
<1>4. CASE UNCHANGED <<leg, pins, server>>
  BY <1>0, <1>4 DEF OneDial
<1>5. QED
  BY <1>1, <1>2, <1>3, <1>4, LegMoves

\* What verify_server_key reads in known_hosts: the first key accepted for
\* the server, or nothing.
LEMMA PinsRead ==
  ASSUME LegTypeOK, PinsFirst(pins.lines, server.first), NEW n \in Names
  PROVE  /\ pinned_host_keys(n) = {} => server.first[n] = ""
         /\ \A k \in pinned_host_keys(n) : k = server.first[n] /\ k # ""
<1>1. ASSUME NEW k \in pinned_host_keys(n)
      PROVE  k = server.first[n] /\ k # ""
  BY <1>1 DEF pinned_host_keys, PinsFirst
<1>2. ASSUME server.first[n] # ""
      PROVE  pinned_host_keys(n) # {}
  <2>1. <<n, server.first[n]>> \in pins.lines
    BY <1>2 DEF PinsFirst
  <2>2. server.first[n] \in pinned_host_keys(n)
    BY <2>1 DEF pinned_host_keys
  <2>3. QED
    BY <2>2
<1>3. QED
  BY <1>1, <1>2

\* Adding the first key of a server that has none.
LEMMA PinsAdd ==
  ASSUME LegTypeOK, NEW c, NEW n \in Names, NEW k \in HostKeys, NEW lines \in Lines,
         PinsFirst(lines, server.first), server.first[n] = "", Accepted(c, n, k)
  PROVE  /\ PinsFirst(lines \cup {<<n, k>>}, server'.first)
         /\ server'.first[n] = k
<1>1. /\ server'.first[n] = k
      /\ \A m \in Names \ {n} : server'.first[m] = server.first[m]
  BY AcceptedFirst
<1>2. k # ""
  BY HostKeysAssumption
<1>3. \A l \in lines : l[1] \in Names /\ l[1] # n
  BY DEF PinsFirst, Lines
<1>4. ASSUME NEW l \in lines \cup {<<n, k>>}
      PROVE  l[2] = server'.first[l[1]] /\ l[2] # ""
  <2>1. CASE l \in lines
    BY <1>1, <1>3, <2>1 DEF PinsFirst
  <2>2. CASE l = <<n, k>>
    BY <1>1, <1>2, <2>2
  <2>3. QED
    BY <1>4, <2>1, <2>2
<1>5. ASSUME NEW m \in Names, server'.first[m] # ""
      PROVE  <<m, server'.first[m]>> \in lines \cup {<<n, k>>}
  BY <1>1, <1>5 DEF PinsFirst
<1>6. QED
  BY <1>1, <1>4, <1>5 DEF PinsFirst

\* The pins are the first keys accepted, and a dial past the check was shown
\* the pinned one.
LEMMA PinnedKept ==
  ASSUME "known_hosts" \notin Interrupted, LegTypeOK, OneDial, Pinned, [Next]_vars
  PROVE  Pinned'
<1>0. Conns' = Conns /\ Conns \subseteq Tasks
  BY LegMoves DEF Conns
<1>1. ASSUME NEW c \in Conns, LegMove(c)
      PROVE  Pinned'
  <2>1. c \in Tasks
    BY DEF Conns
  <2>2. Others(c) /\ leg'[c].name = leg[c].name /\ Effect(c)
    BY <1>1, <2>1, LegEffect
  <2>3. /\ leg[c].name \in Names /\ leg[c].seen \in HostKeys \cup {""} /\ leg[c].text \in Lines
    BY <2>1 DEF LegTypeOK, LegRecord
  <2>4. \A d \in Conns \ {c} : leg'[d] = leg[d]
    BY <1>0, <2>2 DEF Others
  <2>5. ToEnd(c) => leg[c].at \in {"auth", "dial", "verify", "identify", "channel"}
    BY <1>1, <2>1, LegEffect
  <2>6. leg[c].at \in Dialling => \A d \in Conns \ {c} : leg[d].at \notin Dialling
    BY DEF OneDial
  <2>a. PinOk(leg[c], server.first)
    BY DEF Pinned
  <2>b. ASSUME UNCHANGED server, PinOk(leg'[c], server.first)
        PROVE  \A d \in Conns : PinOk(leg'[d], server'.first)
    BY <2>4, <2>b DEF Pinned
  <2>c. ASSUME UNCHANGED <<pins, server>>, leg[c].at # "record", leg'[c].at # "record",
               PinOk(leg'[c], server.first)
        PROVE  Pinned'
    <3>1. (\A d \in Conns : leg'[d].at # "record") => PinsFirst(pins'.lines, server'.first)
      BY <2>4, <2>c DEF Pinned
    <3>2. QED
      BY <1>0, <2>b, <2>c, <3>1 DEF Pinned
  <2>7. CASE ToEnd(c)
    <3>1. PinOk(leg'[c], server.first)
      BY <2>7 DEF ToEnd, PinOk, Dialling
    <3>2. QED
      BY <2>5, <2>7, <2>c, <3>1 DEF ToEnd
  <2>8. CASE ToSigned(c) \/ ToChannel(c) \/ ToDial(c) \/ ToIdentified(c)
    <3>1. leg[c].at # "record" /\ leg'[c].at \in {"auth", "open", "channel", "dial"}
      BY <2>8 DEF ToSigned, ToChannel, ToDial, ToIdentified
    <3>2. PinOk(leg'[c], server.first)
      BY <3>1 DEF PinOk, Dialling
    <3>3. UNCHANGED <<pins, server>>
      BY <2>8 DEF ToSigned, ToChannel, ToDial, ToIdentified
    <3>4. QED
      BY <2>c, <3>1, <3>2, <3>3
  <2>9. CASE ToVerify(c)
    <3>1. PinOk(leg'[c], server.first)
      BY <2>9 DEF ToVerify, PinOk
    <3>2. QED
      BY <2>9, <2>c, <3>1 DEF ToVerify
  <2>10. CASE Stays(c)
    <3>1. (\A d \in Conns : leg'[d] = leg[d]) /\ UNCHANGED <<pins, server>>
      BY <2>4, <2>10 DEF Stays
    <3>2. QED
      BY <1>0, <3>1 DEF Pinned
  <2>11. CASE leg[c].at \in {"verify", "read", "truncate"}
    <3>1. \A d \in Conns : leg[d].at # "record"
      BY <2>6, <2>11 DEF Dialling
    <3>2. PinsFirst(pins.lines, server.first)
      BY <3>1 DEF Pinned
    <3>0. \A d \in Conns \ {c} : leg'[d].at \notin Dialling
      BY <2>4, <2>6, <2>11 DEF Dialling
    <3>3. CASE ToKnown(c)
      <4>1. leg[c].seen = server.first[leg[c].name] /\ leg[c].seen # ""
        BY <2>3, <3>2, <3>3, PinsRead DEF ToKnown, Shown
      <4>2. server'.first[leg[c].name] = leg[c].seen
        BY <2>3, <3>3, <4>1, AcceptedFirst DEF ToKnown
      <4>3. \A n \in Names : server'.first[n] = server.first[n]
        BY <2>3, <3>3, <4>1, <4>2, AcceptedFirst DEF ToKnown
      <4>4. PinsFirst(pins'.lines, server'.first)
        <5>1. \A l \in pins.lines : l[1] \in Names
          BY DEF LegTypeOK, Lines
        <5>2. QED
          BY <3>2, <3>3, <4>3, <5>1 DEF PinsFirst, ToKnown
      <4>5. leg'[c].at = "identify" /\ leg'[c].seen = leg[c].seen /\ leg[c].seen \in HostKeys
        BY <2>3, <3>3, <4>1 DEF ToKnown
      <4>6. PinOk(leg'[c], server'.first)
        BY <2>2, <4>2, <4>5 DEF PinOk
      <4>7. QED
        BY <1>0, <3>0, <4>4, <4>6 DEF Pinned, PinOk, Dialling
    <3>4. CASE ToRead(c)
      <4>1. server.first[leg[c].name] = ""
        BY <2>3, <3>2, <3>4, PinsRead DEF ToRead
      <4>2. /\ leg[c].at = "verify" /\ leg'[c].at = "read" /\ leg'[c].seen = leg[c].seen
            /\ leg'[c].name = leg[c].name /\ UNCHANGED <<pins, server>>
        BY <2>2, <3>4 DEF ToRead
      <4>3. PinOk(leg'[c], server.first)
        BY <2>a, <4>1, <4>2 DEF PinOk, Dialling
      <4>4. QED
        BY <2>c, <4>2, <4>3
    <3>5. CASE ToTruncate(c)
      <4>1. /\ leg[c].at = "read" /\ leg'[c].at = "truncate" /\ leg'[c].seen = leg[c].seen
            /\ leg'[c].name = leg[c].name /\ leg'[c].text = pins.lines /\ UNCHANGED <<pins, server>>
        BY <2>2, <3>5 DEF ToTruncate
      <4>2. PinOk(leg'[c], server.first)
        BY <2>a, <3>2, <4>1 DEF PinOk, Dialling
      <4>3. QED
        BY <2>c, <4>1, <4>2
    <3>6. CASE ToRecord(c)
      <4>1. /\ leg[c].at = "truncate" /\ leg'[c].at = "record" /\ leg'[c].seen = leg[c].seen
            /\ leg'[c].name = leg[c].name /\ leg'[c].text = leg[c].text /\ UNCHANGED server
        BY <2>2, <3>6 DEF ToRecord
      <4>2. PinOk(leg'[c], server.first)
        BY <2>a, <4>1 DEF PinOk, Dialling
      <4>3. \A d \in Conns : PinOk(leg'[d], server'.first)
        BY <2>b, <4>1, <4>2
      <4>4. QED
        BY <1>0, <4>1, <4>3 DEF Pinned
    <3>7. QED
      BY <2>2, <2>7, <2>8, <2>9, <2>10, <2>11, <3>3, <3>4, <3>5, <3>6 DEF Effect, ToRecorded
  <2>12. CASE ToRecorded(c)
    <3>1. /\ leg[c].seen \in HostKeys /\ server.first[leg[c].name] = ""
          /\ PinsFirst(leg[c].text, server.first)
      BY <2>a, <2>12 DEF ToRecorded, PinOk, Dialling
    <3>2. /\ PinsFirst(pins'.lines, server'.first)
          /\ server'.first[leg[c].name] = leg[c].seen
      <4>1. /\ Accepted(c, leg[c].name, leg[c].seen)
            /\ pins'.lines = leg[c].text \cup {<<leg[c].name, leg[c].seen>>}
        BY <2>12 DEF ToRecorded
      <4>2. /\ PinsFirst(leg[c].text \cup {<<leg[c].name, leg[c].seen>>}, server'.first)
            /\ server'.first[leg[c].name] = leg[c].seen
        <5>1. PICK n \in Names, k \in HostKeys, l \in Lines : n = leg[c].name /\ k = leg[c].seen /\ l = leg[c].text
          BY <2>3, <3>1
        <5>2. PinsFirst(l, server.first) /\ server.first[n] = "" /\ Accepted(c, n, k)
          BY <3>1, <4>1, <5>1
        <5>3. PinsFirst(l \cup {<<n, k>>}, server'.first) /\ server'.first[n] = k
          BY <5>2, PinsAdd
        <5>4. QED
          BY <5>1, <5>3
      <4>3. QED
        BY <4>1, <4>2, Zenon
    <3>3. \A d \in Conns \ {c} : leg'[d].at \notin Dialling
      BY <2>4, <2>6, <2>12 DEF ToRecorded, Dialling
    <3>4. PinOk(leg'[c], server'.first)
      BY <2>2, <2>12, <3>1, <3>2 DEF ToRecorded, PinOk
    <3>5. QED
      BY <1>0, <3>2, <3>3, <3>4 DEF Pinned, PinOk, Dialling
  <2>13. QED
    BY <2>2, <2>7, <2>8, <2>9, <2>10, <2>11, <2>12 DEF Effect, ToKnown, ToRead, ToTruncate, ToRecord
<1>2. ASSUME NEW t \in Tasks, Restart(t)
      PROVE  Pinned'
  <2>1. CASE UNCHANGED leg
    BY <1>0, <1>2, <2>1, RestartLegs DEF Pinned
  <2>2. CASE /\ \A c \in Conns : leg[c].at # "record"
             /\ \A c \in Tasks : leg'[c].at \in {"auth", "ended"}
    BY <1>0, <1>2, <2>2, RestartLegs DEF Pinned, PinOk, Dialling
  <2>3. QED
    BY <1>2, <2>1, <2>2, RestartLegs
<1>3. ASSUME NEW n \in Names, Rekey(n)
      PROVE  Pinned'
  BY <1>0, <1>3, RekeyFirst DEF Pinned
<1>4. CASE UNCHANGED <<leg, pins, server>>
  BY <1>0, <1>4 DEF Pinned
<1>5. QED
  BY <1>1, <1>2, <1>3, <1>4, LegMoves

\* As long as dials do not overlap and none is killed while it rewrites
\* known_hosts, the identity goes only to a server that showed the key first
\* accepted for it, for a guest that has signed (verify_server_key and
\* append_known_host, legs.rs).  Overlapping dials break it.
THEOREM BothEndsProven ==
  ASSUME MaxDials = 1, "known_hosts" \notin Interrupted
  PROVE  Spec => []BothProven
<1>1. DialInv /\ IdentityInv => BothProven
  BY DEF DialInv, Pinned, PinOk, IdentityInv, Signed, BothProven, IdentityEarned, ChangedKeyFails, Conns
<1>2. DialInv /\ IdentityInv /\ [Next]_vars => (DialInv /\ IdentityInv)'
  BY LegTypeKept, SignedKept, OneDialKept, PinnedKept DEF DialInv, IdentityInv
<1>3. QED
  BY <1>1, <1>2, LegInitInv, PTL DEF Spec

-----------------------------------------------------------------------------
(* The bridge.                                                             *)

BridgeRecord == [open : BOOLEAN, guest : Seq(Words), toServer : Seq(Words), server : Seq(Words),
                 toGuest : Seq(Words), up : BOOLEAN, down : BOOLEAN, read : Nat, written : Nat,
                 lost : BOOLEAN]

(* A close is the server's last word, and a server that is gone sent none. *)
LastWord(s, lost) ==
  /\ \A i \in 1..Len(s) : s[i] = "close" => i = Len(s)
  /\ lost => ~Contains(s, "close")

(* The pump runs: the guest has what is due of the messages it has taken.  *)
Feeding(b) ==
  b.written <= Len(b.server) /\ Told(b.toGuest, b.server, b.written) /\ ~Contains(b.toGuest, "close")

(* The pump has stopped: at the server's close, or where the server went.  *)
Stopped(b) ==
  /\ Contains(b.toGuest, "close")
  /\ \/ Contains(b.server, "close") /\ Told(b.toGuest, b.server, Len(b.server))
     \/ b.lost /\ Told(Front(b.toGuest), b.server, Len(b.server))

BridgeInv(b) ==
  /\ b \in BridgeRecord /\ LastWord(b.server, b.lost)
  /\ \/ ~b.open /\ ~b.down /\ Feeding(b)
     \/ b.open /\ b.down /\ Feeding(b)
     \/ b.open /\ ~b.down /\ Stopped(b)

Bridged == bridge \in [Tasks -> BridgeRecord] /\ \A c \in Tasks : BridgeInv(bridge[c])

\* The due messages are finitely many, one more for each that is passed on.
LEMMA DueNext ==
  ASSUME NEW s, NEW n \in Nat
  PROVE  /\ IsFiniteSet(Due(s, n)) /\ Cardinality(Due(s, n)) \in Nat /\ Due(s, 0) = {}
         /\ s[n + 1] \in Returned => Cardinality(Due(s, n + 1)) = Cardinality(Due(s, n)) + 1
         /\ s[n + 1] \notin Returned => Due(s, n + 1) = Due(s, n)
         /\ \A i \in Due(s, n) : /\ i \in Nat /\ 1 <= i /\ i <= n
                                 /\ Cardinality(Due(s, i)) \in 1..Cardinality(Due(s, n))
<1>1. ASSUME NEW i \in Nat PROVE IsFiniteSet(Due(s, i)) /\ Cardinality(Due(s, i)) \in Nat
  <2>1. IsFiniteSet(1..i)
    BY FS_Interval
  <2>2. Due(s, i) \subseteq 1..i
    BY DEF Due
  <2>3. IsFiniteSet(Due(s, i))
    BY <2>1, <2>2, FS_Subset
  <2>4. QED
    BY <2>3, FS_CardinalityType
<1>2. Due(s, 0) = {}
  BY DEF Due
<1>3. ASSUME s[n + 1] \in Returned PROVE Cardinality(Due(s, n + 1)) = Cardinality(Due(s, n)) + 1
  <2>1. Due(s, n + 1) = Due(s, n) \cup {n + 1} /\ n + 1 \notin Due(s, n)
    BY <1>3 DEF Due
  <2>2. QED
    BY <1>1, <2>1, FS_AddElement
<1>4. ASSUME s[n + 1] \notin Returned PROVE Due(s, n + 1) = Due(s, n)
  BY <1>4 DEF Due
<1>5. ASSUME NEW i \in Due(s, n)
      PROVE  i \in Nat /\ 1 <= i /\ i <= n /\ Cardinality(Due(s, i)) \in 1..Cardinality(Due(s, n))
  <2>1. i \in Nat /\ 1 <= i /\ i <= n
    BY DEF Due
  <2>2. Due(s, i) \subseteq Due(s, n) /\ {i} \subseteq Due(s, i)
    BY <2>1 DEF Due
  <2>3. Cardinality(Due(s, i)) <= Cardinality(Due(s, n))
    BY <1>1, <2>2, FS_Subset
  <2>4. Cardinality({i}) <= Cardinality(Due(s, i)) /\ Cardinality({i}) = 1
    BY <1>1, <2>1, <2>2, FS_Subset, FS_Singleton
  <2>5. QED
    BY <1>1, <2>1, <2>3, <2>4
<1>6. QED
  BY <1>1, <1>2, <1>3, <1>4, <1>5

\* Before the first message nothing is due.
LEMMA ToldNone ==
  ASSUME NEW s
  PROVE  Told(<<>>, s, 0)
<1>1. Due(s, 0) = {} /\ Cardinality({}) = 0
  BY FS_EmptySet DEF Due
<1>2. QED
  BY <1>1 DEF Told

\* A message that is passed on, and one that is not.
LEMMA ToldNext ==
  ASSUME NEW q \in Seq(Words), NEW s \in Seq(Words), NEW n \in Nat, n < Len(s), Told(q, s, n)
  PROVE  /\ s[n + 1] \in Returned => Told(Append(q, s[n + 1]), s, n + 1)
         /\ s[n + 1] \notin Returned => Told(q, s, n + 1)
<1>1. /\ Len(q) = Cardinality(Due(s, n)) /\ Len(q) \in Nat
      /\ \A i \in Due(s, n) : q[Cardinality(Due(s, i))] = s[i]
  BY DEF Told
<1>2. ASSUME s[n + 1] \in Returned PROVE Told(Append(q, s[n + 1]), s, n + 1)
  <2> DEFINE m == s[n + 1]
             a == Append(q, m)
  <2>1. m \in Words
    OBVIOUS
  <2>2. Cardinality(Due(s, n + 1)) = Len(q) + 1
    BY <1>1, <1>2, DueNext
  <2>3. Len(a) = Len(q) + 1 /\ a[Len(q) + 1] = m /\ \A j \in 1..Len(q) : a[j] = q[j]
    BY <2>1
  <2>4. ASSUME NEW i \in Due(s, n + 1) PROVE a[Cardinality(Due(s, i))] = s[i]
    <3> HIDE DEF a
    <3>1. i = n + 1 \/ i \in Due(s, n)
      BY DEF Due
    <3>2. CASE i = n + 1
      BY <2>2, <2>3, <3>2
    <3>3. CASE i \in Due(s, n)
      <4>1. Cardinality(Due(s, i)) \in 1..Len(q)
        BY <1>1, <3>3, DueNext
      <4>2. QED
        BY <1>1, <2>3, <3>3, <4>1
    <3>4. QED
      BY <3>1, <3>2, <3>3
  <2>5. QED
    BY <2>2, <2>3, <2>4 DEF Told
<1>3. ASSUME s[n + 1] \notin Returned PROVE Told(q, s, n + 1)
  <2>1. Due(s, n + 1) = Due(s, n)
    BY <1>3, DueNext
  <2>2. QED
    BY <1>1, <2>1 DEF Told
<1>4. QED
  BY <1>2, <1>3

\* What the server sends later changes nothing of what was told.
LEMMA ToldMore ==
  ASSUME NEW q, NEW s \in Seq(Words), NEW m \in Words, NEW n \in Nat, n <= Len(s), Told(q, s, n)
  PROVE  Told(q, Append(s, m), n)
<1> DEFINE r == Append(s, m)
<1>1. \A i \in 1..n : r[i] = s[i]
  <2>1. \A i \in 1..Len(s) : Append(s, m)[i] = s[i]
    OBVIOUS
  <2>2. \A i \in 1..n : i \in 1..Len(s)
    OBVIOUS
  <2>3. QED
    BY <2>1, <2>2
<1> HIDE DEF r
<1>2. \A i \in 0..n : Due(r, i) = Due(s, i)
  BY <1>1 DEF Due
<1>3. n \in 0..n /\ \A i \in Due(s, n) : i \in 1..n /\ i \in 0..n
  BY DEF Due
<1>4. Told(q, r, n)
  BY <1>1, <1>2, <1>3 DEF Told
<1>5. QED
  BY <1>4 DEF r

\* One bridge is replaced, the others stay.
LEMMA BridgePut ==
  ASSUME Bridged, NEW c \in Tasks, NEW b, BridgeInv(b), bridge' = [bridge EXCEPT ![c] = b]
  PROVE  Bridged'
  BY DEF Bridged, BridgeInv

\* A channel that is not open, and one just opened.
LEMMA NewBridges ==
  /\ BridgeInv(NewBridge)
  /\ BridgeInv([NewBridge EXCEPT !.open = TRUE, !.up = TRUE, !.down = TRUE])
<1> DEFINE b == [NewBridge EXCEPT !.open = TRUE, !.up = TRUE, !.down = TRUE]
<1>1. <<>> \in Seq(Words) /\ Len(<<>>) = 0 /\ ~Contains(<<>>, "close") /\ Told(<<>>, <<>>, 0)
  BY ToldNone DEF Contains
<1>2. NewBridge \in BridgeRecord /\ b \in BridgeRecord
  BY <1>1 DEF NewBridge, BridgeRecord
<1>3. ~NewBridge.open /\ ~NewBridge.down /\ b.open /\ b.down
  BY DEF NewBridge
<1>4. LastWord(NewBridge.server, NewBridge.lost) /\ LastWord(b.server, b.lost)
  BY <1>1 DEF NewBridge, LastWord
<1>5. Feeding(NewBridge) /\ Feeding(b)
  BY <1>1 DEF NewBridge, Feeding
<1> HIDE DEF b
<1>6. BridgeInv(NewBridge) /\ BridgeInv(b)
  BY <1>2, <1>3, <1>4, <1>5 DEF BridgeInv
<1>7. QED
  BY <1>6 DEF b

(* The server's side of the channel is as it was.                          *)
SameBack(t, b) ==
  /\ t.open = b.open /\ t.down = b.down /\ t.lost = b.lost
  /\ t.server = b.server /\ t.toGuest = b.toGuest /\ t.written = b.written

\* The guest's words leave the server's side alone.
LEMMA BackStays ==
  ASSUME NEW b, NEW t \in BridgeRecord, BridgeInv(b), SameBack(t, b)
  PROVE  BridgeInv(t)
<1>1. LastWord(t.server, t.lost)
  BY DEF BridgeInv, SameBack
<1>2. Feeding(b) => Feeding(t)
  BY DEF Feeding, SameBack
<1>3. Stopped(b) => Stopped(t)
  BY DEF Stopped, SameBack
<1>4. \/ ~t.open /\ ~t.down /\ Feeding(t)
      \/ t.open /\ t.down /\ Feeding(t)
      \/ t.open /\ ~t.down /\ Stopped(t)
  BY <1>2, <1>3, Zenon DEF BridgeInv, SameBack
<1>5. QED
  BY <1>1, <1>4 DEF BridgeInv

\* The guest sends, and its words are passed on.
LEMMA GuestSide ==
  ASSUME Bridged, NEW c \in Tasks, GuestSends(c) \/ forward_guest_message(c)
  PROVE  Bridged'
<1> DEFINE b == bridge[c]
<1>1. b \in BridgeRecord /\ BridgeInv(b)
  BY DEF Bridged
<1>2. CASE GuestSends(c)
  <2> DEFINE t == [b EXCEPT !.guest = Append(@, GuestScript[Len(@) + 1])]
  <2>1. bridge' = [bridge EXCEPT ![c] = t] /\ Len(b.guest) < Len(GuestScript)
    BY <1>2 DEF GuestSends, Bridge
  <2>2. b.guest \in Seq(Words) /\ GuestScript \in Seq(Words)
    BY <1>1, ScriptsAssumption DEF BridgeRecord
  <2>3. Append(b.guest, GuestScript[Len(b.guest) + 1]) \in Seq(Words)
    BY <2>1, <2>2
  <2>4. t \in BridgeRecord /\ SameBack(t, b)
    BY <1>1, <2>3 DEF BridgeRecord, SameBack
  <2>5. QED
    BY <1>1, <2>1, <2>4, BackStays, BridgePut
<1>3. CASE forward_guest_message(c)
  <2> DEFINE i == b.read + 1
             x == IF b.guest[i] \in Forwarded /\ ~b.lost THEN Append(b.toServer, b.guest[i]) ELSE b.toServer
             y == b.guest[i] # "close" /\ ~(b.lost /\ b.guest[i] \in Forwarded)
             t == [b EXCEPT !.read = i, !.toServer = x, !.up = y]
  <2>1. bridge' = [bridge EXCEPT ![c] = t] /\ i <= Len(b.guest)
    BY <1>3 DEF forward_guest_message, Bridge
  <2>2. b.guest \in Seq(Words) /\ b.toServer \in Seq(Words) /\ b.read \in Nat
    BY <1>1 DEF BridgeRecord
  <2>3. i \in Nat /\ b.guest[i] \in Words
    BY <2>1, <2>2
  <2>4. x \in Seq(Words) /\ y \in BOOLEAN
    <3>1. Append(b.toServer, b.guest[i]) \in Seq(Words)
      BY <2>2, <2>3
    <3>2. x \in Seq(Words)
      BY <2>2, <3>1, Zenon
    <3>3. y \in BOOLEAN
      BY Zenon
    <3>4. QED
      BY <3>2, <3>3
  <2> HIDE DEF i, x, y
  <2>5. t \in BridgeRecord /\ SameBack(t, b)
    BY <1>1, <2>3, <2>4 DEF BridgeRecord, SameBack
  <2>6. QED
    BY <1>1, <2>1, <2>5, BackStays, BridgePut
<1>4. QED
  BY <1>2, <1>3

\* The server sends while it is there and has not closed, or is gone.
LEMMA ServerSide ==
  ASSUME Bridged, NEW c \in Tasks, ServerSends(c) \/ ServerLost(c)
  PROVE  Bridged'
<1> DEFINE b == bridge[c]
<1>1. b \in BridgeRecord /\ BridgeInv(b)
  BY DEF Bridged
<1>2. /\ b.open /\ ~b.lost /\ ~Contains(b.server, "close")
      /\ b.server \in Seq(Words) /\ b.toGuest \in Seq(Words) /\ b.written \in Nat
  BY <1>1 DEF ServerSends, ServerLost, BridgeRecord
<1>3. b.down /\ Feeding(b)
  BY <1>1, <1>2 DEF BridgeInv, Stopped
<1> HIDE DEF b
<1>4. b.written <= Len(b.server) /\ Told(b.toGuest, b.server, b.written) /\ ~Contains(b.toGuest, "close")
  BY <1>3 DEF Feeding
<1>5. CASE ServerSends(c)
  <2> DEFINE m == ServerScript[Len(b.server) + 1]
             x == Append(b.server, m)
             t == [b EXCEPT !.server = x]
  <2>1. bridge' = [bridge EXCEPT ![c] = t] /\ Len(b.server) < Len(ServerScript)
    BY <1>5 DEF ServerSends, Bridge, b
  <2>2. m \in Words
    BY <1>2, <2>1, ScriptsAssumption
  <2> HIDE DEF m
  <2>3. /\ x \in Seq(Words) /\ Len(x) = Len(b.server) + 1 /\ x[Len(b.server) + 1] = m
        /\ \A i \in 1..Len(b.server) : x[i] = b.server[i]
    BY <1>2, <2>2
  <2>4. Told(b.toGuest, x, b.written)
    BY <1>2, <1>4, <2>2, ToldMore
  <2> HIDE DEF x
  <2>5. /\ t \in BridgeRecord /\ t.open /\ t.down /\ t.server = x /\ t.toGuest = b.toGuest
        /\ t.written = b.written /\ ~t.lost
    BY <1>1, <1>2, <1>3, <2>3 DEF BridgeRecord
  <2>6. LastWord(x, t.lost)
    <3>1. \A i \in 1..Len(b.server) : b.server[i] # "close"
      BY <1>2 DEF Contains
    <3>2. ASSUME NEW i \in 1..Len(x), x[i] = "close" PROVE i = Len(x)
      BY <1>2, <2>3, <3>1, <3>2
    <3>3. QED
      BY <2>5, <3>2 DEF LastWord
  <2>7. Feeding(t)
    BY <1>2, <1>4, <2>3, <2>4, <2>5 DEF Feeding
  <2> HIDE DEF t
  <2>8. BridgeInv(t)
    BY <2>5, <2>6, <2>7 DEF BridgeInv
  <2>9. QED
    BY <2>1, <2>8, BridgePut
<1>6. CASE ServerLost(c)
  <2> DEFINE t == [b EXCEPT !.lost = TRUE]
  <2>1. bridge' = [bridge EXCEPT ![c] = t]
    BY <1>6 DEF ServerLost, Bridge, b
  <2>2. /\ t \in BridgeRecord /\ t.open /\ t.down /\ t.server = b.server /\ t.toGuest = b.toGuest
        /\ t.written = b.written
    BY <1>1, <1>2, <1>3 DEF BridgeRecord
  <2>3. LastWord(t.server, t.lost)
    BY <1>1, <1>2, <2>2 DEF BridgeInv, LastWord
  <2>4. Feeding(t)
    BY <1>4, <2>2 DEF Feeding
  <2> HIDE DEF t
  <2>5. BridgeInv(t)
    BY <2>2, <2>3, <2>4 DEF BridgeInv
  <2>6. QED
    BY <2>1, <2>5, BridgePut
<1>7. QED
  BY <1>5, <1>6

(* The pump's last writes, without the record around them.                 *)
ClosedTo(q) == IF Contains(q, "close") THEN q ELSE Append(q, "close")

\* What the end of the pump leaves.
LEMMA ClosedBridge ==
  ASSUME NEW b \in BridgeRecord
  PROVE  /\ Closed(b) \in BridgeRecord /\ ~Closed(b).down /\ Closed(b).toGuest = ClosedTo(b.toGuest)
         /\ Closed(b).open = b.open /\ Closed(b).lost = b.lost /\ Closed(b).server = b.server
         /\ Closed(b).written = b.written
<1> DEFINE x == ClosedTo(b.toGuest)
           y == IF Contains(b.toServer, "close") \/ b.lost THEN b.toServer ELSE Append(b.toServer, "close")
           t == [b EXCEPT !.down = FALSE, !.toGuest = x, !.toServer = y]
<1>1. b.toGuest \in Seq(Words) /\ b.toServer \in Seq(Words) /\ "close" \in Words
  BY DEF BridgeRecord, Words, Returned
<1>2. Append(b.toGuest, "close") \in Seq(Words) /\ Append(b.toServer, "close") \in Seq(Words)
  BY <1>1
<1>3. x \in Seq(Words) /\ y \in Seq(Words)
  BY <1>1, <1>2, Zenon DEF ClosedTo
<1>4. Closed(b) = t
  BY DEF Closed, ClosedTo
<1> HIDE DEF x, y
<1>5. /\ t \in BridgeRecord /\ ~t.down /\ t.toGuest = x /\ t.open = b.open /\ t.lost = b.lost
      /\ t.server = b.server /\ t.written = b.written
  BY <1>3 DEF BridgeRecord
<1>6. QED
  BY <1>4, <1>5 DEF x

\* The pump takes a message of the server's.
LEMMA PumpKeeps ==
  ASSUME Bridged, NEW c \in Tasks, PumpBack(c)
  PROVE  Bridged'
<1> DEFINE b == bridge[c]
           n == b.written
           m == b.server[n + 1]
           x == IF m \in Returned THEN Append(b.toGuest, m) ELSE b.toGuest
           t == [b EXCEPT !.written = n + 1, !.toGuest = x]
           u == IF m = "close" THEN Closed(t) ELSE t
<1>1. b \in BridgeRecord /\ BridgeInv(b)
  BY DEF Bridged
<1>2. b.down /\ n + 1 <= Len(b.server) /\ bridge' = [bridge EXCEPT ![c] = u]
  BY DEF PumpBack, Bridge
<1>3. b.server \in Seq(Words) /\ b.toGuest \in Seq(Words) /\ n \in Nat
  BY <1>1 DEF BridgeRecord
<1>4. b.open /\ Told(b.toGuest, b.server, n) /\ ~Contains(b.toGuest, "close") /\ LastWord(b.server, b.lost)
  BY <1>1, <1>2 DEF BridgeInv, Feeding
<1>5. m \in Words /\ n < Len(b.server) /\ n + 1 \in 1..Len(b.server)
  BY <1>2, <1>3
<1>6. Told(x, b.server, n + 1)
  <2>1. /\ b.server[n + 1] \in Returned => Told(Append(b.toGuest, b.server[n + 1]), b.server, n + 1)
        /\ b.server[n + 1] \notin Returned => Told(b.toGuest, b.server, n + 1)
    BY <1>3, <1>4, <1>5, ToldNext
  <2>2. QED
    BY <2>1, Zenon
<1> HIDE DEF b, m
<1>7. /\ Append(b.toGuest, m) \in Seq(Words) /\ Len(Append(b.toGuest, m)) = Len(b.toGuest) + 1
      /\ Append(b.toGuest, m)[Len(b.toGuest) + 1] = m
      /\ \A i \in 1..Len(b.toGuest) : Append(b.toGuest, m)[i] = b.toGuest[i]
  BY <1>3, <1>5
<1>8. x \in Seq(Words)
  BY <1>3, <1>7, Zenon
<1>9. m # "close" => ~Contains(x, "close")
  <2>1. CASE m \in Returned
    BY <1>3, <1>4, <1>7, <2>1 DEF Contains
  <2>2. CASE m \notin Returned
    BY <1>4, <2>2
  <2>3. QED
    BY <2>1, <2>2
<1>10. m = "close" => Contains(x, "close")
  BY <1>3, <1>7 DEF Contains, Returned
<1> HIDE DEF n, x
<1>11. /\ t \in BridgeRecord /\ t.open /\ t.down /\ t.server = b.server /\ t.toGuest = x
       /\ t.written = n + 1 /\ t.lost = b.lost
  <2>1. n + 1 \in Nat
    BY <1>3
  <2>2. QED
    BY <1>1, <1>2, <1>4, <1>8, <2>1 DEF BridgeRecord
<1> HIDE DEF t
<1>12. BridgeInv(u)
  <2>1. CASE m # "close"
    <3>1. Feeding(t)
      BY <1>2, <1>6, <1>9, <1>11, <2>1 DEF Feeding
    <3>2. BridgeInv(t)
      BY <1>4, <1>11, <3>1 DEF BridgeInv
    <3>3. QED
      BY <2>1, <3>2
  <2>2. CASE m = "close"
    <3>1. /\ Closed(t) \in BridgeRecord /\ ~Closed(t).down /\ Closed(t).toGuest = ClosedTo(x)
          /\ Closed(t).open = t.open /\ Closed(t).lost = t.lost /\ Closed(t).server = b.server
      BY <1>11, ClosedBridge
    <3>2. ClosedTo(x) = x
      BY <1>10, <2>2 DEF ClosedTo
    <3>3. b.server[n + 1] = "close" /\ n + 1 = Len(b.server) /\ Contains(b.server, "close")
      BY <1>4, <1>5, <2>2 DEF LastWord, Contains, m
    <3>4. Stopped(Closed(t))
      BY <1>6, <1>10, <2>2, <3>1, <3>2, <3>3 DEF Stopped
    <3>5. Closed(t).open /\ LastWord(Closed(t).server, Closed(t).lost)
      BY <1>4, <1>11, <3>1, Zenon
    <3>6. BridgeInv(Closed(t))
      BY <3>1, <3>4, <3>5 DEF BridgeInv
    <3>7. QED
      BY <2>2, <3>6
  <2>3. QED
    BY <2>1, <2>2
<1> HIDE DEF u
<1>13. QED
  BY <1>2, <1>12, BridgePut DEF b

\* The server's channel reads no more.
LEMMA PumpEndKeeps ==
  ASSUME Bridged, NEW c \in Tasks, PumpEnds(c)
  PROVE  Bridged'
<1> DEFINE b == bridge[c]
           t == Closed(b)
           a == Append(b.toGuest, "close")
<1>1. b \in BridgeRecord /\ BridgeInv(b)
  BY DEF Bridged
<1>2. b.down /\ b.lost /\ b.written = Len(b.server) /\ bridge' = [bridge EXCEPT ![c] = t]
  BY DEF PumpEnds, Bridge
<1>3. /\ b.open /\ Told(b.toGuest, b.server, Len(b.server)) /\ ~Contains(b.toGuest, "close")
      /\ LastWord(b.server, b.lost) /\ b.toGuest \in Seq(Words)
  BY <1>1, <1>2 DEF BridgeInv, Feeding, BridgeRecord
<1> HIDE DEF b
<1>4. /\ t \in BridgeRecord /\ ~t.down /\ t.toGuest = ClosedTo(b.toGuest)
      /\ t.open = b.open /\ t.lost = b.lost /\ t.server = b.server
  BY <1>1, ClosedBridge
<1>5. t.toGuest = a
  BY <1>3, <1>4 DEF ClosedTo
<1>6. Contains(a, "close") /\ Front(a) = b.toGuest
  <2>1. /\ a \in Seq(Words) /\ Len(a) = Len(b.toGuest) + 1 /\ a[Len(b.toGuest) + 1] = "close"
        /\ \A i \in 1..Len(b.toGuest) : a[i] = b.toGuest[i]
    <3>1. "close" \in Words
      BY DEF Words, Returned
    <3>2. QED
      BY <1>3, <3>1
  <2> HIDE DEF a
  <2>2. Contains(a, "close")
    BY <1>3, <2>1 DEF Contains
  <2>3. Len(a) - 1 = Len(b.toGuest) /\ Len(b.toGuest) \in Nat
    BY <1>3, <2>1
  <2>4. /\ SubSeq(a, 1, Len(b.toGuest)) \in Seq(Words)
        /\ Len(SubSeq(a, 1, Len(b.toGuest))) = Len(b.toGuest)
        /\ \A i \in 1..Len(b.toGuest) : SubSeq(a, 1, Len(b.toGuest))[i] = a[i]
    BY <1>3, <2>1
  <2>5. SubSeq(a, 1, Len(b.toGuest)) = b.toGuest
    BY <1>3, <2>1, <2>4
  <2>6. QED
    BY <2>2, <2>3, <2>5 DEF Front
<1> HIDE DEF t, a
<1>7. Stopped(t)
  BY <1>2, <1>3, <1>4, <1>5, <1>6 DEF Stopped
<1>8. LastWord(t.server, t.lost) /\ t.open
  BY <1>3, <1>4, Zenon
<1>9. BridgeInv(t)
  BY <1>4, <1>7, <1>8 DEF BridgeInv
<1>10. QED
  BY <1>2, <1>9, BridgePut DEF b

\* Every step keeps the bridges.
LEMMA BridgesKept ==
  ASSUME Bridged, [Next]_vars
  PROVE  Bridged'
<1>1. CASE UNCHANGED bridge
  BY <1>1 DEF Bridged
<1>2. ASSUME NEW t \in Tasks, KeyStep(t), UNCHANGED legVars PROVE UNCHANGED bridge
  BY <1>2 DEF legVars
<1>3. ASSUME NEW t \in Tasks, Restart(t) PROVE Bridged'
  <2>1. CASE job[t] # "host"
    BY <1>1, <1>3, <2>1 DEF Restart
  <2>2. CASE job[t] = "host"
    <3>1. bridge' = [c \in Tasks |-> IF c \in Conns THEN NewBridge ELSE bridge[c]]
      BY <1>3, <2>2 DEF Restart
    <3>2. NewBridge \in BridgeRecord /\ BridgeInv(NewBridge)
      BY NewBridges DEF BridgeInv
    <3>3. \A c \in Tasks : bridge'[c] \in BridgeRecord /\ BridgeInv(bridge'[c])
      <4>1. TAKE c \in Tasks
      <4>2. bridge'[c] = NewBridge \/ bridge'[c] = bridge[c]
        BY <3>1
      <4>3. bridge[c] \in BridgeRecord /\ BridgeInv(bridge[c])
        BY DEF Bridged
      <4>4. QED
        BY <3>2, <4>2, <4>3
    <3>4. bridge' \in [Tasks -> BridgeRecord]
      BY <3>1, <3>3
    <3>5. QED
      BY <3>3, <3>4 DEF Bridged
  <2>3. QED
    BY <2>1, <2>2
<1>4. ASSUME NEW c \in Conns, ConnStep(c) PROVE Bridged'
  <2>1. c \in Tasks
    BY DEF Conns
  <2>2. CASE OpenRemote(c)
    BY <2>1, <2>2, NewBridges, BridgePut DEF OpenRemote
  <2>3. CASE GuestSends(c) \/ forward_guest_message(c)
    BY <2>1, <2>3, GuestSide
  <2>4. CASE ServerSends(c) \/ ServerLost(c)
    BY <2>1, <2>4, ServerSide
  <2>5. CASE PumpBack(c) \/ PumpEnds(c)
    BY <2>1, <2>5, PumpKeeps, PumpEndKeeps
  <2>6. CASE LegMove(c) /\ ~OpenRemote(c)
    BY <1>1, <2>6 DEF LegMove, LegsLoaded, OnlyLeg, auth_publickey_offered, auth_publickey, auth_password,
         channel_open_session, Connect, verify_server_key, append_known_host, Authenticate, Elapsed
  <2>7. CASE LegsCached(c)
    BY <1>1, <2>7 DEF LegsCached, legVars
  <2>8. QED
    BY <1>4, <2>2, <2>3, <2>4, <2>5, <2>6, <2>7 DEF ConnStep, LegMove, Pumps
<1>5. ASSUME NEW n \in Names, Rekey(n) PROVE UNCHANGED bridge
  BY <1>5 DEF Rekey
<1>6. CASE UNCHANGED vars
  BY <1>1, <1>6 DEF vars, legVars
<1>7. QED
  BY <1>1, <1>2, <1>3, <1>4, <1>5, <1>6 DEF Next

\* However the server's messages, its end and the guest's interleave with the
\* two pumps, and whatever the two ends say: the guest has a beginning of what
\* the server sent, in order, and all of it once its channel is closed (the
\* pump of channel_open_session, legs.rs).
THEOREM GuestIsTold == Spec => []GuestTold
<1>1. Init => Bridged
  <2>1. SUFFICES ASSUME Init PROVE Bridged
    OBVIOUS
  <2>2. bridge = [t \in Tasks |-> NewBridge]
    BY <2>1 DEF Init, LegInit
  <2>3. NewBridge \in BridgeRecord /\ BridgeInv(NewBridge)
    BY NewBridges DEF BridgeInv
  <2>4. QED
    BY <2>2, <2>3 DEF Bridged
<1>2. Bridged => GuestTold
  <2>1. SUFFICES ASSUME Bridged, NEW c \in Conns
                 PROVE  LET b == bridge[c]
                            relayed == IF Contains(b.server, "close") THEN b.toGuest ELSE Front(b.toGuest)
                        IN  /\ ~Contains(b.toGuest, "close")
                               => \E n \in 0..Len(b.server) : Told(b.toGuest, b.server, n)
                            /\ Contains(b.toGuest, "close") => Told(relayed, b.server, Len(b.server))
    BY DEF GuestTold
  <2> DEFINE b == bridge[c]
  <2>2. BridgeInv(b) /\ b \in BridgeRecord
    BY <2>1 DEF Bridged, Conns
  <2>3. b.written \in Nat /\ b.server \in Seq(Words)
    BY <2>2 DEF BridgeRecord
  <2> HIDE DEF b
  <2>4. CASE Feeding(b)
    <3>1. b.written \in 0..Len(b.server) /\ Told(b.toGuest, b.server, b.written) /\ ~Contains(b.toGuest, "close")
      BY <2>3, <2>4 DEF Feeding
    <3>2. QED
      BY <3>1 DEF b
  <2>5. CASE Stopped(b)
    <3>1. LastWord(b.server, b.lost)
      BY <2>2 DEF BridgeInv
    <3>2. \/ Contains(b.server, "close") /\ Told(b.toGuest, b.server, Len(b.server))
          \/ ~Contains(b.server, "close") /\ Told(Front(b.toGuest), b.server, Len(b.server))
      BY <2>5, <3>1, Zenon DEF Stopped, LastWord
    <3>3. Contains(b.toGuest, "close")
      BY <2>5 DEF Stopped
    <3>4. QED
      BY <3>2, <3>3 DEF b
  <2>6. QED
    BY <2>2, <2>4, <2>5 DEF BridgeInv
<1>3. Bridged /\ [Next]_vars => Bridged'
  BY BridgesKept
<1>4. QED
  BY <1>1, <1>2, <1>3, PTL DEF Spec
=============================================================================
