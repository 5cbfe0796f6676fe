------------------------------ MODULE KeyFiles ------------------------------
(***************************************************************************)
(* The key files hodor keeps in its configuration directory, and the       *)
(* processes that race to make them: the CA (pki/ca.rs), with its          *)
(* certificate and key split out beside it, the host key of the guest leg  *)
(* of ssh (pki/ssh.rs) and the client pair of a guest that must present a  *)
(* certificate.  hodor serve, hodor ca and every stack generation load or  *)
(* generate them with no lock between them, and any of them may be killed  *)
(* between two system calls.                                               *)
(*                                                                         *)
(* A task does one job.  A file is absent, or holds what one run of one    *)
(* task wrote, whole or not yet whole: a reader that meets a file that is  *)
(* not whole finds no key in it.                                           *)
(***************************************************************************)
EXTENDS Naturals, FiniteSets, FiniteSetsExt

CONSTANTS Tasks,        \* the processes, and the connections that load keys
          Retries,      \* the reads a loser of the CA race makes (20)
          MaxCrashes,   \* bound on the crashes of a behaviour
          Jobs,         \* the assignments of jobs to tasks a behaviour may have
          Interrupted   \* the jobs a crash may cut short

ASSUME RetriesAssumption == Retries \in Nat \ {0}

VARIABLES job,      \* what each task does: "ca", "host" or "pair"
          at,       \* the task's next step
          got,      \* the key it has, or NoKey
          tries,    \* failed reads of a loser
          files,    \* the directory
          runs,     \* how often each task was started again
          anchor,   \* the first CA and the first host key a task returned
          since     \* the tasks that began to sync the split files after the last
                    \* crash inside that sync

keyVars == <<job, at, got, tries, files, runs, anchor, since>>

NoKey == <<>>
Absent == [of |-> NoKey, whole |-> FALSE]
Paths == {"ca", "crt", "key", "host", "pem", "pkey"}

(* A fresh key: every run of a task would generate another one.            *)
Fresh(t) == <<t, runs[t]>>
Holding(k) == [of |-> k, whole |-> TRUE]
Opened(k) == [of |-> k, whole |-> FALSE]

(* What CertAuthority::load or from_openssh makes of a file's text.        *)
Parsed(path) == IF files[path].whole THEN files[path].of ELSE NoKey

KeyInit ==
  /\ job \in Jobs
  /\ at = [t \in Tasks |-> "start"]
  /\ got = [t \in Tasks |-> NoKey]
  /\ tries = [t \in Tasks |-> 0]
  /\ files = [f \in Paths |-> Absent]
  /\ runs = [t \in Tasks |-> 0]
  /\ anchor = [j \in {"ca", "host"} |-> NoKey]
  /\ since = {}

Goto(t, s) == at' = [at EXCEPT ![t] = s]
Put(f, v) == files' = [files EXCEPT ![f] = v]

(* A task has its key.  The first key returned for a job is what clients   *)
(* and guests come to trust.                                               *)
Take(t, j, k, s) ==
  /\ got' = [got EXCEPT ![t] = k]
  /\ anchor' = IF anchor[j] = NoKey THEN [anchor EXCEPT ![j] = k] ELSE anchor
  /\ since' = IF s = "crt" THEN since \cup {t} ELSE since
  /\ Goto(t, s)

Fail(t) == Goto(t, "failed") /\ UNCHANGED <<got, anchor, since>>

-----------------------------------------------------------------------------
(* The CA.                                                                 *)

load_or_generate(t) ==
  /\ job[t] = "ca" /\ at[t] = "start"
  /\ Goto(t, IF files["ca"] = Absent THEN "create" ELSE "load")
  /\ UNCHANGED <<job, got, tries, files, runs, anchor, since>>

load_ca_file(t) ==
  /\ at[t] = "load"
  /\ IF Parsed("ca") # NoKey THEN Take(t, "ca", Parsed("ca"), "crt") ELSE Fail(t)
  /\ UNCHANGED <<job, tries, files, runs>>

(* Without create_new every racer opens the file, and truncates it.        *)
persist_truncating(t) ==
  /\ at[t] = "create"
  /\ Goto(t, "write") /\ Put("ca", Opened(Fresh(t)))
  /\ UNCHANGED <<job, got, tries, runs, anchor, since>>

(* create_new elects the winner: every other task reads the winner's file. *)
persist_ca_0600(t) ==
  /\ at[t] = "create"
  /\ IF files["ca"] = Absent
     THEN Goto(t, "write") /\ Put("ca", Opened(Fresh(t)))
     ELSE Goto(t, "retry") /\ UNCHANGED files
  /\ UNCHANGED <<job, got, tries, runs, anchor, since>>

PersistWritten(t) ==
  /\ at[t] = "write"
  /\ Put("ca", Holding(Fresh(t)))
  /\ Take(t, "ca", Fresh(t), "crt")
  /\ UNCHANGED <<job, tries, runs>>

(* The first read's outcome is kept only as an error: a key it found is    *)
(* read again after the first sleep.                                       *)
load_ca_file_with_retry(t) ==
  /\ at[t] = "retry"
  /\ LET found == Parsed("ca") # NoKey /\ tries[t] > 0
     IN  /\ tries' = [tries EXCEPT ![t] = IF found THEN 0 ELSE @ + 1]
         /\ \/ found /\ Take(t, "ca", Parsed("ca"), "crt")
            \/ ~found /\ tries[t] < Retries /\ UNCHANGED <<at, got, anchor, since>>
            \/ ~found /\ tries[t] >= Retries /\ Fail(t)
  /\ UNCHANGED <<job, files, runs>>

(* The certificate first, then the key, each rewritten only when it is not *)
(* what the CA holds.  The read, the opening that truncates and the write  *)
(* are three system calls.                                                 *)
AfterSplit(f) == IF f = "crt" THEN "key" ELSE "ready"
OpenSplit(f) == IF f = "crt" THEN "opencrt" ELSE "openkey"
PutSplit(f) == IF f = "crt" THEN "putcrt" ELSE "putkey"
Syncing == UNION {{f, OpenSplit(f), PutSplit(f)} : f \in {"crt", "key"}}

(* A split file that is there is taken to be right.                        *)
sync_split_missing(t, f) ==
  /\ at[t] = f
  /\ Goto(t, IF files[f] # Absent THEN AfterSplit(f) ELSE OpenSplit(f))
  /\ UNCHANGED <<job, got, tries, files, runs, anchor, since>>

sync_split_pems(t, f) ==
  /\ at[t] = f
  /\ Goto(t, IF files[f] = Holding(got[t]) THEN AfterSplit(f) ELSE OpenSplit(f))
  /\ UNCHANGED <<job, got, tries, files, runs, anchor, since>>

write_with_mode(t, f) ==
  /\ \/ at[t] = OpenSplit(f) /\ Put(f, Opened(got[t])) /\ Goto(t, PutSplit(f))
     \/ at[t] = PutSplit(f) /\ Put(f, Holding(got[t])) /\ Goto(t, AfterSplit(f))
  /\ UNCHANGED <<job, got, tries, runs, anchor, since>>

-----------------------------------------------------------------------------
(* The host key of the guest leg, and the client pair of a guest.          *)

load_or_generate_host_key(t) ==
  /\ job[t] = "host" /\ at[t] = "start"
  /\ \/ files["host"] = Absent /\ Goto(t, "hcreate") /\ UNCHANGED <<got, anchor, since>>
     \/ Parsed("host") # NoKey /\ Take(t, "host", Parsed("host"), "ready")
     \/ files["host"] # Absent /\ Parsed("host") = NoKey /\ Fail(t)
  /\ UNCHANGED <<job, tries, files, runs>>

(* The loser keeps the key it generated.                                   *)
generate_host_key_kept(t) ==
  /\ at[t] = "hcreate"
  /\ IF files["host"] = Absent
     THEN Goto(t, "hwrite") /\ Put("host", Opened(Fresh(t))) /\ UNCHANGED <<got, anchor, since>>
     ELSE Take(t, "host", Fresh(t), "ready") /\ UNCHANGED files
  /\ UNCHANGED <<job, tries, runs>>

(* A concurrent writer's file wins: the loser reads it, once.              *)
generate_host_key(t) ==
  /\ at[t] = "hcreate"
  /\ IF files["host"] = Absent
     THEN Goto(t, "hwrite") /\ Put("host", Opened(Fresh(t)))
     ELSE Goto(t, "start") /\ UNCHANGED files
  /\ UNCHANGED <<job, got, tries, runs, anchor, since>>

HostWritten(t) ==
  /\ at[t] = "hwrite"
  /\ Put("host", Holding(Fresh(t)))
  /\ Take(t, "host", Fresh(t), "ready")
  /\ UNCHANGED <<job, tries, runs>>

(* The two is_file calls see a file that is there, whole or not.  The      *)
(* files are then written one after the other, truncating what is there.   *)
PairSteps == <<"opem", "wpem", "opkey", "wpkey", "ready">>
load_or_generate_client_pair(t) ==
  /\ job[t] = "pair"
  /\ \/ /\ at[t] = "start"
        /\ Goto(t, IF files["pem"] # Absent /\ files["pkey"] # Absent THEN "ready" ELSE "opem")
        /\ UNCHANGED files
     \/ \E i \in 1..4 :
          /\ at[t] = PairSteps[i]
          /\ Goto(t, PairSteps[i + 1])
          /\ LET f == IF i <= 2 THEN "pem" ELSE "pkey"
             IN  Put(f, IF i \in {1, 3} THEN Opened(Fresh(t)) ELSE Holding(Fresh(t)))
  /\ UNCHANGED <<job, got, tries, runs, anchor, since>>

(* The file cannot be opened for writing, as on a read-only mount: the     *)
(* load fails, but for the split files, which only warn.                   *)
OpenRefused(t) ==
  /\ \/ at[t] \in {"create", "hcreate", "opem", "opkey"} /\ Goto(t, "failed") /\ UNCHANGED since
     \/ \E f \in {"crt", "key"} :
          at[t] = OpenSplit(f) /\ Goto(t, AfterSplit(f)) /\ since' = since \ {t}
  /\ UNCHANGED <<job, got, tries, files, runs, anchor>>

-----------------------------------------------------------------------------
(* A task is killed between two system calls and started again: what it    *)
(* held in memory is gone, what it wrote stays.  One that has returned may *)
(* be started again as well.                                               *)
Crashes == MapThenSumSet(LAMBDA u : runs[u], Tasks)
Crash(t) ==
  /\ Crashes < MaxCrashes
  /\ job[t] \in Interrupted
  /\ at[t] # "start"
  /\ Goto(t, "start")
  /\ got' = [got EXCEPT ![t] = NoKey]
  /\ tries' = [tries EXCEPT ![t] = 0]
  /\ runs' = [runs EXCEPT ![t] = @ + 1]
  /\ since' = IF at[t] \in Syncing THEN {} ELSE since \ {t}
  /\ UNCHANGED <<job, files, anchor>>

KeyStep(t) ==
  \/ load_or_generate(t) \/ load_ca_file(t) \/ persist_ca_0600(t) \/ PersistWritten(t)
  \/ load_ca_file_with_retry(t)
  \/ \E f \in {"crt", "key"} : sync_split_pems(t, f) \/ write_with_mode(t, f)
  \/ load_or_generate_host_key(t) \/ generate_host_key(t) \/ HostWritten(t)
  \/ load_or_generate_client_pair(t)
  \/ OpenRefused(t)

-----------------------------------------------------------------------------
(* One trust anchor.  Every process that gets a CA, in whatever order they *)
(* race and wherever one is killed, gets the CA the first of them          *)
(* returned: a second CA would invalidate every installed certificate      *)
(* (load_or_generate, ca.rs).                                              *)
OneAuthority == \A t \in Tasks : job[t] = "ca" /\ got[t] # NoKey => got[t] = anchor["ca"]

(* The guest's ssh client records the host key it is first shown, so every *)
(* later connection, across restarts and between racing connections, must  *)
(* be shown the same one (load_or_generate_host_key, ssh.rs).              *)
HostKeyKept == \A t \in Tasks : job[t] = "host" /\ got[t] # NoKey => got[t] = anchor["host"]

(* Once every process is at rest and one has gone through sync_split_pems  *)
(* since the last crash inside it, the certificate and the key beside the  *)
(* CA are whole and are the CA's: the next start repairs what a killed one *)
(* left half written.                                                      *)
SplitRepaired ==
  (/\ \A t \in Tasks : job[t] = "ca" => at[t] \in {"start", "ready", "failed"}
   /\ \E t \in since : at[t] = "ready")
  => files["crt"] = Holding(anchor["ca"]) /\ files["key"] = Holding(anchor["ca"])

(* A client pair that is whole stays as it is: an existing pair is never   *)
(* overwritten (load_or_generate_client_pair, ca.rs).                      *)
PairWhole == files["pem"].whole /\ files["pkey"].whole /\ files["pem"].of = files["pkey"].of
PairKept == [][PairWhole => UNCHANGED <<files["pem"], files["pkey"]>>]_keyVars
=============================================================================
