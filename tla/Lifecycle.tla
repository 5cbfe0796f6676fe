------------------------------ MODULE Lifecycle ------------------------------
(***************************************************************************)
(* The commands that confine a workspace: init, up, agent, down, expose    *)
(* and the read-only ones.  Each file a command writes is a step of its    *)
(* own; between two steps the process may be killed, the user may save     *)
(* another config or change the build context.  docker compose, the image  *)
(* and the containers are external.                                        *)
(***************************************************************************)
EXTENDS Stack

CONSTANTS Workspaces,
          Hosts,        \* the machines generation may run on
          Configs,      \* the config a workspace starts with, per workspace
          Disks,        \* the generated state it starts with
          EditedTo,     \* the configs an editor may save, per workspace
          Registries,   \* the claims other sessions left
          Commands,     \* the commands run
          MaxCommands, MaxEdits

(* agent and expose leave the backend to the stack on disk. *)
ASSUME CommandsAssumption ==
  \A c \in Commands : /\ c.w \in Workspaces
                      /\ c.name \in {"init", "agent", "expose"} => c.backend # "none"
                      /\ c.name \in {"agent", "expose"} => c.backend = "unnamed"

(* Of a stack that was generated, the backend is known. *)
IsDisk(d) == d = [compose |-> d.compose, digest |-> d.digest, files |-> d.files, layer |-> d.layer,
                  bypass |-> d.bypass, build |-> d.build, mise |-> d.mise, support |-> d.support]
ASSUME DisksAssumption ==
  \A d \in Disks : /\ d = [w \in Workspaces |-> d[w]]
                   /\ \A w \in Workspaces :
                        /\ IsDisk(d[w]) /\ d[w].bypass \in {"none", "file"}
                        /\ d[w].compose # <<>> => d[w].compose[1].hodor.backend # "none"
ASSUME ConfigsAssumption == \A c \in Configs : c = [w \in Workspaces |-> c[w]]

VARIABLES host,     \* the machine: commands only add profile directories
          cfg,      \* [Workspaces -> config on disk]
          disk,     \* [Workspaces -> generated state]
          context,  \* [Workspaces -> version of the build context]
          image,    \* [Workspaces -> version the agent image holds]
          running,  \* [Workspaces -> <<>> or the stack docker runs]
          claims,   \* host port -> [ws, port]
          cmd,      \* the command running, or the last one
          pc,       \* the steps it has left
          gen,      \* the generation in progress
          torn,     \* [Workspaces -> "no", "cut" when a generation is unfinished,
                    \*  "edited" when the config changed since it began]
          ran, edits

vars == <<host, cfg, disk, context, image, running, claims, cmd, pc, gen, torn, ran, edits>>
World == <<host, cfg, context, edits>>     \* what most steps leave alone

-----------------------------------------------------------------------------
(* What is on disk *)

NoDisk == [compose |-> <<>>, digest |-> <<>>, files |-> <<>>, layer |-> [marker |-> {}, blobs |-> {}],
           bypass |-> "none", build |-> <<>>, mise |-> <<>>, support |-> FALSE]

(* The digest covers the config files, not the sources generation reads. *)
config_digest(c) == c
stack_is_stale(d, c) ==
  \/ d.compose # <<>> /\ d.compose[1].shape # StackShape
  \/ d.digest # <<config_digest(c)>>
generated_backend(d) == IF d.compose = <<>> THEN "none" ELSE d.compose[1].hodor.backend

(* An unnamed backend is ebpf. *)
resolve_backend(b) == IF b = "unnamed" THEN "ebpf" ELSE b
ensure_bypass_file(d) == IF d.bypass = "none" THEN [d EXCEPT !.bypass = "file"] ELSE d
prepare_support_files(d) == [d EXCEPT !.support = TRUE]


(* mise.local.toml in the agent's terms: a path under the host home moves   *)
(* to the container's, a url or another text stays.                         *)
rewrite_mise_string(v, home, container) ==
  IF v.url THEN v
  ELSE IF v.rel = "home" /\ home # <<>> THEN [v EXCEPT !.rel = "abs", !.at = translate(home \o v.at, home, container)]
  ELSE IF v.rel = "abs" THEN [v EXCEPT !.at = translate(v.at, home, container)]
  ELSE v
rewrite_mise_toml(values, home, container) ==
  [i \in DOMAIN values |-> rewrite_mise_string(values[i], home, container)]
(* Written once, where both of the project's mise files exist. *)
ensure_mise_agent(d, c, h) ==
  IF c.home /\ {"mise.toml", "mise.local.toml"} \subseteq h.mise.files /\ d.mise = <<>>
  THEN [d EXCEPT !.mise = rewrite_mise_toml(h.mise.values, h.home, h.container)] ELSE d

-----------------------------------------------------------------------------
(* A slip of InitSteps: the digest before the file it vouches for. *)
DigestFirstSteps == <<"prepare", "decide", "rewrites", "ambient", "grants", "assemble", "digest", "compose">>
InitSteps == <<"prepare", "decide", "rewrites", "ambient", "grants", "assemble", "compose", "digest">>
UpSteps   == <<"support", "build", "up", "record">>
StepsOf(c) ==
  CASE c.name = "init"   -> InitSteps
    [] c.name = "up"     -> UpSteps
    [] c.name = "agent"  -> InitSteps \o UpSteps \o <<"exec">> \o (IF c.rm THEN <<"down">> ELSE <<>>)
    [] c.name = "down"   -> <<"down", "prune">>
    [] c.name = "expose" -> <<"claim", "entry">> \o InitSteps \o UpSteps \o <<"insert", "verify">>
    [] OTHER             -> <<"list">>
NoGen == [cfg |-> <<>>, backend |-> "none", out |-> Collector, stack |-> <<>>, build |-> FALSE]

Init ==
  /\ host \in Hosts /\ cfg \in Configs /\ disk \in Disks
  /\ context = [w \in Workspaces |-> 1] /\ image = [w \in Workspaces |-> 0]
  /\ running = [w \in Workspaces |-> <<>>] /\ claims \in Registries
  /\ cmd = [name |-> "none"] /\ pc = <<>> /\ gen = NoGen
  /\ torn = [w \in Workspaces |-> "no"] /\ ran = 0 /\ edits = 0

W == cmd.w
At(step) == pc # <<>> /\ Head(pc) = step
Step(ok) == pc' = IF ok THEN Tail(pc) ELSE <<>>
SetDisk(d) == disk' = [disk EXCEPT ![W] = d]
TornBy(w, c) == IF torn[w] = "no" \/ c = cfg[w] THEN torn ELSE [torn EXCEPT ![w] = "edited"]

Begin ==
  /\ pc = <<>> /\ ran < MaxCommands /\ ran' = ran + 1
  /\ \E c \in Commands : cmd' = c /\ pc' = StepsOf(c)
  /\ gen' = NoGen
  /\ UNCHANGED <<World, disk, image, running, claims, torn>>

-----------------------------------------------------------------------------
(* init_workspace *)

(* The bypass file for the backend asked for, then the loads, which may     *)
(* fail, and the support and mise files.                                    *)
Prepare ==
  /\ At("prepare") /\ Step(cfg[W].valid)
  /\ LET d == IF resolve_backend(cmd.backend) = "ebpf" THEN ensure_bypass_file(disk[W]) ELSE disk[W]
     IN SetDisk(IF cfg[W].valid THEN ensure_mise_agent(prepare_support_files(d), cfg[W], host) ELSE d)
  /\ UNCHANGED <<World, image, running, claims, cmd, gen, torn, ran>>

(* A slip of KeptBackend: an unnamed backend is the default. *)
DefaultBackend(d, asked) == resolve_backend(asked)

(* An unnamed backend keeps the one on disk. *)
KeptBackend(d, asked) ==
  IF asked = "unnamed" /\ generated_backend(d) # "none" THEN generated_backend(d) ELSE resolve_backend(asked)

(* A current stack is left alone. *)
Decide ==
  /\ At("decide")
  /\ LET current == disk[W].compose # <<>> /\ ~stack_is_stale(disk[W], cfg[W]) IN
        /\ pc' = IF current THEN SubSeq(pc, 8, Len(pc)) ELSE Tail(pc)
        /\ gen' = IF current THEN NoGen
                  ELSE [NoGen EXCEPT !.backend = KeptBackend(disk[W], cmd.backend)]
        /\ torn' = IF current THEN torn ELSE [torn EXCEPT ![W] = "cut"]
  /\ UNCHANGED <<World, disk, image, running, claims, cmd, ran>>

(* generate_stack reads the config again; what the rewrites wrote before    *)
(* one of them failed stays written.                                        *)
Rewrites ==
  /\ At("rewrites")
  /\ LET ok  == resolve(host, cfg[W]).ok /\ secrets(host, cfg[W])
         out == IF ok THEN write_rewrites(host, cfg[W]) ELSE [Collector EXCEPT !.ok = FALSE]
     IN /\ Step(out.ok)
        /\ gen' = IF out.ok THEN [gen EXCEPT !.cfg = <<cfg[W]>>, !.out = out] ELSE NoGen
        /\ SetDisk([disk[W] EXCEPT !.files = out.files @@ @])
  /\ UNCHANGED <<World, image, running, claims, cmd, torn, ran>>

Ambient ==
  /\ At("ambient") /\ Step(TRUE)
  /\ LET out == derive_sources(host, gen.cfg[1]) IN
       /\ gen' = [gen EXCEPT !.out.files = out.files @@ @, !.out.mounts = @ \o out.mounts,
                             !.out.grants = @ \o out.grants]
       /\ SetDisk([disk[W] EXCEPT !.files = out.files @@ @])
  /\ UNCHANGED <<World, image, running, claims, cmd, torn, ran>>

Grants ==
  /\ At("grants") /\ Step(TRUE)
  /\ SetDisk([disk[W] EXCEPT !.layer = GrantLayer(@, gen.out.grants)])
  /\ UNCHANGED <<World, image, running, claims, cmd, gen, torn, ran>>

(* Profiles, guest pairs, build and image: each may fail. *)
DoAssemble ==
  /\ At("assemble")
  /\ LET s == Assemble(host, gen.cfg[1], gen.backend, gen.out.mounts, gen.out.grants) IN
       /\ Step(s.ok)
       /\ gen' = IF s.ok THEN [gen EXCEPT !.stack = <<s.v>>] ELSE NoGen
       /\ host' = [host EXCEPT !.profiles = @ \cup MadeDirs(host, gen.cfg[1])]
  /\ UNCHANGED <<cfg, context, edits, disk, image, running, claims, cmd, torn, ran>>

WriteCompose ==
  /\ At("compose") /\ Step(TRUE)
  /\ SetDisk([disk[W] EXCEPT !.compose = gen.stack])
  /\ torn' = [torn EXCEPT ![W] = "no"]
  /\ UNCHANGED <<World, image, running, claims, cmd, gen, ran>>

(* The digest is of the config as it is now. *)
WriteDigest ==
  /\ At("digest") /\ Step(TRUE)
  /\ SetDisk([disk[W] EXCEPT !.digest = <<config_digest(cfg[W])>>])
  /\ UNCHANGED <<World, image, running, claims, cmd, gen, torn, ran>>

-----------------------------------------------------------------------------
(* up_workspace *)

(* A slip of Support: `up` leaves the bypass file to init. *)
SupportOnly ==
  /\ At("support") /\ Step(TRUE)
  /\ SetDisk(prepare_support_files(disk[W]))
  /\ gen' = NoGen
  /\ UNCHANGED <<World, image, running, claims, cmd, torn, ran>>

Support ==
  /\ At("support") /\ Step(TRUE)
  /\ LET d == prepare_support_files(disk[W]) IN
     SetDisk(IF generated_backend(d) = "ebpf" THEN ensure_bypass_file(d) ELSE d)
  /\ gen' = NoGen
  /\ UNCHANGED <<World, image, running, claims, cmd, torn, ran>>

(* should_build: forced without a build section is an error. *)
should_build(c, forced, stored, now) == c.build # <<>> /\ (forced \/ stored # <<now>>)
Build ==
  /\ At("build") /\ Step(cfg[W].valid /\ (cmd.forced => cfg[W].build # <<>>))
  /\ gen' = [gen EXCEPT !.build = should_build(cfg[W], cmd.forced, disk[W].build, context[W])]
  /\ UNCHANGED <<World, disk, image, running, claims, cmd, torn, ran>>

(* External: compose refuses a host port another stack publishes, makes a   *)
(* directory of a missing file mount, and recreates what changed.           *)
Published(w) == IF running[w] = <<>> THEN {} ELSE {p.host : p \in running[w][1].stack.hodor.ports}
ComposeUp ==
  /\ At("up")
  /\ LET d  == disk[W]
         s  == d.compose[1]
         ok == /\ d.compose # <<>>
               /\ \A w \in Workspaces \ {W} : Published(w) \cap {p.host : p \in s.hodor.ports} = {}
         same == running[W] # <<>> /\ running[W][1].stack.hodor = s.hodor
         loaded == IF same THEN running[W][1].loaded ELSE [marker |-> d.layer.marker, cfg |-> cfg[W]]
     IN /\ Step(ok)
        /\ running' = IF ok THEN [running EXCEPT ![W] = <<[stack |-> s, loaded |-> loaded]>>] ELSE running
        /\ SetDisk(IF ok /\ s.hodor.backend = "ebpf" /\ d.bypass = "none" THEN [d EXCEPT !.bypass = "directory"] ELSE d)
        /\ image' = IF ok /\ gen.build THEN [image EXCEPT ![W] = context[W]] ELSE image
  /\ UNCHANGED <<World, claims, cmd, gen, torn, ran>>

(* record_build_digest: of the context as it is now. *)
Record ==
  /\ At("record") /\ Step(TRUE)
  /\ SetDisk([disk[W] EXCEPT !.build = IF cfg[W].build = <<>> THEN <<>>
                                       ELSE IF gen.build THEN <<context[W]>> ELSE @])
  /\ UNCHANGED <<World, image, running, claims, cmd, gen, torn, ran>>

-----------------------------------------------------------------------------
(* agent, down, expose *)

(* The session ends, by itself or by an interrupt; --rm goes on to `down`.  *)
Exec ==
  /\ At("exec") /\ running[W] # <<>> /\ Step(TRUE)
  /\ UNCHANGED <<World, disk, image, running, claims, cmd, gen, torn, ran>>

Down ==
  /\ At("down") /\ Step(disk[W].compose # <<>>)
  /\ running' = IF disk[W].compose # <<>> THEN [running EXCEPT ![W] = <<>>] ELSE running
  /\ UNCHANGED <<World, disk, image, claims, cmd, gen, torn, ran>>

prune_workspace(cs, w) == [p \in {q \in DOMAIN cs : cs[q].ws # w} |-> cs[p]]
Prune ==
  /\ At("prune") /\ Step(TRUE)
  /\ claims' = prune_workspace(claims, W)
  /\ UNCHANGED <<World, disk, image, running, cmd, gen, torn, ran>>

(* A slip of check_claim: only this workspace's own claims are looked at. *)
check_own_claim(cs, w, h, p) == h \in DOMAIN cs => cs[h].ws # w \/ cs[h].port = p

(* Free, or this workspace's own claim for the same port. *)
check_claim(cs, w, h, p) == h \in DOMAIN cs => cs[h] = [ws |-> w, port |-> p]
CapturePorts == {15000, 15001}
Claim ==
  /\ At("claim")
  /\ Step(/\ {cmd.port, cmd.publish} \cap (CapturePorts \cup {0}) = {}
          /\ check_claim(claims, W, cmd.publish, cmd.port))
  /\ UNCHANGED <<World, disk, image, running, claims, cmd, gen, torn, ran>>

ensure_expose_entry(c, port, h) == [c EXCEPT !.expose = @ \cup {[host |-> h, port |-> port]}]
Entry ==
  /\ At("entry") /\ Step(TRUE)
  /\ LET c == ensure_expose_entry(cfg[W], cmd.port, cmd.publish) IN
       cfg' = [cfg EXCEPT ![W] = c] /\ torn' = TornBy(W, c)
  /\ UNCHANGED <<host, context, edits, disk, image, running, claims, cmd, gen, ran>>

(* The registry is read again and the claim inserted unconditionally. *)
Insert ==
  /\ At("insert") /\ Step(TRUE)
  /\ claims' = [p \in DOMAIN claims \cup {cmd.publish} |->
                  IF p = cmd.publish THEN [ws |-> W, port |-> cmd.port] ELSE claims[p]]
  /\ UNCHANGED <<World, disk, image, running, cmd, gen, torn, ran>>

compose_port(w, p) == running[w] # <<>> /\ \E m \in running[w][1].stack.hodor.ports : m.port = p
Verify ==
  /\ At("verify") /\ Step(compose_port(W, cmd.port))
  /\ UNCHANGED <<World, disk, image, running, claims, cmd, gen, torn, ran>>

List ==      \* logs, expose --list
  /\ At("list") /\ Step(TRUE)
  /\ UNCHANGED <<World, disk, image, running, claims, cmd, gen, torn, ran>>

-----------------------------------------------------------------------------
(* What happens around a command *)

Killed ==
  /\ pc # <<>> /\ pc' = <<>>
  /\ UNCHANGED <<World, disk, image, running, claims, cmd, gen, torn, ran>>

EditConfig ==
  /\ edits < MaxEdits /\ edits' = edits + 1
  /\ \E w \in Workspaces : \E c \in EditedTo[w] :
       c # cfg[w] /\ cfg' = [cfg EXCEPT ![w] = c] /\ torn' = TornBy(w, c)
  /\ UNCHANGED <<host, context, disk, image, running, claims, cmd, pc, gen, ran>>

EditContext ==
  /\ edits < MaxEdits /\ edits' = edits + 1
  /\ \E w \in Workspaces : cfg[w].build # <<>> /\ context' = [context EXCEPT ![w] = @ + 1]
  /\ UNCHANGED <<host, cfg, disk, image, running, claims, cmd, pc, gen, torn, ran>>

Next ==
  \/ Begin \/ Prepare \/ Decide \/ Rewrites \/ Ambient \/ Grants \/ DoAssemble \/ WriteCompose
  \/ WriteDigest \/ Support \/ Build \/ ComposeUp \/ Record \/ Exec \/ Down \/ Prune \/ Claim
  \/ Entry \/ Insert \/ Verify \/ List \/ Killed \/ EditConfig \/ EditContext

Spec == Init /\ [][Next]_vars

-----------------------------------------------------------------------------
(* What the agent of a running stack can read of the generated files, and   *)
(* what its hodor can.                                                      *)
FilesOf(w, svc) == {m.host[2] : m \in {x \in svc.mounts : x.host[1] = "files"}} \cap DOMAIN disk[w].files
AgentHolds(w) == UNION {{f[Len(f)] : f \in disk[w].files[n]} : n \in FilesOf(w, running[w][1].stack.agent)}
IsSecret(v) == v[1] = "real"

(* Whatever was interrupted, edited or left from an earlier generation, the *)
(* generated files a running agent mounts hold no credential of the host,   *)
(* and it mounts nothing of the grant layer or of fnox.                     *)
AgentBlind ==
  \A w \in Workspaces : running[w] # <<>> =>
    /\ \A v \in AgentHolds(w) : ~IsSecret(v)
    /\ \A m \in running[w][1].stack.agent.mounts : m.host[1] \notin {"grants", "fnox", "config"}

(* A decoy that stands for a token in the agent's files is one hodor's      *)
(* grant layer answers for, unless a generation was left unfinished.        *)
TwinAnswered ==
  \A w \in Workspaces : running[w] # <<>> /\ torn[w] = "no" /\ pc = <<>> =>
    \A v \in AgentHolds(w) : v[1] = "decoy" /\ v[2] \notin host.decoys =>
      \E g \in disk[w].layer.marker : g.label = v[2]

(* An unfinished generation, whatever it wrote before it was killed or      *)
(* failed, is taken up again: until the config changes, the next init does  *)
(* not take the stack for current.                                          *)
Retried ==
  \A w \in Workspaces : torn[w] = "cut" =>
    disk[w].compose = <<>> \/ stack_is_stale(disk[w], cfg[w])

(* What the file's own header says: it regenerates when the config changed  *)
(* since it was generated.                                                  *)
RegeneratesOnChange ==
  \A w \in Workspaces : pc = <<>> /\ disk[w].compose # <<>> /\ disk[w].compose[1].cfg # cfg[w] =>
    stack_is_stale(disk[w], cfg[w])

(* A file mount is never a directory docker made. *)
BypassIsFile == \A w \in Workspaces : disk[w].bypass # "directory"

(* The capture backend of a stack changes only where a command names it. *)
BackendKept ==
  [][\A w \in Workspaces : disk[w].compose # <<>> /\ generated_backend(disk'[w]) # generated_backend(disk[w])
       => cmd.name = "init" /\ cmd.backend = generated_backend(disk'[w])]_vars

(* A host port claimed by one workspace passes to another only after the    *)
(* first gave it up.                                                        *)
ClaimNotStolen ==
  [][\A p \in DOMAIN claims : p \in DOMAIN claims' => claims'[p].ws = claims[p].ws]_vars

(* What is left by a command that was killed or failed is put right: an     *)
(* unfinished generation is retried, and docker finds each file it mounts.  *)
Recovered == Retried /\ BypassIsFile

(* A stack's backend and a host port's owner change only by a command that  *)
(* says so.                                                                 *)
OnlyAsAsked == BackendKept /\ ClaimNotStolen

(* Every grant hodor holds has the key its agent needs mounted. *)
GrantsUsable ==
  \A w \in Workspaces : running[w] # <<>> /\ torn[w] = "no" /\ pc = <<>> =>
    \A b \in disk[w].layer.blobs : b[Len(b)][1] = "key" => b[Len(b)] \in AgentHolds(w)
=============================================================================
