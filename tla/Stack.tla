-------------------------------- MODULE Stack --------------------------------
(***************************************************************************)
(* hodor-compose's stack builder: what `hodor init` reads of the host `h`  *)
(* and of a workspace's config `c`, the decoy twins, grant layer and guest *)
(* pairs it writes, and the three services of the compose file it renders. *)
(* A source is named by an identifier; `h.docs` holds the documents that   *)
(* exist.  A mount is [host, container, ro]; host paths of generated files *)
(* start with the directory they are written to.                           *)
(***************************************************************************)
EXTENDS Adapters, TLC

CONSTANTS StackShape,   \* the generator's own shape number
          KnownTools    \* tools whose config directory is known

Failed   == [ok |-> FALSE]
Done(v)  == [ok |-> TRUE, v |-> v]
Mount(host, container, ro) == [host |-> host, container |-> container, ro |-> ro]
Collector == [ok |-> TRUE, files |-> <<>>, mounts |-> <<>>, grants |-> <<>>]

-----------------------------------------------------------------------------
(* Variables of the config: a stated text carries the names it references.  *)

collect_referenced_variables(texts) == UNION {texts[i].vars : i \in DOMAIN texts}
referenced_variables(c) ==
  collect_referenced_variables(c.include) \cup collect_referenced_variables(c.rewrites)
  \cup UNION {ToSet(c.rewrites[i].envs) : i \in DOMAIN c.rewrites} \cup c.home_vars

(* The shell's values, then fnox's for declared names the shell lacks; a    *)
(* declared one without a value is an error.                                *)
resolution_env(h, names) ==
  LET asked == {n \in names : n \notin DOMAIN h.shell /\ n \in DOMAIN h.fnox} IN
  IF \E n \in asked : h.fnox[n] = <<>> THEN Failed
  ELSE Done(h.shell @@ [n \in asked |-> h.fnox[n]])
(* An unset variable is an error, never an empty text. *)
expand_value(env, vars) == vars \subseteq DOMAIN env

-----------------------------------------------------------------------------
(* The workspace's own mounts *)

split_mode(entry) == entry.mode = "ro"

(* The root and the includes, deepest first; a missing one is an error. *)
include_entries(h, c) ==
  LET entry(i) == [host |-> expand(i.path, h.root, h.home), ro |-> split_mode(i)]
      all == <<[host |-> h.root, ro |-> FALSE]>> \o [k \in DOMAIN c.include |-> entry(c.include[k])]
  IN IF \E k \in DOMAIN c.include : ~c.include[k].exists THEN Failed
     ELSE Done(SortSeq(all, LAMBDA a, b : Len(a.host) > Len(b.host)))

resolve_build(c) ==
  IF c.build = <<>> THEN Done(<<>>)
  ELSE IF c.build[1].dockerfile /\ c.build[1].context THEN Done(c.build)
  ELSE Failed

agent_image(c) ==
  IF c.image = "" THEN Failed
  ELSE IF c.image # "none" THEN Done(c.image)
  ELSE IF c.build # <<>> THEN Done("local")
  ELSE Done("default")

(* The state file both ebpf services share, writable by the agent. *)
bypass_mount == Mount(<<"state", "ebpf-bypass">>, <<"hodor", "ebpf-bypass">>, FALSE)

(* What the hodor service alone mounts of fnox and hodor's own levels. *)
fnox_config_dir(h) == IF h.fnox_dir # "none" THEN h.fnox_dir ELSE "fnox"
fnox_binds(h) ==
  (IF fnox_config_dir(h) \in h.dirs THEN {Mount(<<"fnox">>, <<"root", "fnox">>, TRUE)} ELSE {})
  \cup {Mount(<<"config", f>>, <<"root", "hodor", f>>, TRUE) : f \in h.levels}
  \cup (IF "rules.d" \in h.dirs THEN {Mount(<<"config", "rules.d">>, <<"root", "hodor", "rules.d">>, TRUE)} ELSE {})

(* One minted pair per rule, mounted where each of its entries asks. *)
guest_identity_mounts(h, c) ==
  IF c.mtls = {} THEN Done({})
  ELSE IF ~h.ca THEN Failed
  ELSE Done(UNION {{Mount(<<"guests", r.label, "pem">>, r.cert, TRUE),
                    Mount(<<"guests", r.label, "key">>, r.key, TRUE)} : r \in c.mtls})

SharedProfile == "__shared__"
valid_profile(name) == name \notin {"", ".", "..", "a/b"}

(* The first layer with a cookie decides, whether or not it names a parent; *)
(* the shared base takes none.  The layers are the project's and the global *)
(* profile directories, with their cookies and subdirectories.              *)
profile_parent(layers, profile) ==
  LET held == SelectSeq(layers, LAMBDA l : profile \in DOMAIN l.cookies) IN
  IF held = <<>> THEN Done("none")
  ELSE LET parent == held[1].cookies[profile] IN
       IF parent = "none" THEN Done("none")
       ELSE IF parent = "nonstring" THEN Failed
       ELSE IF profile = SharedProfile THEN Failed
       ELSE IF ~valid_profile(parent) THEN Failed
       ELSE Done(parent)

(* Nearest first, down to the shared base; a cycle or a parent no layer     *)
(* holds is an error.  A walk longer than the cookies' parents has cycled.  *)
profile_chain(layers, selected) ==
  LET held(p) == p = SharedProfile \/ \E l \in ToSet(layers) : p \in l.dirs
      longest == 2 + Cardinality(UNION {DOMAIN l.cookies : l \in ToSet(layers)})
      step(chain) ==
        LET parent == profile_parent(layers, Last(chain))
            next   == IF parent.v = "none" THEN SharedProfile ELSE parent.v
        IN IF ~parent.ok THEN Failed
           ELSE IF Last(chain) = SharedProfile THEN Done(chain)
           ELSE IF next \in ToSet(chain) THEN Failed
           ELSE IF ~held(next) THEN Failed
           ELSE Done(Append(chain, next))
      walk[n \in 0..longest] ==
        IF n = 0 THEN Done(<<selected>>)
        ELSE IF walk[n - 1].ok THEN step(walk[n - 1].v) ELSE Failed
  IN IF valid_profile(selected) THEN walk[longest] ELSE Failed

(* The first layer of the profile chain that carries a tool, project first. *)
chain_dir(h, chain, tool) ==
  LET places == [i \in 1..(2 * Len(chain)) |->
                   IF i <= Len(chain) THEN <<"project", chain[i], tool>>
                   ELSE <<"global", chain[i - Len(chain)], tool>>]
  IN SelectSeq(places, LAMBDA p : p \in h.profiles)
create_base(h, profile) == IF h.config_dir THEN <<<<"global", profile>>>> ELSE <<>>

(* Stated tools mount and are made in the global layer, never the project's; *)
(* known ones mount only where a layer has them.                             *)
profile_mounts(h, c) ==
  LET chain == profile_chain(h.layers, c.profile)
      home(t) == IF chain_dir(h, chain.v, t) # <<>> THEN <<Head(chain_dir(h, chain.v, t))>>
                 ELSE [i \in DOMAIN create_base(h, c.profile) |-> Append(create_base(h, c.profile)[i], t)]
      stated == {t \in DOMAIN c.tools : home(t) # <<>>}
      known  == {t \in KnownTools \ DOMAIN c.tools : chain_dir(h, chain.v, t) # <<>>}
  IN IF ~chain.ok THEN Failed
     ELSE IF \E t \in DOMAIN c.tools : ~c.tools[t].valid \/ ~c.tools[t].absolute THEN Failed
     ELSE Done([mounts |-> {Mount(home(t)[1], <<"tool", t>>, FALSE) : t \in stated}
                           \cup {Mount(Head(chain_dir(h, chain.v, t)), <<"tool", t>>, FALSE) : t \in known},
                made |-> {home(t)[1] : t \in stated} \ h.profiles])
MadeDirs(h, c) == IF profile_mounts(h, c).ok THEN profile_mounts(h, c).v.made ELSE {}

-----------------------------------------------------------------------------
(* RewriteCollector *)

(* Side files of one adapted document, each mounted read-only. *)
decoy_files(acc, first) ==
  LET fs == SetToSeq(first.decoy_files) IN
  [acc EXCEPT !.files = [f \in {fs[i].name : i \in DOMAIN fs} |->
                           {<<"file", v>> : v \in (CHOOSE x \in first.decoy_files : x.name = f).values}] @@ @,
              !.mounts = @ \o [i \in DOMAIN fs |-> Mount(<<"files", fs[i].name>>, <<fs[i].container>>, TRUE)]]

(* The twin and the side files of the first document, the grants of all. *)
twin(acc, adapted, name, dest) ==
  IF adapted = <<>> THEN acc
  ELSE [decoy_files([acc EXCEPT !.files = (name :> adapted[1].decoy) @@ @,
                                !.mounts = Append(@, Mount(<<"files", name>>, dest, TRUE))],
                    adapted[1])
          EXCEPT !.grants = @ \o adapted]

-----------------------------------------------------------------------------
(* [[workspace.file_rewrite]] *)

(* Real and decoy of every listed name; a name without either is an error. *)
rewrite_pairs(h, env, rw) ==
  IF \E n \in ToSet(rw.envs) : n \notin DOMAIN env \/ n \notin h.decoys THEN Failed
  ELSE IF \E n \in ToSet(rw.envs) : env[n] = <<>> THEN Failed
  ELSE Done([i \in DOMAIN rw.envs |-> <<env[rw.envs[i]], <<DecoyOf(rw.envs[i])>>>>])

(* The plain swap: the text's atoms, in place. *)
SwappedText(content, pairs) ==
  LET out == apply_rewrites(content, pairs) IN {<<"text", i, out[i]>> : i \in DOMAIN out}

(* ExplicitRewrites::output: the stated or probed adapter, else the swap. *)
RewriteOutput(h, rw, doc, pairs) ==
  LET format == IF rw.format # "none" THEN rw.format ELSE sniff(doc)
      got == IF format = "kubeconfig" THEN KubeAdapt(rw.source, doc.kube) ELSE TalosAdapt(rw.source, doc.talos)
  IN IF format = "none" THEN Done([text |-> SwappedText(doc.text, pairs), adapted |-> <<>>])
     ELSE IF rw.envs # <<>> \/ ~h.ca THEN Failed
     ELSE IF ~got.ok THEN Failed
     ELSE IF got.out # <<>> THEN Done([text |-> got.out[1].decoy, adapted |-> got.out])
     ELSE IF rw.format # "none" THEN Failed
     ELSE Done([text |-> SwappedText(doc.text, pairs), adapted |-> <<>>])

(* ExplicitRewrites::write: the output is on disk before its dest is checked. *)
RewriteWrite(h, env, acc, index, rw) ==
  LET pairs == rewrite_pairs(h, env, rw)
      out   == RewriteOutput(h, rw, h.docs[rw.source], pairs.v)
      name  == <<"rewrite", index>>
      side  == IF out.v.adapted = <<>> THEN acc
               ELSE [decoy_files(acc, out.v.adapted[1]) EXCEPT !.grants = @ \o out.v.adapted]
      wrote == [side EXCEPT !.files = (name :> out.v.text) @@ @]
  IN IF ~acc.ok THEN acc
     ELSE IF ~pairs.ok \/ ~expand_value(env, rw.vars) THEN [acc EXCEPT !.ok = FALSE]
     ELSE IF rw.source \notin DOMAIN h.docs THEN [acc EXCEPT !.ok = FALSE]
     ELSE IF ~out.ok THEN [acc EXCEPT !.ok = FALSE]
     ELSE IF ~rw.absolute THEN [wrote EXCEPT !.ok = FALSE]
     ELSE [wrote EXCEPT !.mounts = Append(@, Mount(<<"files", name>>, <<rw.dest>>, TRUE))]

(* The CA is loaded before the first rewrite when there are any. *)
rewrite_ca(h, c) == c.rewrites = <<>> \/ h.ca
write_rewrites(h, c) ==
  IF ~rewrite_ca(h, c) THEN [Collector EXCEPT !.ok = FALSE]
  ELSE FoldLeft(LAMBDA acc, i : RewriteWrite(h, resolution_env(h, referenced_variables(c)).v, acc, i, c.rewrites[i]),
                Collector,
                [i \in 1..Len(c.rewrites) |-> i])

-----------------------------------------------------------------------------
(* The ambient sources; one a rewrite declares stays with its declaration. *)

declared(c) == {c.rewrites[i].source : i \in DOMAIN c.rewrites}
Out(got) == IF got.ok THEN got.out ELSE <<>>     \* a source that does not map only warns

env_source(h, tool) == IF h.override[tool] = "single" THEN <<tool, "env">> ELSE <<tool, "home">>

DeriveGit(h, c, acc) ==
  IF {<<"git", "home">>, <<"git", "xdg">>, <<"git", "env">>} \cap declared(c) # {} THEN acc
  ELSE twin(acc, Out(GitAdapt(<<"git", "home">>, h.git, h.covers, h.decoys)), <<"gitconfig">>, <<".gitconfig">>)

(* The host's jj directory is mounted whole and writable where it exists. *)
DeriveJj(h, c, acc) ==
  IF \E d \in declared(c) : d[1] = "jj" THEN acc
  ELSE IF h.jj.dir THEN [acc EXCEPT !.mounts = Append(@, Mount(<<"host", "jj">>, <<".config/jj">>, FALSE))]
  ELSE twin(acc, Out(JjAdapt(h.jj, h.git)), <<"jj-config">>, <<".config/jj", "config.toml">>)

DeriveSsh(h, c, acc) ==
  IF <<"ssh", "home">> \in declared(c) \/ <<"ssh", "home">> \notin DOMAIN h.docs THEN acc
  ELSE twin(acc, Out(SshAdapt(<<"ssh", "home">>, h.docs[<<"ssh", "home">>])), <<"ssh-config">>, <<".ssh", "config">>)

DeriveKubeAndTalos(h, c, acc) ==
  LET one(a, tool) ==
        LET path == env_source(h, tool)
            got  == IF tool = "kube" THEN KubeAdapt(path, h.docs[path].kube) ELSE TalosAdapt(path, h.docs[path].talos)
        IN IF path \in declared(c) \/ path \notin DOMAIN h.docs \/ ~h.ca THEN a
           ELSE twin(a, Out(got), <<tool, "config">>, <<tool, "config">>)
  IN one(one(acc, "kube"), "talos")

(* Without a host home nothing is derived. *)
derive_sources(h, c) ==
  IF h.home = <<>> THEN Collector
  ELSE DeriveKubeAndTalos(h, c, DeriveSsh(h, c, DeriveJj(h, c, DeriveGit(h, c, Collector))))

-----------------------------------------------------------------------------
(* The grant layer *)

(* The marker is rewritten; a blob is pruned when its name starts with an   *)
(* adapter's prefix and no grant wrote it.                                  *)
Prefixed(blob) == blob[1] \in {"ssh", "git"}
write_state(layer, adapted) ==
  LET current == UNION {adapted[i].materialized : i \in DOMAIN adapted}
      same(b) == \E n \in current : SubSeq(n, 1, Len(n) - 1) = SubSeq(b, 1, Len(b) - 1)
  IN IF adapted = <<>> /\ layer.marker = {} THEN layer
     ELSE [marker |-> UNION {adapted[i].fragment : i \in DOMAIN adapted},
           blobs  |-> current \cup {b \in layer.blobs : ~same(b) /\ ~Prefixed(b)}]

(* A slip of GrantLayer: the first document's grants alone, as `twin` does. *)
GrantLayerOfFirst(layer, adapted) == IF adapted = <<>> THEN layer ELSE write_state(layer, <<adapted[1]>>)

(* StackBuilder::grants: no grants, no state and no mount. *)
GrantLayer(layer, adapted) == IF adapted = <<>> THEN layer ELSE write_state(layer, adapted)
GrantMounts(adapted) == IF adapted = <<>> THEN {} ELSE {Mount(<<"grants">>, <<"hodor", "grants">>, TRUE)}

-----------------------------------------------------------------------------
(* The compose file *)

backend_service(backend) ==
  CASE backend = "ebpf" -> [caps |-> {"BPF", "PERFMON"}, slice |-> TRUE, devices |-> {}]
    [] backend = "tun"  -> [caps |-> {}, slice |-> FALSE, devices |-> {"tun"}]
    [] OTHER            -> [caps |-> {}, slice |-> FALSE, devices |-> {}]

(* The gateway entry is always there and never twice. *)
Gateway == [host |-> "host.docker.internal", to |-> "host-gateway"]
effective_extra_hosts(c) == <<Gateway>> \o SelectSeq(c.extra_hosts, LAMBDA e : e # Gateway)

agent_service(h, c, backend, image, ws, files, tools, guest) ==
  [image |-> image, build |-> c.build, env |-> h.decoys, passthrough |-> c.passthrough,
   caps |-> {"NET_ADMIN", "SYS_ADMIN"} \cup c.cap_add, devices |-> {"tun"} \cup c.devices,
   slice |-> backend_service(backend).slice, init |-> c.init,
   workdir |-> translate(h.root, h.home, h.container),
   mounts |-> ToSet(ws) \cup ToSet(files) \cup tools \cup guest,
   network |-> "hodor", pid |-> "own"]
fwd_service == [network |-> "hodor", pid |-> "agent"]
hodor_service(h, c, backend, ws, layer) ==
  [backend |-> backend, caps |-> {"NET_ADMIN"} \cup backend_service(backend).caps,
   slice |-> backend_service(backend).slice, devices |-> backend_service(backend).devices,
   ports |-> {[host |-> p, port |-> p] : p \in c.ports} \cup c.expose,
   extra_hosts |-> effective_extra_hosts(c), networks |-> c.networks, restart |-> TRUE,
   mounts |-> ToSet(ws) \cup fnox_binds(h) \cup layer]

(* StackBuilder::secrets: a name takes one path into the agent. *)
secrets(h, c) == c.passthrough \cap (h.decoys \cup c.rule_envs) = {}

(* StackBuilder::resolve: the config parses, its variables have values and  *)
(* its includes are there.                                                  *)
resolve(h, c) ==
  LET es == include_entries(h, c)  env == resolution_env(h, referenced_variables(c)) IN
  IF ~c.valid \/ ~es.ok \/ ~env.ok THEN Failed
  ELSE IF ~expand_value(env.v, c.home_vars \cup collect_referenced_variables(c.include)) THEN Failed
  ELSE Done(covering([i \in DOMAIN es.v |-> Mount(es.v[i].host, translate(es.v[i].host, h.home, h.container), es.v[i].ro)]))

(* The steps after the grants, and the render. *)
Assemble(h, c, backend, file_mounts, adapted) ==
  LET ws == resolve(h, c)  tools == profile_mounts(h, c)  guest == guest_identity_mounts(h, c)
      image == agent_image(c)  build == resolve_build(c)
      mounts == IF backend = "ebpf" THEN Append(ws.v, bypass_mount) ELSE ws.v
  IN IF ~tools.ok \/ ~guest.ok \/ ~build.ok \/ ~image.ok THEN Failed
     ELSE Done([shape |-> StackShape, cfg |-> c,
                hodor |-> hodor_service(h, c, backend, mounts, GrantMounts(adapted)),
                agent |-> agent_service(h, c, backend, image.v, mounts, file_mounts, tools.v.mounts, guest.v),
                fwd |-> fwd_service])
=============================================================================
