------------------------------- MODULE Startup -------------------------------
(***************************************************************************)
(* A hodor process from its command line to its grants: the config files   *)
(* are read in three passes, the registry and the fnox chain are opened,   *)
(* the rules are resolved and turned into grants, and `serve` starts while *)
(* `fake` prints one decoy.  Each read is a step of its own, because an    *)
(* editor may replace the project file between two of them.                *)
(***************************************************************************)
EXTENDS FnoxLayers

CONSTANTS FnoxEnv,    \* the credentials fnox's providers read from the environment
          Worlds,     \* the files a process may find
          Commands,   \* the commands run: [name, env, pattern, doc]
          EditedTo,   \* the project files an editor may save
          Probes      \* the endpoints [scheme, host, port] asked about

VARIABLES world,      \* the files on disk
          command,    \* the command running
          pc,         \* the steps it has left
          cfg,        \* scalars and tables read so far
          rules,      \* the rules, as read and then as resolved
          stated,     \* the rules as read
          reg, source,
          grants,     \* what is served
          printed     \* what `fake` printed

vars == <<world, command, pc, cfg, rules, stated, reg, source, grants, printed>>

(* confique's builder: the project's tables win over the global file's. *)
NoCfg == [ports |-> <<>>, expose |-> <<>>, networks |-> {}, extra_hosts |-> {}, plugins |-> {},
          tools |-> Empty]
ScalarsOf(layer) == [ports |-> layer.ports, expose |-> layer.expose, networks |-> {},
                     extra_hosts |-> {}, plugins |-> layer.plugins, tools |-> layer.tools]
ProjectLayer(w) == project_config_file(w.project)
NoLayer == [ports |-> <<>>, expose |-> <<>>, plugins |-> {}, rules |-> Empty, tools |-> Empty]
LayerOf(o) == IF o = <<>> THEN NoLayer ELSE o[1]

(* The steps of each command, in the order the code takes them. *)
LoadSteps == <<"scalars", "rules", "tools", "validate">>
StepsOf(name) ==
  CASE name = "serve"  -> LoadSteps \o <<"registry", "fnox", "resolve", "grants", "bind">>
    [] name = "fake"   -> <<"pattern", "registry">> \o LoadSteps \o <<"fnox", "resolve", "print">>
    [] name = "rules"  -> <<"registry", "fnox", "list">>
    [] name = "import" -> <<"list">>
    [] OTHER           -> LoadSteps \o <<"list">>         \* config, ca

Init ==
  /\ world \in Worlds /\ command \in Commands
  /\ pc = StepsOf(command.name)
  /\ cfg = NoCfg /\ rules = Empty /\ stated = Empty
  /\ reg = [names |-> Empty, contains |-> <<>>]
  /\ source = [open |-> FALSE, declared |-> {}, values |-> Empty]
  /\ grants = {} /\ printed = <<>>

At(step) == pc # <<>> /\ Head(pc) = step
Fails == pc' = <<"failed">>
Then(ok) == IF ok THEN pc' = Tail(pc) ELSE Fails

-----------------------------------------------------------------------------
(* config::load *)

ReadScalars ==
  /\ At("scalars") /\ Then(TRUE)
  /\ cfg' = ScalarsOf(IF ProjectLayer(world) # <<>> THEN ProjectLayer(world)[1] ELSE LayerOf(world.global))
  /\ UNCHANGED <<world, command, rules, stated, reg, source, grants, printed>>

(* The second read of the same files, label by label. *)
ReadRules ==
  /\ At("rules") /\ Then(TRUE)
  /\ rules' = load_merged_rules(LayerOf(world.global), LayerOf(ProjectLayer(world)))
  /\ stated' = rules'
  /\ UNCHANGED <<world, command, cfg, reg, source, grants, printed>>

(* The third read; then everything read is validated together. *)
ReadTools ==
  /\ At("tools") /\ Then(TRUE)
  /\ cfg' = [cfg EXCEPT !.tools = load_merged_tools(LayerOf(world.global), LayerOf(ProjectLayer(world)))]
  /\ UNCHANGED <<world, command, rules, stated, reg, source, grants, printed>>

ValidateConfig ==
  /\ At("validate")
  /\ Then(Validate([rules |-> rules, ports |-> cfg.ports, expose |-> cfg.expose,
                    networks |-> cfg.networks, extra_hosts |-> cfg.extra_hosts]))
  /\ UNCHANGED <<world, command, cfg, rules, stated, reg, source, grants, printed>>

-----------------------------------------------------------------------------
(* The registry and the secret source *)

LoadRegistry ==
  /\ At("registry")
  /\ LET got == load_union(world.bundled, world.global_rules, world.project_rules) IN
       /\ Then(got.ok)
       /\ reg' = IF got.ok THEN got.v ELSE reg
  /\ UNCHANGED <<world, command, cfg, rules, stated, source, grants, printed>>

(* The names export_provider_env sets: declared, absent from the shell,     *)
(* resolvable; one that does not resolve is passed over.                    *)
export_provider_env(src, shell) ==
  {n \in FnoxEnv \cap src.declared : n \notin shell /\ FnoxValue(src, n).ok}

(* External: a provider yields its value where its credential is set. *)
Yielded(src, env) ==
  [k \in src.declared |-> IF k \in DOMAIN world.behind /\ world.behind[k] \notin env THEN <<>>
                          ELSE src.values[k]]

(* FnoxSource::open; `serve` then exports the credentials fnox declares. *)
OpenFnox ==
  /\ At("fnox")
  /\ LET got == FnoxOpen(world.tree)
         src == [open |-> TRUE, declared |-> DOMAIN got.v[1],
                 values |-> [k \in DOMAIN got.v[1] |-> world.values[k]]]
         env == world.shell \cup (IF command.name = "serve" THEN export_provider_env(src, world.shell) ELSE {})
     IN /\ Then(got.ok)
        /\ source' = IF ~got.ok \/ got.v = <<>> THEN source ELSE [src EXCEPT !.values = Yielded(src, env)]
  /\ UNCHANGED <<world, command, cfg, rules, stated, reg, grants, printed>>

Resolve ==
  /\ At("resolve")
  /\ LET got == ResolveRules(rules, source, reg) IN
       /\ Then(got.ok)
       /\ rules' = IF got.ok THEN got.v ELSE rules
  /\ UNCHANGED <<world, command, cfg, stated, reg, source, grants, printed>>

-----------------------------------------------------------------------------
(* What each command ends with *)

CollectGrants ==
  /\ At("grants")
  /\ LET got == ResolveGrants(rules, cfg.plugins) IN
       /\ Then(got.ok)
       /\ grants' = IF got.ok THEN got.v ELSE grants
  /\ UNCHANGED <<world, command, cfg, rules, stated, reg, source, printed>>

Bind ==
  /\ At("bind") /\ pc' = <<"serving">>
  /\ UNCHANGED <<world, command, cfg, rules, stated, reg, source, grants, printed>>

CheckPattern ==
  /\ At("pattern") /\ Then(validate_pattern(command.pattern))
  /\ UNCHANGED <<world, command, cfg, rules, stated, reg, source, grants, printed>>

(* The decoy of the rule that states the env, as serve would derive it, or  *)
(* the registry's where no rule with a value does.                          *)
PrintFake ==
  /\ At("print")
  /\ LET own  == {l \in DOMAIN rules : rules[l].env = command.env /\ rules[l].value # <<>>}
         rule == rules[CHOOSE l \in own : TRUE]
         ok   == \A e \in Elements(rule.allow) : EndpointScope(e).ok
     IN IF own = {}
        THEN pc' = <<"done">> /\ printed' = <<decoy(reg, command.env, command.pattern)>>
        ELSE /\ pc' = IF ok THEN <<"done">> ELSE <<"failed">>
             /\ printed' = IF ~ok THEN printed
                ELSE <<decoy_for_rule(rule.env, IF rule.pattern # <<>> THEN rule.pattern ELSE command.pattern,
                                      {EndpointScope(e).v : e \in Elements(rule.allow)}, rule.value[1].len)>>
  /\ UNCHANGED <<world, command, cfg, rules, stated, reg, source, grants>>

(* The fragments of the flows a discovery or OpenAPI document declares; a   *)
(* scheme without one is passed over.                                       *)
ImportedFlows(doc) ==
  LET flows == IF doc.kind = "oidc" THEN <<flow_from_oidc(doc)>> ELSE flows_from_openapi(doc.schemes)
      good  == SelectSeq(flows, LAMBDA f : f.ok)
  IN [i \in DOMAIN good |-> to_toml_fragment("issuer", command.env, good[i].v)]

(* config, ca, rules and the imports print and change nothing. *)
List ==
  /\ At("list") /\ pc' = <<"done">>
  /\ printed' = CASE command.name = "rules"  -> <<rules_command(source, reg)>>
                  [] command.name = "import" -> ImportedFlows(command.doc)
                  [] OTHER                   -> <<"template">>
  /\ UNCHANGED <<world, command, cfg, rules, stated, reg, source, grants>>

(* An editor saves the project file between two steps of the load. *)
Edit ==
  /\ pc # <<>> /\ Head(pc) \in {"rules", "tools"} /\ world.project.unified # <<>>
  /\ \E f \in EditedTo : f # world.project.unified[1] /\ world' = [world EXCEPT !.project.unified = <<f>>]
  /\ UNCHANGED <<command, pc, cfg, rules, stated, reg, source, grants, printed>>

Next == \/ ReadScalars \/ ReadRules \/ ReadTools \/ ValidateConfig \/ LoadRegistry \/ OpenFnox
        \/ Resolve \/ CollectGrants \/ Bind \/ CheckPattern \/ PrintFake \/ List \/ Edit

Spec == Init /\ [][Next]_vars

Serving == pc = <<"serving">>

-----------------------------------------------------------------------------
(* The registry's law, stated without folding: a host stands for a name     *)
(* when some entry lists it and no later entry for the name replaces it.    *)
EntriesFor(env) ==
  LET files == <<world.bundled>> \o world.global_rules \o world.project_rules
      of(f) == SelectSeq(f.providers, LAMBDA e : \E n \in Elements(e.env) : Upper(n) = Upper(env))
               \o SelectSeq(f.names, LAMBDA e : Upper(e.env) = Upper(env))
  IN FlattenSeq([i \in DOMAIN files |-> of(files[i])])
HostsByLaw(env) ==
  LET es == EntriesFor(env) IN
  UNION {Elements(es[i].hosts) : i \in {j \in DOMAIN es : \A k \in (j + 1)..Len(es) : ~es[k].replace}}
FlowByLaw(env) ==
  LET es == EntriesFor(env)
      set == {j \in DOMAIN es : es[j].flow # <<>> /\ \A k \in (j + 1)..Len(es) : ~es[k].replace}
  IN IF set = {} THEN <<>> ELSE es[CHOOSE j \in set : \A k \in set : k <= j].flow

(* What the files say a rule's secret may be presented at. *)
AllowedByLaw(env, p) ==
  LET own  == {l \in DOMAIN stated : stated[l].env = env}
      rule == IF own = {} THEN DerivedRule(env) ELSE stated[CHOOSE l \in own : TRUE]
      table == rule.registry # "no"
      flow == IF rule.flow # <<>> THEN rule.flow ELSE IF table THEN FlowByLaw(env) ELSE <<>>
      says == Elements(rule.allow) \cup (IF table THEN HostsByLaw(env) ELSE {})
              \cup UNION {{authority_of(u) : u \in Elements(FlowUrls(f))} : f \in Elements(flow)}
  IN \E e \in says : EndpointScope(e).ok /\ endpoint_match(EndpointScope(e).v, p.scheme, p.host, p.port)

(* A served token is presented exactly where the files allow its rule: at   *)
(* the entries it states, at the registry's hosts unless the rule opts out, *)
(* and at its flow's endpoints.  Nothing widens it, and nothing is lost in  *)
(* the merging of layers, replacements and flows.                           *)
ServedWhereStated ==
  Serving => \A g \in {x \in grants : x.kind = "token"}, p \in Probes :
               GrantMatches(g, p.scheme, p.host, p.port) <=> AllowedByLaw(g.env, p)

(* A rule that must not go missing is served or nothing is: reaching the    *)
(* listener without it would let the agent's decoy through unanswered.      *)
(* (An ssh rule that lists no entries is passed over with a warning.)       *)
FailClosed ==
  Serving => \A l \in DOMAIN stated :
               stated[l].if_missing = "error" /\ ~is_ssh(stated[l]) =>
                 \E g \in grants : g.label = l

(* The decoy generation puts into the agent's environment, and the one      *)
(* `hodor fake` prints, is the one the proxy answers for.  Raw tcp grants,  *)
(* whose fakes serve re-renders at the real value's length, are not held to *)
(* this by generation.                                                      *)
Held == with_rule_patterns(select(source, reg), reg, stated)
OnTcp(g) == \E s \in g.allow : s.scheme = "tcp"
HeldIsServed ==
  /\ Serving => \A g \in {x \in grants : x.kind = "token"} :
       g.env \in DOMAIN Held /\ ~OnTcp(g) => Held[g.env] = g.fake
  /\ command.name = "fake" /\ printed # <<>> =>
       LET served == ResolveGrants(rules, {}) IN
       served.ok => \A g \in {x \in served.v : x.kind = "token" /\ x.env = command.env} : g.fake = printed[1]

(* One secret, one grant: no two grants answer with the same env's value,   *)
(* and no derived rule shadows a stated one.                                *)
OneGrantPerEnv ==
  Serving => /\ \A g, h \in grants : g.env = h.env => g = h
             /\ \A g \in grants : g.label \notin DOMAIN stated =>
                  \A l \in DOMAIN stated : stated[l].env # g.env

(* What is served is what the files state: each secret by one grant, at the *)
(* places they allow it and nowhere else.                                   *)
ServedAsStated == ServedWhereStated /\ OneGrantPerEnv

(* A secret comes from the nearest file that states it, however many files, *)
(* imports and profile rounds the merge went through, and the profile       *)
(* expansion reaches its fixed point.                                       *)
NearestFileWins ==
  At("resolve") =>
    LET got == load_with_recursion(world.tree) IN
    got.ok /\ got.v # <<>> =>
      /\ \A k \in DOMAIN got.v[1].cfg.secrets :
           got.v[1].cfg.secrets[k] = Head(Places(world.tree, got.v[1].profiles, k))
      /\ resolve_profiles_for_discovery(got.v[1].cfg, got.v[1].profiles).v = got.v[1].profiles

(* The agent's decoy is the served one, raw tcp rules included. *)
HeldIsServedOnTcp ==
  Serving => \A g \in {x \in grants : x.kind = "token"} :
    g.env \in DOMAIN Held => Held[g.env] = g.fake
=============================================================================
