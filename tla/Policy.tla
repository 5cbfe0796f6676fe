------------------------------- MODULE Policy -------------------------------
(***************************************************************************)
(* What hodor makes of its configuration: the layered config files, the    *)
(* host registry, the pass that gives each rule its value and its hosts,   *)
(* and the grants the proxy serves (hodor-config and the rule pass of      *)
(* hodor-fnox).  All of it is a function of the files: the state is in     *)
(* Startup and Lifecycle, which evaluate these operators.                  *)
(*                                                                         *)
(* A text is what its parser keeps of it.  An environment name is          *)
(* <<case, base>>, so that folding its case is a real operation; a host is *)
(* its sequence of labels; a pattern is its sequence of segments.  An      *)
(* optional value is a sequence of length at most one.                     *)
(***************************************************************************)
EXTENDS Integers, Sequences, FiniteSets, SequencesExt

Ok(v) == [ok |-> TRUE, v |-> v]
Err   == [ok |-> FALSE, v |-> <<>>]

(* What follows a result that may be an error, and the fold that stops at   *)
(* the first one: `?` and a loop of them.                                   *)
Try(r, F(_)) == IF r.ok THEN F(r.v) ELSE Err
FoldOk(F(_, _), start, s) ==
  FoldLeft(LAMBDA r, x : IF r.ok THEN F(r.v, x) ELSE r, Ok(start), s)

Upper(name) == <<"U", name[2]>>
Lower(name) == <<"l", name[2]>>
Empty == <<>>                                  \* the empty map
Elements(s) == {s[i] : i \in DOMAIN s}
With(map, k, v) == [x \in DOMAIN map \cup {k} |-> IF x = k THEN v ELSE map[x]]
Over(base, over) ==
  [x \in DOMAIN base \cup DOMAIN over |-> IF x \in DOMAIN over THEN over[x] ELSE base[x]]
(* The items of `more` that `s` does not hold yet, appended in order. *)
UnionSeq(s, more) ==
  FoldLeft(LAMBDA out, x : IF x \in Elements(out) THEN out ELSE Append(out, x), s, more)

-----------------------------------------------------------------------------
(* Fake patterns *)

MaxPatternCount == 4096
Encodings == {"hex", "d", "base62"}
DefaultPattern == <<[enc |-> "hex", n |-> 32, width |-> 8]>>

(* Every braced segment names a known encoding and a count above zero. *)
validate_pattern(p) == \A g \in Elements(p) : g.enc = "lit" \/ (g.enc \in Encodings /\ g.n > 0)

(* A segment renders n seeded characters, or itself when it is no encoding *)
(* or asks for more than the cap.                                          *)
fill_encoding(seed, g) == [seed |-> seed, enc |-> g.enc, n |-> g.n]
render_template(p, seed) ==
  [i \in DOMAIN p |->
     IF p[i].enc \in Encodings /\ p[i].n <= MaxPatternCount THEN fill_encoding(seed, p[i])
     ELSE [seed |-> <<>>, enc |-> "lit", n |-> p[i].width]]

(* The deterministic fake of a seed. *)
fake_for(seed, pattern) == render_template(IF pattern = <<>> THEN DefaultPattern ELSE pattern, seed)
TextLen(text) == FoldLeft(LAMBDA n, g : n + g.n, 0, text)

-----------------------------------------------------------------------------
(* Allow entries *)

(* `*` is any host, a leading `*` label a wildcard over subdomains. *)
HostPat(labels) ==
  IF labels = <<"*">> THEN [kind |-> "any", at |-> <<>>]
  ELSE IF labels[1] = "*" THEN [kind |-> "wild", at |-> Tail(labels)]
  ELSE [kind |-> "exact", at |-> labels]
PatMatches(p, host) ==
  CASE p.kind = "any"  -> TRUE
    [] p.kind = "wild" -> Len(host) > Len(p.at) /\ IsSuffix(p.at, host)
    [] OTHER           -> host = p.at

(* Userinfo, a path, or any query but the default sslnegotiation is refused. *)
reject_endpoint_query(e) ==
  \/ e.user \/ e.path
  \/ \E q \in e.query : q # <<"sslnegotiation", "postgres">>

DefaultPort(scheme) == CASE scheme = "http" -> 80 [] scheme = "https" -> 443 [] OTHER -> 22

(* An entry parses to a scope; database schemes and passwords are refused, *)
(* `*` only leads, and tcp states its port.                                *)
EndpointScope(e) ==
  IF \/ e.scheme \notin {"http", "https", "tcp", "ssh"} \/ e.password
     \/ e.host = <<>> \/ e.host[1] = "*x"
     \/ (e.port = 0 /\ e.scheme = "tcp")
     \/ reject_endpoint_query(e)
  THEN Err
  ELSE Ok([scheme |-> e.scheme, host |-> HostPat(e.host),
           port |-> IF e.port # 0 THEN e.port ELSE DefaultPort(e.scheme),
           cert |-> "none", root |-> "none", guest |-> "tls"])

endpoint_match(s, scheme, host, port) ==
  s.scheme = scheme /\ s.port = port /\ PatMatches(s.host, host)
uri_match(allow, scheme, host, port) == \E s \in allow : endpoint_match(s, scheme, host, port)

-----------------------------------------------------------------------------
(* Connection strings *)

(* The keys a query states, the last one of a key winning. *)
QueryOf(u, key) == LET hits == SelectSeq(u.query, LAMBDA q : q[1] = key)
                   IN IF hits = <<>> THEN "none" ELSE Last(hits)[2]
SslModes == {"disable", "allow", "prefer", "require", "verify-ca", "verify-full"}

(* One string: the right scheme, a host, a password, one path segment. *)
UriParse(u, schemes) == /\ u.kind \in schemes
                        /\ u.host # <<>> /\ u.password # "" /\ u.segments <= 1
Leg(u) == [host |-> u.host, port |-> u.port, user |-> u.user, password |-> u.password]
CertPair(u) == (QueryOf(u, "sslcert") = "none") = (QueryOf(u, "sslkey") = "none")

(* libpq's TLS parameters: sslmode defaults to prefer. *)
postgres_tls(u) ==
  IF /\ \A q \in Elements(u.query) :
          CASE q[1] \in {"sslmode", "ssl"} -> q[2] \in SslModes
            [] q[1] = "sslnegotiation"     -> q[2] \in {"postgres", "direct"}
            [] OTHER -> q[1] \in {"sslrootcert", "sslcert", "sslkey"} /\ q[2] # ""
     /\ CertPair(u)
  THEN LET modes == SelectSeq(u.query, LAMBDA q : q[1] \in {"sslmode", "ssl"}) IN
       Ok([ssl |-> IF modes = <<>> THEN "prefer" ELSE Last(modes)[2],
           root |-> QueryOf(u, "sslrootcert"), cert |-> QueryOf(u, "sslcert")])
  ELSE Err

(* Both legs; a verifying mode needs a trust anchor. *)
PostgresScope(fake, real) ==
  LET tls == postgres_tls(real) IN
  IF /\ UriParse(fake, {"postgres"}) /\ UriParse(real, {"postgres"})
     /\ tls.ok
     /\ ~(tls.v.ssl \in {"verify-ca", "verify-full"} /\ tls.v.root = "none")
  THEN Ok([kind |-> "postgres", down |-> Leg(fake), up |-> Leg(real),
           ssl |-> tls.v.ssl, root |-> tls.v.root, guest |-> "tls"])
  ELSE Err

(* A redis string states its transport in its scheme alone. *)
redis_tls(u) ==
  /\ \A q \in Elements(u.query) :
       q[1] \in {"sslrootcert", "sslcert", "sslkey"} /\ q[2] # "" /\ u.kind = "rediss"
  /\ CertPair(u)
RedisScope(fake, real) ==
  IF /\ UriParse(fake, {"redis", "rediss"}) /\ UriParse(real, {"redis", "rediss"})
     /\ redis_tls(real)
  THEN Ok([kind |-> "redis", down |-> Leg(fake), up |-> Leg(real),
           ssl |-> IF real.kind = "rediss" THEN "verify" ELSE "disable",
           root |-> QueryOf(real, "sslrootcert"), guest |-> "tls"])
  ELSE Err

(* The tls table of a database rule states the guest leg only, under its env. *)
GuestRow(rule, scope) ==
  IF \A k \in DOMAIN rule.tls : /\ k = rule.env
                                /\ rule.tls[k].cert = "none" /\ rule.tls[k].key = "none"
                                /\ rule.tls[k].root = "none"
  THEN Ok([scope EXCEPT !.guest = IF DOMAIN rule.tls = {} THEN @ ELSE rule.tls[rule.env].guest])
  ELSE Err

-----------------------------------------------------------------------------
(* The host registry *)

KnownHosts == [hosts |-> <<>>, pattern |-> <<>>, flow |-> <<>>]

FlowUrls(flow) == <<flow.token>> \o flow.authorize \o flow.refresh

(* Its urls parse, the code flow authorizes, token fields are named once. *)
validate_flow(flow) ==
  /\ \A u \in Elements(FlowUrls(flow)) : u.host # <<>>
  /\ flow.kind = "authorization_code" => flow.authorize # <<>>
  /\ "" \notin Elements(flow.fields)
  /\ Cardinality(Elements(flow.fields)) = Len(flow.fields)

(* An endpoint url as an allow entry: path and default port are dropped. *)
authority_of(u) ==
  [scheme |-> u.scheme, host |-> u.host,
   port |-> IF <<u.scheme, u.port>> \in {<<"http", 80>>, <<"https", 443>>} THEN 0 ELSE u.port,
   user |-> FALSE, password |-> FALSE, path |-> FALSE, query |-> {}]

ValidEntry(e) == /\ \A h \in Elements(e.hosts) : EndpointScope(h).ok
                 /\ validate_pattern(e.pattern)
                 /\ \A f \in Elements(e.flow) : validate_flow(f)

(* A slip of MergeSlot: `replace` only adds. *)
MergeSlotKeeping(slot, e) ==
  [hosts   |-> UnionSeq(slot.hosts, e.hosts),
   pattern |-> IF e.pattern = <<>> THEN slot.pattern ELSE e.pattern,
   flow    |-> IF e.flow = <<>> THEN slot.flow ELSE e.flow]

(* One entry over a name's slot: replace clears it first. *)
MergeSlot(slot, e) ==
  LET base == IF e.replace THEN KnownHosts ELSE slot IN
  [hosts   |-> UnionSeq(base.hosts, e.hosts),
   pattern |-> IF e.pattern = <<>> THEN base.pattern ELSE e.pattern,
   flow    |-> IF e.flow = <<>> THEN base.flow ELSE e.flow]
SlotOf(names, env) == IF env \in DOMAIN names THEN names[env] ELSE KnownHosts

apply_name(reg, e) ==
  IF ~ValidEntry(e) THEN Err
  ELSE Ok([reg EXCEPT !.names =
             With(@, Upper(e.env), MergeSlot(SlotOf(@, Upper(e.env)), e))])

(* Every name a provider claims, then its `contains` rules. *)
apply_provider(reg, e) ==
  LET named == FoldLeft(LAMBDA names, env : With(names, Upper(env), MergeSlot(SlotOf(names, Upper(env)), e)),
                        reg.names, e.env)
      kept  == IF e.replace THEN SelectSeq(reg.contains, LAMBDA c : c.provider # e.name)
               ELSE reg.contains
  IN IF \/ ~ValidEntry(e)
        \/ \E n \in Elements(e.contains) : n = {} \/ e.pattern = <<>>
     THEN Err
     ELSE Ok([names |-> named,
              contains |-> kept \o [i \in DOMAIN e.contains |->
                [provider |-> e.name, needle |-> e.contains[i], pattern |-> e.pattern]]])

(* One file: no name claimed twice in it, providers first, then names. *)
RegistryApply(reg, file) ==
  LET claims == FlattenSeq([i \in DOMAIN file.providers |->
                  [j \in DOMAIN file.providers[i].env |-> Upper(file.providers[i].env[j])]])
      with   == FoldOk(apply_provider, reg, file.providers)
  IN IF ~file.parses \/ Cardinality(Elements(claims)) # Len(claims) THEN Err
     ELSE Try(with, LAMBDA r : FoldOk(apply_name, r, file.names))

(* The bundled table, then the global files, then the project's. *)
load_union(bundled, global, project) ==
  FoldOk(RegistryApply, [names |-> Empty, contains |-> <<>>], <<bundled>> \o global \o project)

lookup(reg, env) == IF Upper(env) \in DOMAIN reg.names THEN <<reg.names[Upper(env)]>> ELSE <<>>

(* The explicit pattern, the name's, the first `contains` rule, the default. *)
template(reg, env, explicit) ==
  LET named == IF lookup(reg, env) = <<>> THEN <<>> ELSE lookup(reg, env)[1].pattern
      hits  == SelectSeq(reg.contains, LAMBDA c : env[2] \in c.needle)
  IN IF explicit # <<>> THEN explicit
     ELSE IF named # <<>> THEN named
     ELSE IF hits # <<>> THEN hits[1].pattern
     ELSE DefaultPattern
decoy(reg, env, explicit) == fake_for(env, template(reg, env, explicit))

hosts_for(reg, rule) ==
  IF rule.registry = "no" \/ lookup(reg, rule.env) = <<>> THEN <<>>
  ELSE lookup(reg, rule.env)[1].hosts
flow_for(reg, rule) ==
  IF rule.flow # <<>> THEN rule.flow
  ELSE IF rule.registry = "no" \/ lookup(reg, rule.env) = <<>> THEN <<>>
  ELSE lookup(reg, rule.env)[1].flow

-----------------------------------------------------------------------------
(* Importing a flow declaration into a registry fragment *)

FlowFrom(kind, doc) ==
  [kind |-> kind, token |-> doc.token[1], authorize |-> doc.authorize,
   refresh |-> doc.refresh, rotates |-> FALSE, fields |-> <<>>]

(* The code flow is preferred where the issuer supports both. *)
flow_from_oidc(doc) ==
  LET kinds == {"authorization_code", "client_credentials"} \cap doc.grants IN
  IF doc.token = <<>> \/ kinds = {} THEN Err
  ELSE Ok(FlowFrom(IF "authorization_code" \in kinds THEN "authorization_code"
                   ELSE "client_credentials", doc))

(* The first supported flow of a scheme decides it. *)
flow_from_openapi_scheme(flows) ==
  LET known == SelectSeq(flows, LAMBDA f : f.key \in {"client_credentials", "authorization_code"})
  IN IF known = <<>> \/ known[1].token = <<>> THEN Err ELSE Ok(FlowFrom(known[1].key, known[1]))

(* oauth2 schemes are mapped, openIdConnect ones reported, others passed over. *)
flows_from_openapi(schemes) ==
  LET some == SelectSeq(schemes, LAMBDA s : s.type \in {"oauth2", "openIdConnect"}) IN
  [i \in DOMAIN some |-> IF some[i].type = "oauth2" THEN flow_from_openapi_scheme(some[i].flows) ELSE Err]

(* A provider that replaces what earlier layers say of the name. *)
to_toml_fragment(slug, env, flow) ==
  IF ~validate_flow(flow) THEN Err
  ELSE Ok([name |-> slug, env |-> <<env>>, hosts |-> <<>>, pattern |-> <<>>, contains |-> <<>>,
           replace |-> TRUE, flow |-> <<flow>>])

-----------------------------------------------------------------------------
(* The config layers *)

(* Global tables first, the project replaces per key. *)
MergeTables(global, project) == Over(global, project)
load_merged_rules(global, project) == MergeTables(global.rules, project.rules)
load_merged_tools(global, project) == MergeTables(global.tools, project.tools)

(* The unified project file, else the legacy one. *)
project_config_file(root) == IF root.unified # <<>> THEN root.unified ELSE root.legacy

ReservedPorts == {0, 15000, 15001}

(* One env per rule, values that are not empty, entries and patterns that   *)
(* parse, ports no capture listener holds, one binding per host port.       *)
Validate(cfg) ==
  /\ \A a, b \in DOMAIN cfg.rules : cfg.rules[a].env = cfg.rules[b].env => a = b
  /\ \A l \in DOMAIN cfg.rules :
       LET r == cfg.rules[l] IN
       /\ r.env[2] # ""
       /\ \A v \in Elements(r.value) : v.len # 0
       /\ \A e \in Elements(r.allow) : EndpointScope(e).ok
       /\ validate_pattern(r.pattern)
       /\ \A f \in Elements(r.flow) : validate_flow(f)
  /\ ReservedPorts \cap Elements(cfg.ports) = {}
  /\ \A m \in Elements(cfg.expose) : ReservedPorts \cap {m.port, m.host} = {}
  /\ LET hosts == [i \in DOMAIN cfg.expose |-> cfg.expose[i].host] IN
       /\ Cardinality(Elements(hosts)) = Len(hosts)
       /\ Elements(hosts) \cap Elements(cfg.ports) = {}
  /\ \A n \in cfg.networks : n # "bad"
  /\ \A h \in cfg.extra_hosts : h # "bad"

-----------------------------------------------------------------------------
(* The rule pass: each rule gets its value, its hosts and its pattern *)

value_scheme(rule) ==
  IF rule.value = <<>> \/ rule.value[1].kind = "token" THEN "none" ELSE rule.value[1].kind
is_ssh(rule) == DOMAIN rule.ssh # {}
fnox_key(rule) == IF rule.fnox_key = <<>> THEN rule.env ELSE rule.fnox_key[1]

(* What fnox answers for a key: nothing undeclared, an error where a        *)
(* declared key resolves to no usable value.                                *)
FnoxValue(source, key) ==
  IF key \notin source.declared THEN Ok(<<>>)
  ELSE IF source.values[key] = <<>> THEN Err
  ELSE Ok(source.values[key])

selected_envs(source, reg) == {n \in source.declared : lookup(reg, n) # <<>>}

DerivedRule(name) ==
  [env |-> name, value |-> <<>>, real |-> <<>>, fnox_key |-> <<>>, allow |-> <<>>,
   pattern |-> <<>>, flow |-> <<>>, registry |-> "unset", if_missing |-> "warn",
   tls |-> Empty, ssh |-> Empty]

(* A slip of derive_catalog: a name a stated rule covers is derived again. *)
derive_catalog_again(rules, source, reg) ==
  LET derivable == {n \in selected_envs(source, reg) : lookup(reg, n)[1].hosts # <<>>}
      labels == {Lower(n) : n \in derivable} \ DOMAIN rules
      NameFor(l) == IF Upper(l) \in derivable THEN Upper(l) ELSE l
  IN Over(rules, [l \in labels |-> DerivedRule(NameFor(l))])

(* A declared name the registry hosts becomes a rule, unless a rule states  *)
(* its env already or its lowercased name is taken as a label.              *)
derive_catalog(rules, source, reg) ==
  LET covered == {rules[l].env : l \in DOMAIN rules}
      derivable == {n \in selected_envs(source, reg) \ covered : lookup(reg, n)[1].hosts # <<>>}
      labels  == {Lower(n) : n \in derivable} \ DOMAIN rules
      NameFor(l) == IF Upper(l) \in derivable THEN Upper(l) ELSE l
  IN Over(rules, [l \in labels |-> DerivedRule(NameFor(l))])

(* Every rule without an inline token is looked up, before any changes. *)
fetch_values(rules, source) ==
  LET asked == {l \in DOMAIN rules : rules[l].value = <<>> \/ value_scheme(rules[l]) # "none"}
      answer == [l \in asked |-> FnoxValue(source, fnox_key(rules[l]))]
  IN IF \A l \in asked : answer[l].ok THEN Ok([l \in asked |-> answer[l].v]) ELSE Err

(* A slip of skip: every missing value only warns. *)
skip_warning(rule) == Ok(<<>>)

(* if_missing: fail, or drop the rule. *)
skip(rule) == IF rule.if_missing = "error" THEN Err ELSE Ok(<<>>)

PassConnectionString(rule, fetched) ==
  IF fetched # <<>> THEN Ok(<<[rule EXCEPT !.real = fetched]>>) ELSE skip(rule)

(* Registry hosts and stated entries, then the flow's authorities. *)
PassToken(rule, fetched, reg) ==
  LET value == IF rule.value # <<>> THEN rule.value ELSE fetched
      hosts == UnionSeq(hosts_for(reg, rule), rule.allow)
      flow  == flow_for(reg, rule)
      urls  == IF flow = <<>> THEN <<>> ELSE FlowUrls(flow[1])
      allow == UnionSeq(hosts, [i \in DOMAIN urls |-> authority_of(urls[i])])
  IN IF value = <<>> THEN skip(rule)
     ELSE IF hosts = <<>> THEN skip(rule)
     ELSE IF \E u \in Elements(urls) : u.host = <<>> THEN Err
     ELSE Ok(<<[rule EXCEPT !.value = value, !.allow = allow, !.flow = flow,
                         !.pattern = template(reg, rule.env, rule.pattern)]>>)

PassApply(rule, fetched, reg) ==
  IF is_ssh(rule) THEN Ok(<<rule>>)
  ELSE IF value_scheme(rule) # "none" THEN PassConnectionString(rule, fetched)
  ELSE PassToken(rule, fetched, reg)

(* hodor_fnox::resolve: the rules that are left, each resolved. *)
ResolveRules(stated, source, reg) ==
  LET rules  == derive_catalog(stated, source, reg)
      values == fetch_values(rules, source)
      passed == [l \in DOMAIN rules |->
                   PassApply(rules[l], IF l \in DOMAIN values.v THEN values.v[l] ELSE <<>>, reg)]
  IN IF ~values.ok \/ \E l \in DOMAIN rules : ~passed[l].ok THEN Err
     ELSE LET left == {l \in DOMAIN rules : passed[l].v # <<>>}
          IN Ok([l \in left |-> passed[l].v[1]])

-----------------------------------------------------------------------------
(* Grants *)

(* The shaped decoy, or one of the real value's length on a raw tcp grant. *)
decoy_for_rule(env, pattern, allow, len) ==
  LET shaped == fake_for(env, pattern) IN
  IF (\E s \in allow : s.scheme = "tcp") /\ TextLen(shaped) # len
  THEN fake_for(env, <<[enc |-> "hex", n |-> len, width |-> 0]>>)
  ELSE shaped

(* The entries with their tls rows; a row needs an entry, a pair both halves. *)
parse_entries(rule) ==
  LET scope(e) == IF e \in DOMAIN rule.tls
                  THEN [EndpointScope(e).v EXCEPT !.cert = rule.tls[e].cert, !.root = rule.tls[e].root,
                                                  !.guest = rule.tls[e].guest]
                  ELSE EndpointScope(e).v
  IN IF /\ \A e \in Elements(rule.allow) :
             /\ EndpointScope(e).ok
             /\ e \in DOMAIN rule.tls =>
                  /\ e.scheme # "ssh"
                  /\ (rule.tls[e].cert = "none") = (rule.tls[e].key = "none")
        /\ DOMAIN rule.tls \subseteq Elements(rule.allow)
     THEN Ok([i \in DOMAIN rule.allow |-> scope(rule.allow[i])]) ELSE Err

(* An ssh rule: all entries ssh, no value, both key blobs for each entry. *)
GrantSsh(label, rule, scopes) ==
  IF /\ \A s \in Elements(scopes) : s.scheme = "ssh"
     /\ rule.value = <<>>
     /\ DOMAIN rule.ssh = Elements(rule.allow)
     /\ \A e \in DOMAIN rule.ssh : rule.ssh[e].identity # "none" /\ rule.ssh[e].guest_key # "none"
  THEN Ok(<<[kind |-> "ssh", label |-> label, env |-> rule.env, allow |-> Elements(scopes),
             keys |-> rule.ssh]>>)
  ELSE Err

(* A token rule without a value grants nothing. *)
GrantToken(label, rule, scopes) ==
  IF rule.value = <<>> THEN Ok(<<>>)
  ELSE Ok(<<[kind |-> "token", label |-> label, env |-> rule.env, allow |-> Elements(scopes),
             fake |-> decoy_for_rule(rule.env, rule.pattern, Elements(scopes), rule.value[1].len),
             value |-> rule.value[1], flow |-> rule.flow]>>)

(* A database rule: the two strings are the grant. *)
GrantConnectionString(label, rule, scheme) ==
  LET scope == IF scheme = "postgres" THEN PostgresScope(rule.value[1], rule.real[1])
               ELSE RedisScope(rule.value[1], rule.real[1])
      row   == GuestRow(rule, scope.v)
  IN IF rule.allow # <<>> THEN Err
     ELSE IF rule.real = <<>> THEN Ok(<<>>)
     ELSE IF ~scope.ok THEN Err
     ELSE IF ~row.ok THEN Err
     ELSE Ok(<<[kind |-> scope.v.kind, label |-> label, env |-> rule.env, scope |-> row.v,
                         fake |-> scope.v.down.password, value |-> scope.v.up.password]>>)

(* GrantCollector::collect: the rule's kind decides. *)
Collect(label, rule) ==
  LET parsed == parse_entries(rule)
      first  == parsed.v[1].scheme
  IN IF value_scheme(rule) # "none" THEN GrantConnectionString(label, rule, value_scheme(rule))
     ELSE IF ~parsed.ok THEN Err
     ELSE IF parsed.v = <<>> THEN Ok(<<>>)
     ELSE IF is_ssh(rule) /\ first # "ssh" THEN Err
     ELSE IF first = "ssh" THEN GrantSsh(label, rule, parsed.v)
     ELSE GrantToken(label, rule, parsed.v)

(* A plugin states where it runs, and parses like a rule. *)
resolve_plugins(plugins) ==
  \A p \in plugins : p.allow # <<>> /\ \A e \in Elements(p.allow) : EndpointScope(e).ok

(* grants::resolve: all of the rules, or an error. *)
ResolveGrants(rules, plugins) ==
  LET got == [l \in DOMAIN rules |-> Collect(l, rules[l])] IN
  IF resolve_plugins(plugins) /\ \A l \in DOMAIN rules : got[l].ok
  THEN Ok(UNION {Elements(got[l].v) : l \in DOMAIN rules}) ELSE Err

(* What a served grant answers for. *)
GrantMatches(g, scheme, host, port) ==
  CASE g.kind \in {"token", "ssh"} -> uri_match(g.allow, scheme, host, port)
    [] g.kind = "postgres" -> scheme = "postgres" /\ port = g.scope.down.port /\ host = g.scope.down.host
    [] OTHER -> scheme \in {"redis", "rediss"} /\ port = g.scope.down.port /\ host = g.scope.down.host

-----------------------------------------------------------------------------
(* Generation's view of the same policy *)

(* Every declared name the registry knows, with the decoy of its pattern. *)
select(source, reg) == [n \in selected_envs(source, reg) |-> decoy(reg, n, <<>>)]
(* A slip of with_rule_patterns: the registry's default for every name. *)
with_default_patterns(decoys, reg, rules) == [n \in DOMAIN decoys |-> decoy(reg, n, <<>>)]

(* The pattern of the rule that states a name decides its decoy. *)
with_rule_patterns(decoys, reg, rules) ==
  [n \in DOMAIN decoys |->
     LET own == {l \in DOMAIN rules : rules[l].env = n} IN
     decoy(reg, n, IF own = {} THEN <<>> ELSE rules[CHOOSE l \in own : TRUE].pattern)]
by_hosts(reg, decoys) == {n \in DOMAIN decoys : lookup(reg, n)[1].hosts # <<>>}
derivable_envs(source, reg) == by_hosts(reg, select(source, reg))

(* The blocks `hodor rules` prints: derived, hostless, unregistered. *)
rules_command(source, reg) ==
  [derived |-> derivable_envs(source, reg),
   hostless |-> DOMAIN select(source, reg) \ derivable_envs(source, reg),
   unregistered |-> source.declared \ selected_envs(source, reg)]
=============================================================================
