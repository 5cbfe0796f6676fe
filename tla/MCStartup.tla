----------------------------- MODULE MCStartup -----------------------------
(* Small files for Startup: three names, a registry with overrides, and a  *)
(* fnox chain of two directories, an import, a profile and hodor's level.  *)
EXTENDS Startup

GH == <<"U", "GH">>  NP == <<"U", "NP">>  DB == <<"U", "DB">>  BW == <<"U", "BW">>
gh == <<"l", "GH">>  np == <<"l", "NP">>  db == <<"l", "DB">>
MCFnoxEnv == {BW}

Entry(scheme, host, port) ==
  [scheme |-> scheme, host |-> host, port |-> port, user |-> FALSE, password |-> FALSE,
   path |-> FALSE, query |-> {}]
Api  == Entry("https", <<"api", "gh">>, 0)
Own  == Entry("https", <<"own", "gh">>, 443)
Wild == Entry("https", <<"*", "gh">>, 0)
Raw  == Entry("tcp", <<"db">>, 9000)
Shell == Entry("ssh", <<"git", "gh">>, 0)
NoPort == Entry("tcp", <<"db">>, 0)
Url(host) == [scheme |-> "https", host |-> host, port |-> 443]
MCProbes == {[scheme |-> "https", host |-> <<"api", "gh">>, port |-> 443],
             [scheme |-> "https", host |-> <<"own", "gh">>, port |-> 443],
             [scheme |-> "https", host |-> <<"gh">>, port |-> 443],
             [scheme |-> "https", host |-> <<"auth">>, port |-> 443],
             [scheme |-> "https", host |-> <<"api", "gh">>, port |-> 8443],
             [scheme |-> "tcp", host |-> <<"db">>, port |-> 9000]}

Hex(n) == <<[enc |-> "lit", n |-> 4, width |-> 4], [enc |-> "hex", n |-> n, width |-> 8]>>
Token(id) == [kind |-> "token", id |-> id, len |-> 20]
Uri(kind, pw, query) == [kind |-> kind, id |-> pw, len |-> 40, host |-> <<"db">>, port |-> 5432,
                         user |-> "app", password |-> pw, segments |-> 1, query |-> query]
Flow == [kind |-> "client_credentials", token |-> Url(<<"auth">>), authorize |-> <<>>,
         refresh |-> <<>>, rotates |-> FALSE, fields |-> <<>>]
Oidc == [kind |-> "oidc", token |-> <<Url(<<"auth">>)>>, grants |-> {"authorization_code", "client_credentials"},
         authorize |-> <<Url(<<"gh">>)>>, refresh |-> <<>>]
Openapi == [kind |-> "openapi", schemes |->
  <<[type |-> "apiKey", flows |-> <<>>], [type |-> "openIdConnect", flows |-> <<>>],
    [type |-> "oauth2", flows |-> <<[key |-> "implicit", token |-> <<>>, authorize |-> <<>>, refresh |-> <<>>],
                                    [key |-> "client_credentials", token |-> <<Url(<<"auth">>)>>,
                                     authorize |-> <<>>, refresh |-> <<Url(<<"gh">>)>>]>>]>>]
Imported(f) == to_toml_fragment("issuer", GH, f.v).v

Rule(env) == [DerivedRule(env) EXCEPT !.if_missing = "error"]
Rows(e, guest, cert) == [x \in {e} |-> [cert |-> cert, key |-> cert, root |-> "none", guest |-> guest]]
Keys(e, id) == [x \in {e} |-> [identity |-> id, guest_key |-> "decoy.pub"]]
One(label, rule) == [l \in {label} |-> rule]

(* Project rule tables. *)
RuleTables ==
  { Empty,
    One(gh, [Rule(GH) EXCEPT !.allow = <<Own>>, !.pattern = Hex(16)]),
    One(gh, [Rule(GH) EXCEPT !.allow = <<Own>>, !.registry = "no", !.value = <<Token("inline")>>]),
    One(gh, [Rule(GH) EXCEPT !.allow = <<Wild>>, !.tls = Rows(Wild, "mtls", "c.pem")]),
    One(gh, [Rule(GH) EXCEPT !.allow = <<Raw>>]),
    One(gh, [Rule(NP) EXCEPT !.if_missing = "warn"]),
    One(np, [Rule(NP) EXCEPT !.allow = <<Api>>, !.fnox_key = <<GH>>]),
    One(np, [Rule(NP) EXCEPT !.flow = <<Flow>>]),
    One(np, [Rule(NP) EXCEPT !.allow = <<Shell>>, !.ssh = Keys(Shell, "id")]),
    One(np, [Rule(NP) EXCEPT !.allow = <<Shell, Api>>, !.ssh = Keys(Shell, "id")]),
    One(db, [Rule(DB) EXCEPT !.value = <<Uri("postgres", "fake", <<>>)>>]),
    One(db, [Rule(DB) EXCEPT !.value = <<Uri("redis", "fake", <<>>)>>, !.tls = [x \in {DB} |->
               [cert |-> "none", key |-> "none", root |-> "none", guest |-> "mtls"]]]),
    One(gh, [Rule(GH) EXCEPT !.allow = <<NoPort>>]),
    (gh :> [Rule(GH) EXCEPT !.allow = <<Own>>]) @@ (np :> [Rule(GH) EXCEPT !.allow = <<Api>>]) }

Layer(rs) == [NoLayer EXCEPT !.rules = rs]
GlobalTables == {<<>>, <<Layer(One(gh, [Rule(GH) EXCEPT !.allow = <<Api>>, !.if_missing = "ignore"]))>>,
                 <<Layer(One(db, [Rule(NP) EXCEPT !.allow = <<Wild>>]))>>}

(* Registry files. *)
Provider(name, env, hosts) ==
  [name |-> name, env |-> env, hosts |-> hosts, pattern |-> <<>>, contains |-> <<>>,
   replace |-> FALSE, flow |-> <<>>]
File(providers, names) == [parses |-> TRUE, providers |-> providers, names |-> names]
MCBundled == File(<<[Provider("github", <<GH>>, <<Api>>) EXCEPT !.pattern = Hex(32)],
                    [Provider("npm", <<NP>>, <<>>) EXCEPT !.pattern = Hex(20), !.contains = <<{"DB", "NP"}>>]>>, <<>>)
NameEntry(env, hosts, replace) ==
  [env |-> env, hosts |-> hosts, pattern |-> <<>>, replace |-> replace, flow |-> <<>>]
Overrides == { <<>>,
               <<File(<<>>, <<NameEntry(gh, <<Own>>, FALSE)>>)>>,
               <<File(<<>>, <<NameEntry(GH, <<Own>>, TRUE)>>), File(<<>>, <<NameEntry(NP, <<Api>>, FALSE)>>)>>,
               <<File(<<Imported(flow_from_oidc(Oidc))>>, <<NameEntry(GH, <<Own>>, FALSE)>>)>>,
               <<File(<<Imported(flows_from_openapi(Openapi.schemes)[2])>>, <<>>)>>,
               <<File(<<Provider("a", <<GH>>, <<>>), Provider("b", <<gh>>, <<>>)>>, <<>>)>> }

(* fnox chains. *)
Fnox(keys) == [parses |-> TRUE, root |-> FALSE, import |-> <<>>, proxy |-> <<>>, scalars |-> Empty,
               secrets |-> [k \in keys |-> "stated"], profiles |-> Empty]
Tree(dirs, hodor, global, requested) ==
  [dirs |-> dirs, hodor |-> hodor, global |-> global, imports |-> [x \in {"shared"} |-> Fnox({GH, NP})],
   requested |-> requested, no_defaults |-> FALSE]
Plain(f) == PlainFile :> f
SimpleTrees == { Tree(<<Plain(Fnox({GH, NP, DB, BW})), Empty>>, Empty, <<>>, <<"default">>),
                 Tree(<<Empty, Plain(Fnox({NP}))>>, Plain(Fnox({GH})), <<Fnox({DB})>>, <<"default">>),
                 Tree(<<Empty, Empty>>, Empty, <<>>, <<"default">>) }
Inheriting(p, q) == [Fnox({GH}) EXCEPT !.profiles = (p :> [inherits |-> <<q>>, secrets |-> [k \in {NP} |-> "stated"]])]
Near == {Empty, Plain(Fnox({GH})), Plain([Fnox({GH}) EXCEPT !.root = TRUE]),
         Plain([Fnox({NP}) EXCEPT !.import = <<"shared">>]),
         Plain(Fnox({GH})) @@ (LocalFile :> Fnox({GH, DB})),
         Plain(Inheriting("dev", "base")) @@ (<<"profile", "base">> :> Fnox({DB})),
         Plain(Inheriting("dev", "dev")), Plain([Fnox({}) EXCEPT !.parses = FALSE])}
FarFiles == {Empty, Plain(Fnox({GH, NP})), Plain([Fnox({DB}) EXCEPT !.import = <<"shared">>])}
Levels == {Empty, Plain(Fnox({GH, DB})), Plain(Fnox({NP})) @@ (LocalFile :> Fnox({GH}))
                                         @@ (<<"profile", "dev">> :> Fnox({GH}))}
Globals == {<<>>, <<Fnox({GH, NP, DB})>>, <<[Fnox({}) EXCEPT !.import = <<"shared">>]>>}
Trees == {Tree(<<n, f>>, h, g, r) : n \in Near, f \in FarFiles, h \in Levels, g \in Globals,
                                    r \in {<<"default">>, <<"dev">>, <<"default", "dev">>}}

RealValues == (GH :> <<Token("gh-real")>>) @@ (NP :> <<Token("np-real")>>) @@ (BW :> <<>>)
              @@ (DB :> <<Uri("postgres", "real", <<<<"sslmode", "verify-ca">>, <<"sslrootcert", "ca.pem">>>>)>>)
World(project, global, over, tree, vals) ==
  [project |-> [unified |-> project, legacy |-> <<Layer(Empty)>>], global |-> global, bundled |-> MCBundled,
   global_rules |-> <<>>, project_rules |-> over, tree |-> tree, values |-> vals,
   shell |-> {}, behind |-> Empty]
(* NP comes from a provider whose credential BW is in the shell, in fnox, or nowhere. *)
Provided(rs, bw, shell) ==
  [World(<<Layer(rs)>>, <<>>, <<>>, CHOOSE t \in SimpleTrees : PlainFile \in DOMAIN t.dirs[1],
         [RealValues EXCEPT ![BW] = bw]) EXCEPT !.shell = shell, !.behind = (NP :> BW)]
MCWorlds ==
  {Provided(rs, bw, sh) : rs \in RuleTables, bw \in {<<>>, <<Token("bw-real")>>}, sh \in {{}, {BW}}} \cup
  {World(<<Layer(rs)>>, g, o, t, RealValues) : rs \in RuleTables, g \in GlobalTables,
                                               o \in Overrides, t \in SimpleTrees}
  \cup {World(<<Layer(rs)>>, <<>>, <<>>, t, [RealValues EXCEPT ![GH] = <<>>]) : rs \in RuleTables, t \in SimpleTrees}
  \cup {World(<<>>, <<>>, <<>>, t, RealValues) : t \in Trees}
  \cup {World(<<[Layer(Empty) EXCEPT !.ports = ps]>>, <<>>, <<>>, t, RealValues) :
          ps \in {<<3000>>, <<15001>>}, t \in SimpleTrees}

MCCommands == {[name |-> n, env |-> GH, pattern |-> <<>>, doc |-> Oidc] : n \in {"serve", "fake", "rules", "config"}}
              \cup {[name |-> "import", env |-> GH, pattern |-> <<>>, doc |-> d] : d \in {Oidc, Openapi}}
              \cup {[name |-> "fake", env |-> NP, pattern |-> p, doc |-> Oidc] :
                      p \in {Hex(8), <<[enc |-> "bogus", n |-> 1, width |-> 9]>>}}
MCEditedTo == {Layer(One(gh, [Rule(GH) EXCEPT !.allow = <<Own>>]))}
=============================================================================
