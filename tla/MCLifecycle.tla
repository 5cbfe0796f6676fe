----------------------------- MODULE MCLifecycle -----------------------------
(* Small machines and configs for Lifecycle: each machine carries the tool  *)
(* documents that make an adapter succeed, pass over or fail.               *)
EXTENDS Lifecycle

MCSlug == ("Ctx" :> "ctx") @@ ("..." :> "")
GH == <<"GH">>
DB == <<"DB">>
BW == <<"BW">>
HOME == <<"HOME">>

(* Tool documents. *)
User(token, cert) == [token |-> token, provider |-> "none", cert |-> cert, key |-> cert,
                      password |-> "none", files |-> FALSE, exec |-> FALSE]
Kube(current, users) ==
  [parses |-> TRUE, kind |-> "Config", current |-> current,
   contexts |-> [c \in {"Ctx", "..."} |-> [cluster |-> "k", user |-> "me"]],
   clusters |-> [k \in {"k"} |-> [server |-> "https", ca |-> "kca", ca_file |-> FALSE, host |-> "k8s"]],
   users |-> users]
Both == [u \in {"me", "you"} |-> IF u = "me" THEN User("tok", "none") ELSE User("tok2", "crt2")]
NoKube == [Kube("Ctx", Both) EXCEPT !.kind = "List"]
Talos(auth) ==
  [parses |-> TRUE, context |-> "t",
   contexts |-> [n \in {"t", "o"} |->
     [endpoints |-> {[form |-> "bare", host |-> "10.0.0.1", port |-> 0, scheme |-> ""]},
      auth |-> IF n = "t" THEN auth ELSE TRUE, crt |-> "tcrt", key |-> "tkey", ca |-> "tca"]]]
Line(kw, v) == [kw |-> kw, value |-> v]
Id(f) == [file |-> f, readable |-> TRUE, under_home |-> TRUE]
Idents == [i \in {"none", "id1", "id2"} |-> Id(i)]
Block(h, id) == <<Line("host", {h}), Line("identityfile", id)>>
Doc(markers, kube, talos, lines) ==
  [markers |-> markers, text |-> <<Real("a"), Real("b"), Stated("x"), Real("a")>>, kube |-> kube,
   talos |-> talos, lines |-> lines, identities |-> Idents]
KubeFile(k) == Doc({"current-context", "clusters"}, k, Talos(FALSE), <<>>)
TalosFile(t) == Doc({"contexts", "endpoints"}, NoKube, t, <<>>)
SshFile(lines) == Doc({}, NoKube, Talos(FALSE), lines)
AppFile == Doc({}, NoKube, Talos(FALSE), <<>>)

Git(remotes, command) ==
  [repo |-> TRUE, resolves |-> TRUE, auth_header |-> FALSE, instead |-> {}, remotes |-> remotes,
   ssh_command |-> command, sections |-> {[name |-> "user", global |-> TRUE], [name |-> "helper", global |-> TRUE]},
   user |-> [k \in {"name"} |-> "me"]]
Remote(s) == [scheme |-> s, host |-> "github"]
NoCommand == [file |-> "none", readable |-> FALSE, under_home |-> FALSE]
Jj(dir) == [dir |-> dir, env_set |-> FALSE, env_chain |-> <<>>,
            default_chain |-> <<[present |-> TRUE, parses |-> TRUE, table |-> [k \in {"ui"} |-> "x"]]>>]

Machine(docs, git, jj) ==
  [root |-> <<"h", "me", "ws">>, home |-> <<"h", "me">>, container |-> <<"c">>, ca |-> TRUE, config_dir |-> TRUE,
   fnox_dir |-> "none", dirs |-> {"fnox"}, levels |-> {"fnox.toml"}, profiles |-> {<<"global", "team", "vim">>},
   layers |-> <<[cookies |-> ("loop" :> "mine"), dirs |-> {}],
                [cookies |-> ("mine" :> "team") @@ ("loop" :> "none") @@ ("team" :> "none"), dirs |-> {"mine", "team"}]>>,
   decoys |-> {GH, DB}, covers |-> [e \in {GH, DB} |-> IF e = GH THEN {"github"} ELSE {}],
   shell |-> (GH :> <<Real("a")>>) @@ (HOME :> <<Stated("home")>>), fnox |-> (DB :> <<Real("a"), Real("b")>>) @@ (BW :> <<>>),
   mise |-> [files |-> {"mise.toml", "mise.local.toml"},
             values |-> <<[url |-> FALSE, rel |-> "home", at |-> <<"bin">>], [url |-> TRUE, rel |-> "abs", at |-> <<"h">>]>>],
   docs |-> docs, git |-> git, jj |-> jj, override |-> [t \in {"kube", "talos"} |-> "unset"]]
App == <<"app", "conf">>
Base == (App :> AppFile)
PlainGit == Git({Remote("https")}, NoCommand)
MCHosts ==
  { Machine(Base, PlainGit, Jj(TRUE)),
    [Machine(Base @@ (<<"kube", "home">> :> KubeFile(Kube("Ctx", Both)))
                  @@ (<<"kube", "env">> :> KubeFile(Kube("Ctx", Both)))
                  @@ (<<"talos", "home">> :> TalosFile(Talos(FALSE))), PlainGit, Jj(FALSE))
       EXCEPT !.override["kube"] = "single", !.dirs = {"fnox", "rules.d"}],
    Machine(Base @@ (<<"kube", "home">> :> KubeFile(Kube("...", Both)))
                 @@ (<<"talos", "home">> :> TalosFile(Talos(TRUE)))
                 @@ (<<"ssh", "home">> :> SshFile(Block("gh", "id1") \o <<Line("hostname", "github")>>)),
            PlainGit, Jj(FALSE)),
    [Machine(Base, Git({Remote("https")}, NoCommand), Jj(FALSE)) EXCEPT !.ca = FALSE] }
(* Several keys: two ssh blocks, and an ssh remote. *)
KeyHosts == { Machine(Base @@ (<<"ssh", "home">> :> SshFile(Block("one", "id1") \o Block("two", "id2"))),
                      Git({Remote("ssh")}, Id("id1")), Jj(FALSE)) }

(* Configs. *)
Plain == [valid |-> TRUE, include |-> <<>>, rewrites |-> <<>>, passthrough |-> {}, rule_envs |-> {GH},
          tools |-> <<>>, profile |-> "mine", image |-> "none", build |-> <<>>,
          ports |-> {}, expose |-> {}, networks |-> {}, extra_hosts |-> <<>>, mtls |-> {}, cap_add |-> {},
          devices |-> {}, init |-> "none", home |-> TRUE, home_vars |-> {HOME}]
Rewrite(source, format, envs, abs) ==
  [source |-> source, format |-> format, envs |-> envs, absolute |-> abs, dest |-> "dest", vars |-> {HOME}]
Built(ok) == [Plain EXCEPT !.build = <<[dockerfile |-> ok, context |-> TRUE]>>]
Swapping == [Plain EXCEPT !.rewrites = <<Rewrite(App, "none", <<GH, DB>>, TRUE)>>]
Adapting == [Plain EXCEPT !.rewrites = <<Rewrite(<<"kube", "home">>, "none", <<>>, TRUE),
                                         Rewrite(App, "none", <<DB, GH>>, FALSE)>>]
Rich == [Plain EXCEPT !.mtls = {[label |-> "r", cert |-> <<"c", "pem">>, key |-> <<"c", "key">>]},
           !.tools = [t \in {"vim", "zed"} |-> [valid |-> TRUE, absolute |-> TRUE]], !.ports = {3000},
           !.include = <<[path |-> [rel |-> "home", at |-> <<"lib">>], mode |-> "ro", exists |-> TRUE, vars |-> {}]>>,
           !.extra_hosts = <<Gateway>>]
MCConfigs == {[w \in Workspaces |-> IF w = "a" THEN c ELSE Plain] :
                c \in {Plain, Swapping, Adapting, Rich, Built(TRUE), [Plain EXCEPT !.passthrough = {GH}],
                      [Plain EXCEPT !.home_vars = {BW}], [Plain EXCEPT !.profile = "loop"]}}
MCEditedTo == [w \in {"a", "b"} |-> IF w = "a" THEN {Plain, Swapping, Built(FALSE)} ELSE {}]

OldStack == [Assemble(Machine(Base, PlainGit, Jj(TRUE)), Plain, "ebpf", <<>>, <<>>).v EXCEPT !.shape = StackShape - 1]
MCDisks == {[w \in Workspaces |-> NoDisk],
            [w \in Workspaces |-> IF w = "a" THEN [NoDisk EXCEPT !.compose = <<OldStack>>, !.digest = <<Plain>>]
                                  ELSE NoDisk]}

MCRegistries == {<<>>, 3000 :> [ws |-> "a", port |-> 80]}

Cmd(name, w) == [name |-> name, w |-> w, backend |-> "unnamed", rm |-> FALSE, forced |-> FALSE, port |-> 0, publish |-> 0]
MCCommands ==
  {Cmd("agent", "a"), [Cmd("agent", "a") EXCEPT !.rm = TRUE], [Cmd("init", "a") EXCEPT !.backend = "tun"],
   Cmd("up", "a"), [Cmd("up", "a") EXCEPT !.forced = TRUE], Cmd("down", "a"), Cmd("logs", "a"),
   [Cmd("expose", "a") EXCEPT !.port = 80, !.publish = 3000],
   [Cmd("expose", "a") EXCEPT !.port = 80, !.publish = 15001],
   [Cmd("expose", "b") EXCEPT !.port = 90, !.publish = 3000], Cmd("down", "b")}
=============================================================================
