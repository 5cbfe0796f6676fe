------------------------------ MODULE Adapters ------------------------------
(***************************************************************************)
(* The structural adapters of hodor-compose: how a tool's configuration    *)
(* file on the host (git, jj, ssh, kubectl, talosctl) becomes a grant the  *)
(* hodor service holds and a decoy twin the agent reads, plus the path and *)
(* byte-rewrite helpers they share.                                        *)
(*                                                                         *)
(* A document is what its parser keeps of it: a record of the fields the   *)
(* adapter reads or rewrites.  A value crossing into a file is tagged with *)
(* what it is, so that the properties can tell a credential from its decoy *)
(* without spelling either.                                                *)
(***************************************************************************)
EXTENDS Integers, Sequences, FiniteSets, SequencesExt

(* What a field of a written file holds. *)
Real(c)        == <<"real", c>>          \* a credential as the host states it
DecoyOf(env)   == <<"decoy", env>>       \* the decoy of a rule's env name
Placeholder(n) == <<"placeholder", n>>   \* a fake no rule answers for
Guest          == <<"guest", "ca">>      \* hodor's CA or a minted guest pair
DecoyKey(l)    == <<"key", l>>           \* the decoy ssh key minted for label l
Stated(v)      == <<"stated", v>>        \* an ordinary value, copied

(* A failed adapter names no result. *)
Nothing == [ok |-> FALSE, out |-> <<>>]
Adapted(out) == [ok |-> TRUE, out |-> out]

(* Some, None of a field: "none" is an absent one, "" an empty one. *)
Present(v) == v # "none"
Filled(v)  == v \notin {"none", ""}

-----------------------------------------------------------------------------
(* Paths: a path is its sequence of components. *)

(* `..` drops the component before it, `.` is dropped. *)
normalize(path) ==
  FoldLeft(LAMBDA out, c : CASE c = ".." -> IF out = <<>> THEN <<>> ELSE Front(out)
                             [] c = "."  -> out
                             [] OTHER    -> Append(out, c),
           <<>>, path)

(* `~` is the host home when there is one, a relative path starts at root. *)
expand(path, root, home) ==
  CASE path.rel = "home" /\ home # <<>> -> normalize(home \o path.at)
    [] path.rel = "abs"                 -> normalize(path.at)
    [] OTHER                            -> normalize(root \o path.at)

(* A path under the host home moves to the container home. *)
translate(path, home, container) ==
  IF home # <<>> /\ IsPrefix(home, path)
  THEN container \o SubSeq(path, Len(home) + 1, Len(path))
  ELSE path

(* A mount whose host path another one holds is served by that one. *)
covering(mounts) ==
  FoldLeft(LAMBDA out, m :
             IF \E i \in 1..Len(out) : IsPrefix(out[i].host, m.host) THEN out
             ELSE Append(SelectSeq(out, LAMBDA kept : ~IsPrefix(m.host, kept.host)), m),
           <<>>, mounts)

-----------------------------------------------------------------------------
(* Byte rewriting: content and credentials are sequences of atoms. *)

(* The content with every place `real` stands replaced, left to right. *)
SwapAll(content, real, decoy) ==
  LET at(i) == /\ i + Len(real) - 1 <= Len(content)
               /\ SubSeq(content, i, i + Len(real) - 1) = real
      from[i \in 1..(Len(content) + Len(real))] ==
        IF i > Len(content) THEN <<>>
        ELSE IF at(i) THEN decoy \o from[i + Len(real)]
        ELSE <<content[i]>> \o from[i + 1]
  IN from[1]

(* A slip of apply_rewrites: in the order they are listed. *)
apply_rewrites_listed(content, pairs) ==
  FoldLeft(LAMBDA out, p : IF p[1] = <<>> THEN out ELSE SwapAll(out, p[1], p[2]), content, pairs)

(* Longest reals first; an empty real replaces nothing. *)
apply_rewrites(content, pairs) ==
  LET ordered == SortSeq(pairs, LAMBDA a, b : Len(a[1]) > Len(b[1]))
  IN FoldLeft(LAMBDA out, p : IF p[1] = <<>> THEN out ELSE SwapAll(out, p[1], p[2]),
              content, ordered)

(* The format an unstated rewrite probes as: kubeconfig's markers first. *)
sniff(doc) ==
  IF {"current-context", "clusters"} \subseteq doc.markers THEN "kubeconfig"
  ELSE IF {"contexts", "endpoints"} \subseteq doc.markers THEN "talos"
  ELSE "none"

(* An optional base64 field: empty is absent, malformed is an error. *)
decode(v) == CASE v \in {"none", ""} -> "none"
               [] v = "bad"          -> "error"
               [] OTHER              -> v

(* {path-slug}-{stem}-{slug of name}: case and punctuation are lost.  A    *)
(* blob is <<prefix, label, kind, value>>, its file {prefix}-{label}.{kind}. *)
CONSTANT SlugOf
Slug(name) == IF name \in DOMAIN SlugOf THEN SlugOf[name] ELSE name
rewrite_label(source, name) ==
  IF Slug(name) = "" THEN "none" ELSE <<source, Slug(name)>>

(* A derived rule: its label, what it lets through, what it holds. *)
GrantFragment(label, allow, value, identity) ==
  [label |-> label, allow |-> allow, value |-> value, identity |-> identity]

(* A tool config mapped: grants for hodor, a document and files for the agent. *)
RewriteAdapted(fragment, decoy, materialized, decoy_files) ==
  [fragment |-> fragment, decoy |-> decoy, materialized |-> materialized,
   decoy_files |-> decoy_files]
DecoyFile(name, values, container) ==
  [name |-> name, values |-> values, container |-> container]

-----------------------------------------------------------------------------
(* kubectl *)

(* A user's bearer: its token, else the auth provider's; empty is none. *)
KubeToken(u) == LET t == IF Present(u.token) THEN u.token ELSE u.provider
                IN IF Filled(t) THEN t ELSE "none"

(* The current context resolves to a known cluster and user over https. *)
KubeSelected(doc) ==
  /\ doc.current \in DOMAIN doc.contexts
  /\ LET c == doc.contexts[doc.current] IN
       /\ c.cluster \in DOMAIN doc.clusters
       /\ doc.clusters[c.cluster].server = "https"
       /\ c.user \in DOMAIN doc.users

(* The twin: trust and identity are swapped in every entry, exec blocks and *)
(* file references are dropped, everything else is copied.                  *)
KubeDecoyDoc(doc, active, env, token) ==
  LET ClusterFields(c) == IF Present(doc.clusters[c].ca) THEN {<<c, "ca", Guest>>} ELSE {}
      UserFields(n) ==
        LET u == doc.users[n] IN
        (IF Present(u.token)
         THEN {<<n, "token", IF n = active /\ token # "none" THEN DecoyOf(env)
                             ELSE Placeholder(n)>>} ELSE {})
        \cup (IF Present(u.cert) \/ Present(u.key)
              THEN {<<n, "cert", Guest>>, <<n, "key", Guest>>} ELSE {})
        \cup (IF Present(u.provider) THEN {<<n, "access-token", Placeholder(n)>>} ELSE {})
        \cup (IF Present(u.password) THEN {<<n, "password", Placeholder(n)>>} ELSE {})
  IN UNION {ClusterFields(c) : c \in DOMAIN doc.clusters}
     \cup UNION {UserFields(n) : n \in DOMAIN doc.users}

(* The identity blobs: the client pair makes the guest leg mutual TLS too. *)
KubeBlobs(label, cert, key, ca) ==
  [mtls |-> Present(cert),
   materialized |-> (IF Present(cert) THEN {<<"", label, "client.crt", Real(cert)>>,
                                            <<"", label, "client.key", Real(key)>>} ELSE {})
                    \cup (IF Present(ca) THEN {<<"", label, "ca.crt", Stated(ca)>>} ELSE {})]

(* kube::adapt: no mapping for another kind of document, an error when the  *)
(* selection is unusable, names files, runs exec alone, or holds no whole   *)
(* credential.                                                              *)
KubeAdapt(source, doc) ==
  LET c     == doc.clusters[doc.contexts[doc.current].cluster]
      name  == doc.contexts[doc.current].user
      u     == doc.users[name]
      token == KubeToken(u)
      cert  == decode(u.cert)
      key   == decode(u.key)
      ca    == decode(c.ca)
      label == rewrite_label(source, doc.current)
      value == IF token # "none" THEN token ELSE cert
      blobs == KubeBlobs(label, cert, key, ca)
  IN IF ~doc.parses THEN Nothing
     ELSE IF doc.kind # "Config" THEN Adapted(<<>>)
     ELSE IF ~KubeSelected(doc) THEN Nothing
     ELSE IF u.files \/ c.ca_file THEN Nothing
     ELSE IF u.exec /\ token = "none" /\ ~Present(u.cert) /\ ~Present(u.key) THEN Nothing
     ELSE IF "error" \in {cert, key, ca} THEN Nothing
     ELSE IF Present(cert) # Present(key) THEN Nothing
     ELSE IF token = "none" /\ ~Present(cert) THEN Nothing
     ELSE IF label = "none" THEN Nothing
     ELSE Adapted(<<RewriteAdapted(
              {GrantFragment(label, {c.host}, Real(value),
                             IF blobs.mtls THEN Real(cert) ELSE Stated("none"))},
              KubeDecoyDoc(doc, name, label, token),
              blobs.materialized, {})>>)

-----------------------------------------------------------------------------
(* talosctl *)

(* One allow entry: a scheme is added where there is none, and the default  *)
(* API port where no port is stated.                                        *)
normalize_endpoint(e) ==
  CASE e.form = "url"  -> [host |-> e.host, port |-> e.port, scheme |-> e.scheme]
    [] e.form = "port" -> [host |-> e.host, port |-> e.port, scheme |-> "https"]
    [] OTHER           -> [host |-> e.host, port |-> 50000, scheme |-> "https"]

TalosAllows(ctx) == {normalize_endpoint(e) : e \in ctx.endpoints}

(* The active context: known, with endpoints, a whole identity, no other auth. *)
TalosSelected(doc) ==
  /\ doc.context \in DOMAIN doc.contexts
  /\ LET c == doc.contexts[doc.context] IN
       /\ c.endpoints # {}
       /\ ~c.auth
       /\ {decode(c.crt), decode(c.key), decode(c.ca)} \cap {"none", "error"} = {}

(* The twin: every context gets hodor's CA and the guest pair; the auth     *)
(* block of a context other than the active one is dropped.                 *)
TalosDecoyDoc(doc) ==
  UNION {LET c == doc.contexts[n] IN
           (IF Present(c.ca) THEN {<<n, "ca", Guest>>} ELSE {})
           \cup (IF Present(c.crt) \/ Present(c.key)
                 THEN {<<n, "crt", Guest>>, <<n, "key", Guest>>} ELSE {})
           \cup (IF c.auth /\ n = doc.context THEN {<<n, "auth", Real("omni")>>} ELSE {})
         : n \in DOMAIN doc.contexts}

TalosAdapt(source, doc) ==
  LET c     == doc.contexts[doc.context]
      label == rewrite_label(source, doc.context)
  IN CASE ~doc.parses \/ ~TalosSelected(doc) -> Nothing
       [] \E a \in TalosAllows(c) : a.scheme # "https" -> Nothing
       [] label = "none" -> Nothing
       [] OTHER -> Adapted(<<RewriteAdapted(
              {GrantFragment(label, {a.host : a \in TalosAllows(c)}, Real(c.crt), Real(c.crt))},
              TalosDecoyDoc(doc),
              {<<"", label, "client.crt", Real(c.crt)>>, <<"", label, "client.key", Real(c.key)>>,
               <<"", label, "ca.crt", Stated(c.ca)>>}, {})>>)

-----------------------------------------------------------------------------
(* ssh *)

EmptyBlock == [patterns |-> {}, hostname |-> "none", identity |-> "none", skip |-> FALSE]

(* One directive per line; what cannot be derived marks its block. *)
SshParse(lines) ==
  LET Upd(b, l) ==
        CASE l.kw = "hostname" -> [b EXCEPT !.hostname = l.value]
          [] l.kw = "identityfile" ->
               [b EXCEPT !.identity = l.value, !.skip = @ \/ Present(b.identity)]
          [] l.kw \in {"include", "match", "proxyjump", "identityagent", "badport", "garbage"} ->
               [b EXCEPT !.skip = TRUE]
          [] OTHER -> b
  IN FoldLeft(LAMBDA bs, l :
                IF l.kw = "host" THEN Append(bs, [EmptyBlock EXCEPT !.patterns = l.value])
                ELSE [bs EXCEPT ![Len(bs)] = Upd(bs[Len(bs)], l)],
              <<EmptyBlock>>, lines)

(* Exact names only, and one identity. *)
Mappable(b) == /\ Present(b.identity)
               /\ b.patterns # {}
               /\ \A p \in b.patterns : p # "*"

(* Where the real identity lives on the host, and where its decoy mounts:   *)
(* under the home both follow it, off the home the decoy has no place.      *)
host_identity_path(identity) == identity.file
mirror_container_path(identity) == IF identity.under_home THEN identity.file ELSE "none"

(* The grant of one identity: the real key for hodor, the decoy for the agent. *)
SshGrant(prefix, label, host, identity) ==
  RewriteAdapted(
    {GrantFragment(label, {host}, Stated("none"), Real(host_identity_path(identity)))},
    {},
    {<<prefix, label, "identity", Real(host_identity_path(identity))>>, <<prefix, label, "guest_key", DecoyKey(label)>>},
    {DecoyFile(<<prefix, label>>, {DecoyKey(label)}, mirror_container_path(identity))})

(* One grant per mappable block whose identity can be read and mirrored.    *)
(* The first carries the config as written and an empty known_hosts file.   *)
SshAdapt(source, doc) ==
  LET blocks == SelectSeq(SshParse(doc.lines), Mappable)
      host(b) == IF Present(b.hostname) THEN b.hostname ELSE CHOOSE p \in b.patterns : TRUE
      usable(b) == /\ ~b.skip
                   /\ doc.identities[b.identity].readable
                   /\ mirror_container_path(doc.identities[b.identity]) # "none"
      out == [i \in 1..Len(SelectSeq(blocks, usable)) |->
                LET b == SelectSeq(blocks, usable)[i] IN
                SshGrant("ssh", rewrite_label(source, host(b)), host(b), doc.identities[b.identity])]
      failed == \E i \in 1..Len(blocks) : ~blocks[i].skip /\ rewrite_label(source, host(blocks[i])) = "none"
  IN IF failed THEN Nothing
     ELSE IF out = <<>> THEN Adapted(<<>>)
     ELSE Adapted([out EXCEPT
            ![1].decoy = {<<"ssh", l, Stated("line")>> : l \in {doc.lines[i].kw : i \in 1..Len(doc.lines)}},
            ![1].decoy_files = @ \cup {DecoyFile(<<"ssh-known-hosts">>, {Stated("empty")}, "known_hosts")}])

-----------------------------------------------------------------------------
(* git *)

(* Why the chain cannot flow into the agent: an Authorization header, or a  *)
(* rewrite base that embeds userinfo.                                       *)
embedded_credentials(cfg) == cfg.auth_header \/ \E r \in cfg.instead : r.userinfo

(* The longest matching insteadOf prefix rewrites a remote. *)
rewrite_insteadof(url, rules) ==
  LET matching == {r \in rules : url \in r.matches /\ r.len > 0}
  IN IF matching = {} THEN url
     ELSE (CHOOSE r \in matching : \A o \in matching : o.len <= r.len).base

(* Only https and ssh remotes are endpoints. *)
endpoint_of(url) == IF url.scheme \in {"https", "ssh"} THEN {url} ELSE {}
remote_endpoints(cfg) == UNION {endpoint_of(rewrite_insteadof(u, cfg.instead)) : u \in cfg.remotes}

(* The helper answers for a host some selected decoy covers. *)
https_mint(endpoint, covers, decoys) ==
  {[host |-> endpoint.host, value |-> DecoyOf(e)] :
     e \in {n \in decoys : endpoint.host \in covers[n]}}

(* One grant for an ssh remote when core.sshCommand states an identity that *)
(* can be read and mirrored.                                                *)
ssh_mint(source, cfg, endpoint) ==
  LET label == rewrite_label(source, endpoint.host) IN
  IF /\ cfg.ssh_command.file # "none"
     /\ cfg.ssh_command.readable
     /\ label # "none"
     /\ mirror_container_path(cfg.ssh_command) # "none"
  THEN <<SshGrant("git", label, endpoint.host, cfg.ssh_command)>>
  ELSE <<>>

(* The global sections of the chain, without their credential helpers. *)
global_layer(cfg) == {<<"git", s.name, Stated(s.name)>> :
                        s \in {t \in cfg.sections : t.global /\ t.name # "helper"}}

(* git::adapt: the twin first, then one grant per ssh remote. *)
GitAdapt(source, cfg, covers, decoys) ==
  LET ends  == remote_endpoints(cfg)
      mints == UNION {https_mint(e, covers, decoys) : e \in {x \in ends : x.scheme = "https"}}
      ssh   == FlattenSeq([i \in 1..Cardinality({x \in ends : x.scheme = "ssh"}) |->
                 ssh_mint(source, cfg, SetToSeq({x \in ends : x.scheme = "ssh"})[i])])
      twin  == global_layer(cfg) \cup (IF mints = {} THEN {} ELSE {<<"git", "helper", Stated("hodor")>>})
      files == IF mints = {} THEN {}
               ELSE {DecoyFile(<<"git-credential-hodor">>, {m.value : m \in mints}, "git-credential-hodor")}
      failed == \E e \in ends : /\ e.scheme = "ssh" /\ cfg.ssh_command.file # "none"
                                /\ cfg.ssh_command.readable /\ rewrite_label(source, e.host) = "none"
  IN IF ~cfg.repo \/ ~cfg.resolves \/ embedded_credentials(cfg) THEN Adapted(<<>>)
     ELSE IF failed THEN Nothing
     ELSE Adapted(<<RewriteAdapted({}, twin, {}, files)>> \o ssh)

-----------------------------------------------------------------------------
(* jj: its own files hold no credential, so the twin is the merged chain. *)

(* JJ_CONFIG replaces the default locations, even when it names none. *)
user_chain(jj) == IF jj.env_set THEN jj.env_chain ELSE jj.default_chain

(* Tables merge per key, the later file wins. *)
merge_table(base, over) ==
  [k \in DOMAIN base \cup DOMAIN over |-> IF k \in DOMAIN over THEN over[k] ELSE base[k]]

(* user.name and user.email come from git where the chain states neither. *)
fill_git_identity(merged, git) ==
  IF ~git.repo \/ ~git.resolves THEN merged ELSE merge_table(git.user, merged)

(* The chain is one document, or nothing when a file does not parse. *)
JjAdapt(jj, git) ==
  LET present == SelectSeq(user_chain(jj), LAMBDA f : f.present)
      merged  == FoldLeft(LAMBDA t, f : merge_table(t, f.table), <<>>, present)
  IN IF present = <<>> \/ \E i \in 1..Len(present) : ~present[i].parses THEN Adapted(<<>>)
     ELSE LET t == fill_git_identity(merged, git) IN
          Adapted(<<RewriteAdapted({}, {<<"jj", k, Stated(t[k])>> : k \in DOMAIN t}, {}, {})>>)
=============================================================================
