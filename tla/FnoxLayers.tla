----------------------------- MODULE FnoxLayers -----------------------------
(***************************************************************************)
(* Where hodor's secrets come from (hodor-fnox): the chain of fnox config  *)
(* files from the working directory up to the filesystem root, fnox's      *)
(* global file, and hodor's own level between the two, merged into one     *)
(* config whose profiles select yet more files.                            *)
(*                                                                         *)
(* `secrets` stands for the five keyed tables the code merges alike        *)
(* (leases, providers, their sources, secrets, their sources) and          *)
(* `scalars` for the settings an overlay replaces one by one.  A file is   *)
(* [parses, root, import, proxy, scalars, secrets, profiles].              *)
(***************************************************************************)
EXTENDS Policy

(* Config::new(). *)
NewConfig == [root |-> FALSE, import |-> <<>>, proxy |-> <<>>, scalars |-> Empty,
              secrets |-> Empty, profiles |-> Empty]
NewProfile == [inherits |-> <<>>, secrets |-> Empty]

(* Overlay wins key by key; proxy policy is replaced as a unit, imports are *)
(* gathered, root is either's.                                              *)
MergeProfile(base, over) ==
  [inherits |-> IF over.inherits # <<>> THEN over.inherits ELSE base.inherits,
   secrets  |-> Over(base.secrets, over.secrets)]
merge_configs(base, over) ==
  [root |-> base.root \/ over.root,
   import |-> UnionSeq(base.import, over.import),
   proxy |-> IF over.proxy # <<>> THEN over.proxy ELSE base.proxy,
   scalars |-> Over(base.scalars, over.scalars),
   secrets |-> Over(base.secrets, over.secrets),
   profiles |-> [p \in DOMAIN base.profiles \cup DOMAIN over.profiles |->
                   CASE p \notin DOMAIN over.profiles -> base.profiles[p]
                     [] p \notin DOMAIN base.profiles -> over.profiles[p]
                     [] OTHER -> MergeProfile(base.profiles[p], over.profiles[p])]]

ProfileOf(cfg, p) == IF p \in DOMAIN cfg.profiles THEN cfg.profiles[p] ELSE NewProfile

(* A profile's own file: its root entries become the profile's. *)
scope_root_entries_to_profile(cfg, p) ==
  [cfg EXCEPT !.secrets = Empty,
              !.profiles = With(@, p, [ProfileOf(cfg, p) EXCEPT !.secrets = Over(@, cfg.secrets)])]

(* A local file under a named profile: its root entries lie below what its  *)
(* own table for that profile states.                                       *)
scope_root_entries_to_profile_as_base(cfg, p, include) ==
  LET bare   == [cfg EXCEPT !.profiles = [q \in DOMAIN @ \ {p} |-> @[q]],
                            !.secrets = IF include THEN @ ELSE Empty]
      scoped == scope_root_entries_to_profile(bare, p)
      merged == IF p \in DOMAIN cfg.profiles
                THEN [scoped EXCEPT !.profiles[p] = MergeProfile(@, cfg.profiles[p])] ELSE scoped
  IN IF include THEN merged ELSE [merged EXCEPT !.secrets = cfg.secrets]

(* Each entry remembers the file it came from. *)
set_source_paths(cfg, path) ==
  LET at(map) == [k \in DOMAIN map |-> path] IN
  [cfg EXCEPT !.secrets = at(@),
              !.profiles = [p \in DOMAIN @ |-> [@[p] EXCEPT !.secrets = at(@)]]]

(* fnox_core's rule for a profile's name. *)
is_valid_profile_name(name) == name \notin {"", ".", "..", "a/b"}

(* fnox.<profile>.toml names its profile; default and local do not. *)
profile_name_from_file(name) ==
  IF name[1] = "profile" /\ name[2] # "default" THEN <<name[2]>> ELSE <<>>

(* One file as a config. *)
LoadFile(file, name, path) ==
  LET cfg == [root |-> file.root, import |-> file.import, proxy |-> file.proxy,
              scalars |-> file.scalars, secrets |-> file.secrets, profiles |-> file.profiles]
      p   == profile_name_from_file(name)
  IN IF ~file.parses THEN Err
     ELSE Ok(set_source_paths(IF p = <<>> THEN cfg ELSE scope_root_entries_to_profile(cfg, p[1]), path))

(* Config::load_import: an imported file is loaded under its own name. *)
LoadImport(tree, name) ==
  IF name \in DOMAIN tree.imports THEN LoadFile(tree.imports[name], <<"import", "">>, <<"import", name>>)
  ELSE Err

(* A slip of WithImports: an import overrides its importer. *)
WithImportsOver(tree, cfg) ==
  FoldOk(LAMBDA c, i : Try(LoadImport(tree, i), LAMBDA got : Ok(merge_configs(c, got))), cfg, cfg.import)

(* Imports lie below the file that names them, the first one highest. *)
WithImports(tree, cfg) ==
  FoldOk(LAMBDA c, i : Try(LoadImport(tree, i), LAMBDA got : Ok(merge_configs(got, c))), cfg, cfg.import)

Named(profiles) == SelectSeq(profiles, LAMBDA p : p # "default")
ProfileFiles(profiles) == [i \in DOMAIN Named(profiles) |-> <<"profile", Named(profiles)[i]>>]
PlainFile == <<"plain", "">>
LocalFile == <<"local", "">>

(* fnox's read order in a directory, and the profile its writes go to. *)
all_config_filenames(profiles) == <<PlainFile>> \o ProfileFiles(profiles) \o <<LocalFile>>
write_profile(profiles) == Last(profiles)

(* hodor's level: the local file stands in only for the default profile. *)
hodor_filenames(profiles) ==
  <<PlainFile>> \o (IF Named(profiles) = <<>> THEN <<LocalFile>> ELSE ProfileFiles(profiles))

(* A config that may be missing is the empty one where another is laid over it. *)
OrNew(opt) == IF opt = <<>> THEN NewConfig ELSE opt[1]

(* fnox's global file and its imports. *)
load_global(tree) ==
  IF tree.global = <<>> THEN Ok(<<>>)
  ELSE Try(LoadFile(tree.global[1], PlainFile, <<"global", "plain">>),
           LAMBDA cfg : Try(WithImports(tree, cfg), LAMBDA full : Ok(<<full>>)))

(* Each file with its imports below it, later files over earlier ones. *)
load_hodor_level(tree, profiles) ==
  FoldOk(LAMBDA got, name :
           IF name \notin DOMAIN tree.hodor THEN Ok(got)
           ELSE Try(LoadFile(tree.hodor[name], name, <<"hodor", name[1], name[2]>>),
                    LAMBDA cfg : Try(WithImports(tree, cfg),
                                     LAMBDA full : Ok(<<merge_configs(OrNew(got), full)>>))),
         <<>>, hodor_filenames(profiles))

(* A local file speaks for the profile that is written to. *)
ScopeLocal(tree, cfg, name, profiles, path) ==
  IF name = LocalFile /\ write_profile(profiles) # "default"
  THEN set_source_paths(
         scope_root_entries_to_profile_as_base(cfg, write_profile(profiles), ~tree.no_defaults), path)
  ELSE cfg

(* The files of one directory, in order. *)
DirConfig(tree, d, profiles) ==
  LET path(name) == <<"dir", d, name[1], name[2]>> IN
  FoldOk(LAMBDA got, name :
           IF name \notin DOMAIN tree.dirs[d] THEN Ok(got)
           ELSE Try(LoadFile(tree.dirs[d][name], name, path(name)),
                    LAMBDA cfg : Ok(<<merge_configs(OrNew(got),
                                                    ScopeLocal(tree, cfg, name, profiles, path(name)))>>)),
         <<>>, all_config_filenames(profiles))

(* The base of the chain: fnox's global config under hodor's level. *)
BaseConfig(tree, profiles) ==
  Try(load_global(tree), LAMBDA global :
    Try(load_hodor_level(tree, profiles), LAMBDA hodor :
      Ok([found |-> global # <<>> \/ hodor # <<>>, cfg |-> merge_configs(OrNew(global), OrNew(hodor))])))

(* A directory over its parents; a root file ends the climb, never the base. *)
load_recursive(tree, profiles) ==
  LET top == Len(tree.dirs)
      climb[d \in 1..top] ==
        Try(DirConfig(tree, d, profiles), LAMBDA here :
          Try(WithImports(tree, OrNew(here)), LAMBDA full :
            Try(IF OrNew(here).root \/ d = top THEN BaseConfig(tree, profiles) ELSE climb[d + 1], LAMBDA above :
              Ok([found |-> here # <<>> \/ above.found, cfg |-> merge_configs(above.cfg, full)]))))
  IN climb[1]

(* Depth first, a profile after what it inherits; the stack's own members   *)
(* are repeated, an inherited one is not; a cycle is an error.              *)
RECURSIVE Visit(_, _, _, _, _)
Visit(cfg, p, resolved, visiting, force) ==
  LET inherits == ProfileOf(cfg, p).inherits
      down == FoldOk(LAMBDA r, q : Visit(cfg, q, r, visiting \cup {p}, FALSE), resolved, inherits)
  IN IF ~is_valid_profile_name(p) THEN Err
     ELSE IF p \in Elements(resolved) /\ ~force THEN Ok(resolved)
     ELSE IF p = "default" THEN Ok(Append(resolved, p))
     ELSE IF p \in visiting THEN Err
     ELSE IF ~down.ok THEN Err
     ELSE Ok(Append(down.v, p))
resolve_profiles_for_discovery(cfg, profiles) ==
  FoldOk(LAMBDA r, p : Visit(cfg, p, r, {}, TRUE), <<>>, profiles)

(* fnox's own, strict resolution: what is inherited must exist. *)
resolve_profiles(cfg, profiles) ==
  Try(resolve_profiles_for_discovery(cfg, profiles), LAMBDA all :
    IF \A p \in Elements(all) : p \in Elements(profiles) \/ p = "default" \/ p \in DOMAIN cfg.profiles
    THEN Ok(all) ELSE Err)

(* Load, expand the profiles, load again, until nothing is added. *)
RECURSIVE LoadUntilStable(_, _, _)
LoadUntilStable(tree, profiles, rounds) ==
  Try(load_recursive(tree, profiles), LAMBDA got :
    Try(resolve_profiles_for_discovery(got.cfg, profiles), LAMBDA more :
      IF more = profiles
      THEN Ok([found |-> got.found, cfg |-> got.cfg, profiles |-> profiles, rounds |-> rounds])
      ELSE LoadUntilStable(tree, more, rounds + 1)))

(* The nearest directory that holds a file of the stack. *)
find_project_dir(tree, profiles) ==
  LET held == {d \in DOMAIN tree.dirs : DOMAIN tree.dirs[d] \cap Elements(all_config_filenames(profiles)) # {}}
  IN IF held = {} THEN 0 ELSE CHOOSE d \in held : \A o \in held : d <= o

load_with_recursion(tree) ==
  Try(LoadUntilStable(tree, tree.requested, 1), LAMBDA got :
    IF ~got.found THEN Ok(<<>>)
    ELSE Try(resolve_profiles(got.cfg, tree.requested), LAMBDA stack :
           Ok(<<got @@ [project_dir |-> find_project_dir(tree, got.profiles)]>>)))

(* Root secrets, unless they are switched off, under each profile in turn. *)
EffectiveSecrets(tree, cfg, profiles) ==
  FoldLeft(LAMBDA map, p : Over(map, ProfileOf(cfg, p).secrets),
           IF tree.no_defaults THEN Empty ELSE cfg.secrets, profiles)

(* FnoxSource::open: no chain is no source; a broken one is an error. *)
FnoxOpen(tree) ==
  Try(load_with_recursion(tree), LAMBDA found :
    IF found = <<>> THEN Ok(<<>>)
    ELSE Try(resolve_profiles(found[1].cfg, tree.requested), LAMBDA stack :
           Ok(<<EffectiveSecrets(tree, found[1].cfg, stack)>>)))

-----------------------------------------------------------------------------
(* The precedence the chain is meant to have, stated without merging: the   *)
(* files that state a key, nearest first.                                   *)
LevelFiles(files, names) == SelectSeq(Reverse(names), LAMBDA n : n \in DOMAIN files)
RootKeys(file, name) == IF profile_name_from_file(name) = <<>> THEN DOMAIN file.secrets ELSE {}
ImportPlaces(tree, list, key) ==
  LET hits == SelectSeq(list, LAMBDA i : key \in DOMAIN tree.imports[i].secrets)
  IN [i \in DOMAIN hits |-> <<"import", hits[i]>>]

DirPlaces(tree, d, profiles, key) ==
  LET names == LevelFiles(tree.dirs[d], all_config_filenames(profiles))
      own   == SelectSeq(names, LAMBDA n : key \in RootKeys(tree.dirs[d][n], n)
                                           /\ ~(n = LocalFile /\ write_profile(profiles) # "default" /\ ~tree.no_defaults))
      lists == FoldLeft(LAMBDA s, n : UnionSeq(s, tree.dirs[d][n].import), <<>>, Reverse(names))
  IN [i \in DOMAIN own |-> <<"dir", d, own[i][1], own[i][2]>>] \o ImportPlaces(tree, lists, key)

(* Where a default secret must come from: the first of these places. *)
Places(tree, profiles, key) ==
  LET top   == {d \in DOMAIN tree.dirs : \E n \in Elements(all_config_filenames(profiles)) :
                   n \in DOMAIN tree.dirs[d] /\ tree.dirs[d][n].root}
      last  == IF top = {} THEN Len(tree.dirs) ELSE CHOOSE d \in top : \A o \in top : d <= o
      hodor == LevelFiles(tree.hodor, hodor_filenames(profiles))
  IN FlattenSeq([d \in 1..last |-> DirPlaces(tree, d, profiles, key)])
     \o FlattenSeq([i \in DOMAIN hodor |->
          (IF key \in RootKeys(tree.hodor[hodor[i]], hodor[i])
           THEN <<<<"hodor", hodor[i][1], hodor[i][2]>>>> ELSE <<>>)
          \o ImportPlaces(tree, tree.hodor[hodor[i]].import, key)])
     \o FlattenSeq([i \in DOMAIN tree.global |->
          (IF key \in DOMAIN tree.global[i].secrets THEN <<<<"global", "plain">>>> ELSE <<>>)
          \o ImportPlaces(tree, tree.global[i].import, key)])
=============================================================================
