------------------------------- MODULE Config -------------------------------
(***************************************************************************)
(* load_configs (config.py): the files of conf.d are read one by one, each *)
(* fills its servers with defaults, and the results are merged.            *)
(*                                                                         *)
(* Nested settings are flat here: an option is the path of a leaf, so the  *)
(* recursion of dict_merge is one override per option.  The value of an    *)
(* option is the place it was written at: what the files say matters only  *)
(* as far as it tells whose value wins.  One value has an identity as      *)
(* well: an entrypoint given as a dictionary, which its validator changes  *)
(* when the merged servers are parsed.                                     *)
(***************************************************************************)
EXTENDS Naturals, FiniteSets, SequencesExt

CONSTANTS
  Names,      \* names of servers
  Options,    \* settings of a server
  Entrypoint, \* the option that is a dictionary
  Contents,   \* bound: what files hold
  MaxFiles,   \* bound: how many files there are
  Missing,    \* a file without the key `servers`
  Null        \* a file whose `servers` are null

Meta == "meta"

ASSUME ConfigAssumption ==
  /\ MaxFiles \in Nat
  /\ Meta \notin Options
  /\ Entrypoint \in Options

VARIABLES
  phase,            \* reading, merged or raised
  files,            \* what was read, in the order of reading
  configs,          \* the servers of each file, filled with defaults
  global_defaults,  \* the defaults of earlier files that were marked global
  ebpf_configured,
  servers,          \* the outcome: name -> its settings
  confdirs,         \* name -> the file whose directory its entrypoint has got
  formatted         \* an entrypoint of the defaults -> the same, once it is formatted

parsing_vars == <<confdirs, formatted>>
config_vars == <<phase, files, configs, global_defaults, ebpf_configured, servers, parsing_vars>>

\* Functions from any subset of S
Partial(S, T) == UNION {[D -> T] : D \in SUBSET S}
Empty == [s \in {} |-> {}]

\* What a file may hold: which options, written where.  The old style has the
\* defaults one level deeper, in `values`, and calls the mark `global`; a bare one
\* has the mark but no `values`.
Files ==
  [style : {"new", "old", "bare"}, global : BOOLEAN, defaults : SUBSET Options,
   servers : Partial(Names, SUBSET Options) \union {Missing, Null}, ebpf : BOOLEAN]

\* `copied` is TRUE for a dictionary that dict_merge has made of two.
Places == [file : 1 .. MaxFiles, section : {"defaults", "servers"}, copied : BOOLEAN]
At(i, section, options) ==
  [o \in options |-> [file |-> i, section |-> section, copied |-> FALSE]]

\* What is not a dictionary is none.
ASSUME ContentsAssumption ==
  /\ Contents \subseteq Files
  /\ Missing # Null
  /\ {Missing, Null} \intersect
       (Partial(Names, SUBSET Options) \union Partial(Names, Partial(Options \union {Meta}, Places))) = {}

IsDict(x) == x \notin {Missing, Null}
HasServers(f) == IsDict(f.servers) /\ f.servers # Empty

ConfigInit ==
  /\ phase = "reading"
  /\ files = <<>>
  /\ configs = <<>>
  /\ global_defaults = <<>>
  /\ ebpf_configured = FALSE
  /\ servers = Empty
  /\ confdirs = Empty
  /\ formatted = Empty

-----------------------------------------------------------------------------
\* Fault: dict_merge changes the dictionary it is given.
OverrideInPlace(base, merge) ==
  [o \in DOMAIN base \union DOMAIN merge |-> IF o \in DOMAIN merge THEN merge[o] ELSE base[o]]

\* dict_merge of two dictionaries of options: what is in both and a dictionary
\* itself is merged into a new one, the rest is taken over as it is.  (A section is
\* a dictionary wherever it is given: options have paths.)
Override(base, merge) ==
  [o \in DOMAIN base \union DOMAIN merge |->
     IF o \notin DOMAIN merge THEN base[o]
     ELSE [merge[o] EXCEPT !.copied = @ \/ (o = Entrypoint /\ o \in DOMAIN base)]]

\* Fault: the defaults win.
OverwriteWithDefaults(target, defaults) == Override(target, defaults)

\* _apply_defaults: what the target has already stays.
ApplyDefaults(target, defaults) == Override(defaults, target)

\* Both _get_config and _get_old_config: first the global defaults in the order
\* of their files, then those of this file.
WithDefaults(i, f, own) ==
  LET after[n \in 0 .. Len(global_defaults)] ==
        IF n = 0 THEN own ELSE ApplyDefaults(after[n - 1], global_defaults[n])
  IN ApplyDefaults(after[Len(global_defaults)], At(i, "defaults", f.defaults))

\* Fault: servers do not get meta.
WithoutMeta(i, settings) == settings

\* server['meta'] = {CONFPATH, CONFDIR} of the file
WithMeta(i, settings) == Override(settings, At(i, "servers", {Meta}))

ServersOf(i, f) ==
  IF IsDict(f.servers)
  THEN [s \in DOMAIN f.servers |->
          WithMeta(i, WithDefaults(i, f, At(i, "servers", f.servers[s])))]
  ELSE f.servers

\* Where KeyErrors come from: _get_config takes `values` from what has the mark; and
\* the global defaults are kept without `values`, but _get_old_config asks for
\* g_defaults['values'].
OldStyleFails(f) ==
  \/ f.style = "bare"
  \/ f.style = "old" /\ HasServers(f) /\ global_defaults # <<>>
SecondEbpf(f) == f.ebpf /\ ebpf_configured

ReadFile(f) ==
  LET i == Len(files) + 1 IN
  /\ phase = "reading"
  /\ Len(files) < MaxFiles
  /\ ~OldStyleFails(f)
  /\ ~SecondEbpf(f)
  /\ files' = Append(files, f)
  /\ configs' = Append(configs, ServersOf(i, f))
  /\ global_defaults' = IF f.global
                        THEN Append(global_defaults, At(i, "defaults", f.defaults))
                        ELSE global_defaults
  /\ ebpf_configured' = (ebpf_configured \/ f.ebpf)
  /\ UNCHANGED <<phase, servers, parsing_vars>>

\* KeyError or ConfigurationError leaves load_configs.
ReadFails(f) ==
  /\ phase = "reading"
  /\ Len(files) < MaxFiles
  /\ OldStyleFails(f) \/ SecondEbpf(f)
  /\ files' = Append(files, f)
  /\ phase' = "raised"
  /\ UNCHANGED <<configs, global_defaults, ebpf_configured, servers, parsing_vars>>

\* dict_merge of what stands under `servers` in two files
MergeServers(base, merge) ==
  IF merge = Missing THEN base
  ELSE IF IsDict(base) /\ IsDict(merge)
       THEN [s \in DOMAIN base \union DOMAIN merge |->
               IF s \notin DOMAIN merge THEN base[s]
               ELSE IF s \notin DOMAIN base THEN merge[s]
                    ELSE Override(base[s], merge[s])]
       ELSE merge

\* Settings.servers: null, an empty dictionary and no key are all no servers.
ServersIn(whole_config) == IF IsDict(whole_config) THEN whole_config ELSE Empty

\* The end of load_configs
Merge ==
  LET after[n \in 0 .. Len(configs)] ==
        IF n = 0 THEN Missing ELSE MergeServers(after[n - 1], configs[n])
  IN
  /\ phase = "reading"
  /\ phase' = "merged"
  /\ servers' = ServersIn(after[Len(configs)])
  /\ UNCHANGED <<files, configs, global_defaults, ebpf_configured, parsing_vars>>

Naming(s) == {i \in DOMAIN files : IsDict(files[i].servers) /\ s \in DOMAIN files[i].servers}
LastNull == Max({0} \union {i \in DOMAIN files : files[i].servers = Null})
NamingMerged(s) == {i \in Naming(s) : i > LastNull}

\* Settings.servers parses the servers in the order they came into the dictionary.
MayBeParsed(s) ==
  /\ s \in DOMAIN servers \ DOMAIN confdirs
  /\ \A t \in DOMAIN servers \ DOMAIN confdirs : Min(NamingMerged(s)) <= Min(NamingMerged(t))

\* A dictionary of the defaults that was never merged is one object for all.
IsShared(value) == value.section = "defaults" /\ ~value.copied

\* A dictionary with one more entry
With(f, x, y) == [z \in DOMAIN f \union {x} |-> IF z = x THEN y ELSE f[z]]

\* The validator puts the server's CONFDIR into the path, in the dictionary: a
\* path that has been formatted has no placeholder any more.
ParseServer(s) ==
  LET settings == servers[s]
      value == settings[Entrypoint]
      own == settings[Meta].file
      dir == IF value \in DOMAIN formatted THEN formatted[value] ELSE own
  IN
  /\ phase = "merged"
  /\ MayBeParsed(s)
  /\ IF Entrypoint \in DOMAIN settings
     THEN /\ confdirs' = With(confdirs, s, dir)
          /\ formatted' = IF IsShared(value) THEN With(formatted, value, dir) ELSE formatted
     ELSE confdirs' = With(confdirs, s, own) /\ UNCHANGED formatted
  /\ UNCHANGED <<phase, files, configs, global_defaults, ebpf_configured, servers>>

ConfigNext ==
  \/ \E f \in Contents : ReadFile(f) \/ ReadFails(f)
  \/ Merge
  \/ \E s \in Names : ParseServer(s)

ConfigSpec == ConfigInit /\ [][ConfigNext]_config_vars

-----------------------------------------------------------------------------
\* A server of the outcome always has meta, which ServerModel requires.
ConfigTypeOK ==
  /\ phase \in {"reading", "merged", "raised"}
  /\ Len(files) <= MaxFiles
  /\ Range(files) \subseteq Files
  /\ Len(configs) <= Len(files)
  /\ \A i \in DOMAIN global_defaults : global_defaults[i] \in Partial(Options, Places)
  /\ ebpf_configured \in BOOLEAN
  /\ DOMAIN servers \subseteq Names
  /\ \A s \in DOMAIN servers : /\ servers[s] \in Partial(Options \union {Meta}, Places)
                               /\ Meta \in DOMAIN servers[s]
  /\ DOMAIN confdirs \subseteq DOMAIN servers

\* Reference: where a server that file i names gets an option from, if anywhere
Source(i, s, o) ==
  LET globals == {g \in 1 .. i - 1 : files[g].global /\ o \in files[g].defaults} IN
  IF o \in files[i].servers[s] THEN {<<i, "servers">>}
  ELSE IF globals # {} THEN {<<Min(globals), "defaults">>}
  ELSE IF o \in files[i].defaults THEN {<<i, "defaults">>}
  ELSE {}

\* The outcome of load_configs, over all contents of the files and in either
\* style: the servers named after the last file that has null for them; and each
\* option is that of the last file from which the server has it, meta of
\* the last file that names it.  So defaults reach the servers of their own
\* file and, only when they are marked global, those of later files.
EffectiveValues ==
  phase = "merged" =>
    /\ DOMAIN servers = {s \in Names : NamingMerged(s) # {}}
    /\ \A s \in DOMAIN servers :
         /\ servers[s][Meta].file = Max(Naming(s))
         /\ \A o \in Options :
              LET known == {i \in NamingMerged(s) : Source(i, s, o) # {}} IN
              IF known = {} THEN o \notin DOMAIN servers[s]
              ELSE /\ o \in DOMAIN servers[s]
                   /\ <<servers[s][o].file, servers[s][o].section>> \in Source(Max(known), s, o)

\* Where a server may have its entrypoint from: the file that names it, and the
\* one whose defaults give the entrypoint, 0 if it is the server's own
Gives(i, g, s, o) ==
  IF g = 0 THEN o \in files[i].servers[s]
  ELSE o \in files[g].defaults /\ (g < i => files[g].global)

Givers(s) ==
  {giver \in NamingMerged(s) \X (0 .. MaxFiles) :
     giver[2] <= giver[1] /\ Gives(giver[1], giver[2], s, Entrypoint)}

\* "CONFDIR value will be merged like other options and will contains the last
\* configuration file path" (examples/conf.d/02-hlds-game.yaml): the directory that a
\* server's entrypoint gets is that of the last file that names the server.
ConfdirIsLastFile == \A s \in DOMAIN confdirs : confdirs[s] = servers[s][Meta].file

\* How far that fails: an entrypoint that is the server's own, or merged from
\* several dictionaries, gets the right directory, as dict_merge makes a new
\* dictionary of them and changes none.  Only one taken from a single defaults
\* section may have got the directory of another server, which took it from there
\* as well.
ForeignConfdirIsShared ==
  \A s \in DOMAIN confdirs :
    confdirs[s] # servers[s][Meta].file =>
      \E g \in DOMAIN files : \E t \in DOMAIN confdirs \ {s} :
        /\ \A giver \in Givers(s) \union Givers(t) : giver[2] = g
        /\ Cardinality(Givers(s)) = 1 /\ Cardinality(Givers(t)) = 1
        /\ confdirs[s] = servers[t][Meta].file

\* "Any of these `values` can be overridden locally: in local `defaults` section,
\* in `servers` section" (examples/conf.d/00-globals.yaml): a global default is in force
\* only where no file that names the server gives the option.
GlobalsCanBeOverridden ==
  \A s \in DOMAIN servers : \A o \in DOMAIN servers[s] \ {Meta} :
    LET v == servers[s][o] IN
    (v.section = "defaults" /\ v.file \notin Naming(s)) =>
      \A i \in Naming(s) : o \notin files[i].defaults \union files[i].servers[s]
=============================================================================
