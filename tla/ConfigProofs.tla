---------------------------- MODULE ConfigProofs ----------------------------
(***************************************************************************)
(* load_configs for any number of files, servers and options: whose value  *)
(* wins, and whose directory an entrypoint gets.                           *)
(***************************************************************************)
EXTENDS Config, Induction, FiniteSetTheorems, TLAPS

LEMMA PartialIs ==
  ASSUME NEW S, NEW T
  PROVE  \A f : f \in Partial(S, T) <=> f \in [DOMAIN f -> T] /\ DOMAIN f \subseteq S
  BY DEF Partial

LEMMA EmptyIs == DOMAIN Empty = {}
  BY DEF Empty

LEMMA MetaIsNone == Meta \notin Options /\ Meta # Entrypoint
  BY ConfigAssumption

\* Settings of a server, with or without meta.
Settings == Partial(Options, Places)
FullSettings == Partial(Options \union {Meta}, Places)

LEMMA AtIs ==
  ASSUME NEW i \in 1 .. MaxFiles, NEW section \in {"defaults", "servers"}, NEW S, NEW D \in SUBSET S
  PROVE  /\ At(i, section, D) \in Partial(S, Places)
         /\ DOMAIN At(i, section, D) = D
         /\ \A o \in D : At(i, section, D)[o] = [file |-> i, section |-> section, copied |-> FALSE]
  <1> DEFINE place == [file |-> i, section |-> section, copied |-> FALSE]
             f == [o \in D |-> place]
  <1>1. place \in Places
    BY DEF Places
  <1>2. At(i, section, D) = f
    BY DEF At
  <1> HIDE DEF place
  <1>3. f \in [D -> Places] /\ DOMAIN f = D
    BY <1>1
  <1>4. f \in Partial(S, Places)
    BY <1>3, PartialIs
  <1>5. QED
    BY <1>2, <1>3, <1>4 DEF place

\* What dict_merge of two dictionaries of settings makes of an option.
IsMerged(u, base, merge) ==
  /\ DOMAIN u = DOMAIN base \union DOMAIN merge
  /\ \A o \in DOMAIN base \ DOMAIN merge : u[o] = base[o]
  /\ \A o \in DOMAIN merge :
       /\ u[o].file = merge[o].file
       /\ u[o].section = merge[o].section
       /\ o = Entrypoint /\ o \in DOMAIN base => u[o].copied
       /\ o \notin DOMAIN base => u[o] = merge[o]

LEMMA OverrideIs ==
  ASSUME NEW S, NEW base \in Partial(S, Places), NEW merge \in Partial(S, Places)
  PROVE  /\ Override(base, merge) \in Partial(S, Places)
         /\ IsMerged(Override(base, merge), base, merge)
  <1> DEFINE D == DOMAIN base \union DOMAIN merge
             both(o) == [merge[o] EXCEPT !.copied = @ \/ (o = Entrypoint /\ o \in DOMAIN base)]
             f == [o \in D |-> IF o \notin DOMAIN merge THEN base[o] ELSE both(o)]
  <1>1. base \in [DOMAIN base -> Places] /\ merge \in [DOMAIN merge -> Places] /\ D \subseteq S
    BY PartialIs
  <1>2. Override(base, merge) = f
    BY DEF Override
  <1>3. ASSUME NEW o \in DOMAIN merge
        PROVE  /\ both(o) \in Places
               /\ both(o).file = merge[o].file
               /\ both(o).section = merge[o].section
               /\ o = Entrypoint /\ o \in DOMAIN base => both(o).copied
               /\ o \notin DOMAIN base => both(o) = merge[o]
    <2>1. merge[o] \in Places
      BY <1>1
    <2>2. QED
      BY <2>1 DEF Places
  <1> HIDE DEF both
  <1>4. f \in [D -> Places]
    BY <1>1, <1>3
  <1>5. f \in Partial(S, Places) /\ DOMAIN f = D
    BY <1>1, <1>4, PartialIs
  <1>6. \A o \in D : f[o] = IF o \notin DOMAIN merge THEN base[o] ELSE both(o)
    OBVIOUS
  <1> HIDE DEF f
  <1>7. IsMerged(f, base, merge)
    BY <1>3, <1>5, <1>6 DEF IsMerged
  <1>8. QED
    BY <1>2, <1>5, <1>7

-----------------------------------------------------------------------------
\* Who gives an option to a server that file i names: 0 is the server itself, any
\* other number the defaults of that file.
Sources(i, s, o) == {g \in 0 .. i : Gives(i, g, s, o)}

\* t has the option from the least of those who give it; with several of them a
\* dictionary is a new one.
Has(t, i, o, G) ==
  /\ o \in DOMAIN t <=> G # {}
  /\ G # {} =>
       /\ t[o].file = IF Min(G) = 0 THEN i ELSE Min(G)
       /\ t[o].section = IF Min(G) = 0 THEN "servers" ELSE "defaults"
       /\ o = Entrypoint /\ ~t[o].copied => G = {Min(G)}

LEMMA ApplyDefaultsIs ==
  ASSUME NEW t \in Settings, NEW d \in Settings
  PROVE  ApplyDefaults(t, d) \in Settings /\ IsMerged(ApplyDefaults(t, d), d, t)
  BY OverrideIs DEF ApplyDefaults, Settings

LEMMA DefaultsComeAfter ==
  ASSUME NEW i, NEW o \in Options, NEW G \in SUBSET Nat, NEW g \in Nat \ {0}, \A x \in G : x < g,
         NEW t \in Settings, NEW d \in Settings, Has(t, i, o, G),
         o \in DOMAIN d => d[o] = [file |-> g, section |-> "defaults", copied |-> FALSE]
  PROVE  Has(ApplyDefaults(t, d), i, o, IF o \in DOMAIN d THEN G \union {g} ELSE G)
  <1> DEFINE u == ApplyDefaults(t, d)
  <1>1. /\ DOMAIN u = DOMAIN d \union DOMAIN t
        /\ \A p \in DOMAIN d \ DOMAIN t : u[p] = d[p]
        /\ \A p \in DOMAIN t :
             /\ u[p].file = t[p].file
             /\ u[p].section = t[p].section
             /\ p = Entrypoint /\ p \in DOMAIN d => u[p].copied
             /\ p \notin DOMAIN d => u[p] = t[p]
    <2>1. IsMerged(u, d, t)
      BY ApplyDefaultsIs
    <2> HIDE DEF u
    <2>2. QED
      BY <2>1 DEF IsMerged
  <1> HIDE DEF u
  <1>2. CASE o \notin DOMAIN d
    BY <1>1, <1>2 DEF Has, u
  <1>3. CASE o \in DOMAIN d /\ G = {}
    <2>1. G \union {g} = {g} /\ Min({g}) = g
      BY <1>3, MinIs
    <2>2. u[o] = [file |-> g, section |-> "defaults", copied |-> FALSE] /\ o \in DOMAIN u
      BY <1>1, <1>3 DEF Has
    <2>3. Has(u, i, o, {g})
      BY <2>1, <2>2 DEF Has
    <2>4. QED
      BY <1>3, <2>1, <2>3 DEF u
  <1>4. CASE o \in DOMAIN d /\ G # {}
    <2>1. Min(G) \in G /\ \A m \in G : Min(G) <= m
      BY <1>4, LeastNumberIsMin
    <2>2. Min(G \union {g}) = Min(G)
      <3>1. \A m \in G \union {g} : Min(G) <= m
        BY <2>1
      <3> DEFINE n == Min(G)
      <3>2. n \in G \union {g} /\ G \union {g} \in SUBSET Nat
        BY <2>1
      <3> HIDE DEF n
      <3>3. QED
        BY <3>1, <3>2, MinIs DEF n
    <2>3. o \in DOMAIN t /\ o \in DOMAIN u
      BY <1>1, <1>4 DEF Has
    <2>4. QED
      BY <1>1, <1>4, <2>2, <2>3 DEF Has, u
  <1>5. QED
    BY <1>2, <1>3, <1>4

\* The global defaults are those of the files that are marked so, in their order.
GlobalsOK ==
  /\ global_defaults \in Seq(Settings)
  /\ \A n \in DOMAIN global_defaults : \A o \in DOMAIN global_defaults[n] :
       LET g == global_defaults[n][o].file IN
       /\ g \in 1 .. Len(files) /\ files[g].global /\ o \in files[g].defaults
       /\ global_defaults[n][o] = [file |-> g, section |-> "defaults", copied |-> FALSE]
  /\ \A n, m \in DOMAIN global_defaults :
       n < m => \A o \in DOMAIN global_defaults[n] \intersect DOMAIN global_defaults[m] :
                  global_defaults[n][o].file < global_defaults[m][o].file
  /\ \A g \in 1 .. Len(files) : \A o \in files[g].defaults :
       files[g].global => \E n \in DOMAIN global_defaults :
                            o \in DOMAIN global_defaults[n] /\ global_defaults[n][o].file = g

Given(n, o, own) ==
  (IF o \in own THEN {0} ELSE {}) \union
    {global_defaults[m][o].file : m \in {k \in 1 .. n : o \in DOMAIN global_defaults[k]}}

IsDefaultsLoop(g, n, t) ==
  g = [k \in 0 .. n |-> IF k = 0 THEN t ELSE ApplyDefaults(g[k - 1], global_defaults[k])]

LEMMA DefaultsLoopExists ==
  ASSUME GlobalsOK, NEW t \in Settings
  PROVE  \E g : IsDefaultsLoop(g, Len(global_defaults), t) /\ g \in [0 .. Len(global_defaults) -> Settings]
  <1> DEFINE N == Len(global_defaults)
             step == [k \in Nat |-> [t1 \in Settings |->
                        IF k \in 1 .. N THEN ApplyDefaults(t1, global_defaults[k]) ELSE t1]]
  <1>1. N \in Nat /\ \A k \in 1 .. N : global_defaults[k] \in Settings
    BY DEF GlobalsOK
  <1> HIDE DEF N
  <1>2. \A a, b \in Settings : ApplyDefaults(a, b) \in Settings
    BY OverrideIs DEF ApplyDefaults, Settings
  <1>3. step \in [Nat -> [Settings -> Settings]]
    BY <1>1, <1>2
  <1>4. \A k \in 1 .. N, x \in Settings : step[k][x] = ApplyDefaults(x, global_defaults[k])
    BY <1>1
  <1> HIDE DEF step
  <1>5. PICK g \in [0 .. N -> Settings] : g[0] = t /\ \A k \in 1 .. N : g[k] = step[k][g[k - 1]]
    BY <1>1, <1>3, RecursionExists
  <1>6. \A k \in 0 .. N : g[k] = IF k = 0 THEN t ELSE ApplyDefaults(g[k - 1], global_defaults[k])
    <2>1. \A k \in 1 .. N : k - 1 \in 0 .. N
      BY <1>1
    <2>2. QED
      BY <1>4, <1>5, <2>1
  <1>7. IsDefaultsLoop(g, N, t)
    BY <1>5, <1>6 DEF IsDefaultsLoop
  <1>8. QED
    BY <1>5, <1>7 DEF N

LEMMA GivenIs ==
  ASSUME GlobalsOK, NEW n \in 0 .. Len(global_defaults) - 1, NEW o \in Options, NEW own \in SUBSET Options
  PROVE  LET d == global_defaults[n + 1]
         IN  /\ Given(n, o, own) \in SUBSET Nat
             /\ o \in DOMAIN d =>
                  /\ Given(n + 1, o, own) = Given(n, o, own) \union {d[o].file}
                  /\ d[o].file \in Nat \ {0}
                  /\ d[o] = [file |-> d[o].file, section |-> "defaults", copied |-> FALSE]
                  /\ \A x \in Given(n, o, own) : x < d[o].file
             /\ o \notin DOMAIN d => Given(n + 1, o, own) = Given(n, o, own)
  <1> DEFINE d == global_defaults[n + 1]
             K(m) == {k \in 1 .. m : o \in DOMAIN global_defaults[k]}
             At1(m) == {global_defaults[k][o].file : k \in K(m)}
             mine == IF o \in own THEN {0} ELSE {}
  <1>1. /\ Len(global_defaults) \in Nat /\ n \in Nat
        /\ DOMAIN global_defaults = 1 .. Len(global_defaults)
        /\ n + 1 \in 1 .. Len(global_defaults) /\ 1 .. n \subseteq 1 .. Len(global_defaults)
    BY DEF GlobalsOK
  <1>2. \A k \in DOMAIN global_defaults : o \in DOMAIN global_defaults[k] =>
          /\ global_defaults[k][o].file \in Nat \ {0}
          /\ global_defaults[k][o] =
               [file |-> global_defaults[k][o].file, section |-> "defaults", copied |-> FALSE]
    BY DEF GlobalsOK
  <1>3. \A k \in K(n) : global_defaults[k][o].file \in Nat \ {0}
    BY <1>1, <1>2
  <1>4. \A k \in K(n) : o \in DOMAIN d => global_defaults[k][o].file < d[o].file
    <2>1. \A k \in K(n) : k < n + 1 /\ k \in DOMAIN global_defaults
      BY <1>1
    <2>2. n + 1 \in DOMAIN global_defaults
      BY <1>1
    <2>3. QED
      BY <2>1, <2>2 DEF GlobalsOK
  <1>5. K(n + 1) = K(n) \union (IF o \in DOMAIN d THEN {n + 1} ELSE {})
    BY <1>1
  <1>6. At1(n + 1) = At1(n) \union (IF o \in DOMAIN d THEN {d[o].file} ELSE {})
    <2> HIDE DEF K
    <2>1. CASE o \in DOMAIN d
      BY <1>5, <2>1
    <2>2. CASE o \notin DOMAIN d
      BY <1>5, <2>2
    <2>3. QED
      BY <2>1, <2>2
  <1>7. Given(n, o, own) = mine \union At1(n) /\ Given(n + 1, o, own) = mine \union At1(n + 1)
    BY DEF Given
  <1>8. \A x \in At1(n) : x \in Nat /\ (o \in DOMAIN d => x < d[o].file)
    BY <1>3, <1>4
  <1>9. o \in DOMAIN d => /\ d[o].file \in Nat \ {0}
                          /\ d[o] = [file |-> d[o].file, section |-> "defaults", copied |-> FALSE]
    BY <1>1, <1>2
  <1> HIDE DEF At1, d
  <1>10. \A x \in mine : x \in Nat /\ (o \in DOMAIN d => x < d[o].file)
    BY <1>9
  <1> HIDE DEF mine
  <1> SUFFICES /\ Given(n, o, own) \in SUBSET Nat
               /\ o \in DOMAIN d =>
                    /\ Given(n + 1, o, own) = Given(n, o, own) \union {d[o].file}
                    /\ d[o].file \in Nat \ {0}
                    /\ d[o] = [file |-> d[o].file, section |-> "defaults", copied |-> FALSE]
                    /\ \A x \in Given(n, o, own) : x < d[o].file
               /\ o \notin DOMAIN d => Given(n + 1, o, own) = Given(n, o, own)
    BY DEF d
  <1>11. QED
    BY <1>6, <1>7, <1>8, <1>9, <1>10

LEMMA DefaultsLoopHas ==
  ASSUME GlobalsOK, NEW i \in 1 .. MaxFiles, NEW own \in SUBSET Options, NEW o \in Options, NEW g,
         IsDefaultsLoop(g, Len(global_defaults), At(i, "servers", own))
  PROVE  LET N == Len(global_defaults) IN g[N] \in Settings /\ Has(g[N], i, o, Given(N, o, own))
  <1> DEFINE N == Len(global_defaults)
             T == {n \in 0 .. N : g[n] \in Settings /\ Has(g[n], i, o, Given(n, o, own))}
  <1>1. N \in Nat /\ \A k \in 1 .. N : global_defaults[k] \in Settings
    BY DEF GlobalsOK
  <1>2. 0 \in T
    <2>1. 0 \in 0 .. N /\ g[0] = At(i, "servers", own)
      BY <1>1 DEF IsDefaultsLoop
    <2>2. /\ At(i, "servers", own) \in Partial(Options, Places)
          /\ DOMAIN At(i, "servers", own) = own
          /\ \A p \in own : At(i, "servers", own)[p] = [file |-> i, section |-> "servers", copied |-> FALSE]
      BY AtIs
    <2>3. Given(0, o, own) = IF o \in own THEN {0} ELSE {}
      BY DEF Given
    <2>4. Min({0}) = 0
      BY MinIs
    <2>5. Has(At(i, "servers", own), i, o, Given(0, o, own))
      <3> DEFINE t == At(i, "servers", own)
      <3>1. DOMAIN t = own /\ (o \in own => t[o] = [file |-> i, section |-> "servers", copied |-> FALSE])
        BY <2>2
      <3> HIDE DEF t
      <3>2. CASE o \in own
        <4>1. Has(t, i, o, {0})
          BY <2>4, <3>1, <3>2 DEF Has
        <4>2. QED
          BY <2>3, <3>2, <4>1 DEF t
      <3>3. CASE o \notin own
        <4>1. Has(t, i, o, {})
          BY <3>1, <3>3 DEF Has
        <4>2. QED
          BY <2>3, <3>3, <4>1 DEF t
      <3>4. QED
        BY <3>2, <3>3
    <2>6. QED
      BY <2>1, <2>2, <2>5 DEF Settings
  <1>3. ASSUME NEW n \in 0 .. N - 1, n \in T
        PROVE  n + 1 \in T
    <2> DEFINE d == global_defaults[n + 1]
    <2>1. /\ n + 1 \in 1 .. N /\ n + 1 \in 0 .. N /\ n \in 0 .. N
          /\ g[n + 1] = ApplyDefaults(g[n], d)
      BY <1>1 DEF IsDefaultsLoop
    <2>2. g[n] \in Settings /\ d \in Settings
      BY <1>1, <1>3, <2>1
    <2> g[n + 1] \in Settings
      BY <2>1, <2>2, ApplyDefaultsIs
    <2>3. Has(g[n], i, o, Given(n, o, own))
      BY <1>3
    <2>4. /\ Given(n, o, own) \in SUBSET Nat
          /\ o \in DOMAIN d =>
               /\ Given(n + 1, o, own) = Given(n, o, own) \union {d[o].file}
               /\ d[o].file \in Nat \ {0}
               /\ d[o] = [file |-> d[o].file, section |-> "defaults", copied |-> FALSE]
               /\ \A x \in Given(n, o, own) : x < d[o].file
          /\ o \notin DOMAIN d => Given(n + 1, o, own) = Given(n, o, own)
      BY GivenIs
    <2> HIDE DEF d, T
    <2>5. CASE o \in DOMAIN d
      <3> DEFINE file == d[o].file
                 G == Given(n, o, own)
      <3>1. /\ G \in SUBSET Nat /\ file \in Nat \ {0} /\ \A x \in G : x < file
            /\ o \in DOMAIN d => d[o] = [file |-> file, section |-> "defaults", copied |-> FALSE]
            /\ Given(n + 1, o, own) = G \union {file}
        BY <2>4, <2>5
      <3>2. Has(g[n], i, o, G)
        BY <2>3
      <3> HIDE DEF file, G
      <3>3. Has(ApplyDefaults(g[n], d), i, o, IF o \in DOMAIN d THEN G \union {file} ELSE G)
        BY <2>2, <3>1, <3>2, DefaultsComeAfter
      <3>4. Has(g[n + 1], i, o, Given(n + 1, o, own))
        BY <2>1, <2>5, <3>1, <3>3
      <3>5. QED
        BY <2>1, <3>4 DEF T
    <2>6. CASE o \notin DOMAIN d
      <3> DEFINE G == Given(n, o, own) \intersect Nat
      <3>1. G = Given(n, o, own) /\ Given(n + 1, o, own) = G /\ G \in SUBSET Nat
        BY <2>4, <2>6
      <3> HIDE DEF G
      <3>2. /\ DOMAIN ApplyDefaults(g[n], d) = DOMAIN d \union DOMAIN g[n]
            /\ \A p \in DOMAIN g[n] : p \notin DOMAIN d => ApplyDefaults(g[n], d)[p] = g[n][p]
        <4>1. IsMerged(ApplyDefaults(g[n], d), d, g[n])
          BY <2>2, ApplyDefaultsIs
        <4>2. QED
          BY <4>1 DEF IsMerged
      <3>3. o \in DOMAIN g[n] => ApplyDefaults(g[n], d)[o] = g[n][o]
        BY <2>6, <3>2
      <3>4. Has(g[n + 1], i, o, Given(n + 1, o, own))
        BY <2>1, <2>3, <2>6, <3>1, <3>2, <3>3 DEF Has
      <3>5. QED
        BY <2>1, <3>4 DEF T
    <2>7. QED
      BY <2>5, <2>6
  <1>4. N \in T
    <2> HIDE DEF T, N
    <2>1. 0 .. N \subseteq T
      BY <1>1, <1>2, <1>3, IntervalInduct
    <2>2. QED
      BY <1>1, <2>1
  <1>5. QED
    BY <1>4

-----------------------------------------------------------------------------
\* What a file gives its servers, while it is read.
LEMMA LoopOfDefaultsIs ==
  ASSUME GlobalsOK, NEW i, NEW f, NEW t \in Settings
  PROVE  \E g : /\ IsDefaultsLoop(g, Len(global_defaults), t)
                /\ WithDefaults(i, f, t) =
                     ApplyDefaults(g[Len(global_defaults)], At(i, "defaults", f.defaults))
  <1> DEFINE N == Len(global_defaults)
             own == At(i, "defaults", f.defaults)
  <1>1. \E g : IsDefaultsLoop(g, N, t)
    BY DefaultsLoopExists
  <1>2. WithDefaults(i, f, t) = ApplyDefaults((CHOOSE g : IsDefaultsLoop(g, N, t))[N], own)
    BY DEF WithDefaults, IsDefaultsLoop
  <1> HIDE DEF N, own
  <1>3. QED
    BY <1>1, <1>2 DEF N, own

LEMMA GivenBefore ==
  ASSUME GlobalsOK, files \in Seq(Files), NEW o \in Options, NEW own \in SUBSET Options,
         NEW x \in Given(Len(global_defaults), o, own)
  PROVE  x \in 0 .. Len(files)
  <1>1. /\ Len(global_defaults) \in Nat
        /\ DOMAIN global_defaults = 1 .. Len(global_defaults)
    BY DEF GlobalsOK
  <1>2. \A k \in DOMAIN global_defaults : o \in DOMAIN global_defaults[k] =>
          global_defaults[k][o].file \in 1 .. Len(files)
    BY DEF GlobalsOK
  <1>3. CASE o \in own /\ x = 0
    <2>1. Len(files) \in Nat
      OBVIOUS
    <2>2. QED
      BY <1>3, <2>1
  <1>4. CASE x \in {global_defaults[m][o].file :
                      m \in {k \in 1 .. Len(global_defaults) : o \in DOMAIN global_defaults[k]}}
    <2>1. x \in 1 .. Len(files)
      BY <1>1, <1>2, <1>4
    <2>2. QED
      BY <2>1
  <1>5. QED
    BY <1>3, <1>4 DEF Given

\* Who gives the option to a server of the file that is read next.
NewSources(f, s, o) ==
  Given(Len(global_defaults), o, f.servers[s]) \union
    (IF o \in f.defaults THEN {Len(files) + 1} ELSE {})

\* What is known of the settings t that file i gives one of its servers.
ServerOK(t, i) == t \in FullSettings /\ Meta \in DOMAIN t /\ t[Meta].file = i

LEMMA ContentsIs ==
  ASSUME NEW f \in Files
  PROVE  /\ f.defaults \in SUBSET Options
         /\ f.servers \in Partial(Names, SUBSET Options) \union {Missing, Null}
         /\ IsDict(f.servers) => DOMAIN f.servers \subseteq Names
                                 /\ \A s \in DOMAIN f.servers : f.servers[s] \in SUBSET Options
  <1>1. f.defaults \in SUBSET Options
    BY DEF Files
  <1>2. f.servers \in Partial(Names, SUBSET Options) \union {Missing, Null}
    BY DEF Files
  <1> DEFINE servers1 == f.servers
  <1>3. IsDict(f.servers) => servers1 \in Partial(Names, SUBSET Options)
    BY <1>2 DEF IsDict
  <1>4. IsDict(f.servers) => servers1 \in [DOMAIN servers1 -> SUBSET Options] /\ DOMAIN servers1 \subseteq Names
    BY <1>3, PartialIs
  <1>5. QED
    BY <1>1, <1>2, <1>4

LEMMA MetaComesAfter ==
  ASSUME NEW t \in Settings, NEW i \in 1 .. MaxFiles
  PROVE  /\ ServerOK(WithMeta(i, t), i)
         /\ \A o \in Options : /\ o \in DOMAIN WithMeta(i, t) <=> o \in DOMAIN t
                               /\ o \in DOMAIN t => WithMeta(i, t)[o] = t[o]
  <1> DEFINE m == At(i, "servers", {Meta})
             u == WithMeta(i, t)
             All == Options \union {Meta}
  <1>1. /\ m \in Partial(All, Places)
        /\ DOMAIN m = {Meta}
        /\ m[Meta] = [file |-> i, section |-> "servers", copied |-> FALSE]
    BY AtIs
  <1>2. t \in Partial(All, Places) /\ DOMAIN t \subseteq Options
    <2>1. t \in [DOMAIN t -> Places] /\ DOMAIN t \subseteq Options
      BY PartialIs DEF Settings
    <2>2. QED
      BY <2>1, PartialIs
  <1>3. u \in Partial(All, Places) /\ IsMerged(u, t, m)
    <2> HIDE DEF m
    <2>1. Override(t, m) \in Partial(All, Places) /\ IsMerged(Override(t, m), t, m)
      BY <1>1, <1>2, OverrideIs
    <2>2. QED
      BY <2>1 DEF WithMeta, m
  <1>4. Meta \notin Options
    BY MetaIsNone
  <1> HIDE DEF m, u
  <1>5. Meta \in DOMAIN u /\ u[Meta] = m[Meta]
    BY <1>1, <1>2, <1>3, <1>4 DEF IsMerged
  <1>6. \A o \in Options : (o \in DOMAIN u <=> o \in DOMAIN t) /\ (o \in DOMAIN t => u[o] = t[o])
    BY <1>1, <1>3, <1>4 DEF IsMerged
  <1>7. QED
    BY <1>1, <1>3, <1>5, <1>6 DEF u, ServerOK, FullSettings

LEMMA NewServer ==
  ASSUME GlobalsOK, files \in Seq(Files), Len(files) < MaxFiles,
         NEW f \in Files, IsDict(f.servers), NEW s \in DOMAIN f.servers
  PROVE  LET i == Len(files) + 1
             t == ServersOf(i, f)[s]
         IN  /\ ServerOK(t, i)
             /\ \A o \in Options : Has(t, i, o, NewSources(f, s, o))
  <1> DEFINE i == Len(files) + 1
             N == Len(global_defaults)
             own == f.servers[s]
             base == At(i, "servers", own)
             d == At(i, "defaults", f.defaults)
             t == ServersOf(i, f)[s]
  <1>1. Len(files) \in Nat /\ MaxFiles \in Nat /\ i \in 1 .. MaxFiles /\ i \in Nat \ {0}
    BY ConfigAssumption
  <1>2. own \in SUBSET Options /\ f.defaults \in SUBSET Options
    BY ContentsIs
  <1> HIDE DEF own, i
  <1>3. base \in Settings
    BY <1>1, <1>2, AtIs DEF Settings
  <1>4. /\ d \in Settings
        /\ DOMAIN d = f.defaults
        /\ \A o \in f.defaults : d[o] = [file |-> i, section |-> "defaults", copied |-> FALSE]
    BY <1>1, <1>2, AtIs DEF Settings
  <1>5. PICK g : IsDefaultsLoop(g, N, base) /\ WithDefaults(i, f, base) = ApplyDefaults(g[N], d)
    BY <1>3, LoopOfDefaultsIs
  <1>6. t = WithMeta(i, WithDefaults(i, f, base))
    BY DEF ServersOf, own
  <1>7. \A o \in Options : g[N] \in Settings /\ Has(g[N], i, o, Given(N, o, own))
    BY <1>1, <1>2, <1>5, DefaultsLoopHas
  <1>8. g[N] \in Settings
    BY <1>7, ConfigAssumption
  <1> HIDE DEF base, d, N, t
  <1> DEFINE v == ApplyDefaults(g[N], d)
  <1>9. v \in Settings
    BY <1>4, <1>8, ApplyDefaultsIs
  <1>10. ASSUME NEW o \in Options
         PROVE  Has(v, i, o, NewSources(f, s, o))
    <2> DEFINE G == Given(N, o, own)
    <2>1. \A x \in G : x \in Nat /\ x < i
      <3>1. \A x \in G : x \in 0 .. Len(files)
        BY <1>2, GivenBefore DEF N
      <3>2. QED
        BY <1>1, <3>1 DEF i
    <2>2. Has(g[N], i, o, G)
      BY <1>7
    <2>3. NewSources(f, s, o) = G \union (IF o \in DOMAIN d THEN {i} ELSE {})
      BY <1>4 DEF NewSources, N, own, i
    <2> HIDE DEF G
    <2>4. G \in SUBSET Nat /\ o \in DOMAIN d => d[o] = [file |-> i, section |-> "defaults", copied |-> FALSE]
      BY <1>4, <2>1
    <2>5. G \in SUBSET Nat
      BY <2>1
    <2>6. Has(v, i, o, IF o \in DOMAIN d THEN G \union {i} ELSE G)
      BY <1>1, <1>4, <1>8, <2>1, <2>2, <2>4, <2>5, DefaultsComeAfter
    <2>7. NewSources(f, s, o) = IF o \in DOMAIN d THEN G \union {i} ELSE G
      BY <2>3
    <2>8. QED
      BY <2>6, <2>7
  <1> HIDE DEF v
  <1>11. t = WithMeta(i, v)
    BY <1>5, <1>6 DEF v
  <1>12. /\ ServerOK(t, i)
         /\ \A o \in Options : (o \in DOMAIN t <=> o \in DOMAIN v) /\ (o \in DOMAIN v => t[o] = v[o])
    BY <1>1, <1>9, <1>11, MetaComesAfter
  <1>13. ASSUME NEW o \in Options
         PROVE  Has(t, i, o, NewSources(f, s, o))
    <2> DEFINE G == NewSources(f, s, o)
    <2>1. Has(v, i, o, G)
      BY <1>10
    <2> HIDE DEF G
    <2>2. Has(t, i, o, G)
      BY <1>12, <2>1 DEF Has
    <2>3. QED
      BY <2>2 DEF G
  <1>14. QED
    BY <1>12, <1>13 DEF t, i

-----------------------------------------------------------------------------
\* What the files read so far have given their servers.
ServersOfFiles == Partial(Names, FullSettings) \union {Missing, Null}

FileOK(i) ==
  IF IsDict(files[i].servers)
  THEN /\ IsDict(configs[i])
       /\ DOMAIN configs[i] = DOMAIN files[i].servers
       /\ \A s \in DOMAIN configs[i] :
            ServerOK(configs[i][s], i) /\ \A o \in Options : Has(configs[i][s], i, o, Sources(i, s, o))
  ELSE configs[i] = files[i].servers

ReadInv ==
  /\ phase \in {"reading", "merged", "raised"}
  /\ files \in Seq(Files) /\ Len(files) <= MaxFiles
  /\ configs \in Seq(ServersOfFiles) /\ Len(configs) <= Len(files)
  /\ global_defaults \in Seq(Settings)
  /\ ebpf_configured \in BOOLEAN
  /\ \A i \in 1 .. Len(configs) : FileOK(i)
  /\ phase = "reading" => GlobalsOK
  /\ phase # "raised" => Len(configs) = Len(files)
  /\ phase # "merged" => servers = Empty /\ confdirs = Empty /\ formatted = Empty

LEMMA AppendIs ==
  ASSUME NEW S, NEW t \in Seq(S), NEW x \in S
  PROVE  /\ Append(t, x) \in Seq(S)
         /\ Len(Append(t, x)) = Len(t) + 1
         /\ DOMAIN Append(t, x) = 1 .. Len(t) + 1
         /\ \A k \in 1 .. Len(t) : Append(t, x)[k] = t[k]
         /\ Append(t, x)[Len(t) + 1] = x
  OBVIOUS

LEMMA SourcesStay ==
  ASSUME files \in Seq(Files), NEW f \in Files, files' = Append(files, f),
         NEW i \in 1 .. Len(files), NEW s, NEW o
  PROVE  Sources(i, s, o)' = Sources(i, s, o)
  <1>1. \A k \in 1 .. Len(files) : files'[k] = files[k]
    BY AppendIs
  <1>2. \A g \in 0 .. i : g = 0 \/ g \in 1 .. Len(files)
    OBVIOUS
  <1>3. \A g \in 0 .. i : Gives(i, g, s, o)' <=> Gives(i, g, s, o)
    BY <1>1, <1>2 DEF Gives
  <1>4. QED
    BY <1>3 DEF Sources

LEMMA SourcesOfNew ==
  ASSUME GlobalsOK, files \in Seq(Files), NEW f \in Files, files' = Append(files, f),
         NEW s, NEW o \in Options, NEW i \in Nat, i = Len(files) + 1
  PROVE  Sources(i, s, o)' = NewSources(f, s, o)
  <1> DEFINE N == Len(global_defaults)
             late == {global_defaults[m][o].file : m \in {k \in 1 .. N : o \in DOMAIN global_defaults[k]}}
  <1>1. /\ \A k \in 1 .. Len(files) : files'[k] = files[k]
        /\ files'[i] = f /\ Len(files) \in Nat /\ i \in Nat
    BY AppendIs
  <1>2. Sources(i, s, o)' = {g \in 0 .. i : Gives(i, g, s, o)'}
    BY DEF Sources
  <1>3. \A g \in 1 .. Len(files) : g \in late <=> (o \in files[g].defaults /\ files[g].global)
    <2>1. DOMAIN global_defaults = 1 .. N
      BY DEF GlobalsOK
    <2>2. \A k \in DOMAIN global_defaults : o \in DOMAIN global_defaults[k] =>
            LET g == global_defaults[k][o].file IN files[g].global /\ o \in files[g].defaults
      BY DEF GlobalsOK
    <2>3. \A g \in 1 .. Len(files) : o \in files[g].defaults /\ files[g].global =>
            \E k \in DOMAIN global_defaults : o \in DOMAIN global_defaults[k] /\ global_defaults[k][o].file = g
      BY DEF GlobalsOK
    <2>4. QED
      BY <2>1, <2>2, <2>3
  <1>4. late \subseteq 1 .. Len(files)
    BY DEF GlobalsOK
  <1>5. NewSources(f, s, o) = (IF o \in f.servers[s] THEN {0} ELSE {}) \union late
                                \union (IF o \in f.defaults THEN {i} ELSE {})
    BY DEF NewSources, Given
  <1> HIDE DEF late
  <1>6. ASSUME NEW g \in 0 .. i
        PROVE  Gives(i, g, s, o)' <=> g \in NewSources(f, s, o)
    <2>1. CASE g = 0
      <3>1. g \notin late /\ g # i
        BY <1>4, <2>1
      <3>2. QED
        BY <1>1, <1>5, <2>1, <3>1 DEF Gives
    <2>2. CASE g = i
      <3>1. g \notin late /\ g # 0 /\ ~(g < i)
        BY <1>1, <1>4, <2>2
      <3>2. QED
        BY <1>1, <1>5, <2>2, <3>1 DEF Gives
    <2>3. CASE g \in 1 .. Len(files)
      <3>1. g # 0 /\ g # i /\ g < i /\ files'[g] = files[g]
        BY <1>1, <2>3
      <3>2. QED
        BY <1>1, <1>3, <1>5, <2>3, <3>1 DEF Gives
    <2>4. QED
      BY <1>1, <2>1, <2>2, <2>3
  <1>7. NewSources(f, s, o) \subseteq 0 .. i
    <2>1. 0 \in 0 .. i /\ i \in 0 .. i /\ 1 .. Len(files) \subseteq 0 .. i
      BY <1>1
    <2>2. QED
      BY <1>4, <1>5, <2>1
  <1>8. QED
    BY <1>2, <1>6, <1>7

LEMMA NewServersType ==
  ASSUME GlobalsOK, files \in Seq(Files), Len(files) < MaxFiles, NEW f \in Files
  PROVE  LET i == Len(files) + 1
         IN  /\ ServersOf(i, f) \in ServersOfFiles
             /\ IsDict(f.servers) => /\ IsDict(ServersOf(i, f))
                                     /\ DOMAIN ServersOf(i, f) = DOMAIN f.servers
             /\ ~IsDict(f.servers) => ServersOf(i, f) = f.servers
  <1> DEFINE i == Len(files) + 1
             all == ServersOf(i, f)
  <1>1. CASE ~IsDict(f.servers)
    BY <1>1 DEF ServersOf, IsDict, ServersOfFiles
  <1>2. CASE IsDict(f.servers)
    <2>1. \A s \in DOMAIN f.servers : all[s] \in FullSettings
      BY <1>2, NewServer DEF ServerOK
    <2>2. all = [s \in DOMAIN f.servers |-> all[s]]
      <3> DEFINE g(s) == WithMeta(i, WithDefaults(i, f, At(i, "servers", f.servers[s])))
      <3>1. all = [s \in DOMAIN f.servers |-> g(s)]
        BY <1>2 DEF ServersOf
      <3> HIDE DEF g, all
      <3>2. QED
        BY <3>1
    <2>3. DOMAIN f.servers \subseteq Names
      BY <1>2, ContentsIs
    <2> HIDE DEF all
    <2>4. all \in [DOMAIN f.servers -> FullSettings]
      BY <2>1, <2>2
    <2>5. all \in Partial(Names, FullSettings) /\ DOMAIN all = DOMAIN f.servers
      BY <2>3, <2>4, PartialIs
    <2>6. IsDict(all)
      BY <2>5, ContentsAssumption DEF FullSettings, IsDict
    <2>7. QED
      BY <1>2, <2>5, <2>6 DEF all, ServersOfFiles
  <1>3. QED
    BY <1>1, <1>2

LEMMA GlobalsStay ==
  ASSUME GlobalsOK, files \in Seq(Files), Len(files) < MaxFiles, NEW f \in Files,
         files' = Append(files, f),
         global_defaults' = IF f.global
                            THEN Append(global_defaults, At(Len(files) + 1, "defaults", f.defaults))
                            ELSE global_defaults
  PROVE  GlobalsOK'
  <1> DEFINE i == Len(files) + 1
             N == Len(global_defaults)
             d == At(i, "defaults", f.defaults)
             M == IF f.global THEN N + 1 ELSE N
             entry(g) == [file |-> g, section |-> "defaults", copied |-> FALSE]
  <1>1. /\ Len(files) \in Nat /\ MaxFiles \in Nat /\ i \in 1 .. MaxFiles
        /\ Len(files') = i
        /\ \A k \in 1 .. Len(files) : files'[k] = files[k]
        /\ files'[i] = f
        /\ \A k \in 1 .. Len(files') : k = i \/ k \in 1 .. Len(files)
    BY AppendIs, ConfigAssumption
  <1>2. /\ d \in Settings
        /\ DOMAIN d = f.defaults
        /\ \A o \in DOMAIN d : d[o] = entry(i)
    <2>1. f.defaults \in SUBSET Options
      BY ContentsIs
    <2>2. i \in 1 .. MaxFiles
      BY <1>1
    <2> HIDE DEF i
    <2>3. /\ d \in Settings
          /\ DOMAIN d = f.defaults
          /\ \A o \in f.defaults : d[o] = [file |-> i, section |-> "defaults", copied |-> FALSE]
      BY <2>1, <2>2, AtIs DEF Settings
    <2>4. QED
      BY <2>3
  <1>3. /\ global_defaults \in Seq(Settings)
        /\ N \in Nat
        /\ DOMAIN global_defaults = 1 .. N
    BY DEF GlobalsOK
  <1>4. /\ global_defaults' \in Seq(Settings)
        /\ DOMAIN global_defaults' = 1 .. M
        /\ \A k \in 1 .. N : global_defaults'[k] = global_defaults[k]
        /\ f.global => global_defaults'[N + 1] = d
    <2>1. CASE f.global
      <3> HIDE DEF d
      <3>1. global_defaults' = Append(global_defaults, d)
        BY <2>1 DEF d
      <3>2. QED
        BY <1>2, <1>3, <2>1, <3>1, AppendIs
    <2>2. CASE ~f.global
      BY <1>3, <2>2
    <2>3. QED
      BY <2>1, <2>2
  <1>5. /\ 1 .. N \subseteq 1 .. M
        /\ \A k \in 1 .. M : k \in 1 .. N \/ (f.global /\ k = N + 1)
        /\ f.global => N + 1 \in 1 .. M
    BY <1>3
  <1>6. \A n \in 1 .. N : \A o \in DOMAIN global_defaults[n] :
          LET g == global_defaults[n][o].file IN
          /\ g \in 1 .. Len(files) /\ files[g].global /\ o \in files[g].defaults
          /\ global_defaults[n][o] = entry(g)
    BY <1>3 DEF GlobalsOK
  <1> HIDE DEF d, M, N, i
  <1>7. ASSUME NEW n \in DOMAIN global_defaults', NEW o \in DOMAIN global_defaults'[n]
        PROVE  LET g == global_defaults'[n][o].file IN
               /\ g \in 1 .. Len(files') /\ files'[g].global /\ o \in files'[g].defaults
               /\ global_defaults'[n][o] = entry(g)
    <2>1. CASE n \in 1 .. N
      <3> DEFINE g == global_defaults[n][o].file
      <3>1. g \in 1 .. Len(files) /\ files[g].global /\ o \in files[g].defaults
            /\ global_defaults[n][o] = entry(g) /\ global_defaults'[n][o] = global_defaults[n][o]
        BY <1>4, <1>6, <2>1
      <3>2. g \in 1 .. Len(files') /\ files'[g] = files[g]
        BY <1>1, <3>1 DEF i
      <3>3. QED
        BY <3>1, <3>2
    <2>2. CASE f.global /\ n = N + 1
      <3>1. global_defaults'[n][o] = entry(i) /\ o \in f.defaults
        BY <1>2, <1>4, <2>2
      <3>2. i \in 1 .. Len(files')
        BY <1>1 DEF i
      <3>3. global_defaults'[n][o].file = i
        BY <3>1
      <3> HIDE DEF entry
      <3>4. QED
        BY <1>1, <2>2, <3>1, <3>2, <3>3
    <2>3. QED
      BY <1>4, <1>5, <2>1, <2>2
  <1>8. ASSUME NEW n \in DOMAIN global_defaults', NEW m \in DOMAIN global_defaults', n < m,
               NEW o \in DOMAIN global_defaults'[n] \intersect DOMAIN global_defaults'[m]
        PROVE  global_defaults'[n][o].file < global_defaults'[m][o].file
    <2>1. n \in 1 .. N
      BY <1>3, <1>4, <1>5, <1>8
    <2>2. CASE m \in 1 .. N
      BY <1>3, <1>4, <1>8, <2>1, <2>2 DEF GlobalsOK
    <2>3. CASE f.global /\ m = N + 1
      <3>1. global_defaults'[m][o].file = i
        BY <1>2, <1>4, <2>3
      <3>2. global_defaults'[n][o].file \in 1 .. Len(files)
        BY <1>4, <1>6, <2>1
      <3>3. QED
        BY <1>1, <3>1, <3>2 DEF i
    <2>4. QED
      BY <1>4, <1>5, <2>2, <2>3
  <1>9. ASSUME NEW g \in 1 .. Len(files'), NEW o \in files'[g].defaults, files'[g].global
        PROVE  \E n \in DOMAIN global_defaults' :
                 o \in DOMAIN global_defaults'[n] /\ global_defaults'[n][o].file = g
    <2>1. CASE g \in 1 .. Len(files)
      <3>1. PICK n \in 1 .. N : o \in DOMAIN global_defaults[n] /\ global_defaults[n][o].file = g
        BY <1>1, <1>3, <1>9, <2>1 DEF GlobalsOK
      <3>2. QED
        BY <1>4, <1>5, <3>1
    <2>2. CASE g = i
      <3>1. f.global /\ o \in DOMAIN d
        BY <1>1, <1>2, <1>9, <2>2
      <3>2. N + 1 \in DOMAIN global_defaults' /\ global_defaults'[N + 1] = d /\ d[o] = entry(i)
        BY <1>2, <1>4, <1>5, <3>1
      <3>3. QED
        BY <2>2, <3>1, <3>2
    <2>3. QED
      BY <1>1, <2>1, <2>2
  <1>10. QED
    BY <1>4, <1>7, <1>8, <1>9 DEF GlobalsOK

LEMMA ReadFileKeeps ==
  ASSUME ReadInv, NEW f \in Files, ReadFile(f)
  PROVE  ReadInv'
  <1> DEFINE i == Len(files) + 1
             all == ServersOf(i, f)
  <1>1. /\ phase = "reading" /\ Len(files) < MaxFiles /\ files \in Seq(Files) /\ Len(files) <= MaxFiles
        /\ GlobalsOK /\ configs \in Seq(ServersOfFiles) /\ Len(configs) = Len(files)
        /\ Len(files) \in Nat /\ MaxFiles \in Nat
        /\ \A k \in 1 .. Len(configs) : FileOK(k)
    BY ConfigAssumption DEF ReadInv, ReadFile
  <1>2. /\ files' = Append(files, f) /\ configs' = Append(configs, all)
        /\ global_defaults' = IF f.global
                              THEN Append(global_defaults, At(i, "defaults", f.defaults))
                              ELSE global_defaults
        /\ ebpf_configured' = (ebpf_configured \/ f.ebpf)
        /\ phase' = phase /\ servers' = servers /\ confdirs' = confdirs /\ formatted' = formatted
    BY DEF ReadFile, parsing_vars
  <1>3. /\ all \in ServersOfFiles
        /\ IsDict(f.servers) => IsDict(all) /\ DOMAIN all = DOMAIN f.servers
        /\ ~IsDict(f.servers) => all = f.servers
    BY <1>1, NewServersType
  <1>4. GlobalsOK'
    BY <1>1, <1>2, GlobalsStay
  <1>5. /\ files' \in Seq(Files) /\ Len(files') = i /\ configs' \in Seq(ServersOfFiles) /\ Len(configs') = i
        /\ \A k \in 1 .. Len(files) : files'[k] = files[k] /\ configs'[k] = configs[k]
        /\ files'[i] = f /\ configs'[i] = all
    <2> HIDE DEF all
    <2>1. QED
      BY <1>1, <1>2, <1>3, AppendIs
  <1>6. ASSUME NEW k \in 1 .. Len(files)
        PROVE  FileOK(k)'
    <2>1. \A s, o : Sources(k, s, o)' = Sources(k, s, o)
      BY <1>1, <1>2, SourcesStay
    <2>2. FileOK(k) /\ files'[k] = files[k] /\ configs'[k] = configs[k]
      BY <1>1, <1>5
    <2>3. QED
      BY <2>1, <2>2 DEF FileOK
  <1>7. ASSUME NEW k \in Nat, k = i
        PROVE  FileOK(k)'
    <2>1. files'[k] = f /\ configs'[k] = all
      BY <1>5, <1>7
    <2>2. CASE ~IsDict(f.servers)
      BY <1>3, <2>1, <2>2 DEF FileOK
    <2>3. CASE IsDict(f.servers)
      <3>1. ASSUME NEW s \in DOMAIN f.servers
            PROVE  /\ ServerOK(all[s], k)
                   /\ \A o \in Options : Has(all[s], k, o, Sources(k, s, o)')
        <4>1. ServerOK(all[s], k) /\ \A o \in Options : Has(all[s], k, o, NewSources(f, s, o))
          BY <1>1, <1>7, <2>3, NewServer
        <4>2. \A o \in Options : Sources(k, s, o)' = NewSources(f, s, o)
          BY <1>1, <1>2, <1>7, SourcesOfNew
        <4> HIDE DEF all
        <4>3. QED
          BY <4>1, <4>2
      <3> HIDE DEF all
      <3>2. QED
        BY <1>3, <2>1, <2>3, <3>1 DEF FileOK
    <2>4. QED
      BY <2>2, <2>3
  <1>8. \A k \in 1 .. Len(configs') : FileOK(k)'
    <2>1. \A k \in 1 .. Len(configs') : k \in 1 .. Len(files) \/ (k \in Nat /\ k = i)
      BY <1>1, <1>5
    <2>2. QED
      BY <1>6, <1>7, <2>1
  <1>9. Len(files') <= MaxFiles /\ Len(configs') <= Len(files') /\ Len(configs') = Len(files')
    BY <1>1, <1>5
  <1>10. ebpf_configured' \in BOOLEAN
    BY <1>2 DEF ReadInv, Files
  <1>11. global_defaults' \in Seq(Settings)
    BY <1>4 DEF GlobalsOK
  <1>12. servers' = Empty /\ confdirs' = Empty /\ formatted' = Empty /\ phase' = "reading"
    BY <1>1, <1>2 DEF ReadInv
  <1>13. QED
    BY <1>4, <1>5, <1>8, <1>9, <1>10, <1>11, <1>12 DEF ReadInv

LEMMA ReadFailsKeeps ==
  ASSUME ReadInv, NEW f \in Files, ReadFails(f)
  PROVE  ReadInv'
  <1>1. /\ phase = "reading" /\ Len(files) < MaxFiles /\ files \in Seq(Files)
        /\ configs \in Seq(ServersOfFiles) /\ Len(configs) = Len(files)
        /\ Len(files) \in Nat /\ MaxFiles \in Nat
        /\ \A k \in 1 .. Len(configs) : FileOK(k)
    BY ConfigAssumption DEF ReadInv, ReadFails
  <1>2. /\ files' = Append(files, f) /\ configs' = configs /\ global_defaults' = global_defaults
        /\ ebpf_configured' = ebpf_configured /\ phase' = "raised"
        /\ servers' = servers /\ confdirs' = confdirs /\ formatted' = formatted
    BY DEF ReadFails, parsing_vars
  <1>3. /\ files' \in Seq(Files) /\ Len(files') = Len(files) + 1
        /\ \A k \in 1 .. Len(files) : files'[k] = files[k]
    BY <1>1, <1>2, AppendIs
  <1>4. ASSUME NEW k \in 1 .. Len(files)
        PROVE  FileOK(k)'
    <2>1. \A s, o : Sources(k, s, o)' = Sources(k, s, o)
      BY <1>1, <1>2, SourcesStay
    <2>2. FileOK(k) /\ files'[k] = files[k] /\ configs'[k] = configs[k]
      BY <1>1, <1>2, <1>3
    <2>3. QED
      BY <2>1, <2>2 DEF FileOK
  <1>5. QED
    BY <1>1, <1>2, <1>3, <1>4 DEF ReadInv

-----------------------------------------------------------------------------
\* Files known give option o to server s, the last of them wins: t has what it has
\* from the last, and a dictionary that is not a new one is from that one alone.
HasMerged(t, s, o, known) ==
  /\ o \in DOMAIN t <=> known # {}
  /\ known # {} =>
       /\ t[o].file = LET G == Sources(Max(known), s, o) IN IF Min(G) = 0 THEN Max(known) ELSE Min(G)
       /\ t[o].section = IF Min(Sources(Max(known), s, o)) = 0 THEN "servers" ELSE "defaults"
       /\ o = Entrypoint /\ ~t[o].copied =>
            known = {Max(known)} /\ Sources(Max(known), s, o) = {Min(Sources(Max(known), s, o))}

LEMMA OneFileIsMerged ==
  ASSUME NEW i \in Nat, NEW s, NEW o, NEW m, Has(m, i, o, Sources(i, s, o))
  PROVE  HasMerged(m, s, o, IF Sources(i, s, o) # {} THEN {i} ELSE {})
  <1> DEFINE G == Sources(i, s, o)
  <1>1. Max({i}) = i
    BY MaxIs
  <1>2. CASE G = {}
    <2>1. HasMerged(m, s, o, {})
      BY <1>2 DEF Has, HasMerged
    <2>2. QED
      BY <1>2, <2>1
  <1>3. CASE G # {}
    <2>1. HasMerged(m, s, o, {i})
      BY <1>1, <1>3 DEF Has, HasMerged
    <2>2. QED
      BY <1>3, <2>1
  <1>4. QED
    BY <1>2, <1>3

LEMMA NextFileIsMerged ==
  ASSUME NEW i \in Nat, NEW K \in SUBSET (0 .. i), i \notin K, NEW s, NEW o \in Options,
         NEW b, NEW m, NEW u, IsMerged(u, b, m),
         HasMerged(b, s, o, K), Has(m, i, o, Sources(i, s, o))
  PROVE  HasMerged(u, s, o, K \union (IF Sources(i, s, o) # {} THEN {i} ELSE {}))
  <1> DEFINE G == Sources(i, s, o)
  <1>1. CASE G = {}
    <2>1. o \notin DOMAIN m
      BY <1>1 DEF Has
    <2>2. (o \in DOMAIN u <=> o \in DOMAIN b) /\ (o \in DOMAIN b => u[o] = b[o])
      BY <2>1 DEF IsMerged
    <2>3. HasMerged(u, s, o, K)
      BY <2>2 DEF HasMerged
    <2>4. QED
      BY <1>1, <2>3
  <1>2. CASE G # {}
    <2> DEFINE L == K \union {i}
    <2>1. Max(L) = i /\ L # {}
      <3>1. \A k \in L : k <= i
        OBVIOUS
      <3>2. i \in L /\ L \in SUBSET (0 .. i)
        OBVIOUS
      <3> HIDE DEF L
      <3>3. QED
        BY <3>1, <3>2, MaxIs
    <2>2. /\ o \in DOMAIN m
          /\ m[o].file = IF Min(G) = 0 THEN i ELSE Min(G)
          /\ m[o].section = IF Min(G) = 0 THEN "servers" ELSE "defaults"
          /\ o = Entrypoint /\ ~m[o].copied => G = {Min(G)}
      BY <1>2 DEF Has
    <2>3. /\ o \in DOMAIN u
          /\ u[o].file = m[o].file
          /\ u[o].section = m[o].section
          /\ o = Entrypoint /\ o \in DOMAIN b => u[o].copied
          /\ o \notin DOMAIN b => u[o] = m[o]
      BY <2>2 DEF IsMerged
    <2>4. o \notin DOMAIN b => L = {i}
      BY DEF HasMerged
    <2> HIDE DEF L, G
    <2>5. o = Entrypoint /\ ~u[o].copied => L = {i} /\ G = {Min(G)}
      BY <2>2, <2>3, <2>4
    <2>6. HasMerged(u, s, o, L)
      BY <2>1, <2>2, <2>3, <2>5 DEF HasMerged, G
    <2>7. QED
      BY <1>2, <2>6 DEF L, G
  <1>3. QED
    BY <1>1, <1>2

\* The files among the first n that name s, after the last whose servers are null.
Named(n, s) ==
  {i \in 1 .. n : /\ IsDict(files[i].servers) /\ s \in DOMAIN files[i].servers
                  /\ \A k \in i .. n : files[k].servers # Null}

Known(n, s, o) == {i \in Named(n, s) : Sources(i, s, o) # {}}

MergedOK(whole_config, n) ==
  /\ whole_config \in ServersOfFiles
  /\ \A s : s \in DOMAIN ServersIn(whole_config) <=> Named(n, s) # {}
  /\ \A s \in DOMAIN ServersIn(whole_config) :
       /\ ServerOK(ServersIn(whole_config)[s], Max(Named(n, s)))
       /\ \A o \in Options : HasMerged(ServersIn(whole_config)[s], s, o, Known(n, s, o))

LEMMA NamedIs ==
  ASSUME ReadInv, NEW n \in Nat, n + 1 \in 1 .. Len(files), NEW s
  PROVE  LET f == files[n + 1] IN
         /\ Named(n, s) \in SUBSET (1 .. n)
         /\ f.servers = Null => Named(n + 1, s) = {}
         /\ f.servers = Missing => Named(n + 1, s) = Named(n, s)
         /\ IsDict(f.servers) =>
              Named(n + 1, s) = Named(n, s) \union (IF s \in DOMAIN f.servers THEN {n + 1} ELSE {})
  <1> DEFINE f == files[n + 1]
             Is(i) == IsDict(files[i].servers) /\ s \in DOMAIN files[i].servers
             NoNull(i, m) == \A k \in i .. m : files[k].servers # Null
  <1>1. \A i, m : i \in Named(m, s) <=> i \in 1 .. m /\ Is(i) /\ NoNull(i, m)
    BY DEF Named
  <1>2. \A i \in 1 .. n + 1 : NoNull(i, n + 1) <=> (i = n + 1 \/ NoNull(i, n)) /\ f.servers # Null
    <2>1. ASSUME NEW i \in 1 .. n + 1
          PROVE  /\ n + 1 \in i .. n + 1
                 /\ \A k : k \in i .. n => k \in i .. n + 1
                 /\ \A k \in i .. n + 1 : k = n + 1 \/ (i # n + 1 /\ k \in i .. n)
      OBVIOUS
    <2>2. QED
      BY <2>1
  <1>3. \A i : i \in 1 .. n + 1 <=> i \in 1 .. n \/ i = n + 1
    OBVIOUS
  <1>4. n + 1 \notin 1 .. n
    OBVIOUS
  <1> HIDE DEF NoNull
  <1>5. ASSUME f.servers = Null
        PROVE  Named(n + 1, s) = {}
    BY <1>1, <1>2, <1>5
  <1>6. ASSUME f.servers = Missing
        PROVE  Named(n + 1, s) = Named(n, s)
    <2>1. ~Is(n + 1) /\ f.servers # Null
      BY <1>6, ContentsAssumption DEF IsDict
    <2>2. \A i : i \in Named(n + 1, s) <=> i \in Named(n, s)
      BY <1>1, <1>2, <1>3, <1>4, <2>1
    <2>3. QED
      BY <2>2
  <1>7. ASSUME IsDict(f.servers)
        PROVE  Named(n + 1, s) = Named(n, s) \union (IF s \in DOMAIN f.servers THEN {n + 1} ELSE {})
    <2>1. f.servers # Null /\ f.servers # Missing
      BY <1>7 DEF IsDict
    <2>2. \A i : i \in Named(n + 1, s) <=> i \in Named(n, s) \/ (i = n + 1 /\ s \in DOMAIN f.servers)
      BY <1>1, <1>2, <1>3, <1>4, <1>7, <2>1
    <2>3. QED
      BY <2>2
  <1>8. Named(n, s) \in SUBSET (1 .. n)
    BY <1>1
  <1>9. QED
    BY <1>5, <1>6, <1>7, <1>8

LEMMA DictIs ==
  ASSUME NEW c \in ServersOfFiles
  PROVE  /\ IsDict(c) => /\ c \in [DOMAIN c -> FullSettings]
                         /\ DOMAIN c \subseteq Names
                         /\ ServersIn(c) = c
         /\ ~IsDict(c) => ServersIn(c) = Empty
  <1>1. IsDict(c) => c \in Partial(Names, FullSettings)
    BY DEF ServersOfFiles, IsDict
  <1>2. QED
    BY <1>1, PartialIs DEF ServersIn

LEMMA FunctionIsDict ==
  ASSUME NEW D \in SUBSET Names, NEW c \in [D -> FullSettings]
  PROVE  c \in ServersOfFiles /\ IsDict(c) /\ DOMAIN c = D
  <1>1. c \in Partial(Names, FullSettings) /\ DOMAIN c = D
    BY PartialIs
  <1>2. QED
    BY <1>1, ContentsAssumption DEF FullSettings, IsDict, ServersOfFiles

LEMMA MergeOfDicts ==
  ASSUME NEW w \in ServersOfFiles, NEW c \in ServersOfFiles, IsDict(c)
  PROVE  LET B == ServersIn(w)
             u == MergeServers(w, c)
         IN  /\ u \in ServersOfFiles /\ ServersIn(u) = u
             /\ DOMAIN u = DOMAIN B \union DOMAIN c
             /\ \A s \in DOMAIN B \ DOMAIN c : u[s] = B[s]
             /\ \A s \in DOMAIN c \ DOMAIN B : u[s] = c[s]
             /\ \A s \in DOMAIN B \intersect DOMAIN c :
                  u[s] \in FullSettings /\ IsMerged(u[s], B[s], c[s])
  <1> DEFINE u == MergeServers(w, c)
  <1>1. /\ c \in [DOMAIN c -> FullSettings] /\ DOMAIN c \subseteq Names
        /\ ServersIn(c) = c /\ c # Missing
    BY DictIs DEF IsDict
  <1>2. CASE ~IsDict(w)
    <2>1. ServersIn(w) = Empty /\ DOMAIN Empty = {}
      BY <1>2, DictIs, EmptyIs
    <2>2. u = c
      BY <1>1, <1>2 DEF MergeServers
    <2> HIDE DEF u
    <2>3. QED
      BY <1>1, <2>1, <2>2 DEF u
  <1>3. CASE IsDict(w)
    <2>1. w \in [DOMAIN w -> FullSettings] /\ DOMAIN w \subseteq Names /\ ServersIn(w) = w
      BY <1>3, DictIs
    <2> DEFINE D == DOMAIN w \union DOMAIN c
               both(s) == Override(w[s], c[s])
               v == [s \in D |-> IF s \notin DOMAIN c THEN w[s] ELSE IF s \notin DOMAIN w THEN c[s] ELSE both(s)]
    <2>2. u = v
      BY <1>1, <1>3 DEF MergeServers
    <2>3. \A s \in DOMAIN w \intersect DOMAIN c : both(s) \in FullSettings /\ IsMerged(both(s), w[s], c[s])
      <3>1. ASSUME NEW s \in DOMAIN w \intersect DOMAIN c
            PROVE  both(s) \in FullSettings /\ IsMerged(both(s), w[s], c[s])
        <4>1. w[s] \in FullSettings /\ c[s] \in FullSettings
          BY <1>1, <2>1
        <4>2. QED
          BY <4>1, OverrideIs DEF FullSettings
      <3>2. QED
        BY <3>1
    <2> HIDE DEF both, u
    <2>4. v \in [D -> FullSettings]
      BY <1>1, <2>1, <2>3
    <2>5. D \in SUBSET Names
      BY <1>1, <2>1
    <2>6. v \in ServersOfFiles /\ IsDict(v) /\ DOMAIN v = D
      <3> HIDE DEF v, D
      <3>1. QED
        BY <2>4, <2>5, FunctionIsDict
    <2>7. ServersIn(v) = v
      BY <2>6, DictIs
    <2>8. /\ \A s \in DOMAIN w \ DOMAIN c : v[s] = w[s]
          /\ \A s \in DOMAIN c \ DOMAIN w : v[s] = c[s]
          /\ \A s \in DOMAIN w \intersect DOMAIN c : v[s] = both(s)
      OBVIOUS
    <2> HIDE DEF v
    <2>9. QED
      BY <2>1, <2>2, <2>3, <2>6, <2>7, <2>8 DEF u
  <1>4. QED
    BY <1>2, <1>3

\* One turn of the loop for a server that the next file names.
LEMMA ServerIsMerged ==
  ASSUME ReadInv, NEW n \in Nat, n + 1 \in 1 .. Len(configs), IsDict(files[n + 1].servers),
         NEW s \in DOMAIN configs[n + 1], NEW w, MergedOK(w, n)
  PROVE  LET t == MergeServers(w, configs[n + 1])[s]
         IN  /\ ServerOK(t, Max(Named(n + 1, s)))
             /\ \A o \in Options : HasMerged(t, s, o, Known(n + 1, s, o))
  <1> DEFINE j == n + 1
             c == configs[j]
             B == ServersIn(w)
             u == MergeServers(w, c)
  <1>1. /\ j \in Nat /\ j \in 1 .. Len(files) /\ c \in ServersOfFiles /\ FileOK(j) /\ j \notin 1 .. n
        /\ IsDict(files[j].servers)
    BY DEF ReadInv
  <1>2. /\ IsDict(c) /\ DOMAIN c = DOMAIN files[j].servers
        /\ ServerOK(c[s], j) /\ \A o \in Options : Has(c[s], j, o, Sources(j, s, o))
    BY <1>1 DEF FileOK
  <1>3. /\ w \in ServersOfFiles
        /\ s \in DOMAIN B <=> Named(n, s) # {}
        /\ s \in DOMAIN B =>
             /\ ServerOK(B[s], Max(Named(n, s)))
             /\ \A o \in Options : HasMerged(B[s], s, o, Known(n, s, o))
    BY DEF MergedOK
  <1>4. Named(n, s) \in SUBSET (1 .. n) /\ Named(j, s) = Named(n, s) \union {j}
    BY <1>1, <1>2, NamedIs
  <1>5. Max(Named(j, s)) = j
    <2> DEFINE T == Named(n, s) \union {j}
    <2>1. \A k \in T : k <= j
      BY <1>4
    <2>2. j \in T /\ T \in SUBSET (0 .. j)
      BY <1>1, <1>4
    <2> HIDE DEF T, j
    <2>3. Max(T) = j
      BY <1>1, <2>1, <2>2, MaxIs
    <2>4. QED
      BY <1>4, <2>3 DEF T
  <1>6. ASSUME NEW o
        PROVE  Known(j, s, o) = Known(n, s, o) \union (IF Sources(j, s, o) # {} THEN {j} ELSE {})
    BY <1>4 DEF Known
  <1> s \in DOMAIN c
    OBVIOUS
  <1>7. /\ s \notin DOMAIN B => u[s] = c[s]
        /\ s \in DOMAIN B => u[s] \in FullSettings /\ IsMerged(u[s], B[s], c[s])
    <2>1. w \in ServersOfFiles /\ c \in ServersOfFiles /\ IsDict(c)
      BY <1>1, <1>2, <1>3
    <2> HIDE DEF c
    <2>2. /\ \A r \in DOMAIN c \ DOMAIN B : u[r] = c[r]
          /\ \A r \in DOMAIN B \intersect DOMAIN c :
               u[r] \in FullSettings /\ IsMerged(u[r], B[r], c[r])
      BY <2>1, MergeOfDicts
    <2> HIDE DEF u, B
    <2>3. QED
      BY <2>2
  <1> HIDE DEF u, c
  <1>8. CASE s \notin DOMAIN B
    <2>1. u[s] = c[s]
      BY <1>7, <1>8
    <2>2. \A o : Known(n, s, o) = {}
      BY <1>3, <1>8 DEF Known
    <2> HIDE DEF j
    <2>3. ASSUME NEW o \in Options
          PROVE  HasMerged(c[s], s, o, Known(j, s, o))
      <3>1. HasMerged(c[s], s, o, IF Sources(j, s, o) # {} THEN {j} ELSE {})
        BY <1>1, <1>2, OneFileIsMerged
      <3>2. Known(j, s, o) = IF Sources(j, s, o) # {} THEN {j} ELSE {}
        BY <1>6, <2>2
      <3>3. QED
        BY <3>1, <3>2
    <2>4. ServerOK(u[s], Max(Named(j, s))) /\ \A o \in Options : HasMerged(u[s], s, o, Known(j, s, o))
      BY <1>2, <1>5, <2>1, <2>3
    <2>5. QED
      BY <2>4 DEF u, c, j
  <1>9. CASE s \in DOMAIN B
    <2>1. u[s] \in FullSettings /\ IsMerged(u[s], B[s], c[s])
      BY <1>7, <1>9
    <2>2. ServerOK(u[s], j)
      <3> HIDE DEF B
      <3>1. Meta \in DOMAIN c[s] /\ c[s][Meta].file = j
        BY <1>2 DEF ServerOK
      <3>2. Meta \in DOMAIN u[s] /\ u[s][Meta].file = j
        BY <2>1, <3>1 DEF IsMerged
      <3>3. QED
        BY <2>1, <3>2 DEF ServerOK
    <2>3. ASSUME NEW o \in Options
          PROVE  HasMerged(u[s], s, o, Known(j, s, o))
      <3> DEFINE K == Known(n, s, o)
      <3>1. K \in SUBSET (0 .. j) /\ j \notin K
        BY <1>1, <1>4 DEF Known
      <3>2. HasMerged(B[s], s, o, K) /\ Has(c[s], j, o, Sources(j, s, o))
        BY <1>2, <1>3, <1>9
      <3>3. Known(j, s, o) = K \union (IF Sources(j, s, o) # {} THEN {j} ELSE {})
        BY <1>6
      <3> HIDE DEF B, j, K
      <3>4. HasMerged(u[s], s, o, K \union (IF Sources(j, s, o) # {} THEN {j} ELSE {}))
        BY <1>1, <2>1, <3>1, <3>2, NextFileIsMerged
      <3>5. QED
        BY <3>3, <3>4
    <2> HIDE DEF j
    <2>4. ServerOK(u[s], Max(Named(j, s))) /\ \A o \in Options : HasMerged(u[s], s, o, Known(j, s, o))
      BY <1>5, <2>2, <2>3
    <2>5. QED
      BY <2>4 DEF u, c, j
  <1>10. QED
    BY <1>8, <1>9 DEF u, c

LEMMA TurnKeepsMergedOK ==
  ASSUME ReadInv, NEW n \in Nat, n + 1 \in 1 .. Len(configs), NEW w, MergedOK(w, n)
  PROVE  MergedOK(MergeServers(w, configs[n + 1]), n + 1)
  <1> DEFINE j == n + 1
             f == files[j]
             c == configs[j]
             B == ServersIn(w)
             u == MergeServers(w, c)
  <1>1. j \in 1 .. Len(files) /\ c \in ServersOfFiles /\ FileOK(j) /\ j \notin 1 .. n
    BY DEF ReadInv
  <1>2. /\ w \in ServersOfFiles
        /\ \A s : s \in DOMAIN B <=> Named(n, s) # {}
        /\ \A s \in DOMAIN B : /\ ServerOK(B[s], Max(Named(n, s)))
                               /\ \A o \in Options : HasMerged(B[s], s, o, Known(n, s, o))
    BY DEF MergedOK
  <1>3. CASE f.servers = Missing
    <2>1. c = Missing /\ u = w
      BY <1>1, <1>3 DEF FileOK, IsDict, MergeServers
    <2>2. \A s : Named(j, s) = Named(n, s)
      BY <1>1, <1>3, NamedIs
    <2>3. \A s, o : Known(j, s, o) = Known(n, s, o)
      BY <2>2 DEF Known
    <2> HIDE DEF u, j, c, f, B
    <2>4. MergedOK(u, j)
      BY <1>2, <2>1, <2>2, <2>3 DEF MergedOK, B
    <2>5. QED
      BY <2>4 DEF u, j, c
  <1>4. CASE f.servers = Null
    <2>1. c = Null /\ u = Null
      BY <1>1, <1>4, ContentsAssumption DEF FileOK, IsDict, MergeServers
    <2>2. \A s : Named(j, s) = {}
      BY <1>1, <1>4, NamedIs
    <2>3. u \in ServersOfFiles /\ ServersIn(u) = Empty /\ DOMAIN Empty = {}
      BY <2>1, EmptyIs DEF ServersIn, IsDict, ServersOfFiles
    <2> HIDE DEF u, j, c, f, B
    <2>4. MergedOK(u, j)
      BY <2>2, <2>3 DEF MergedOK
    <2>5. QED
      BY <2>4 DEF u, j, c
  <1>5. CASE IsDict(f.servers)
    <2>1. IsDict(c) /\ DOMAIN c = DOMAIN f.servers
      BY <1>1, <1>5 DEF FileOK
    <2>2. /\ u \in ServersOfFiles /\ ServersIn(u) = u
          /\ DOMAIN u = DOMAIN B \union DOMAIN c
          /\ \A s \in DOMAIN B \ DOMAIN c : u[s] = B[s]
      BY <1>1, <1>2, <2>1, MergeOfDicts
    <2>3. \A s : Named(j, s) = Named(n, s) \union (IF s \in DOMAIN c THEN {j} ELSE {})
      BY <1>1, <1>5, <2>1, NamedIs
    <2>4. ASSUME NEW s \in DOMAIN c
          PROVE  /\ ServerOK(u[s], Max(Named(j, s)))
                 /\ \A o \in Options : HasMerged(u[s], s, o, Known(j, s, o))
      BY <1>5, ServerIsMerged
    <2> HIDE DEF u, j, c, f, B
    <2>5. ASSUME NEW s \in DOMAIN u, s \notin DOMAIN c
          PROVE  /\ ServerOK(u[s], Max(Named(j, s)))
                 /\ \A o \in Options : HasMerged(u[s], s, o, Known(j, s, o))
      <3>1. Named(j, s) = Named(n, s) /\ s \in DOMAIN B /\ u[s] = B[s]
        BY <2>2, <2>3, <2>5
      <3>2. \A o : Known(j, s, o) = Known(n, s, o)
        BY <3>1 DEF Known
      <3>3. QED
        BY <1>2, <3>1, <3>2
    <2>6. \A s : s \in DOMAIN u <=> Named(j, s) # {}
      BY <1>2, <2>2, <2>3
    <2>7. MergedOK(u, j)
      BY <2>2, <2>4, <2>5, <2>6 DEF MergedOK
    <2>8. QED
      BY <2>7 DEF u, j, c
  <1>6. f.servers = Null \/ f.servers = Missing \/ IsDict(f.servers)
    BY DEF IsDict
  <1>7. QED
    BY <1>3, <1>4, <1>5, <1>6

IsMergeLoop(g, n) ==
  g = [k \in 0 .. n |-> IF k = 0 THEN Missing ELSE MergeServers(g[k - 1], configs[k])]

LEMMA MergeLoopExists ==
  ASSUME ReadInv
  PROVE  \E g : IsMergeLoop(g, Len(configs))
  <1> DEFINE N == Len(configs)
             step == [k \in Nat |-> [w \in ServersOfFiles |->
                        IF k \in 1 .. N THEN MergeServers(w, configs[k]) ELSE w]]
  <1>1. N \in Nat /\ \A k \in 1 .. N : configs[k] \in ServersOfFiles
    BY DEF ReadInv
  <1> HIDE DEF N
  <1>2. ASSUME NEW w \in ServersOfFiles, NEW c \in ServersOfFiles
        PROVE  MergeServers(w, c) \in ServersOfFiles
    <2>1. CASE IsDict(c)
      BY <2>1, MergeOfDicts
    <2>2. CASE ~IsDict(c)
      BY <2>2 DEF MergeServers
    <2>3. QED
      BY <2>1, <2>2
  <1>3. step \in [Nat -> [ServersOfFiles -> ServersOfFiles]]
    BY <1>1, <1>2
  <1>4. \A k \in 1 .. N, w \in ServersOfFiles : step[k][w] = MergeServers(w, configs[k])
    BY <1>1
  <1>5. Missing \in ServersOfFiles
    BY DEF ServersOfFiles
  <1> HIDE DEF step
  <1>6. PICK g \in [0 .. N -> ServersOfFiles] :
          g[0] = Missing /\ \A k \in 1 .. N : g[k] = step[k][g[k - 1]]
    BY <1>1, <1>3, <1>5, RecursionExists
  <1>7. \A k \in 0 .. N : g[k] = IF k = 0 THEN Missing ELSE MergeServers(g[k - 1], configs[k])
    <2>1. \A k \in 1 .. N : k - 1 \in 0 .. N
      BY <1>1
    <2>2. QED
      BY <1>4, <1>6, <2>1
  <1>8. IsMergeLoop(g, N)
    BY <1>6, <1>7 DEF IsMergeLoop
  <1>9. QED
    BY <1>8 DEF N

LEMMA MergeIsMerged ==
  ASSUME ReadInv, Merge
  PROVE  \E w : MergedOK(w, Len(files)) /\ servers' = ServersIn(w)
  <1> DEFINE N == Len(configs)
  <1>1. /\ configs \in Seq(ServersOfFiles) /\ N \in Nat /\ Len(files) = N
    BY DEF ReadInv, Merge
  <1>2. servers' = ServersIn((CHOOSE g : IsMergeLoop(g, N))[N])
    BY DEF Merge, IsMergeLoop
  <1>3. \E g : IsMergeLoop(g, N)
    BY <1>1, MergeLoopExists
  <1> HIDE DEF N
  <1>4. PICK g : IsMergeLoop(g, N) /\ servers' = ServersIn(g[N])
    BY <1>2, <1>3
  <1> DEFINE T == {n \in 0 .. N : MergedOK(g[n], n)}
  <1>5. 0 \in T
    <2>1. 0 \in 0 .. N /\ g[0] = Missing
      BY <1>1, <1>4 DEF IsMergeLoop
    <2>2. Missing \in ServersOfFiles /\ ServersIn(Missing) = Empty /\ DOMAIN Empty = {}
      BY EmptyIs DEF ServersIn, IsDict, ServersOfFiles
    <2>3. \A s : Named(0, s) = {}
      BY DEF Named
    <2>4. MergedOK(Missing, 0)
      BY <2>2, <2>3 DEF MergedOK
    <2>5. QED
      BY <2>1, <2>4
  <1>6. ASSUME NEW n \in 0 .. N - 1, n \in T
        PROVE  n + 1 \in T
    <2>1. /\ n \in Nat /\ n + 1 \in 1 .. N /\ n + 1 \in 0 .. N /\ n \in 0 .. N
          /\ g[n + 1] = MergeServers(g[n], configs[n + 1])
      BY <1>1, <1>4 DEF IsMergeLoop
    <2>2. MergedOK(g[n], n)
      BY <1>6
    <2>3. MergedOK(MergeServers(g[n], configs[n + 1]), n + 1)
      BY <2>1, <2>2, TurnKeepsMergedOK DEF N
    <2>4. QED
      BY <2>1, <2>3
  <1>7. N \in T
    <2> HIDE DEF T
    <2>1. 0 .. N \subseteq T
      BY <1>1, <1>5, <1>6, IntervalInduct
    <2>2. QED
      BY <1>1, <2>1
  <1>8. QED
    BY <1>1, <1>4, <1>7

-----------------------------------------------------------------------------
\* What the merged servers are, once they are.
MergedInv ==
  phase = "merged" =>
    /\ servers \in ServersOfFiles /\ IsDict(servers)
    /\ MergedOK(servers, Len(files))

LEMMA MergedStays ==
  ASSUME files' = files, NEW n, NEW s, NEW o
  PROVE  /\ Named(n, s)' = Named(n, s)
         /\ Known(n, s, o)' = Known(n, s, o)
         /\ \A t, known : HasMerged(t, s, o, known)' <=> HasMerged(t, s, o, known)
  <1>1. \A i : Sources(i, s, o)' = Sources(i, s, o)
    BY DEF Sources, Gives
  <1>2. Named(n, s)' = Named(n, s)
    BY DEF Named
  <1>3. Known(n, s, o)' = Known(n, s, o)
    BY <1>1, <1>2 DEF Known
  <1>4. \A t, known : HasMerged(t, s, o, known)' <=> HasMerged(t, s, o, known)
    BY <1>1 DEF HasMerged
  <1>5. QED
    BY <1>2, <1>3, <1>4

LEMMA MergeMakesMergedInv ==
  ASSUME ReadInv, Merge
  PROVE  MergedInv'
  <1>1. PICK w : MergedOK(w, Len(files)) /\ servers' = ServersIn(w)
    BY MergeIsMerged
  <1>2. files' = files
    BY DEF Merge
  <1>3. servers' \in ServersOfFiles /\ IsDict(servers')
    <2>1. w \in ServersOfFiles
      BY <1>1 DEF MergedOK
    <2>2. CASE IsDict(w)
      BY <1>1, <2>1, <2>2 DEF ServersIn
    <2>3. CASE ~IsDict(w)
      <3>1. servers' = Empty
        BY <1>1, <2>3 DEF ServersIn
      <3>2. Empty \in [{} -> FullSettings]
        BY DEF Empty
      <3>3. QED
        BY <3>1, <3>2, FunctionIsDict
    <2>4. QED
      BY <2>2, <2>3
  <1>4. ServersIn(servers') = servers'
    BY <1>3, DictIs
  <1> DEFINE N == Len(files)
  <1>5. /\ \A s : s \in DOMAIN servers' <=> Named(N, s) # {}
        /\ \A s \in DOMAIN servers' :
             /\ ServerOK(servers'[s], Max(Named(N, s)))
             /\ \A o \in Options : HasMerged(servers'[s], s, o, Known(N, s, o))
    BY <1>1 DEF MergedOK
  <1>6. Len(files') = N
    BY <1>2
  <1>7. /\ \A n, s : Named(n, s)' = Named(n, s)
        /\ \A n, s, o : Known(n, s, o)' = Known(n, s, o)
        /\ \A s, o, t, known : HasMerged(t, s, o, known)' <=> HasMerged(t, s, o, known)
    BY <1>2, MergedStays
  <1> HIDE DEF N
  <1>8. QED
    BY <1>3, <1>4, <1>5, <1>6, <1>7 DEF MergedInv, MergedOK

\* Named and Sources are the reference of EffectiveValues.
LEMMA NamedIsNaming ==
  ASSUME files \in Seq(Files), NEW s
  PROVE  /\ NamingMerged(s) = Named(Len(files), s)
         /\ NamingMerged(s) # {} => Max(Naming(s)) = Max(NamingMerged(s))
  <1> DEFINE N == Len(files)
             nulls == {i \in 1 .. N : files[i].servers = Null}
             T == {0} \union nulls
             Is(i) == IsDict(files[i].servers) /\ s \in DOMAIN files[i].servers
  <1>1. N \in Nat /\ DOMAIN files = 1 .. N
    OBVIOUS
  <1>2. LastNull = Max(T)
    BY <1>1 DEF LastNull
  <1>3. \A i : Is(i) => files[i].servers # Null
    BY DEF IsDict
  <1>4. Naming(s) = {i \in 1 .. N : Is(i)}
    BY <1>1 DEF Naming
  <1>5. Named(N, s) = {i \in 1 .. N : Is(i) /\ \A k \in i .. N : k \notin nulls}
    <2>1. \A i \in 1 .. N : \A k \in i .. N : k \in 1 .. N
      BY <1>1
    <2>2. QED
      BY <2>1 DEF Named
  <1>6. nulls \subseteq 1 .. N /\ \A i : Is(i) => i \notin nulls
    BY <1>3
  <1> HIDE DEF nulls, Is, N
  <1>7. Max(T) \in T /\ \A m \in T : m <= Max(T)
    <2>1. T \in SUBSET (0 .. N) /\ T # {}
      BY <1>1, <1>6
    <2> HIDE DEF T
    <2>2. QED
      BY <1>1, <2>1, GreatestNumber
  <1> DEFINE last == Max(T)
  <1>8. last \in Nat /\ (last = 0 \/ last \in nulls) /\ \A m \in nulls : m <= last
    <2>1. last \in T /\ \A m \in T : m <= last
      BY <1>7
    <2> HIDE DEF last
    <2>2. last = 0 \/ last \in nulls
      BY <2>1
    <2>3. last = 0 \/ last \in 1 .. N
      BY <1>6, <2>2
    <2>4. last \in Nat
      BY <1>1, <2>3
    <2>5. QED
      BY <2>1, <2>2, <2>4
  <1>9. NamingMerged(s) = {i \in 1 .. N : Is(i) /\ i > last}
    BY <1>2, <1>4 DEF NamingMerged
  <1> HIDE DEF T, last
  <1>10. ASSUME NEW i \in 1 .. N, Is(i)
         PROVE  i > last <=> \A k \in i .. N : k \notin nulls
    <2>1. CASE i > last
      <3>1. ASSUME NEW k \in i .. N, k \in nulls
            PROVE  FALSE
        <4>1. k <= last /\ k >= i /\ k \in Int
          BY <1>1, <1>8, <3>1
        <4>2. QED
          BY <1>8, <2>1, <4>1
      <3>2. QED
        BY <2>1, <3>1
    <2>2. CASE ~(i > last)
      <3>1. last \in nulls /\ last \in 1 .. N
        BY <1>6, <1>8, <2>2
      <3>2. last \in i .. N
        BY <1>1, <1>8, <2>2, <3>1
      <3>3. QED
        BY <2>2, <3>1, <3>2
    <2>3. QED
      BY <2>1, <2>2
  <1>11. NamingMerged(s) = Named(N, s)
    BY <1>5, <1>9, <1>10
  <1>12. ASSUME NamingMerged(s) # {}
         PROVE  Max(Naming(s)) = Max(NamingMerged(s))
    <2> DEFINE M == NamingMerged(s)
               m == Max(M)
               A == Naming(s)
    <2>1. M \in SUBSET (0 .. N) /\ A \in SUBSET (0 .. N) /\ M \in SUBSET A
      BY <1>1, <1>4, <1>9
    <2>2. m \in M /\ \A k \in M : k <= m
      <3> HIDE DEF M
      <3>1. QED
        BY <1>1, <1>12, <2>1, GreatestNumber DEF M
    <2>3. m > last /\ m \in Nat
      BY <1>9, <2>1, <2>2
    <2>4. ASSUME NEW k \in A
          PROVE  k <= m
      <3>1. CASE k > last
        <4>1. k \in M
          BY <1>4, <1>9, <3>1
        <4>2. QED
          BY <2>2, <4>1
      <3>2. CASE ~(k > last)
        <4>1. k \in Nat
          BY <2>1
        <4> HIDE DEF m
        <4>2. QED
          BY <1>8, <2>3, <3>2, <4>1
      <3>3. QED
        BY <3>1, <3>2
    <2>5. m \in A
      BY <2>1, <2>2
    <2> HIDE DEF m, A
    <2>6. Max(A) = m
      BY <1>1, <2>1, <2>4, <2>5, MaxIs
    <2>7. QED
      BY <2>6 DEF m, A
  <1>13. QED
    BY <1>11, <1>12 DEF N

LEMMA SourceIs ==
  ASSUME NEW i \in Nat \ {0}, NEW s, NEW o
  PROVE  LET G == Sources(i, s, o)
         IN  /\ Source(i, s, o) # {} <=> G # {}
             /\ G # {} => <<IF Min(G) = 0 THEN i ELSE Min(G),
                            IF Min(G) = 0 THEN "servers" ELSE "defaults">> \in Source(i, s, o)
  <1> DEFINE G == Sources(i, s, o)
             globals == {g \in 1 .. i - 1 : files[g].global /\ o \in files[g].defaults}
             mine == o \in files[i].servers[s]
             defaulted == o \in files[i].defaults
  <1>1. /\ G \in SUBSET Nat
        /\ \A g : g \in G <=> \/ g = 0 /\ mine
                              \/ g \in globals
                              \/ g = i /\ defaulted
    <2>1. \A g \in 0 .. i : (g = 0 \/ g \in 1 .. i - 1 \/ g = i) /\ (g < i <=> g # i)
      OBVIOUS
    <2>2. 0 \in 0 .. i /\ i \in 0 .. i /\ i # 0 /\ 1 .. i - 1 \subseteq 0 .. i
          /\ 0 \notin 1 .. i - 1 /\ i \notin 1 .. i - 1
      OBVIOUS
    <2>3. G = {g \in 0 .. i : IF g = 0 THEN mine ELSE o \in files[g].defaults /\ (g < i => files[g].global)}
      BY DEF Sources, Gives
    <2>4. G \in SUBSET Nat
      BY <2>3
    <2> HIDE DEF G
    <2>5. QED
      BY <2>1, <2>2, <2>3, <2>4
  <1>2. Source(i, s, o) = IF mine THEN {<<i, "servers">>}
                          ELSE IF globals # {} THEN {<<Min(globals), "defaults">>}
                          ELSE IF defaulted THEN {<<i, "defaults">>} ELSE {}
    BY DEF Source
  <1>3. globals \subseteq 1 .. i - 1 /\ globals \in SUBSET Nat
    OBVIOUS
  <1> HIDE DEF G, globals, mine, defaulted
  <1>4. CASE mine
    <2>1. 0 \in G /\ \A g \in G : 0 <= g
      BY <1>1, <1>4
    <2>2. Min(G) = 0
      BY <1>1, <2>1, MinIs
    <2>3. QED
      BY <1>2, <1>4, <2>1, <2>2 DEF G
  <1>5. CASE ~mine /\ globals # {}
    <2> DEFINE least == Min(globals)
    <2>1. least \in globals /\ \A g \in globals : least <= g
      BY <1>3, <1>5, LeastNumberIsMin
    <2> HIDE DEF least
    <2>2. least \in 1 .. i - 1
      BY <1>3, <2>1
    <2>3. least \in G /\ \A g \in G : least <= g
      BY <1>1, <1>5, <2>1, <2>2
    <2>4. Min(G) = least
      BY <1>1, <2>3, MinIs
    <2>5. least # 0
      BY <2>2
    <2>6. QED
      BY <1>2, <1>5, <2>3, <2>4, <2>5 DEF least, G
  <1>6. CASE ~mine /\ globals = {} /\ defaulted
    <2>1. G = {i}
      BY <1>1, <1>6
    <2>2. Min(G) = i
      BY <1>1, <2>1, MinIs
    <2>3. QED
      BY <1>2, <1>6, <2>1, <2>2 DEF G
  <1>7. CASE ~mine /\ globals = {} /\ ~defaulted
    <2>1. G = {}
      BY <1>1, <1>7
    <2>2. QED
      BY <1>2, <1>7, <2>1 DEF G
  <1>8. QED
    BY <1>4, <1>5, <1>6, <1>7

LEMMA MergedIsEffective ==
  ASSUME ReadInv, MergedInv
  PROVE  EffectiveValues
  <1> SUFFICES ASSUME phase = "merged"
               PROVE  /\ DOMAIN servers = {s \in Names : NamingMerged(s) # {}}
                      /\ \A s \in DOMAIN servers :
                           /\ servers[s][Meta].file = Max(Naming(s))
                           /\ \A o \in Options :
                                LET known == {i \in NamingMerged(s) : Source(i, s, o) # {}} IN
                                IF known = {} THEN o \notin DOMAIN servers[s]
                                ELSE /\ o \in DOMAIN servers[s]
                                     /\ <<servers[s][o].file, servers[s][o].section>> \in Source(Max(known), s, o)
    BY DEF EffectiveValues
  <1> DEFINE N == Len(files)
  <1>1. files \in Seq(Files) /\ N \in Nat
    BY DEF ReadInv
  <1>2. /\ DOMAIN servers \subseteq Names
        /\ \A s : s \in DOMAIN servers <=> Named(N, s) # {}
        /\ \A s \in DOMAIN servers :
             /\ ServerOK(servers[s], Max(Named(N, s)))
             /\ \A o \in Options : HasMerged(servers[s], s, o, Known(N, s, o))
    <2>1. servers \in ServersOfFiles /\ IsDict(servers) /\ MergedOK(servers, N)
      BY DEF MergedInv
    <2>2. ServersIn(servers) = servers /\ DOMAIN servers \subseteq Names
      BY <2>1, DictIs
    <2>3. QED
      BY <2>1, <2>2 DEF MergedOK
  <1>3. ASSUME NEW s
        PROVE  /\ NamingMerged(s) = Named(N, s) /\ NamingMerged(s) \in SUBSET (1 .. N)
               /\ NamingMerged(s) # {} => Max(Naming(s)) = Max(NamingMerged(s))
    BY <1>1, NamedIsNaming DEF Named
  <1> HIDE DEF N
  <1>4. DOMAIN servers = {s \in Names : NamingMerged(s) # {}}
    BY <1>2, <1>3
  <1>5. ASSUME NEW s \in DOMAIN servers
        PROVE  servers[s][Meta].file = Max(Naming(s))
    BY <1>2, <1>3 DEF ServerOK
  <1>6. ASSUME NEW s \in DOMAIN servers, NEW o \in Options
        PROVE  LET known == {i \in NamingMerged(s) : Source(i, s, o) # {}} IN
               IF known = {} THEN o \notin DOMAIN servers[s]
               ELSE /\ o \in DOMAIN servers[s]
                    /\ <<servers[s][o].file, servers[s][o].section>> \in Source(Max(known), s, o)
    <2> DEFINE known == {i \in NamingMerged(s) : Source(i, s, o) # {}}
               t == servers[s]
               i == Max(known)
               G == Sources(i, s, o)
    <2>1. \A k \in NamingMerged(s) : Source(k, s, o) # {} <=> Sources(k, s, o) # {}
      <3>1. \A k \in NamingMerged(s) : k \in Nat \ {0}
        BY <1>1, <1>3
      <3>2. QED
        BY <3>1, SourceIs
    <2>2. known = Known(N, s, o)
      BY <1>3, <2>1 DEF Known
    <2>3. HasMerged(t, s, o, known)
      BY <1>2, <2>2
    <2>4. known \in SUBSET (0 .. N)
      BY <1>1, <1>3
    <2>5. CASE known = {}
      BY <2>3, <2>5 DEF HasMerged
    <2>6. CASE known # {}
      <3>1. i \in known
        <4> HIDE DEF known
        <4>1. QED
          BY <1>1, <2>4, <2>6, GreatestNumber
      <3>2. i \in Nat \ {0} /\ G # {}
        <4> HIDE DEF i
        <4>1. i \in NamingMerged(s) /\ Source(i, s, o) # {}
          BY <3>1
        <4> HIDE DEF known
        <4>2. i \in 1 .. N /\ Sources(i, s, o) # {}
          BY <1>3, <2>1, <4>1
        <4>3. QED
          BY <1>1, <4>2
      <3> HIDE DEF i
      <3>3. <<IF Min(G) = 0 THEN i ELSE Min(G), IF Min(G) = 0 THEN "servers" ELSE "defaults">> \in Source(i, s, o)
        BY <3>2, SourceIs
      <3> HIDE DEF known, t, G
      <3>4. /\ o \in DOMAIN t
            /\ t[o].file = IF Min(G) = 0 THEN i ELSE Min(G)
            /\ t[o].section = IF Min(G) = 0 THEN "servers" ELSE "defaults"
        BY <2>3, <2>6 DEF HasMerged, G, i
      <3>5. o \in DOMAIN t /\ <<t[o].file, t[o].section>> \in Source(Max(known), s, o)
        BY <3>3, <3>4 DEF i
      <3>6. QED
        BY <2>6, <3>5 DEF known, t
    <2>7. QED
      BY <2>5, <2>6
  <1>7. QED
    BY <1>4, <1>5, <1>6

-----------------------------------------------------------------------------
\* A server has got the directory of its own file, or that of another server
\* that has the very same entrypoint from the defaults.
Shares(s, v) ==
  /\ s \in DOMAIN confdirs /\ Entrypoint \in DOMAIN servers[s]
  /\ servers[s][Entrypoint] = v /\ IsShared(v)

ParseInv ==
  /\ DOMAIN confdirs \subseteq DOMAIN servers
  /\ \A v \in DOMAIN formatted : \E t : Shares(t, v) /\ formatted[v] = servers[t][Meta].file
  /\ \A s \in DOMAIN confdirs :
       confdirs[s] # servers[s][Meta].file =>
         \E t, v : t # s /\ Shares(s, v) /\ Shares(t, v) /\ confdirs[s] = servers[t][Meta].file

LEMMA ParseServerKeeps ==
  ASSUME ParseInv, NEW s, ParseServer(s)
  PROVE  ParseInv'
  <1>0. PICK value : value = servers[s][Entrypoint]
    OBVIOUS
  <1> DEFINE settings == servers[s]
             own == settings[Meta].file
             dir == IF value \in DOMAIN formatted THEN formatted[value] ELSE own
  <1>1. servers' = servers /\ s \in DOMAIN servers /\ s \notin DOMAIN confdirs
    BY DEF ParseServer, MayBeParsed
  <1>2. \A t, v : Shares(t, v) => Shares(t, v)' /\ t # s
    <2>1. DOMAIN confdirs \subseteq DOMAIN confdirs'
      <3>1. CASE Entrypoint \in DOMAIN settings
        BY <3>1 DEF ParseServer, With
      <3>2. CASE Entrypoint \notin DOMAIN settings
        BY <3>2 DEF ParseServer, With
      <3>3. QED
        BY <3>1, <3>2
    <2>2. QED
      BY <1>1, <2>1 DEF Shares
  <1>3. CASE Entrypoint \notin DOMAIN settings
    <2>1. confdirs' = With(confdirs, s, own) /\ formatted' = formatted
      BY <1>3 DEF ParseServer
    <2> HIDE DEF own
    <2>2. /\ DOMAIN confdirs' = DOMAIN confdirs \union {s}
          /\ \A t \in DOMAIN confdirs : confdirs'[t] = confdirs[t]
          /\ confdirs'[s] = own
      BY <1>1, <2>1 DEF With
    <2>3. \A v \in DOMAIN formatted : \E t : Shares(t, v)' /\ formatted[v] = servers[t][Meta].file
      BY <1>2 DEF ParseInv
    <2>4. \A t \in DOMAIN confdirs :
            confdirs[t] # servers[t][Meta].file =>
              \E r, v : r # t /\ Shares(t, v)' /\ Shares(r, v)' /\ confdirs[t] = servers[r][Meta].file
      BY <1>2 DEF ParseInv
    <2>5. QED
      BY <1>1, <2>1, <2>2, <2>3, <2>4 DEF ParseInv, own
  <1>4. CASE Entrypoint \in DOMAIN settings
    <2>1. /\ confdirs' = With(confdirs, s, dir)
          /\ formatted' = IF IsShared(value) THEN With(formatted, value, dir) ELSE formatted
      BY <1>0, <1>4 DEF ParseServer
    <2>2. /\ DOMAIN confdirs' = DOMAIN confdirs \union {s}
          /\ \A t \in DOMAIN confdirs : confdirs'[t] = confdirs[t]
          /\ confdirs'[s] = dir
      <3> HIDE DEF dir
      <3>1. QED
        BY <1>1, <2>1 DEF With
    <2>3. IsShared(value) => Shares(s, value)'
      BY <1>0, <1>1, <1>4, <2>2 DEF Shares
    <2>4. value \in DOMAIN formatted => IsShared(value)
      BY DEF ParseInv, Shares
    <2>5. \A v \in DOMAIN formatted : \E t : Shares(t, v) /\ Shares(t, v)' /\ t # s /\ formatted[v] = servers[t][Meta].file
      BY <1>2 DEF ParseInv
    <2>6. \A v \in DOMAIN formatted' : \E t : Shares(t, v)' /\ formatted'[v] = servers[t][Meta].file
      <3>1. CASE ~IsShared(value)
        BY <2>1, <2>5, <3>1
      <3>2. CASE IsShared(value)
        <4>1. formatted' = With(formatted, value, dir)
          BY <2>1, <3>2
        <4>2. /\ value \notin DOMAIN formatted => dir = own
              /\ value \in DOMAIN formatted => dir = formatted[value]
          OBVIOUS
        <4> HIDE DEF dir
        <4>3. /\ DOMAIN formatted' = DOMAIN formatted \union {value}
              /\ \A v \in DOMAIN formatted : formatted'[v] = formatted[v]
              /\ value \notin DOMAIN formatted => formatted'[value] = dir
          <5>1. /\ DOMAIN formatted' = DOMAIN formatted \union {value}
                /\ \A v \in DOMAIN formatted : v # value => formatted'[v] = formatted[v]
                /\ formatted'[value] = dir
            BY <4>1 DEF With
          <5>2. QED
            BY <4>2, <5>1
        <4>4. ASSUME NEW v \in DOMAIN formatted', v \notin DOMAIN formatted
              PROVE  Shares(s, v)' /\ formatted'[v] = servers[s][Meta].file
          <5>1. v = value /\ v \notin DOMAIN formatted
            BY <4>3, <4>4
          <5>2. formatted'[v] = own
            BY <4>2, <4>3, <5>1
          <5>3. Shares(s, v)'
            BY <2>3, <3>2, <5>1
          <5>4. QED
            BY <5>2, <5>3
        <4>5. QED
          BY <2>5, <4>3, <4>4
      <3>3. QED
        BY <3>1, <3>2
    <2>7. \A t \in DOMAIN confdirs :
            confdirs[t] # servers[t][Meta].file =>
              \E r, v : r # t /\ Shares(t, v)' /\ Shares(r, v)' /\ confdirs[t] = servers[r][Meta].file
      BY <1>2 DEF ParseInv
    <2>8. dir # servers[s][Meta].file =>
            \E r, v : r # s /\ Shares(s, v)' /\ Shares(r, v)' /\ dir = servers[r][Meta].file
      <3>1. CASE value \in DOMAIN formatted
        <4>1. dir = formatted[value] /\ Shares(s, value)'
          BY <2>3, <2>4, <3>1
        <4> HIDE DEF dir
        <4>2. PICK t : Shares(t, value)' /\ t # s /\ formatted[value] = servers[t][Meta].file
          BY <2>5, <3>1
        <4>3. t # s /\ Shares(s, value)' /\ Shares(t, value)' /\ dir = servers[t][Meta].file
          BY <4>1, <4>2
        <4>4. QED
          BY <4>3
      <3>2. CASE value \notin DOMAIN formatted
        BY <3>2
      <3>3. QED
        BY <3>1, <3>2
    <2> HIDE DEF dir, own
    <2>9. QED
      BY <1>1, <2>2, <2>6, <2>7, <2>8 DEF ParseInv
  <1>5. QED
    BY <1>3, <1>4

\* What is shared is from the defaults of one file only.
LEMMA SharedIsFromOne ==
  ASSUME ReadInv, MergedInv, phase = "merged", NEW s \in DOMAIN servers,
         Entrypoint \in DOMAIN servers[s], IsShared(servers[s][Entrypoint])
  PROVE  LET g == servers[s][Entrypoint].file
         IN  g \in DOMAIN files /\ \E i : Givers(s) = {<<i, g>>}
  <1> DEFINE N == Len(files)
             known == Known(N, s, Entrypoint)
             i == Max(known)
             g == servers[s][Entrypoint].file
             G == Sources(i, s, Entrypoint)
  <1>1. files \in Seq(Files) /\ N \in Nat /\ N <= MaxFiles /\ MaxFiles \in Nat /\ DOMAIN files = 1 .. N
    BY ConfigAssumption DEF ReadInv
  <1>2. HasMerged(servers[s], s, Entrypoint, known)
    <2>1. servers \in ServersOfFiles /\ IsDict(servers) /\ MergedOK(servers, N)
      BY DEF MergedInv
    <2>2. ServersIn(servers) = servers
      BY <2>1, DictIs
    <2>3. QED
      BY <2>1, <2>2, ConfigAssumption DEF MergedOK
  <1>3. Named(N, s) \in SUBSET (1 .. N) /\ NamingMerged(s) = Named(N, s)
    BY <1>1, NamedIsNaming DEF Named
  <1>4. /\ known # {} /\ known = {i} /\ G = {Min(G)} /\ g = Min(G) /\ Min(G) # 0
    <2> HIDE DEF known
    <2>1. known # {}
      BY <1>2 DEF HasMerged
    <2>2. /\ g = IF Min(G) = 0 THEN i ELSE Min(G)
          /\ servers[s][Entrypoint].section = IF Min(G) = 0 THEN "servers" ELSE "defaults"
          /\ ~servers[s][Entrypoint].copied => known = {i} /\ G = {Min(G)}
      BY <1>2, <2>1 DEF HasMerged
    <2>3. servers[s][Entrypoint].section = "defaults" /\ ~servers[s][Entrypoint].copied
      BY DEF IsShared
    <2> HIDE DEF g, i, G
    <2>4. QED
      BY <2>1, <2>2, <2>3
  <1>5. i \in 1 .. N /\ i \in Named(N, s)
    BY <1>3, <1>4 DEF Known
  <1> HIDE DEF i, g
  <1>6. G = {g} /\ G \subseteq 0 .. i /\ g # 0
    BY <1>4 DEF Sources
  <1>7. g \in 1 .. i /\ g \in 1 .. N
    BY <1>1, <1>5, <1>6
  <1>8. \A k \in NamingMerged(s) : \A h \in 0 .. MaxFiles :
          h <= k /\ Gives(k, h, s, Entrypoint) <=> h \in Sources(k, s, Entrypoint)
    <2>1. ASSUME NEW k \in NamingMerged(s), NEW h \in 0 .. MaxFiles
          PROVE  h <= k <=> h \in 0 .. k
      BY <1>1, <1>3
    <2>2. QED
      BY <2>1 DEF Sources
  <1>9. \A k \in NamingMerged(s) : Sources(k, s, Entrypoint) # {} => k = i
    BY <1>3, <1>4 DEF Known
  <1>10. \A giver : giver \in Givers(s) <=>
           giver \in NamingMerged(s) \X (0 .. MaxFiles) /\ giver[2] \in Sources(giver[1], s, Entrypoint)
    BY <1>8 DEF Givers
  <1>11. i \in NamingMerged(s) /\ g \in 0 .. MaxFiles
    BY <1>1, <1>3, <1>5, <1>7
  <1> HIDE DEF known
  <1>12. Givers(s) = {<<i, g>>}
    <2>1. ASSUME NEW giver \in Givers(s)
          PROVE  giver = <<i, g>>
      <3>1. giver \in NamingMerged(s) \X (0 .. MaxFiles) /\ giver[2] \in Sources(giver[1], s, Entrypoint)
        BY <1>10
      <3>2. giver[1] = i
        BY <1>9, <3>1
      <3>3. giver[2] = g
        BY <1>6, <3>1, <3>2
      <3>4. QED
        BY <3>1, <3>2, <3>3
    <2>2. <<i, g>> \in Givers(s)
      BY <1>6, <1>10, <1>11
    <2>3. QED
      BY <2>1, <2>2
  <1>13. QED
    BY <1>1, <1>7, <1>12 DEF g

LEMMA ParsedIsOwn ==
  ASSUME ReadInv, MergedInv, ParseInv
  PROVE  ForeignConfdirIsShared
  <1> SUFFICES ASSUME NEW s \in DOMAIN confdirs, confdirs[s] # servers[s][Meta].file
               PROVE  \E g \in DOMAIN files : \E t \in DOMAIN confdirs \ {s} :
                        /\ \A giver \in Givers(s) \union Givers(t) : giver[2] = g
                        /\ Cardinality(Givers(s)) = 1 /\ Cardinality(Givers(t)) = 1
                        /\ confdirs[s] = servers[t][Meta].file
    BY DEF ForeignConfdirIsShared
  <1>1. phase = "merged"
    BY EmptyIs DEF ReadInv
  <1>2. PICK t, v : t # s /\ Shares(s, v) /\ Shares(t, v) /\ confdirs[s] = servers[t][Meta].file
    BY DEF ParseInv
  <1> DEFINE g == v.file
  <1>3. ASSUME NEW r, Shares(r, v)
        PROVE  g \in DOMAIN files /\ \E i : Givers(r) = {<<i, g>>}
    <2>1. /\ r \in DOMAIN servers /\ Entrypoint \in DOMAIN servers[r]
          /\ servers[r][Entrypoint] = v /\ IsShared(servers[r][Entrypoint])
      BY <1>3 DEF Shares, ParseInv
    <2>2. LET h == servers[r][Entrypoint].file IN h \in DOMAIN files /\ \E i : Givers(r) = {<<i, h>>}
      BY <1>1, <2>1, SharedIsFromOne
    <2>3. QED
      BY <2>1, <2>2
  <1> HIDE DEF g
  <1>4. PICK i : Givers(s) = {<<i, g>>}
    BY <1>2, <1>3
  <1>5. PICK j : Givers(t) = {<<j, g>>}
    BY <1>2, <1>3
  <1>6. Cardinality(Givers(s)) = 1 /\ Cardinality(Givers(t)) = 1
    BY <1>4, <1>5, FS_Singleton
  <1>7. \A giver \in Givers(s) \union Givers(t) : giver[2] = g
    BY <1>4, <1>5
  <1>8. g \in DOMAIN files /\ t \in DOMAIN confdirs
    BY <1>2, <1>3 DEF Shares
  <1>9. QED
    BY <1>2, <1>6, <1>7, <1>8

-----------------------------------------------------------------------------
ConfigInv == ReadInv /\ MergedInv /\ ParseInv

LEMMA InitIsConfigInv ==
  ASSUME ConfigInit
  PROVE  ConfigInv
  <1>1. /\ phase = "reading" /\ files = <<>> /\ configs = <<>> /\ global_defaults = <<>>
        /\ ebpf_configured = FALSE /\ servers = Empty /\ confdirs = Empty /\ formatted = Empty
    BY DEF ConfigInit
  <1>2. MaxFiles \in Nat
    BY ConfigAssumption
  <1>3. ReadInv
    <2>1. \A S : <<>> \in Seq(S) /\ Len(<<>>) = 0
      OBVIOUS
    <2>2. GlobalsOK
      <3>1. global_defaults \in Seq(Settings) /\ DOMAIN global_defaults = {} /\ 1 .. Len(files) = {}
        BY <1>1
      <3>2. QED
        BY <3>1 DEF GlobalsOK
    <2>3. \A i \in 1 .. Len(configs) : FileOK(i)
      BY <1>1
    <2>4. Len(files) <= MaxFiles /\ Len(configs) = Len(files) /\ Len(configs) <= Len(files)
      BY <1>1, <1>2
    <2>5. files \in Seq(Files) /\ configs \in Seq(ServersOfFiles) /\ global_defaults \in Seq(Settings)
      BY <1>1, <2>1
    <2>6. QED
      BY <1>1, <2>2, <2>3, <2>4, <2>5 DEF ReadInv
  <1>4. ParseInv
    BY <1>1, EmptyIs DEF ParseInv
  <1>5. QED
    BY <1>1, <1>3, <1>4 DEF ConfigInv, MergedInv

LEMMA FilesStay ==
  ASSUME ReadInv, UNCHANGED <<files, configs, global_defaults, ebpf_configured>>,
         phase' = phase \/ (phase = "reading" /\ phase' = "merged"),
         phase' # "merged" => servers' = Empty /\ confdirs' = Empty /\ formatted' = Empty
  PROVE  ReadInv'
  <1>1. files' = files /\ configs' = configs /\ global_defaults' = global_defaults
        /\ ebpf_configured' = ebpf_configured
    OBVIOUS
  <1>2. \A i, s, o : Sources(i, s, o)' = Sources(i, s, o)
    BY <1>1 DEF Sources, Gives
  <1>3. \A i : FileOK(i)' <=> FileOK(i)
    BY <1>1, <1>2 DEF FileOK
  <1>4. GlobalsOK' <=> GlobalsOK
    BY <1>1 DEF GlobalsOK
  <1>5. QED
    BY <1>1, <1>3, <1>4 DEF ReadInv

LEMMA ServersStay ==
  ASSUME MergedInv, UNCHANGED <<phase, files, servers>>
  PROVE  MergedInv'
  <1>1. phase' = phase /\ files' = files /\ servers' = servers
    OBVIOUS
  <1>2. /\ \A n, s : Named(n, s)' = Named(n, s)
        /\ \A n, s, o : Known(n, s, o)' = Known(n, s, o)
        /\ \A s, o, t, known : HasMerged(t, s, o, known)' <=> HasMerged(t, s, o, known)
    BY <1>1, MergedStays
  <1>3. QED
    BY <1>1, <1>2 DEF MergedInv, MergedOK

LEMMA ReadingIsConfigInv ==
  ASSUME ReadInv', phase' # "merged"
  PROVE  ConfigInv'
  <1>1. confdirs' = Empty /\ formatted' = Empty
    BY DEF ReadInv
  <1>2. ParseInv'
    BY <1>1, EmptyIs DEF ParseInv
  <1>3. QED
    BY <1>2 DEF ConfigInv, MergedInv

LEMMA NextKeepsConfigInv ==
  ASSUME ConfigInv, [ConfigNext]_config_vars
  PROVE  ConfigInv'
  <1>1. ReadInv /\ MergedInv /\ ParseInv
    BY DEF ConfigInv
  <1>2. ASSUME NEW f \in Contents, ReadFile(f)
        PROVE  ConfigInv'
    <2>1. f \in Files
      BY ContentsAssumption
    <2>2. ReadInv'
      BY <1>1, <1>2, <2>1, ReadFileKeeps
    <2>3. phase' # "merged"
      BY <1>2 DEF ReadFile
    <2>4. QED
      BY <2>2, <2>3, ReadingIsConfigInv
  <1>3. ASSUME NEW f \in Contents, ReadFails(f)
        PROVE  ConfigInv'
    <2>1. f \in Files
      BY ContentsAssumption
    <2>2. ReadInv'
      BY <1>1, <1>3, <2>1, ReadFailsKeeps
    <2>3. phase' # "merged"
      BY <1>3 DEF ReadFails
    <2>4. QED
      BY <2>2, <2>3, ReadingIsConfigInv
  <1>4. CASE Merge
    <2>1. /\ phase = "reading" /\ phase' = "merged"
          /\ UNCHANGED <<files, configs, global_defaults, ebpf_configured, confdirs, formatted>>
      BY <1>4 DEF Merge, parsing_vars
    <2>2. ReadInv'
      BY <1>1, <2>1, FilesStay
    <2>3. MergedInv'
      BY <1>1, <1>4, MergeMakesMergedInv
    <2>4. confdirs' = Empty /\ formatted' = Empty
      BY <1>1, <2>1 DEF ReadInv
    <2>5. ParseInv'
      BY <2>4, EmptyIs DEF ParseInv
    <2>6. QED
      BY <2>2, <2>3, <2>5 DEF ConfigInv
  <1>5. ASSUME NEW s \in Names, ParseServer(s)
        PROVE  ConfigInv'
    <2>1. /\ phase = "merged"
          /\ UNCHANGED <<phase, files, configs, global_defaults, ebpf_configured, servers>>
      BY <1>5 DEF ParseServer
    <2>2. ReadInv'
      BY <1>1, <2>1, FilesStay
    <2>3. MergedInv'
      BY <1>1, <2>1, ServersStay
    <2>4. ParseInv'
      BY <1>1, <1>5, ParseServerKeeps
    <2>5. QED
      BY <2>2, <2>3, <2>4 DEF ConfigInv
  <1>6. CASE UNCHANGED config_vars
    <2>1. UNCHANGED <<phase, files, configs, global_defaults, ebpf_configured, servers, confdirs, formatted>>
      BY <1>6 DEF config_vars, parsing_vars
    <2>2. ReadInv'
      <3>1. phase # "merged" => servers = Empty /\ confdirs = Empty /\ formatted = Empty
        BY <1>1 DEF ReadInv
      <3>2. QED
        BY <1>1, <2>1, <3>1, FilesStay
    <2>3. MergedInv'
      BY <1>1, <2>1, ServersStay
    <2>4. ParseInv'
      BY <1>1, <2>1 DEF ParseInv, Shares
    <2>5. QED
      BY <2>2, <2>3, <2>4 DEF ConfigInv
  <1>7. QED
    BY <1>2, <1>3, <1>4, <1>5, <1>6 DEF ConfigNext

THEOREM ConfigInvariant == ConfigSpec => []ConfigInv
  <1>1. ConfigInit => ConfigInv
    BY InitIsConfigInv
  <1>2. ConfigInv /\ [ConfigNext]_config_vars => ConfigInv'
    BY NextKeepsConfigInv
  <1>3. QED
    BY <1>1, <1>2, PTL DEF ConfigSpec

LEMMA ConfigInvIsTypeOK ==
  ASSUME ConfigInv
  PROVE  ConfigTypeOK
  <1>1. ReadInv /\ MergedInv /\ ParseInv
    BY DEF ConfigInv
  <1>2. /\ phase \in {"reading", "merged", "raised"} /\ Len(files) <= MaxFiles /\ Len(configs) <= Len(files)
        /\ ebpf_configured \in BOOLEAN
    BY <1>1 DEF ReadInv
  <1>3. Range(files) \subseteq Files
    <2>1. files \in Seq(Files)
      BY <1>1 DEF ReadInv
    <2>2. QED
      BY <2>1 DEF Range
  <1>4. \A i \in DOMAIN global_defaults : global_defaults[i] \in Partial(Options, Places)
    <2>1. global_defaults \in Seq(Settings)
      BY <1>1 DEF ReadInv
    <2>2. \A i \in DOMAIN global_defaults : global_defaults[i] \in Settings
      BY <2>1
    <2>3. QED
      BY <2>2 DEF Settings
  <1>5. DOMAIN servers \subseteq Names /\ \A s \in DOMAIN servers : servers[s] \in FullSettings /\ Meta \in DOMAIN servers[s]
    <2>1. CASE phase = "merged"
      <3>1. servers \in ServersOfFiles /\ IsDict(servers) /\ MergedOK(servers, Len(files))
        BY <1>1, <2>1 DEF MergedInv
      <3>2. ServersIn(servers) = servers /\ DOMAIN servers \subseteq Names
        BY <3>1, DictIs
      <3>3. QED
        BY <3>1, <3>2 DEF MergedOK, ServerOK
    <2>2. CASE phase # "merged"
      BY <1>1, <2>2, EmptyIs DEF ReadInv
    <2>3. QED
      BY <2>1, <2>2
  <1>6. DOMAIN confdirs \subseteq DOMAIN servers
    BY <1>1 DEF ParseInv
  <1>7. QED
    BY <1>2, <1>3, <1>4, <1>5, <1>6 DEF ConfigTypeOK, FullSettings

\* Every server of the outcome is made of options that were written somewhere,
\* and has its meta: for any files, options and names of servers.
THEOREM ConfigIsTypeCorrect == ConfigSpec => []ConfigTypeOK
  BY ConfigInvariant, ConfigInvIsTypeOK, PTL

\* load_configs: each option of a server is that of the last file from which the
\* server has it, and a default reaches the servers of its own file and, if it is
\* marked global, of later files, however many files there are.
THEOREM LastFileAlwaysWins == ConfigSpec => []EffectiveValues
  <1>1. ConfigInv => EffectiveValues
    BY MergedIsEffective DEF ConfigInv
  <1>2. QED
    BY <1>1, ConfigInvariant, PTL

\* Settings.servers: an entrypoint gets the directory of the file that names its
\* server, unless it is the one object of some defaults section, which another
\* server has had formatted.
THEOREM OnlySharedConfdirIsForeign == ConfigSpec => []ForeignConfdirIsShared
  <1>1. ConfigInv => ForeignConfdirIsShared
    BY ParsedIsOwn DEF ConfigInv
  <1>2. QED
    BY <1>1, ConfigInvariant, PTL
=============================================================================
