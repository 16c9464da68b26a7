---------------------------- MODULE StartupProofs ---------------------------
(***************************************************************************)
(* The redirection waits for every proxy, however many there are and       *)
(* however their starts and the interrupt interleave; and for any settings *)
(* of any number of servers, what the process is started with reaches the  *)
(* proxies and goes together.                                              *)
(***************************************************************************)
EXTENDS Startup, Induction, TLAPS

\* The redirection exists only once all are ready, and main leaves "waiting" for
\* good then, so nothing can make `ready` small again or start it early.
WaitInv ==
  /\ main \in {"starting", "waiting"} => redirection = "none"
  /\ redirection = "none" => process = "none"
  /\ redirection # "none" => ready = Servers

LEMMA InitWaitInv == StartupInit => WaitInv
  BY DEF StartupInit, WaitInv

LEMMA StepWaitInv == WaitInv /\ [StartupNext]_startup_vars => WaitInv'
  <1> SUFFICES ASSUME WaitInv, [StartupNext]_startup_vars
               PROVE  WaitInv'
    OBVIOUS
  <1> USE DEF WaitInv, Servers, main_vars, process_vars
  <1>1. CASE RunServers
    <2>1. main = "starting" /\ redirection = "none" /\ process = "none"
      BY <1>1 DEF RunServers
    <2>2. QED
      BY <2>1, <1>1 DEF RunServers
  <1>2. CASE \E i \in Servers : WaitReadyReturns(i)
    <2>1. main = "waiting" /\ redirection = "none" /\ process = "none"
      BY <1>2 DEF WaitReadyReturns
    <2>2. QED
      BY <2>1, <1>2 DEF WaitReadyReturns
  <1>3. CASE GatherReady
    BY <1>3 DEF GatherReady, AllReady
  <1>4. CASE GatherRaises
    BY <1>4 DEF GatherRaises
  <1>5. CASE Interrupted \/ ParsingFails
    BY <1>5 DEF Interrupted, ParsingFails
  <1>6. CASE RunRedirection
    <2>1. redirection = "created" /\ redirection' \in {"failed", "spawning"}
      BY <1>6 DEF RunRedirection
    <2>2. QED
      BY <2>1, <1>6 DEF RunRedirection
  <1>7. CASE Spawned
    BY <1>7 DEF Spawned
  <1>8. CASE SpawnFails
    BY <1>8 DEF SpawnFails
  <1>9. CASE EndOfOutput \/ OutputIsRefused
    <2>1. redirection = "reading" /\ redirection' \in {"returned", "failed"}
      BY <1>9 DEF EndOfOutput, OutputIsRefused
    <2>2. QED
      BY <2>1, <1>9 DEF EndOfOutput, OutputIsRefused
  <1>10. CASE CloseStdout \/ Reap \/ UNCHANGED startup_vars
    BY <1>10 DEF CloseStdout, Reap, startup_vars
  <1>11. CASE Exit
    BY <1>11 DEF Exit
  <1>12. QED
    BY <1>1, <1>2, <1>3, <1>4, <1>5, <1>6, <1>7, <1>8, <1>9, <1>10, <1>11 DEF StartupNext

\* No query is redirected before every proxy has returned from wait_ready
\* (_run_servers: the redirection is started after the first gather), for any servers.
THEOREM RedirectionAlwaysWaits == StartupSpec => []RedirectionWaits
  <1>1. WaitInv => RedirectionWaits
    BY DEF WaitInv, RedirectionWaits
  <1>2. QED
    BY <1>1, InitWaitInv, StepWaitInv, PTL DEF StartupSpec

-----------------------------------------------------------------------------
\* The loop of get_ebpf_program_run_args, one turn for each server.
Unset == [failed |-> FALSE, is_wide |-> FALSE, interface |-> Unknown, redirects |-> <<>>]

IsLoop(g, n) == g = [i \in 0 .. n |-> IF i = 0 THEN Unset ELSE AddServer(g[i - 1], i)]

LEMMA LoopExists ==
  ASSUME NEW n \in Nat
  PROVE  \E g : IsLoop(g, n)
  <1> DEFINE T == {m \in Nat : \E g : IsLoop(g, m)}
  <1>1. 0 \in T
    <2> DEFINE g == [i \in 0 .. 0 |-> Unset]
    <2>1. IsLoop(g, 0)
      BY DEF IsLoop
    <2> HIDE DEF g
    <2>2. QED
      BY <2>1
  <1>2. ASSUME NEW m \in Nat, m \in T
        PROVE  m + 1 \in T
    <2>1. PICK g : IsLoop(g, m)
      BY <1>2
    <2> DEFINE h == [i \in 0 .. m + 1 |-> IF i = m + 1 THEN AddServer(g[m], m + 1) ELSE g[i]]
    <2>2. \A i \in 0 .. m : g[i] = IF i = 0 THEN Unset ELSE AddServer(g[i - 1], i)
      BY <2>1 DEF IsLoop
    <2>3. ASSUME NEW i \in 0 .. m + 1
          PROVE  h[i] = IF i = 0 THEN Unset ELSE AddServer(h[i - 1], i)
      <3>1. CASE i = m + 1
        <4>1. h[m] = g[m] /\ i # 0 /\ i - 1 = m
          BY <3>1
        <4>2. h[i] = AddServer(g[m], m + 1)
          BY <3>1
        <4> HIDE DEF h
        <4>3. QED
          BY <3>1, <4>1, <4>2
      <3>2. CASE i # m + 1
        <4>1. i \in 0 .. m /\ h[i] = g[i] /\ (i # 0 => h[i - 1] = g[i - 1])
          BY <3>2
        <4> HIDE DEF h
        <4>2. QED
          BY <2>2, <4>1
      <3>3. QED
        BY <3>1, <3>2
    <2>4. h = [i \in 0 .. m + 1 |-> h[i]]
      OBVIOUS
    <2> HIDE DEF h
    <2>5. IsLoop(h, m + 1)
      BY <2>3, <2>4 DEF IsLoop
    <2> HIDE DEF IsLoop
    <2>6. m + 1 \in Nat
      OBVIOUS
    <2>7. QED
      BY <2>5, <2>6
  <1>3. Nat \subseteq T
    <2> HIDE DEF T
    <2>1. QED
      BY <1>1, <1>2, NatInduct
  <1>4. QED
    BY <1>3

\* What the settings are, from the start to the end.
SettingsOK ==
  /\ \E n \in 0 .. Len(ServerPort) : settings \in [1 .. n -> ServerSettings]
  /\ ebpf_enabled \in BOOLEAN

LEMMA SettingsIs ==
  ASSUME SettingsOK
  PROVE  /\ settings \in Seq(ServerSettings)
         /\ Len(settings) \in 0 .. Len(ServerPort)
         /\ Servers = 1 .. Len(settings)
         /\ \A i \in Servers : settings[i] \in ServerSettings
  <1>1. PICK n \in 0 .. Len(ServerPort) : settings \in [1 .. n -> ServerSettings]
    BY DEF SettingsOK
  <1>2. Len(ServerPort) \in Nat
    BY StartupAssumption
  <1> HIDE DEF ServerSettings
  <1>3. n \in Nat /\ settings \in Seq(ServerSettings) /\ Len(settings) = n
    BY <1>1, <1>2
  <1>4. QED
    BY <1>1, <1>3 DEF Servers

LEMMA ArgsAreLoop ==
  ASSUME SettingsOK
  PROVE  \E g : IsLoop(g, Len(settings)) /\ get_ebpf_program_run_args = g[Len(settings)]
  <1>1. \E g : IsLoop(g, Len(settings))
    BY SettingsIs, LoopExists
  <1>2. get_ebpf_program_run_args = (CHOOSE g : IsLoop(g, Len(settings)))[Len(settings)]
    BY DEF get_ebpf_program_run_args, IsLoop, Unset
  <1> HIDE DEF IsLoop
  <1>3. QED
    BY <1>1, <1>2

-----------------------------------------------------------------------------
\* What holds of the loop's variables after i turns: once a server has an address
\* its interface is that of all that have one, and none of the later servers is
\* wide; so the first server decides whether the redirections have an address.
Redirection == [server : Servers, with_ip : BOOLEAN, port : 1 .. MaxPort]

WantedUpTo(i) == {<<j, bind_port[j]>> : j \in {k \in 1 .. i : ~settings[k].ebpf_no_redirect}}

Args == [failed : BOOLEAN, is_wide : BOOLEAN, interface : Interfaces \union {Unknown},
         redirects : Seq(Redirection)]

LoopInv(args, i) ==
  /\ args \in Args
  /\ ~args.failed =>
       /\ \A j \in 1 .. i : /\ settings[j].bind_ip # Unknown
                            /\ server_interface(j) \in {Unknown, args.interface}
       /\ args.is_wide = (i > 0 /\ settings[1].bind_ip = Wide)
       /\ i > 0 /\ ~args.is_wide => args.interface # Unknown
       /\ \A r \in Range(args.redirects) : r.with_ip = ~args.is_wide
       /\ {<<r.server, r.port>> : r \in Range(args.redirects)} = WantedUpTo(i)

LEMMA RangeOfAppend ==
  ASSUME NEW S, NEW s \in Seq(S), NEW x \in S
  PROVE  /\ Append(s, x) \in Seq(S)
         /\ Range(Append(s, x)) = Range(s) \union {x}
  <1> DEFINE t == Append(s, x)
  <1>1. /\ t \in Seq(S) /\ DOMAIN t = 1 .. Len(s) + 1 /\ DOMAIN s = 1 .. Len(s)
        /\ Len(s) \in Nat
        /\ \A i \in 1 .. Len(s) : t[i] = s[i]
        /\ t[Len(s) + 1] = x
    OBVIOUS
  <1> HIDE DEF t
  <1>2. ASSUME NEW y
        PROVE  y \in Range(t) <=> y \in Range(s) \union {x}
    BY <1>1 DEF Range
  <1>3. QED
    BY <1>1, <1>2 DEF t

\* The ports are chosen when the settings are there.
PortsOK ==
  /\ DOMAIN bind_port = Servers
  /\ \A i \in Servers : bind_port[i] \in 1 .. MaxPort

LEMMA TurnKeepsLoopInv ==
  ASSUME SettingsOK, PortsOK, NEW args, NEW i \in 1 .. Len(settings), LoopInv(args, i - 1)
  PROVE  LoopInv(AddServer(args, i), i)
  <1> DEFINE next == AddServer(args, i)
             interface == IF args.interface = Unknown THEN server_interface(i) ELSE args.interface
             wide == args.is_wide \/ settings[i].bind_ip = Wide
             new == [server |-> i, with_ip |-> ~wide, port |-> bind_port[i]]
             all == IF settings[i].ebpf_no_redirect THEN args.redirects
                    ELSE Append(args.redirects, new)
             fails == args.failed \/ settings[i].bind_ip = Unknown
                      \/ server_interface(i) # interface
  <1>1. next = IF fails THEN [args EXCEPT !.failed = TRUE]
               ELSE [failed |-> FALSE, is_wide |-> wide, interface |-> interface, redirects |-> all]
    BY Zenon DEF AddServer, IsWide, PortOf
  <1>2. /\ args \in Args /\ args.is_wide \in BOOLEAN /\ args.redirects \in Seq(Redirection)
        /\ args.interface \in Interfaces \union {Unknown}
    BY DEF LoopInv, Args
  <1>3. i \in Servers /\ settings[i] \in ServerSettings /\ i \in Nat \ {0}
    BY SettingsIs
  <1>4. /\ settings[i].bind_ip \in Interfaces \union {Wide, Unknown}
        /\ settings[i].ebpf_no_redirect \in BOOLEAN
        /\ bind_port[i] \in 1 .. MaxPort
    BY <1>3 DEF ServerSettings, PortsOK
  <1>5. /\ server_interface(i) \in Interfaces \union {Unknown}
        /\ settings[i].bind_ip \in Interfaces => server_interface(i) = settings[i].bind_ip
        /\ settings[i].bind_ip = Wide => server_interface(i) = Unknown
    BY <1>4, StartupAssumption DEF server_interface
  <1>6. interface \in Interfaces \union {Unknown} /\ wide \in BOOLEAN
    BY <1>2, <1>5
  <1> HIDE DEF interface, wide
  <1>7. new \in Redirection
    BY <1>3, <1>4, <1>6 DEF Redirection
  <1>8. all \in Seq(Redirection)
    BY <1>2, <1>7
  <1> HIDE DEF next, fails, all
  <1>9. CASE fails
    <2>1. next \in Args /\ next.failed
      BY <1>1, <1>2, <1>9 DEF Args
    <2>2. QED
      BY <2>1 DEF LoopInv, next
  <1>10. CASE ~fails
    <2>1. /\ next \in Args
          /\ next.is_wide = wide /\ next.interface = interface /\ next.redirects = all
      BY <1>1, <1>6, <1>8, <1>10 DEF Args
    <2>2. /\ ~args.failed
          /\ settings[i].bind_ip # Unknown
          /\ server_interface(i) = interface
      BY <1>10 DEF fails
    <2>3. /\ \A j \in 1 .. i - 1 : /\ settings[j].bind_ip # Unknown
                                   /\ server_interface(j) \in {Unknown, args.interface}
          /\ args.is_wide = (i - 1 > 0 /\ settings[1].bind_ip = Wide)
          /\ i - 1 > 0 /\ ~args.is_wide => args.interface # Unknown
          /\ \A r \in Range(args.redirects) : r.with_ip = ~args.is_wide
          /\ {<<r.server, r.port>> : r \in Range(args.redirects)} = WantedUpTo(i - 1)
      BY <2>2 DEF LoopInv
    <2>4. args.interface # Unknown => interface = args.interface
      BY DEF interface
    <2>5. \A j \in 1 .. i : /\ settings[j].bind_ip # Unknown
                            /\ server_interface(j) \in {Unknown, interface}
      <3>1. ASSUME NEW j \in 1 .. i
            PROVE  /\ settings[j].bind_ip # Unknown
                   /\ server_interface(j) \in {Unknown, interface}
        <4>1. CASE j = i
          BY <2>2, <4>1
        <4>2. CASE j # i
          <5>1. j \in 1 .. i - 1
            BY <1>3, <4>2
          <5>2. QED
            BY <2>3, <2>4, <5>1
        <4>3. QED
          BY <4>1, <4>2
      <3>2. QED
        BY <3>1
    <2>6. /\ wide = (settings[1].bind_ip = Wide)
          /\ ~wide => interface # Unknown
          /\ \A r \in Range(args.redirects) : r.with_ip = ~wide
      <3>1. CASE i = 1
        <4>1. Range(args.redirects) = {}
          <5>1. WantedUpTo(i - 1) = {}
            BY <3>1 DEF WantedUpTo
          <5>2. QED
            BY <2>3, <5>1
        <4>2. wide = (settings[1].bind_ip = Wide)
          BY <2>3, <3>1 DEF wide
        <4>3. ~wide => interface # Unknown
          BY <1>4, <1>5, <2>2, <3>1, <4>2, StartupAssumption
        <4>4. QED
          BY <4>1, <4>2, <4>3
      <3>2. CASE i # 1
        <4>1. i - 1 > 0
          BY <1>3, <3>2
        <4>2. wide = args.is_wide
          BY <1>2, <1>5, <2>2, <2>3, <2>4, <4>1 DEF wide
        <4>3. QED
          BY <2>3, <2>4, <4>1, <4>2
      <3>3. QED
        BY <3>1, <3>2
    <2>7. /\ \A r \in Range(all) : r.with_ip = ~wide
          /\ {<<r.server, r.port>> : r \in Range(all)} = WantedUpTo(i)
      <3>1. CASE settings[i].ebpf_no_redirect
        <4>1. all = args.redirects
          BY <3>1 DEF all
        <4>2. {k \in 1 .. i : ~settings[k].ebpf_no_redirect}
                = {k \in 1 .. i - 1 : ~settings[k].ebpf_no_redirect}
          BY <1>3, <3>1
        <4>3. QED
          BY <2>3, <2>6, <4>1, <4>2 DEF WantedUpTo
      <3>2. CASE ~settings[i].ebpf_no_redirect
        <4>1. Range(all) = Range(args.redirects) \union {new}
          BY <1>2, <1>7, <3>2, RangeOfAppend DEF all
        <4>2. {k \in 1 .. i : ~settings[k].ebpf_no_redirect}
                = {k \in 1 .. i - 1 : ~settings[k].ebpf_no_redirect} \union {i}
          BY <1>3, <3>2
        <4>3. WantedUpTo(i) = WantedUpTo(i - 1) \union {<<i, bind_port[i]>>}
          BY <4>2 DEF WantedUpTo
        <4>4. new.server = i /\ new.port = bind_port[i] /\ new.with_ip = ~wide
          OBVIOUS
        <4> HIDE DEF new
        <4>5. {<<r.server, r.port>> : r \in Range(all)}
                = {<<r.server, r.port>> : r \in Range(args.redirects)} \union {<<i, bind_port[i]>>}
          BY <4>1, <4>4
        <4>6. QED
          BY <2>3, <2>6, <4>1, <4>3, <4>4, <4>5
      <3>3. QED
        BY <3>1, <3>2
    <2>8. i > 0
      BY <1>3
    <2>9. LoopInv(next, i)
      BY <2>1, <2>5, <2>6, <2>7, <2>8 DEF LoopInv
    <2>10. QED
      BY <2>9 DEF next
  <1>11. QED
    BY <1>9, <1>10

\* After the last turn: what the process is started with.
GoodRedirects ==
  /\ redirects \in Seq(Redirection)
  /\ {<<r.server, r.port>> : r \in Range(redirects)} =
       {<<i, bind_port[i]>> : i \in {j \in Servers : ~settings[j].ebpf_no_redirect}}
  /\ \A i, j \in Servers : {settings[i].bind_ip, settings[j].bind_ip} \subseteq Interfaces
                             => settings[i].bind_ip = settings[j].bind_ip
  /\ \A r, q \in Range(redirects) : r.with_ip = q.with_ip

LEMMA LoopInvHolds ==
  ASSUME SettingsOK, PortsOK
  PROVE  LoopInv(get_ebpf_program_run_args, Len(settings))
  <1> DEFINE N == Len(settings)
  <1>1. PICK g : IsLoop(g, N) /\ get_ebpf_program_run_args = g[N]
    BY ArgsAreLoop
  <1>2. N \in Nat
    BY SettingsIs
  <1> DEFINE T == {i \in 0 .. N : LoopInv(g[i], i)}
  <1>3. 0 \in T
    <2>1. 0 \in 0 .. N /\ g[0] = Unset
      BY <1>1, <1>2 DEF IsLoop
    <2>2. Unset \in Args /\ Unset.redirects = <<>> /\ Unset.is_wide = FALSE
      BY DEF Unset, Args
    <2>3. Range(Unset.redirects) = {} /\ WantedUpTo(0) = {}
      BY <2>2 DEF Range, WantedUpTo
    <2>4. LoopInv(Unset, 0)
      <3>1. \A j \in 1 .. 0 : FALSE
        OBVIOUS
      <3>2. {<<r.server, r.port>> : r \in Range(Unset.redirects)} = {}
        BY <2>3
      <3>3. ~(0 > 0)
        OBVIOUS
      <3>4. QED
        BY <2>2, <2>3, <3>1, <3>2, <3>3, Zenon DEF LoopInv
    <2>5. QED
      BY <2>1, <2>4
  <1>4. ASSUME NEW n \in 0 .. N - 1, n \in T
        PROVE  n + 1 \in T
    <2>1. /\ n + 1 \in 1 .. N /\ n + 1 \in 0 .. N /\ (n + 1) - 1 = n
          /\ g[n + 1] = AddServer(g[n], n + 1)
      BY <1>1, <1>2 DEF IsLoop
    <2>2. LoopInv(g[n], (n + 1) - 1)
      BY <1>4, <2>1
    <2>3. LoopInv(AddServer(g[n], n + 1), n + 1)
      BY <2>1, <2>2, TurnKeepsLoopInv
    <2>4. QED
      BY <2>1, <2>3
  <1>5. N \in T
    <2> HIDE DEF T, N
    <2>1. 0 .. N \subseteq T
      BY <1>2, <1>3, <1>4, IntervalInduct
    <2>2. QED
      BY <1>2, <2>1
  <1>6. QED
    BY <1>1, <1>5

LEMMA RunMakesGoodRedirects ==
  ASSUME SettingsOK, PortsOK, RunRedirection, redirection' = "spawning"
  PROVE  GoodRedirects'
  <1> DEFINE args == get_ebpf_program_run_args
  <1>1. ~args.failed /\ redirects' = args.redirects /\ UNCHANGED main_vars
    BY DEF RunRedirection
  <1>2. LoopInv(args, Len(settings))
    BY LoopInvHolds
  <1> HIDE DEF args
  <1>3. /\ \A j \in 1 .. Len(settings) : /\ settings[j].bind_ip # Unknown
                                         /\ server_interface(j) \in {Unknown, args.interface}
        /\ args.redirects \in Seq(Redirection)
        /\ \A r \in Range(args.redirects) : r.with_ip = ~args.is_wide
        /\ {<<r.server, r.port>> : r \in Range(args.redirects)} = WantedUpTo(Len(settings))
    BY <1>1, <1>2 DEF LoopInv, Args
  <1>4. Servers = 1 .. Len(settings)
    BY SettingsIs
  <1>5. \A i, j \in Servers : {settings[i].bind_ip, settings[j].bind_ip} \subseteq Interfaces
                                => settings[i].bind_ip = settings[j].bind_ip
    BY <1>3, <1>4, StartupAssumption DEF server_interface
  <1>6. UNCHANGED <<settings, bind_port>>
    BY <1>1 DEF main_vars
  <1>7. QED
    BY <1>1, <1>3, <1>4, <1>5, <1>6 DEF GoodRedirects, WantedUpTo, Servers, Redirection

-----------------------------------------------------------------------------
\* The ports of a server are ones it can be bound to: the pretty one only if it is
\* not out of range.
LEMMA PortsForIs ==
  ASSUME SettingsOK, NEW i \in Servers
  PROVE  PortsFor(i) \subseteq 1 .. MaxPort
  <1>1. i \in 1 .. Len(settings) /\ Len(settings) <= Len(ServerPort) /\ settings[i] \in ServerSettings
    BY SettingsIs
  <1>2. ServerPort[i] \in 1 .. MaxPort
    <2> DEFINE Ports == 1 .. MaxPort
    <2>1. ServerPort \in Seq(Ports)
      BY StartupAssumption
    <2>2. Len(settings) \in Nat
      BY SettingsIs
    <2> HIDE DEF Ports
    <2>3. ServerPort[i] \in Ports
      BY <1>1, <2>1, <2>2
    <2>4. QED
      BY <2>3 DEF Ports
  <1>3. settings[i].bind_port \in 0 .. MaxPort
    BY <1>1, StartupAssumption DEF ServerSettings
  <1>4. CASE settings[i].bind_port # 0
    BY <1>3, <1>4 DEF PortsFor
  <1>5. CASE settings[i].bind_port = 0
    <2> DEFINE pretty == ServerPort[i] + 800
    <2>1. pretty \in Nat \ {0}
      BY <1>2
    <2>2. PortsFor(i) = UNION {IF free THEN {pretty} ELSE get_available_port :
                                 free \in is_port_available(pretty)}
      BY <1>5 DEF PortsFor
    <2> HIDE DEF pretty
    <2>3. TRUE \in is_port_available(pretty) => pretty \in 1 .. MaxPort
      <3>1. pretty <= MaxPort => pretty \in 1 .. MaxPort
        <4>1. MaxPort \in Nat
          BY DEF MaxPort
        <4>2. QED
          BY <2>1, <4>1
      <3>2. ~(pretty <= MaxPort) => is_port_available(pretty) = {FALSE}
        BY DEF is_port_available
      <3>3. QED
        BY <3>1, <3>2, Zenon
    <2>4. get_available_port \subseteq 1 .. MaxPort
      BY StartupAssumption DEF get_available_port
    <2>5. \A free \in is_port_available(pretty) :
            (IF free THEN {pretty} ELSE get_available_port) \subseteq 1 .. MaxPort
      <3>1. ASSUME NEW free \in is_port_available(pretty)
            PROVE  (IF free THEN {pretty} ELSE get_available_port) \subseteq 1 .. MaxPort
        <4>1. free \in BOOLEAN
          BY Zenon DEF is_port_available
        <4>2. CASE free = TRUE
          BY <2>3, <4>2, Zenon
        <4>3. CASE free = FALSE
          BY <2>4, <4>3, Zenon
        <4>4. QED
          BY <4>1, <4>2, <4>3, Zenon
      <3>2. QED
        BY <3>1, Zenon
    <2>6. ASSUME NEW port \in PortsFor(i)
          PROVE  port \in 1 .. MaxPort
      <3>1. PICK free \in is_port_available(pretty) :
              port \in IF free THEN {pretty} ELSE get_available_port
        BY <2>2, <2>6, Zenon
      <3>2. QED
        BY <2>5, <3>1, Zenon
    <2>7. QED
      BY <2>6, Zenon
  <1>6. QED
    BY <1>4, <1>5

\* Inductive: the ports are there before anything is redirected to them, and an
\* exit code is known of a process that has exited only.
StartupInv ==
  /\ WaitInv
  /\ SettingsOK
  /\ main \in {"starting", "waiting", "gathering", "returned", "raised", "stopped"}
  /\ DOMAIN bind_port = {} \/ PortsOK
  /\ main \in {"waiting", "gathering"} => PortsOK
  /\ ready \subseteq Servers
  /\ redirection \in {"none", "created", "spawning", "reading", "returned", "failed"}
  /\ redirects \in Seq(Redirection)
  /\ process \in {"none", "running", "exited"}
  /\ exit_code \in ExitCodes \union {Unknown}
  /\ stdout_open \in BOOLEAN
  /\ returncode \in {exit_code, Unknown}
  /\ process \in {"none", "running"} => exit_code = Unknown
  /\ redirection \in {"created", "spawning"} => process = "none"
  /\ redirection \in {"spawning", "reading", "returned"} \/ process # "none" => GoodRedirects

LEMMA InitStartupInv == StartupInit => StartupInv
  <1> SUFFICES ASSUME StartupInit
               PROVE  StartupInv
    OBVIOUS
  <1>1. SettingsOK
    BY DEF StartupInit, SettingsOK
  <1>2. redirects \in Seq(Redirection) /\ DOMAIN bind_port = {}
    BY DEF StartupInit
  <1> HIDE DEF SettingsOK
  <1>3. QED
    BY <1>1, <1>2, InitWaitInv DEF StartupInit, StartupInv

LEMMA RunServersKeepsInv ==
  ASSUME StartupInv, RunServers
  PROVE  StartupInv'
  <1>1. WaitInv'
    BY StepWaitInv DEF StartupInv, StartupNext
  <1>2. UNCHANGED <<settings, ebpf_enabled, ready, redirection, redirects, process_vars>>
    BY DEF RunServers
  <1>3. main = "starting" /\ redirection = "none" /\ process = "none"
    BY DEF RunServers, StartupInv, WaitInv
  <1>4. SettingsOK'
    BY <1>2 DEF StartupInv, SettingsOK, ServerSettings
  <1>5. CASE settings = <<>>
    <2>1. main' = "returned" /\ bind_port' = bind_port
      BY <1>5 DEF RunServers
    <2>2. (DOMAIN bind_port = {} \/ PortsOK)'
      BY <1>2, <2>1 DEF StartupInv, PortsOK, Servers
    <2>3. QED
      BY <1>1, <1>2, <1>3, <1>4, <2>1, <2>2 DEF StartupInv, process_vars, Servers, Redirection
  <1>6. CASE settings # <<>>
    <2>1. main' \in {"waiting", "gathering"}
      BY <1>6 DEF RunServers
    <2>2. /\ bind_port' \in [Servers -> UNION {PortsFor(i) : i \in Servers}]
          /\ \A i \in Servers : bind_port'[i] \in PortsFor(i)
      BY <1>6 DEF RunServers
    <2>3. \A i \in Servers : bind_port'[i] \in 1 .. MaxPort
      BY <2>2, PortsForIs DEF StartupInv
    <2>4. PortsOK'
      BY <1>2, <2>2, <2>3 DEF PortsOK, Servers
    <2>5. QED
      BY <1>1, <1>2, <1>3, <1>4, <2>1, <2>4 DEF StartupInv, process_vars, Servers, Redirection
  <1>7. QED
    BY <1>5, <1>6

\* The rest leaves the settings and the ports alone.
LEMMA OthersKeepInv ==
  ASSUME StartupInv, [StartupNext]_startup_vars, ~RunServers
  PROVE  StartupInv'
  <1>1. UNCHANGED <<settings, ebpf_enabled, bind_port>>
    BY Zenon DEF StartupNext, startup_vars, main_vars, WaitReadyReturns, GatherReady, GatherRaises,
           Interrupted, ParsingFails, RunRedirection, Spawned, SpawnFails, EndOfOutput,
           OutputIsRefused, CloseStdout, Exit, Reap
  <1>2. WaitInv'
    BY StepWaitInv DEF StartupInv
  <1>3. SettingsOK' /\ PortsOK' = PortsOK
    BY <1>1 DEF StartupInv, SettingsOK, ServerSettings, PortsOK, Servers
  <1>4. redirects' = redirects /\ GoodRedirects => GoodRedirects'
    BY <1>1 DEF GoodRedirects, Servers, Redirection
  <1>5. Servers' = Servers /\ Seq(Redirection)' = Seq(Redirection)
    BY <1>1 DEF Servers, Redirection
  <1>6. CASE \E i \in Servers : WaitReadyReturns(i)
    BY <1>1, <1>2, <1>3, <1>4, <1>5, <1>6 DEF StartupInv, WaitReadyReturns, process_vars
  <1>7. CASE GatherReady
    <2>1. redirection = "none" /\ process = "none" /\ redirects' = redirects
      BY <1>7 DEF StartupInv, WaitInv, GatherReady
    <2>2. QED
      BY <1>1, <1>2, <1>3, <1>4, <1>5, <1>7, <2>1 DEF StartupInv, GatherReady, process_vars
  <1>8. CASE GatherRaises \/ Interrupted \/ ParsingFails
    BY <1>1, <1>2, <1>3, <1>4, <1>5, <1>8
       DEF StartupInv, GatherRaises, Interrupted, ParsingFails, process_vars
  <1>9. CASE RunRedirection
    <2>1. UNCHANGED <<main_vars, process_vars>> /\ main = "gathering" /\ process = "none"
      BY <1>9 DEF RunRedirection, StartupInv
    <2>2. \/ redirection' = "failed" /\ redirects' = redirects
          \/ redirection' = "spawning"
      BY <1>9 DEF RunRedirection
    <2>3. redirection' = "spawning" => GoodRedirects'
      BY <1>9, RunMakesGoodRedirects, <2>1 DEF StartupInv
    <2>4. redirects' \in Seq(Redirection)
      BY <1>5, <2>2, <2>3 DEF GoodRedirects, StartupInv
    <2>5. QED
      BY <1>1, <1>2, <1>3, <1>4, <1>5, <2>1, <2>2, <2>3, <2>4 DEF StartupInv, main_vars, process_vars
  <1>10. CASE Spawned \/ SpawnFails
    BY <1>1, <1>2, <1>3, <1>4, <1>5, <1>10
       DEF StartupInv, Spawned, SpawnFails, main_vars, process_vars
  <1>11. CASE CloseStdout \/ Exit \/ Reap
    BY <1>1, <1>2, <1>3, <1>4, <1>5, <1>11 DEF StartupInv, CloseStdout, Exit, Reap, main_vars
  <1>12. CASE UNCHANGED startup_vars
    BY <1>1, <1>2, <1>3, <1>4, <1>5, <1>12 DEF StartupInv, startup_vars, main_vars, process_vars
  <1>13. CASE EndOfOutput \/ OutputIsRefused
    <2>1. /\ redirection = "reading" /\ redirection' \in {"returned", "failed"}
          /\ UNCHANGED <<main_vars, redirects, process_vars>>
      BY <1>13 DEF EndOfOutput, OutputIsRefused
    <2>2. QED
      BY <1>1, <1>2, <1>3, <1>4, <1>5, <2>1 DEF StartupInv, main_vars, process_vars
  <1>14. QED
    BY <1>6, <1>7, <1>8, <1>9, <1>10, <1>11, <1>12, <1>13 DEF StartupNext

LEMMA StartupInvariant == StartupSpec => []StartupInv
  <1>1. StartupInv /\ [StartupNext]_startup_vars => StartupInv'
    BY RunServersKeepsInv, OthersKeepInv
  <1>2. QED
    BY <1>1, InitStartupInv, PTL DEF StartupSpec

\* Every port that is chosen can be bound, whatever ports the settings give and
\* the system has left (_set_default_bind_port), for any number of servers.
THEOREM PortsAreBindable == StartupSpec => []StartupTypeOK
  <1>1. StartupInv => StartupTypeOK
    <2> SUFFICES ASSUME StartupInv
                 PROVE  StartupTypeOK
      OBVIOUS
    <2>1. Range(settings) \subseteq ServerSettings /\ Len(settings) <= Len(ServerPort)
      BY SettingsIs DEF StartupInv, Range, Servers
    <2>2. Range(redirects) \subseteq Redirection
      BY DEF StartupInv, Range
    <2>3. DOMAIN bind_port \in {{}, Servers} /\ \A i \in DOMAIN bind_port : bind_port[i] \in 1 .. MaxPort
      BY DEF StartupInv, PortsOK
    <2>4. QED
      BY <2>1, <2>2, <2>3 DEF StartupInv, SettingsOK, StartupTypeOK, Redirection
  <1>2. QED
    BY <1>1, StartupInvariant, PTL

\* The command line of the process has the port of every server that is to be
\* redirected and no other, for any number of servers.
THEOREM RedirectsAlwaysReach == StartupSpec => []RedirectsReachListeners
  <1>1. StartupInv => RedirectsReachListeners
    BY DEF StartupInv, GoodRedirects, RedirectsReachListeners
  <1>2. QED
    BY <1>1, StartupInvariant, PTL

\* Whatever the order of wide and other addresses, get_ebpf_program_run_args
\* refuses what does not go together.
THEOREM RedirectsAlwaysGoTogether == StartupSpec => []RedirectsGoTogether
  <1>1. StartupInv => RedirectsGoTogether
    BY DEF StartupInv, GoodRedirects, RedirectsGoTogether
  <1>2. QED
    BY <1>1, StartupInvariant, PTL
=============================================================================
