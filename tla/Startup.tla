------------------------------- MODULE Startup ------------------------------
(***************************************************************************)
(* _run_servers (__main__.py) with the ports the settings choose           *)
(* (config.py, utils.py) and the task that runs the eBPF redirection       *)
(* (epbf.py): all proxies run from the beginning, the redirection starts   *)
(* when each of them has returned from wait_ready, and an exception of any *)
(* future of the last gather ends the program.                             *)
(***************************************************************************)
EXTENDS Integers, SequencesExt

CONSTANTS
  ServerPort,   \* server_port of each server, in the order of the settings
  Interfaces,   \* network interfaces
  Wide,         \* the bind_ip 0.0.0.0
  Unknown,      \* a bind_ip no interface has; an exit code not known
  BindPorts,    \* bind_port as configured, 0 for automatic
  Ephemeral,    \* ports the system hands out
  ExitCodes     \* of the redirecting process

MaxPort == 65535

ASSUME StartupAssumption ==
  /\ ServerPort \in Seq(1 .. MaxPort)
  /\ Wide \notin Interfaces
  /\ Unknown \notin Interfaces \union {Wide} \union ExitCodes
  /\ BindPorts \subseteq 0 .. MaxPort
  /\ Ephemeral \subseteq 1 .. MaxPort
  /\ 0 \in ExitCodes

VARIABLES
  settings,      \* the network settings of each server
  ebpf_enabled,
  main,          \* where _run_servers is
  bind_port,     \* server -> the port chosen for it
  ready,         \* servers whose wait_ready has returned
  redirection,   \* where run_ebpf_redirection is
  redirects,     \* the redirections on the command line of the process
  process,       \* the process: none, running, exited
  exit_code,     \* what it exited with
  stdout_open,
  returncode     \* exit_code as far as asyncio knows it

main_vars == <<settings, ebpf_enabled, main, bind_port, ready>>
process_vars == <<process, exit_code, stdout_open, returncode>>
startup_vars == <<main_vars, redirection, redirects, process_vars>>

Servers == DOMAIN settings
ServerSettings == [bind_ip : Interfaces \union {Wide, Unknown}, bind_port : BindPorts,
                   ebpf_no_redirect : BOOLEAN]

\* An address is known by the interface that has it.
StartupInit ==
  /\ \E n \in 0 .. Len(ServerPort) : settings \in [1 .. n -> ServerSettings]
  /\ ebpf_enabled \in BOOLEAN
  /\ main = "starting"
  /\ bind_port = <<>>
  /\ ready = {}
  /\ redirection = "none"
  /\ redirects = <<>>
  /\ process = "none"
  /\ exit_code = Unknown
  /\ stdout_open = TRUE
  /\ returncode = Unknown

-----------------------------------------------------------------------------
\* Fault: the range is not looked at.
is_any_port_available(port) == BOOLEAN

\* A port out of range is not available, any other may be taken.  (Other errors:
\* ParsingFails.)
is_port_available(port) == IF port <= MaxPort THEN BOOLEAN ELSE {FALSE}

get_available_port == Ephemeral

\* _set_default_bind_port: the pretty port if it is free, else one the system
\* hands out.  None of them is held until the proxy binds it.
PortsFor(i) ==
  LET pretty == ServerPort[i] + 800 IN
  IF settings[i].bind_port # 0 THEN {settings[i].bind_port}
  ELSE UNION {IF free THEN {pretty} ELSE get_available_port : free \in is_port_available(pretty)}

\* _run_servers up to its first await.  The settings are parsed here, once.
RunServers ==
  /\ main = "starting"
  /\ IF settings = <<>>
     THEN main' = "returned" /\ UNCHANGED bind_port
     ELSE /\ main' = IF ebpf_enabled THEN "waiting" ELSE "gathering"
          /\ bind_port' \in {ports \in [Servers -> UNION {PortsFor(i) : i \in Servers}] :
                               \A i \in Servers : ports[i] \in PortsFor(i)}
  /\ UNCHANGED <<settings, ebpf_enabled, ready, redirection, redirects, process_vars>>

\* Of what bind raises, only a taken port and one out of range are answers: anything
\* else, as a port that is not permitted, leaves the parsing of the settings.
ParsingFails ==
  /\ main = "starting"
  /\ \E i \in Servers : settings[i].bind_port = 0
  /\ main' = "raised"
  /\ UNCHANGED <<settings, ebpf_enabled, bind_port, ready, redirection, redirects, process_vars>>

\* wait_ready of one proxy returns, as module WaitReady says it does.
WaitReadyReturns(i) ==
  /\ main = "waiting"
  /\ i \notin ready
  /\ ready' = ready \union {i}
  /\ UNCHANGED <<settings, ebpf_enabled, main, bind_port, redirection, redirects, process_vars>>

\* Fault: the first is enough.
AnyReady == ready # {}

AllReady == ready = Servers

\* gather returns; the redirection becomes one of the futures.
GatherReady ==
  /\ main = "waiting"
  /\ AllReady
  /\ main' = "gathering"
  /\ redirection' = "created"
  /\ UNCHANGED <<settings, ebpf_enabled, bind_port, ready, redirects, process_vars>>

\* Fault: gather is told to return exceptions.
GatherReturnsExceptions ==
  /\ main = "gathering"
  /\ redirection = "failed"
  /\ UNCHANGED startup_vars

\* An exception of the redirection leaves gather and main(), and asyncio
\* cancels the proxies.
GatherRaises ==
  /\ main = "gathering"
  /\ redirection = "failed"
  /\ main' = "raised"
  /\ UNCHANGED <<settings, ebpf_enabled, bind_port, ready, redirection, redirects, process_vars>>

\* Ctrl-C, at any time
Interrupted ==
  /\ main \in {"waiting", "gathering"}
  /\ main' = "stopped"
  /\ UNCHANGED <<settings, ebpf_enabled, bind_port, ready, redirection, redirects, process_vars>>

-----------------------------------------------------------------------------
\* Fault: the settings are parsed again and choose again.
PortParsedAgain(i) == Max(PortsFor(i))

PortOf(i) == bind_port[i]

\* Fault: is_wide is that of this server alone.
IsWideHere(args, i) == settings[i].bind_ip = Wide

IsWide(args, i) == args.is_wide \/ settings[i].bind_ip = Wide

\* _get_addr_interface; none for the wide address or one no interface has
server_interface(i) == IF settings[i].bind_ip = Wide THEN Unknown ELSE settings[i].bind_ip

\* One turn of the loop of get_ebpf_program_run_args
AddServer(args, i) ==
  LET is_wide == IsWide(args, i)
      interface == IF args.interface = Unknown THEN server_interface(i) ELSE args.interface
  IN
  IF args.failed \/ settings[i].bind_ip = Unknown \/ server_interface(i) # interface
  THEN [args EXCEPT !.failed = TRUE]
  ELSE [failed |-> FALSE,
        is_wide |-> is_wide,
        interface |-> interface,
        redirects |->
          IF settings[i].ebpf_no_redirect THEN args.redirects
          ELSE Append(args.redirects, [server |-> i, with_ip |-> ~is_wide, port |-> PortOf(i)])]

get_ebpf_program_run_args ==
  LET after[i \in 0 .. Len(settings)] ==
        IF i = 0
        THEN [failed |-> FALSE, is_wide |-> FALSE, interface |-> Unknown, redirects |-> <<>>]
        ELSE AddServer(after[i - 1], i)
  IN after[Len(settings)]

\* run_ebpf_redirection up to create_subprocess_exec
RunRedirection ==
  /\ main = "gathering"
  /\ redirection = "created"
  /\ IF get_ebpf_program_run_args.failed
     THEN redirection' = "failed" /\ UNCHANGED redirects
     ELSE redirection' = "spawning" /\ redirects' = get_ebpf_program_run_args.redirects
  /\ UNCHANGED <<main_vars, process_vars>>

Spawned ==
  /\ main = "gathering"
  /\ redirection = "spawning"
  /\ redirection' = "reading"
  /\ process' = "running"
  /\ UNCHANGED <<main_vars, redirects, exit_code, stdout_open, returncode>>

SpawnFails ==
  /\ main = "gathering"
  /\ redirection = "spawning"
  /\ redirection' = "failed"
  /\ UNCHANGED <<main_vars, redirects, process_vars>>

\* Fault: only an exit code that is known is looked at.
ExitUnseen == returncode \in {0, Unknown}

ExitOk == returncode = 0

\* The loop breaks at the end of stdout and returncode is read, whether or not
\* the process has been waited for.
EndOfOutput ==
  /\ main = "gathering"
  /\ redirection = "reading"
  /\ ~stdout_open
  /\ redirection' = IF ExitOk THEN "returned" ELSE "failed"
  /\ UNCHANGED <<main_vars, redirects, process_vars>>

\* readline raises for a line that is too long, decode for one that is not UTF-8.
OutputIsRefused ==
  /\ main = "gathering"
  /\ redirection = "reading"
  /\ redirection' = "failed"
  /\ UNCHANGED <<main_vars, redirects, process_vars>>

-----------------------------------------------------------------------------
\* The process may close its stdout before it exits; and its children, which have it
\* as well, after that.
CloseStdout ==
  /\ process # "none"
  /\ stdout_open
  /\ stdout_open' = FALSE
  /\ UNCHANGED <<main_vars, redirection, redirects, process, exit_code, returncode>>

Exit ==
  /\ process = "running"
  /\ process' = "exited"
  /\ exit_code' \in ExitCodes
  /\ stdout_open' \in {stdout_open, FALSE}
  /\ UNCHANGED <<main_vars, redirection, redirects, returncode>>

\* The event loop learns of the exit, in a callback of its own.
Reap ==
  /\ process = "exited"
  /\ returncode = Unknown
  /\ returncode' = exit_code
  /\ UNCHANGED <<main_vars, redirection, redirects, process, exit_code, stdout_open>>

StartupNext ==
  \/ RunServers
  \/ ParsingFails
  \/ \E i \in Servers : WaitReadyReturns(i)
  \/ GatherReady
  \/ GatherRaises
  \/ Interrupted
  \/ RunRedirection
  \/ Spawned
  \/ SpawnFails
  \/ EndOfOutput
  \/ OutputIsRefused
  \/ CloseStdout
  \/ Exit
  \/ Reap

StartupSpec == StartupInit /\ [][StartupNext]_startup_vars

\* The event loop runs what is ready; of the process nothing is assumed.
FairStartupSpec ==
  /\ StartupSpec
  /\ WF_startup_vars(RunServers)
  /\ \A i \in DOMAIN ServerPort : WF_startup_vars(i \in Servers /\ WaitReadyReturns(i))
  /\ WF_startup_vars(GatherReady)
  /\ WF_startup_vars(GatherRaises)
  /\ WF_startup_vars(RunRedirection)
  /\ WF_startup_vars(Spawned \/ SpawnFails)
  /\ WF_startup_vars(EndOfOutput)

-----------------------------------------------------------------------------
\* A port that was chosen can be bound: it is neither 0 nor out of range.
StartupTypeOK ==
  /\ Len(settings) <= Len(ServerPort)
  /\ Range(settings) \subseteq ServerSettings
  /\ ebpf_enabled \in BOOLEAN
  /\ main \in {"starting", "waiting", "gathering", "returned", "raised", "stopped"}
  /\ DOMAIN bind_port \in {{}, Servers}
  /\ \A i \in DOMAIN bind_port : bind_port[i] \in 1 .. MaxPort
  /\ ready \subseteq Servers
  /\ redirection \in {"none", "created", "spawning", "reading", "returned", "failed"}
  /\ Range(redirects) \subseteq [server : Servers, with_ip : BOOLEAN, port : 1 .. MaxPort]
  /\ process \in {"none", "running", "exited"}
  /\ exit_code \in ExitCodes \union {Unknown}
  /\ stdout_open \in BOOLEAN
  /\ returncode \in {exit_code, Unknown}

\* No player is redirected to a proxy that is still starting: the process runs
\* only when every proxy has got its responses or has given up waiting for them.
RedirectionWaits == process # "none" => ready = Servers

\* Queries to a server are redirected to the port its own proxy was given, for
\* every server but those that are not to be redirected.
RedirectsReachListeners ==
  process # "none" =>
    {<<r.server, r.port>> : r \in Range(redirects)} =
      {<<i, bind_port[i]>> : i \in {j \in Servers : ~settings[j].ebpf_no_redirect}}

\* The process is never given redirections that do not go together: addresses of
\* two interfaces, or some with an address and some without.
RedirectsGoTogether ==
  process # "none" =>
    /\ \A i, j \in Servers : {settings[i].bind_ip, settings[j].bind_ip} \subseteq Interfaces
                               => settings[i].bind_ip = settings[j].bind_ip
    /\ \A r, q \in Range(redirects) : r.with_ip = q.with_ip

\* Proxies that run with redirection enabled get it in the end, or the program
\* does not go on.
RedirectionStarts ==
  main = "waiting" ~> (process # "none" \/ main \in {"raised", "stopped"})

\* When the process fails the program ends: proxies do not go on without players.
\* (Not before its stdout is closed: a child that still has it hides the exit.)
FailureIsNoticed ==
  (process = "exited" /\ exit_code # 0 /\ ~stdout_open) ~> main \in {"raised", "stopped"}
=============================================================================
