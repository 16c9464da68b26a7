# A verification of sqproxy

sqproxy stands between the players of a Source-engine game and the game server.
It asks the server for its status over UDP (A2S_INFO, A2S_PLAYERS, A2S_RULES),
keeps the answers, and answers clients from what it keeps; when the server stops
answering, it falls silent. The modules in this directory model the proxy's
logic, `*.cfg` are the TLC runs, `*Proofs.tla` hold the theorems, and
`PROJECT.json` says which definition stands for which lines of the source.
Paths below are relative to `source_query_proxy/`.

## The system

| Component | State | Operations | Talks to |
|---|---|---|---|
| `LastOkFailCounter` (proxy.py 68-101) | `_last_success_at`, `_fails_in_row`, `_fails_threshold_reached` | `ok`, `fail` | calls `_on_online`, `_on_offline`, which set `online` |
| update loops (proxy.py 233-310) | where each asyncio task is suspended, its socket, `resp_cache` | connect, exchange, store or count, sleep, retry | the game server, the counter, the cache |
| `send_recv_packet` (proxy.py 190-231) | the challenge sent last, the running timeout | send, receive, answer a challenge, time out | a connected socket |
| listener (proxy.py 149-177, 312-330) | the bound socket, `our_a2s_challenge` | bind, receive, `get_response_for`, send, retry | clients, `online`, `resp_cache` |
| `wait_ready`, `AwaitableDict` (proxy.py 28-65, 345-364) | futures in the place of cached values | swap, wait, cancel, swap back | the update loops through `resp_cache` |
| transport (transport.py) | the LRU cache of half received packets | `send_packet`, `handle_fragments`, `recv_packet`, `bind`, `connect` | UDP, the codec |
| message codec (source/messages.py) | the bound `minimum` of each repeated field, shared by all messages of a class | `encode`, `decode`, `decode_packet` | transport |
| startup and eBPF runner (`__main__.py`, epbf.py) | the running proxies, a child process | start, wait until ready, run | every proxy |
| configuration (config.py, dict_merge.py, utils.py) | merged settings | load, merge, validate | startup |
| statistics (stats.py) | two counts and a marker | `emit`, `count` | nothing |

Everything runs in one asyncio event loop. Code between two awaits is not
interrupted, so one action of a model is the code from one await to the next;
tasks interleave at the awaits. They share `resp_cache`, `online` and the
counter without locks. What is hard here is the network (loss, duplication,
reordering, delay of every datagram), the order in which three polling tasks
report to one counter, timers that race with answers, exceptions that leave a
round half way, and the exchange of `resp_cache` under running tasks. What makes
each part correct:

* counter: online and offline follow the results in their order, nothing skipped;
* update loops: no task ever ends, the cache never goes back in time, a dead
  server is noticed and a live one, too;
* exchange: it ends, with data no older than the request or with a failure, and
  challenges do not multiply;
* listener: answers never go back in time and are never empty, clients do get info,
  and those that go through the handshake get players (there is one number for all
  addresses, so that nothing can be promised of a single one that has sent it);
* `wait_ready`: the swap loses nothing, it returns, and "ready" means filled;
* transport: what comes out at the far end is one packet, whole and in order, and
  what can go wrong otherwise stays within bounds;
* codec: both ends read a message as what it is, whatever was read before, and
  nothing that lost its end is read as a message, unless no field reads what is missing;
* startup: players are redirected to proxies that are ready, to the right ports,
  and a failure is noticed;
* configuration: each option has the value of the right file, and no server is
  given what belongs to another by accident.

## The modules

| Module | Models |
|---|---|
| `Availability` | abstract: up from a success on, down from the Threshold-th miss in a row on |
| `LastOkFailCounter` | the counter and the `online` flag, implements `Availability` |
| `Updaters` | extends the counter: the update loops, the cache, the game server they ask |
| `QueryProxy` | extends `Updaters`: the listener and its clients, that is, the whole of class QueryProxy but for `wait_ready` |
| `FailedRequests` | `QueryProxy` with a history of how rounds ended |
| `ProxyClients` | `QueryProxy` with clients that ask again and again, for players with the number they were told |
| `ExchangeContract` | abstract: a round returns data of its own time or fails |
| `Exchange` | `send_recv_packet` over UDP with challenges and a timer, implements `ExchangeContract` |
| `SplitPacket` | `send_packet` |
| `Reassembly` | `handle_fragments` and its LRU cache, for a fragment that is decoded |
| `Transfer` | `SplitPacket` and `Reassembly` with senders and a network in between |
| `Codec` | fields, validators, messages and `decode_packet` over bytes |
| `Receive` | `Codec` and `Reassembly`: `recv_packet` of both ends, from datagram to message |
| `ResponseCache` | abstract: a map that only stores change |
| `WaitReady` | `wait_ready` and `AwaitableDict`, implements `ResponseCache` |
| `Config` | `load_configs` with `dict_merge`, and what parsing the servers does to an entrypoint |
| `Startup` | `_run_servers`, the choice of ports, the eBPF runner and its process |
| `MCTransfer`, `MCReceive`, `MCConfig`, `MCStartup` | constants for TLC that a cfg cannot write down |
| `Induction` | lemmas: least and greatest numbers, induction over numbers, functions defined by recursion, the order that sorts |
| `ProxyProofs` (of `LastOkFailCounter`, `Updaters`, `QueryProxy` and `FailedRequests`), `ExchangeProofs`, `TransferProofs`, `ReceiveProofs`, `WaitReadyProofs`, `ConfigProofs`, `StartupProofs` | theorems, see Proofs |

Definitions introduced by "Fault:" are mistakes the code does not make. No
specification uses them; each replaces one definition in turn to see that the
property it belongs to notices.

### Correspondence

**Counter.** `ok` and `fail` are the two methods with their callbacks; each takes
a reading of `time.monotonic()` no earlier than the last. The count is
unbounded in the code; here it stands still at `MaxFails`, which may not be below
the threshold: above the threshold the code compares the count for equality
only, so those values are alike. With such a clock the early returns of both methods
are never taken; they are modelled all the same.

**Update loops.** `pc[k]` is the await task k is suspended at: `connect` (making a
socket), `waiting` (inside `send_recv_packet`), `sleeping`, `backoff` (the pause
of a retry decorator). `replies[k]` holds the datagrams that may still arrive at
the socket the task has open; each has the version of the server's data it was
made from and what it is to the decoder (`response`, `unknown` for one that
decodes to None, `raises` for one that lets an exception out). `Receive` ends the
round: with `StoreAnswer`, which is `ok()` and the assignment to the cache, or with
`DecodeError`, which is neither. `TimedOut` is `fail()`. Both leave the `async
with`, which closes the socket: `CloseSocket`. The three loops differ only in the
request, so one set of actions with a parameter stands for them.

**Listener.** A request is any request of any address with any number at any time, which
covers loss, duplication, delay and reordering on the client's side, and the proxy's
own number from an address that never got it, as in `tests/test_proxy.py:262-272`. The checks of
`HandleRequest` and `get_response_for` run without an await and are one action;
`send_packet` may suspend and is another, so the response in `outgoing` can be
overtaken by updates. An exception may restart the listener wherever it awaits: `bind`,
`recv_packet` and `send_packet` (`ListenError`). Requests the listener ignores change
nothing and are no action. Clients that follow the protocol are in `ProxyClients`: those
in `told` were sent a challenge, and ask for players with it; nothing keeps others, or
the same ones, from asking in any other way in between.

**Exchange.** `requests` and `replies` are sets: order is lost by itself, loss is
a datagram never delivered, `Taken` may leave a copy behind, within `MaxCopies`. The
timer is counted in ticks; when it is at zero it may fire, and until it does an
answer may still win. The server's `number` may change under the client's feet.

**wait_ready.** A cache entry is a future: absent, pending, done or cancelled.
Pending ones are made by `get_wait` only. When the graceful period ends, `gather`
cancels its tasks and those cancel what they await at once (`TimerFires`);
`wait_ready` itself runs again later (`Unwind`), and stores may come in between.

**Transport.** `SplitPacket` counts bytes; a packet of more than 255 fragments is refused
before the first, since its count does not fit the byte of the header. `Reassembly` keeps the cache as a
sequence, the most recently used entry first; a look-up moves an entry to the
front and an insertion into a full cache drops the last. In `Transfer` a fragment's
content is the packet and the range of its bytes it carries, so that a joined packet can
be compared with the sent one. Its packets may come from several senders: their
numbers are drawn from those in use and one more, so two may coincide, as two draws of
`random.randint` may. Packets may need more fragments than the limit, which are trimmed.
`Sorted` says what the list is after `packet_fragments.sort`, not how it gets there.

**Codec.** A buffer is a sequence of bytes. A message is a list of fields with their
validators, in `Fields`; reading stops at the first field that is missing or invalid, and
says whether that makes the message broken (`BrokenMessageError`) or lets a `ValueError`
out. Of numbers of four bytes the package only ever compares the bytes it got, so
their bytes stand for them; numbers of two bytes have their sign and their bounds.
`decode_packet` is a fold over the classes of an end, in their order. What it reads does
not depend on anything but the bytes and `minimum`, the attribute that the list fields
leave behind: that is handed through as a parameter.

**Receive.** One action per kind of datagram: `ReceiveBroken` for a header that cannot
be read, `ReceiveWhole`, `ReceiveFragment`. Each runs to the end of `recv_packet`, that is,
through `handle_fragments`, decompression and `decode_packet`; there is no await in
between. `result` is what the call did: returned a message, returned nothing, raised, or
waits for more; where bz2 refuses what was joined, `parts` holds the fragments it was
joined from, so that this exception can be told from those of the decoder. Compression is the library's; the model only knows that data is
decompressed to what was compressed and that other data raises. What arrives is any
datagram of `Wire`, as often as it likes; `FragmentsAssumption` says of its fragments that
those of one number are pieces of one packet within the limit, all of them or only some
(module `Transfer` has the others), and `PacketsAssumption` that packets are made of bytes.

**Configuration.** A file is which options it gives, where, in which style; the value
of an option is the place it was written at, so an outcome says whose value won.
Options are the paths of leaves, which makes the recursive `dict_merge` one
override per option. One option has an identity besides: an entrypoint given as a
dictionary, which is one object for all servers that have it from the same defaults
unless `dict_merge` made a new one (`copied`). `ReadFile` is one turn of the loop of
`load_configs` with the defaults applied, `ReadFails` a turn that ends in KeyError or
ConfigurationError, `Merge` the second loop, `ParseServer` the validation of one server,
which formats the entrypoint in place (`formatted`). A KeyError comes from the old style
after a global default and from a section that has the mark but no `values` (style `bare`). Which files there are and what they
hold is any choice of `Contents`. The loops over files and over defaults are functions
defined by recursion, `after[n]` being what there is after n turns; so is the loop of
`get_ebpf_program_run_args` in `Startup`.

**Startup.** Code between awaits is one action, so `RunServers` parses the settings,
chooses all ports and starts all proxies, and `ParsingFails` is what is left when
`is_port_available` raises again. `redirection` is where the task of the
eBPF runner is suspended. Of the process the model keeps three things the code
tells apart: that it runs, that its stdout is open, and the exit code as asyncio
knows it, which `Reap` fills in some time after the exit. The stdout may be closed before
the exit or, by a child that still has it, after. Output that `readline` or `decode` refuses fails the
redirection (`OutputIsRefused`). `WaitReadyReturns` stands
for module `WaitReady`, whose run shows that it comes.

## The runs

| Run | Shows | Bounds |
|---|---|---|
| fails_in_a_row | a violation of the configuration's comment, see Findings | three tasks, threshold 2 |
| proxy | type with no empty response, `StatusFollowsCount`, `OnlineMeansServable`, `DownOnlyAfterFails`, `CacheNeverRegresses`, `ServedNeverRegresses`, and that the proxy implements `Availability` | two tasks, threshold 2, two readings of the clock, two versions, answers and exceptions, two in flight per socket; two clients and one with port 0 |
| proxy_live | `DownDetected`, `UpDetected`, `EveryTaskKeepsAsking`, `ClientsGetInfo`, `HandshakeCompletes` | two tasks, threshold 2, one client, answers and exceptions |
| exchange | `RoundsBounded`, `RoundEndsEventually`, implements `ExchangeContract` | two numbers, two changes and two copies per round, a timeout of two ticks, two versions, any number of rounds |
| split_loss | a violation, see Findings | the real sizes |
| transfer | `DatagramsFit`, `CacheConsistent` (with the types), `ReceivedIsSent`, and of what goes wrong beyond it `MixedOnlyBySharedId` | the real sizes; three packets, of one datagram, the most that two and three fragments hold, one whose last bytes are not sent, one over a limit of three, and one of more than 255 fragments; a cache of two |
| receive | `OwnMessagesAreRead`, `HistoryFree`, `OnlyWholeIsRead`, `OnlyTheseRaise` | every message of both ends, with and without what is optional in them, names of one letter, lists of up to two, an InfoResponse that goes on after its version, packets cut in three places, whole, in halves, compressed before and after the split; a limit of three, a cache of two |
| wait_ready | type, `FuturesConsistent`, `ReadyMeansFilled`, implements `ResponseCache`, `WaitReadyReturns` | three keys of which two are awaited, two values |
| config | type, `EffectiveValues`, `ForeignConfdirIsShared` | up to three files, two servers, one option that is a dictionary; every content in the current style, some in the old |
| config_local_defaults | a violation, see Findings | the same |
| config_shared_entrypoint | a violation, see Findings | the same |
| startup | `RedirectionWaits`, `RedirectsReachListeners`, `RedirectsGoTogether`, `RedirectionStarts`, `FailureIsNoticed` | up to three servers on two interfaces, the wide address or none, ports at both sides of 65535 |

Why these bounds suffice: a threshold of two is the least at which a single fail
and a fail in a row differ; regressing needs two versions and two datagrams on
one socket; the third update task runs the same code as the other two, and two
already interleave in all ways at the counter; a datagram that decodes to None
(`unknown`) takes the same steps as a response, so the runs leave it to the theorems; one change of the server's number
and one copy make every pair of overlapping challenges, and the run has two of
each; three files are two with global defaults and one to apply them to, or one
and a server named twice; options do not meet in `load_configs` and `dict_merge`, so the
one with an identity stands for all, and two servers are what it takes to share it; three
proxies are the fewest for which the wide address can come before and after another; an
LRU cache of two evicts with three packets under way; the loops of the codec treat all
entries of a list alike, so a first, a second and none suffice, and each datagram may
arrive again at any time, in any order, so a few of each kind are enough. The clock needs
two readings to tell a later from an equal one.

Every liveness property states its fairness in the specification: timers fire
(weak fairness: the event loop runs what is due); a socket can be made again and
again (strong: `connect` may fail, but not for ever); while the server is up a
proper answer is sent and received again and again (strong: UDP loses some, not
all). Nothing is assumed of the server when it is down. `ClientsGetInfo` has as
its premise that the server stays up and the listener is no longer taken down, since
nothing in the code bounds how often that happens; so has `HandshakeCompletes`
(`AllStaysUp`). A client's requests get through again and again (strong fairness, for
each client and each of its two questions): those for players carry the number only
once a challenge was sent to it. `RoundEndsEventually` assumes nothing of the
network; it holds because within a round the server's number changes at most
`MaxRotations` times, a bound of the model: against a server that changes it for
ever the loop of `send_recv_packet` has no end. In `Updaters` weak fairness of
`TimedOut` rests on it. The first part of `WaitReadyReturns` (a filled cache ends the
wait) needs no timer; the second names the timer as its premise. In `Startup` the event loop runs what is ready; of the
redirecting process nothing is assumed, not even that it ends, and `FailureIsNoticed`
begins when it has exited and nobody holds its stdout any more.

`Transfer` ends when its packets are sent, `Config` when the files are merged and
`Startup` when the program stops or has nothing left but to serve, so their runs do
not look for deadlock; all others do.

## Findings

* **Exceptions are not failures** (run fails_in_a_row). Only `TimeoutError`
  reaches `fail()`. A round that ends in another exception is retried and not
  counted, so the proxy stays online and serves old data however many requests
  fail that way. `examples/conf.d/00-globals.yaml`: "How many requests should fail
  in a row to mark server offline."
* **Large packets lose their end** (split_loss). `fragment_count` divides by the
  datagram size, but fragments carry twelve bytes less. From 2377 to 2400 bytes,
  3565 to 3600 and so on, the last bytes are never sent. `WhatIsLost` says which
  lengths do not fit, `ReceivedIsSent` that all that was sent arrives.
* **Local defaults do not override global ones** (config_local_defaults).
  `_apply_defaults` keeps what is set, and the global defaults come first. The
  comment at the head of `examples/conf.d/00-globals.yaml` promises the opposite. A
  value in the `servers` section is lost the same way when a later file names that server
  again: that file's entry is filled with the global default and merged on top.
* **CONFDIR of another server** (config_shared_entrypoint). An entrypoint dictionary in a
  global default is one object for all servers that take it from there, and its path is
  formatted in place: the first server parsed puts its CONFDIR there, and the
  others get that. `examples/conf.d/02-hlds-game.yaml` says that CONFDIR is that of the last
  configuration file. It takes two files in different directories, that is, one in each
  of the two that `iter_config_files` looks at. `ForeignConfdirIsShared` says that it takes
  nothing less than a shared dictionary.

Remarks that no run carries, since no document says otherwise; where a property is
named, it is stated so as to allow for this and nothing more:

* The timeout of `send_recv_packet` starts again with each challenge, so a call may
  outlast it; and its `new_challenge`, which the docstring says is None if not
  present, is then the request's own -1.
* The eBPF process' exit code is read at the end of stdout without waiting for the process.
  Until asyncio has reaped it the code is None, so an exit with 0 may raise, too, and
  take every proxy down (`FailureIsNoticed` asks only for the converse).
* A packet that was compressed as a whole and then split, as the protocol has it, raises:
  each fragment is decompressed by itself (`OnlyTheseRaise`).
* Fragments of two clients that use one `message_id` at the same time are joined to one
  packet: the cache is keyed by the number alone (`MixedOnlyBySharedId`). Of a packet over
  the limit the first fragments to arrive are joined, not the first of the packet.
* Whoever sends the challenge number is answered, whether or not it was told to that
  address: there is one number for all, for as long as the process runs.
* When a child of the eBPF process keeps its stdout open, the exit is not noticed until
  it is closed.
* `PlayerEntry` is a class with the header of a packet, so encoding a list of players would put
  a header before each of them; and the bound `minimum` of an empty list stays that of the
  message before in `encode`. Nothing in the package encodes a list.
* A `rule_count` of 32768 or more is read as negative, hence as an empty list.

## Proofs

The theorems hold for every value of the constants that satisfies the named
assumption of the module; none of them depends on a bound of a run, since even
the bounds of the models (`MaxVersion`, `MaxCopies`, ...) are arbitrary there. Each is
proved from an invariant that steps preserve, listed with the reason why the
property alone is not enough.

| Theorems | From | Inductive invariant, and why |
|---|---|---|
| `CounterInvariant`, `StatusCorrect`, `CounterImplementsAvailability` | `CounterAssumption` | `CounterInv`: types, `StatusFollowsCount`, and that the last success is not in the future: a counter that drops a result would not implement `Availability` |
| `UpdatersImplementCounter`, `UpdatersImplementAvailability` | `CounterAssumption` | none of its own: every step of the loops is a step of the counter or leaves it alone, so the counter's theorem carries over |
| `UpdatersInvariant`, `CacheMonotone`, `OnlineIsServable` | `NoEntryAssumption`, `CounterAssumption` | `CacheInv`: types of the tasks and `RepliesNotOlder`. That the cache never regresses is a fact about what is still in flight, not about the cache |
| `DownOnlyWhenUnanswered` | `NoEntryAssumption`, `CounterAssumption` | `MissInv` on top of `CounterInv`: the counter's count is never ahead of the rounds that went unanswered, though it may be behind, since exceptions are rounds it never hears of. The history that counts them leaves the proxy alone (`FailedRequestsImplementProxy`) |
| `ProxyImplementsUpdaters` | none | none of its own: what the listener does leaves the update loops alone |
| `ProxyInvariant`, `ServedMonotone` | `QueryProxyAssumption` and those of `Updaters` | `ListenerTypeOK`, and `ServedInv`: what was served is not beyond what is being sent, which is not beyond what is cached |
| `ExchangeKeepsContract`, `ExchangeTypes` | `ExchangeAssumption` | `FreshInv`: all that is in flight was made in this round, because closing the socket empties it |
| `SendsAreBounded` | `ExchangeAssumption` | `TokenInv`: the requests sent and those the datagrams in flight can still cause stay within the bound. The bound alone says nothing of what is in flight |
| `DatagramsAlwaysFit`, `ExactlyTheseBytes`, `WhatIsLost` | `SplitAssumption` | `SplitInv`: the bytes on the wire as a function of the fragments sent |
| `CacheAlwaysConsistent` | `SplitAssumption`, `ReassemblyAssumption`, `TransferAssumption` | `TransferInv`: `SplitInv`, the types, and that every entry of the cache is one of the fragments sent. What a fragment does to the cache is split by place: the touched entry in front (`LookedUp`, `KnownIsOwn`), the others behind it (`OthersAreOthers`, `TouchedIs`), then popped or kept (`NextCacheInOrder`) |
| `ReceivedAlwaysIsSent`, `OnlyMixedBySharedId` | the same | `ResultInv`: `TransferInv`, what is on the wire of each packet (`WireInv`: the fragments number 0 to `fragment_count` - 1, each with its range of bytes), and what that makes of the packet received last. That enough fragments are all fragments is counting: so many different numbers below `fragment_count` are all of them (`AllOfThem`), and in their order the ranges follow one another. Of a sort the proof uses only that it exists (`SortingOrderExists`, by induction over the number of elements) and what `Sorted` says |
| `ReadsForgetHistory`, `NothingElseRaises` | none | `ReceiveInv`: an end keeps its classes, and the result is that of `decode_packet` as if nothing had been decoded before (`Accounted`), or there are fragments that bz2 refuses. The rest is about reading: of `Message.decode`, by induction over the fields, that it keeps the shape of its state (`DecodeKeepsState`), that two reads with different bounds agree (`DecodeForgets`) and that a class without an enum never raises; of `decode_packet` the same from class to class (`ReadingForgets`, `ReadingRaises`). Of the bytes nothing is assumed |
| `OwnMessagesAlwaysRead` | `MessagesAssumption` | `ReceiveInv`. What each request and the challenge are encoded to is worked out (`OwnBytes`), and that their class reads it back to the values (`OwnMessageBegins`); the classes before it in their order break, by the tag or, an InfoRequest read as InfoRequestV2, for want of a challenge (`OwnMessageIsReturned`). That is also why the InfoRequestV2 without a challenge, which begins each round of `_update_info`, is read as InfoRequest: it has the same bytes (`ReadAs`). The messages may have any numbers of four bytes and any payload of ASCII without NUL |
| `OnlyWholeAlwaysRead` | `ReassemblyAssumption`, `FragmentsAssumption`, `PacketsAssumption` | `ReceiveInv` and `CacheInv`: each entry of the cache holds different fragments of one packet and waits for as many as that has (`Good`), so that, as in `Transfer`, enough are all and sorting puts each in its place (`JoinedIs`). That the property alone is not inductive is the cache: what is joined came in steps before. For the end that is lost a packet and the one that goes on are decoded side by side (`IsLonger`): whatever class reads the first reads the same of the second, over fields, entries and lists (`FieldGoesOn`, `EntriesGoOn`, `ResponseGoesOn`), and leaves all that the first lacks |
| `WaitTypes`, `FuturesStayConsistent`, `ReadyIsFilled`, `WaitImplementsResponseCache` | `WaitReadyAssumption` | `WaitInv`: which futures may be in which state while `wait_ready` is where it is, and which task owns which |
| `RedirectionAlwaysWaits` | none | `WaitInv` of `StartupProofs`: no redirection while waiting, and all ready once there is one |
| `PortsAreBindable`, `RedirectsAlwaysReach`, `RedirectsAlwaysGoTogether` | `StartupAssumption` | `StartupInv`: the types, and that the redirections are those the loop of `get_ebpf_program_run_args` makes. Of the loop, `LoopInv` says what holds after i turns: whether the arguments are wide is decided by the first server, and a later wide one ends in an exception |
| `LastFileAlwaysWins`, `OnlySharedConfdirIsForeign`, `ConfigIsTypeCorrect` | `ConfigAssumption`, `ContentsAssumption` | `ConfigInv` of three parts. `ReadInv`: each file's servers have each option from the least of those who give it, the server itself before the files with defaults (`Has`), because the global defaults are in the order of their files (`GlobalsOK`). `MergedInv`: after n turns of the second loop each option is from the last file that knows it (`HasMerged`, `MergedOK`), and one that `dict_merge` has not copied is from one place only. `ParseInv`: a foreign directory comes from a server with the same, shared entrypoint |

Loops are functions defined by recursion, and what they compute is proved by
induction over the number of turns. The library's induction theorems take an operator as
parameter, which the provers cannot instantiate, so `Induction` states induction over sets
of numbers (`NatInduct`, `IntervalInduct`, from the well-foundedness of <) and proves that
a function with the recursive equation exists (`RecursionExists`): the CHOOSE that such a
definition stands for is then one, and has the equation.

Only model-checked: everything that needs fairness or ENABLED (`DownDetected`,
`UpDetected`, `EveryTaskKeepsAsking`, `ClientsGetInfo`, `HandshakeCompletes`,
`RoundEndsEventually`, `WaitReadyReturns`, `RedirectionStarts`, `FailureIsNoticed`). Every safety property of a
passing run has a theorem. What no theorem says: that the values read of a list are those
it was made from, since nothing in the package encodes one.

## Plan

1. Done: the core (counter, loops, listener, exchange, transport, `wait_ready`,
   configuration, startup), and its proofs.
2. Done: the codec and `recv_packet` over bytes, compressed fragments, several senders
   under one `message_id`, packets over the limit, the identity of default entrypoints;
   `DownOnlyAfterFails` and the cache of fragments proved.
3. Done: what is received, the merged configuration and the redirections, proved for
   packets, files and servers of any number; what a packet is read as and what raises,
   proved for any datagrams; that own messages are read back and that neither what is
   joined nor what is cut is taken for another packet.
4. Left: the composition of `Exchange` with `Updaters`, so that a round of `Updaters`
   is one of `ExchangeContract`, and of `WaitReady` with `Startup`. Today each stands
   for the other through its contract: `StoreAnswer` may store any version since the
   socket was opened, which is what `ExchangeContract` promises, and `WaitReadyReturns` of
   `Startup` is the liveness that the run of `WaitReady` shows.

## Not modelled

Of the codec: the encoding of lists, `all()` and `at_least()`, the messages of the master
server, the names and the comparison of platforms and server types, none of which the
package uses. The statistics: a class that nothing in the package
instantiates. The command line, logging, `ebpf_template.py` and the unfinished `compile.py`
hold no state of the proxy. Of the configuration: the validators other than those of ports
and the entrypoint, the import of entrypoints, the environment, files that do not
hold a mapping, and a section that is a dictionary in one place and something else in
another (`network: null` replaces the whole section, where the model's options are
only ever given or not); of the startup, the pid file. Text beyond ASCII that is valid UTF-8
is kept by the code and dropped by `Utf8Ignore`; no property is about such text, and the
theorems that compare texts assume ASCII.
