-------------------------------- MODULE Startup -------------------------------
(***************************************************************************)
(* From a command line and a configuration file to a running context:      *)
(* flag_reader.rs, config_reader.rs, initialize_system and the             *)
(* installation of pipelines (scheduler/context.rs), and the creation and  *)
(* drop of ports (interface/port/phy_port.rs, native/pmd.c).  Any step can *)
(* fail; the context built so far is then dropped.  A port lives as long   *)
(* as a reference to it is counted: the context has one, and so has each   *)
(* of its queues, which live in CacheAligned boxes.                        *)
(***************************************************************************)
EXTENDS Integers, Sequences, FiniteSets, FiniteSetsExt, Functions

CONSTANTS
  Cores,      \* cores that a configuration may name
  NotInteger, \* an element of an array that is no integer
  Backend,    \* what the name of a port selects: "bess", "ovs", "dpdk", "null" or
              \* "pci", and "bare" for "bess", "ovs" or "dpdk" without a ":"
  MaxQueues   \* queues of one direction that a device may have

Names == DOMAIN Backend

ASSUME BackendAssumption ==
  Backend \in [Names -> {"bess", "ovs", "dpdk", "null", "pci", "bare"}]
ASSUME MaxQueuesAssumption == MaxQueues \subseteq Nat
ASSUME CoresAssumption == NotInteger \notin Cores

\* The TOML values: items has the elements of an array or the integer itself.
Absent == [is |-> "absent", items |-> <<>>]
Other == [is |-> "other", items |-> <<>>]
Array(s) == [is |-> "array", items |-> s]
Integer(c) == [is |-> "integer", items |-> <<c>>]

VARIABLES
  command,       \* the flags; f holds the parsed TOML file, if one is named
  pc, port, rx_q,
  configuration,
  ports,         \* ctx.ports
  rx_queues,     \* ctx.rx_queues, by core
  active_cores,  \* ctx.active_cores
  device,        \* the state of the device or ring behind each name
  arcs,          \* counted references to the PmdPort of each name
  polled         \* the queues that threads poll: <<core, name, queue>>

ctx == <<ports, rx_queues, active_cores>>
shared == <<device, arcs, polled>>
vars == <<command, pc, port, rx_q, configuration, ports, rx_queues, active_cores, device, arcs,
          polled>>

NoConfiguration == [name |-> "", cores |-> <<>>, strict |-> FALSE, ports |-> <<>>]
\* HashMap::insert
Inserted(map, key, value) == [k \in DOMAIN map \cup {key} |-> IF k = key THEN value ELSE map[k]]

NoPorts == [n \in {} |-> n]
NoQueues == [c \in {} |-> <<>>]

InitFor(commands) ==
  /\ command \in commands
  /\ pc = "read" /\ port = 1 /\ rx_q = 0 /\ configuration = NoConfiguration
  /\ ports = NoPorts /\ rx_queues = NoQueues /\ active_cores = {}
  /\ device = [n \in Names |-> "detached"] /\ arcs = [n \in Names |-> 0] /\ polled = {}

-----------------------------------------------------------------------------
(* The configuration file *)

Err == [ok |-> FALSE]
Ok(v) == [ok |-> TRUE, value |-> v]

\* A value of another type gives no queue at all, an element of another type an error.
read_queue(queue) ==
  IF queue.is = "array" /\ \E i \in DOMAIN queue.items : queue.items[i] \notin Cores
  THEN Err ELSE Ok(queue.items)

\* settings stands for rxd, txd, loopback, tso and checksum: all of their type or
\* absent, or not.
read_port(p) ==
  LET symmetric_queue == p.cores # Absent
      rx == read_queue(IF symmetric_queue THEN p.cores ELSE p.rx_cores)
      tx == IF symmetric_queue THEN rx ELSE read_queue(p.tx_cores)
  IN
  IF \/ p.name \notin Names \/ p.settings = "bad"
     \/ symmetric_queue /\ (p.rx_cores # Absent \/ p.tx_cores # Absent)
     \/ ~ rx.ok \/ ~ tx.ok
  THEN Err
  ELSE Ok([name |-> p.name, rx_queues |-> rx.value, tx_queues |-> tx.value])

\* settings: whether the file can be read, master_core, pool_size, cache_size,
\* secondary and the type of ports.
Parsed(d) ==
  LET pouts == [i \in DOMAIN d.ports |-> read_port(d.ports[i])] IN
  IF \/ d.name = "bad" \/ d.settings = "bad" \/ d.strict = "bad"
     \/ d.cores.is \notin {"absent", "array"} \/ ~ read_queue(d.cores).ok
     \/ \E i \in DOMAIN pouts : ~ pouts[i].ok
  THEN Err
  ELSE Ok([name |-> IF d.name = "absent" THEN "zcsi" ELSE d.name,
           cores |-> d.cores.items, strict |-> d.strict = "true",
           ports |-> [i \in DOMAIN pouts |-> pouts[i].value]])

\* Without -f, NetbricksConfiguration::new_with_name.
read_configuration ==
  IF command.f # <<>> THEN Parsed(command.f[1])
  ELSE Ok([NoConfiguration EXCEPT !.name = IF command.n = "absent" THEN "recv" ELSE command.n])

\* The cores given in the same place as a port, for as long as both lists last.
extract_cores_for_port ==
  LET pairs == [i \in 1 .. Min({Len(command.p), Len(command.c)}) |-> <<command.p[i], command.c[i]>>]
      Of(n) == SelectSeq(pairs, LAMBDA x : x[1] = n)
  IN [n \in {x[1] : x \in Range(pairs)} |-> [i \in DOMAIN Of(n) |-> Of(n)[i][2]]]

new_with_queues(name, queues) == [name |-> name, rx_queues |-> queues, tx_queues |-> queues]

\* The configuration once the flags have been applied.  With -c it has exactly the
\* ports given by -p, in the order of a hash map.  --primary, --secondary and the core
\* of -m only matter to DPDK.
Overridden(base, order) ==
  LET strict == base.strict \/ command.m = "ok" IN
  IF command.c = <<>> THEN [base EXCEPT !.strict = strict]
  ELSE [base EXCEPT !.strict = strict, !.cores = command.c,
          !.ports = [i \in DOMAIN order |->
                       new_with_queues(order[i], extract_cores_for_port[order[i]])]]

read_matches ==
  /\ pc = "read"
  /\ \/ command.help /\ pc' = "done" /\ UNCHANGED configuration
     \/ /\ ~ command.help /\ ~ read_configuration.ok
        /\ pc' = "error" /\ UNCHANGED configuration
     \/ /\ ~ command.help /\ read_configuration.ok
        /\ command.m = "bad" \/ NotInteger \in Range(command.c)
        /\ pc' = "panicked" /\ UNCHANGED configuration
     \/ /\ ~ command.help /\ read_configuration.ok
        /\ command.m # "bad" /\ NotInteger \notin Range(command.c)
        /\ LET names == DOMAIN extract_cores_for_port IN
           \E order \in Injection(1 .. Cardinality(names), names) :
             configuration' = Overridden(read_configuration.value, order)
        /\ pc' = "init"
  /\ UNCHANGED <<command, port, rx_q>> /\ UNCHANGED ctx /\ UNCHANGED shared

-----------------------------------------------------------------------------
(* Ports *)

\* PmdPort::drop
Dropped(p, state) == IF p.connected /\ p.should_close THEN "closed" ELSE state

\* Faulty variant: dropping a box drops its content, as Box does.
DropContent(boxes) == boxes

\* The references given back when CacheAligned boxes of queues are dropped: that frees
\* their memory and does not drop the content, and a PortQueue keeps its port.
CacheAlignedDrop(boxes) == 0

\* The references counted when boxes are cloned: that copies the bytes of the content.
CacheAlignedClone(boxes) == 0

\* The queues of port n on cores cs.
Boxes(n, cs) ==
  FoldSet(LAMBDA c, sum : sum + Len(SelectSeq(rx_queues[c], LAMBDA q : q[1] = n)), 0, cs)

\* The context goes away: its references to ports first, then the boxes of its queues.
\* The port whose last reference goes is dropped.
Leave(how, devices) ==
  LET left == [n \in Names |->
                 IF n \in DOMAIN ports
                 THEN arcs[n] - 1 - CacheAlignedDrop(Boxes(n, DOMAIN rx_queues))
                 ELSE arcs[n]]
  IN
  /\ pc' = how /\ arcs' = left
  /\ device' = [n \in Names |-> IF n \in DOMAIN ports /\ left[n] <= 0
                                THEN Dropped(ports[n], devices[n]) ELSE devices[n]]
  /\ ports' = NoPorts /\ rx_queues' = NoQueues
  /\ UNCHANGED <<command, port, rx_q, configuration, active_cores, polled>>

\* Without a name, and whenever DPDK cannot be initialized, the process panics.
init_system ==
  /\ pc = "init"
  /\ \/ Leave("panicked", device)
     \/ /\ configuration.name # ""
        /\ pc' = "ports"
        /\ UNCHANGED <<command, port, rx_q, configuration>>
        /\ UNCHANGED ctx /\ UNCHANGED shared

Port == configuration.ports[port]

Opened(p, state) ==
  /\ ports' = Inserted(ports, Port.name, p)
  /\ device' = [device EXCEPT ![Port.name] = state]
  /\ arcs' = [arcs EXCEPT ![Port.name] = 1]
  /\ pc' = "queues" /\ rx_q' = 0
  /\ UNCHANGED <<command, port, configuration, rx_queues, active_cores, polled>>

\* What init_pmd_port may leave behind: no such device, a failure after the device
\* was configured, or success.
init_pmd_port == {"attached", "configured", "started"}

\* The port has no more queues than its device, the counters as many as asked for.
init_dpdk_port(max_rxqs, max_txqs) ==
  LET rxqs == Len(Port.rx_queues)
      txqs == Len(Port.tx_queues)
  IN
  \E state \in init_pmd_port :
    IF state = "started"
    THEN Opened([connected |-> TRUE, should_close |-> TRUE,
                 rxqs |-> Min({max_rxqs, rxqs}), txqs |-> Min({max_txqs, txqs}),
                 stats_rx |-> rxqs, stats_tx |-> txqs], state)
    ELSE Leave("error", [device EXCEPT ![Port.name] = state])

new_dpdk_port ==
  \/ Leave("error", device)       \* attach_pmd_device found no device
  \/ \E max_rxqs, max_txqs \in MaxQueues : init_dpdk_port(max_rxqs, max_txqs)

\* Rings of BESS and OVS are opened for the core of the first receive queue.
RingPort ==
  IF Port.rx_queues = <<>> THEN Leave("panicked", device)
  ELSE \/ Leave("error", device)
       \/ Opened([connected |-> TRUE, should_close |-> FALSE, rxqs |-> 1, txqs |-> 1,
                  stats_rx |-> 1, stats_tx |-> 1], "started")

null_port ==
  Opened([connected |-> FALSE, should_close |-> FALSE, rxqs |-> 0, txqs |-> 0,
          stats_rx |-> 1, stats_tx |-> 1], "detached")

new_port_from_configuration ==
  LET backend == Backend[Port.name] IN
  /\ pc = "ports" /\ port <= Len(configuration.ports)
  /\ CASE Port.name \in DOMAIN ports -> Leave("error", device)
       [] Port.name \notin DOMAIN ports /\ backend = "bare" -> Leave("panicked", device)
       [] Port.name \notin DOMAIN ports /\ backend \in {"bess", "ovs"} -> RingPort
       [] Port.name \notin DOMAIN ports /\ backend = "null" -> null_port
       [] OTHER -> new_dpdk_port

-----------------------------------------------------------------------------
(* Queues *)

\* The outcome of PmdPort::new_queue_pair.  The bounds let a queue through whose
\* index is the number of queues.
QueuePair(p, rxq, txq) ==
  CASE rxq > p.rxqs \/ txq > p.txqs -> "error"
    [] rxq <= p.rxqs /\ txq <= p.txqs /\ rxq < p.stats_rx /\ txq < p.stats_tx -> "pair"
    [] OTHER -> "panicked"

\* Faulty variant: every queue of a port is handed to the core of its first one.
QueueToFirstCore ==
  LET core == Port.rx_queues[1]
      outcome == QueuePair(ports[Port.name], rx_q, rx_q)
      queued == IF core \in DOMAIN rx_queues THEN rx_queues[core] ELSE <<>>
  IN
  /\ pc = "queues" /\ rx_q < Len(Port.rx_queues)
  /\ IF outcome # "pair" THEN Leave(outcome, device)
     ELSE /\ rx_queues' = Inserted(rx_queues, core, Append(queued, <<Port.name, rx_q>>))
          /\ arcs' = [arcs EXCEPT ![Port.name] = @ + 1]
          /\ rx_q' = rx_q + 1
          /\ UNCHANGED <<command, pc, port, configuration, ports, active_cores, device, polled>>

new_queue_pair ==
  LET core == Port.rx_queues[rx_q + 1]
      outcome == QueuePair(ports[Port.name], rx_q, rx_q)
      queued == IF core \in DOMAIN rx_queues THEN rx_queues[core] ELSE <<>>
  IN
  /\ pc = "queues" /\ rx_q < Len(Port.rx_queues)
  /\ IF outcome # "pair" THEN Leave(outcome, device)
     ELSE /\ rx_queues' = Inserted(rx_queues, core, Append(queued, <<Port.name, rx_q>>))
          /\ arcs' = [arcs EXCEPT ![Port.name] = @ + 1]
          /\ rx_q' = rx_q + 1
          /\ UNCHANGED <<command, pc, port, configuration, ports, active_cores, device, polled>>

NextPort ==
  /\ pc = "queues" /\ rx_q = Len(Port.rx_queues)
  /\ pc' = "ports" /\ port' = port + 1
  /\ UNCHANGED <<command, rx_q, configuration>> /\ UNCHANGED ctx /\ UNCHANGED shared

\* Only cores with a receive queue are compared with the core list.
ActivateCores ==
  LET cores == Range(configuration.cores) IN
  /\ pc = "ports" /\ port > Len(configuration.ports)
  /\ IF configuration.strict /\ ~ DOMAIN rx_queues \subseteq cores
     THEN Leave("error", device)
     ELSE /\ active_cores' = IF configuration.strict THEN cores ELSE cores \cup DOMAIN rx_queues
          /\ pc' = "ready"
          /\ UNCHANGED <<command, port, rx_q, configuration, ports, rx_queues>>
          /\ UNCHANGED shared

-----------------------------------------------------------------------------
(* Pipelines *)

\* The scheduler of a core gets a closure with clones of the core's queues and clones
\* them again for the pipeline it installs; the closure is dropped.
Install(cs) ==
  LET served == cs \cap DOMAIN rx_queues IN
  /\ polled' = polled \cup UNION {{<<c>> \o rx_queues[c][i] : i \in DOMAIN rx_queues[c]} : c \in served}
  /\ arcs' = [n \in Names |->
               arcs[n] + CacheAlignedClone(2 * Boxes(n, served)) - CacheAlignedDrop(Boxes(n, served))]
  /\ UNCHANGED <<command, port, rx_q, configuration, device>> /\ UNCHANGED ctx

\* start_schedulers has started a scheduler on each active core.
add_pipeline_to_run == pc = "ready" /\ pc' = "running" /\ Install(active_cores)

\* On a core without a scheduler it returns an error and changes nothing.
add_pipeline_to_core ==
  /\ pc = "ready"
  /\ \E core \in active_cores : Install({core})
  /\ UNCHANGED pc

\* The threads end and their pipelines are dropped.
stop ==
  /\ pc \in {"ready", "running"} /\ pc' = "stopped"
  /\ polled' = {}
  /\ arcs' = [n \in Names |->
               arcs[n] - CacheAlignedDrop(Cardinality({q \in polled : q[2] = n}))]
  /\ UNCHANGED <<command, port, rx_q, configuration, device>> /\ UNCHANGED ctx

\* Nothing makes the application stop the schedulers first: their threads are then
\* detached and poll on.
DropContext == pc \in {"ready", "running", "stopped"} /\ Leave("done", device)

Next ==
  \/ read_matches \/ init_system \/ new_port_from_configuration
  \/ new_queue_pair \/ NextPort \/ ActivateCores
  \/ add_pipeline_to_run \/ add_pipeline_to_core \/ stop \/ DropContext

Spec(commands) == InitFor(commands) /\ [][Next]_vars

-----------------------------------------------------------------------------
(* Properties *)

\* Once pipelines run, each receive queue that the flags or the file list is polled by
\* exactly one core, the one it is listed with, and no other queue is.  The n-th core
\* listed for a port has its n-th queue.  With strict or -m, only listed cores are
\* active.
QueuesServed ==
  pc = "running" =>
    LET file == command.f[1]
        InFile(p) == IF p.cores.is = "absent" THEN p.rx_cores.items ELSE p.cores.items
        Paired == {i \in DOMAIN command.c : i <= Len(command.p)}
        Before(i) == {j \in Paired : j < i /\ command.p[j] = command.p[i]}
        Listed ==
          IF command.c # <<>>
          THEN {<<command.c[i], command.p[i], Cardinality(Before(i))>> : i \in Paired}
          ELSE IF command.f = <<>> THEN {}
          ELSE UNION {{<<InFile(p)[q], p.name, q - 1>> : q \in DOMAIN InFile(p)} : p \in Range(file.ports)}
    IN
    /\ polled = Listed
    /\ \A x, y \in polled : x[2] = y[2] /\ x[3] = y[3] => x = y
    /\ {x[1] : x \in polled} \subseteq active_cores
    /\ command.m = "ok" \/ (command.f # <<>> /\ file.strict = "true") =>
         active_cores = IF command.c # <<>> THEN Range(command.c)
                        ELSE IF command.f = <<>> THEN {} ELSE Range(file.cores.items)

\* A device is never closed while a context or a thread that polls may use it, even
\* when the context is dropped under running threads; and whichever step of the start
\* fails, by error or panic, a started device is closed unless a queue was opened on it.
DevicesClosed ==
  \A n \in Names :
    /\ n \in DOMAIN ports \/ n \in {q[2] : q \in polled} => device[n] # "closed"
    /\ pc \in {"error", "panicked", "done"} /\ Backend[n] \in {"dpdk", "pci"} /\ arcs[n] = 0 =>
         device[n] # "started"
=============================================================================
