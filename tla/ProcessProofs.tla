----------------------------- MODULE ProcessProofs -----------------------------
(***************************************************************************)
(* Proofs about what surrounds the pipelines of a process: the references  *)
(* to ports and the devices behind them (Startup), for any command line,   *)
(* configuration file and ports; and the control server (ControlServer),   *)
(* for any number of connections.                                          *)
(***************************************************************************)
EXTENDS Startup, ControlServer, TLAPS, FiniteSetTheorems

\* Time limit of the SMT backend for the leaves that name no other backend.
USE SMTT(60)

-----------------------------------------------------------------------------
(* The inductive invariant of Startup *)

Ended == {"error", "panicked", "done"}
DeviceStates == {"detached", "attached", "configured", "started", "closed"}

\* The names that a set of polled queues refers to.
PolledNames(Q) == {q[2] : q \in Q}

\* Port n has a queue on some core.
HasQueue(n) == \E c \in DOMAIN rx_queues : \E i \in DOMAIN rx_queues[c] : rx_queues[c][i][1] = n

\* A name that has no port yet: nothing was opened behind it.
Untouched(n) == arcs[n] = 0 /\ device[n] = "detached"

\* A port of the context: the context holds a reference to it, and so does its queue,
\* if it has one; its device is in use and will be closed with it.
InContext(n) ==
  /\ arcs[n] >= 1 /\ device[n] # "closed"
  /\ HasQueue(n) \/ n \in PolledNames(polled) => arcs[n] >= 2
  /\ Backend[n] \in {"dpdk", "pci"} => ports[n].connected /\ ports[n].should_close

\* What is left of a name when the context is gone.
LeftBehind(n) ==
  /\ n \in PolledNames(polled) => arcs[n] >= 1 /\ device[n] # "closed"
  /\ Backend[n] \in {"dpdk", "pci"} /\ arcs[n] = 0 => device[n] # "started"

QueueType ==
  /\ rx_q \in Nat
  /\ rx_queues \in [DOMAIN rx_queues -> Seq((DOMAIN ports) \X Nat)]
  /\ pc = "queues" => Port.name \in DOMAIN ports
  /\ pc = "read" => DOMAIN ports = {}

StartupIInv ==
  /\ device \in [Names -> DeviceStates] /\ arcs \in [Names -> Nat]
  /\ QueueType
  /\ pc \notin Ended =>
       \A n \in Names :
         /\ n \in DOMAIN ports => InContext(n)
         /\ n \notin DOMAIN ports => Untouched(n) /\ n \notin PolledNames(polled)
  /\ pc \in Ended => DOMAIN ports = {} /\ \A n \in Names : LeftBehind(n)

-----------------------------------------------------------------------------
(* The inductive invariant of ControlServer *)

Interests == {"unregistered", "disabled", "hup", "read", "write"}
Events == Tokens \X SUBSET {"READ", "WRITE", "HUP"}

\* No more connections are pending or accepted than were ever made, so that the next
\* token is one that epoll can be given.
Counted ==
  /\ backlog \in Nat /\ issued \in Nat /\ next_token \in Nat \ {0}
  /\ backlog + next_token <= issued + 1 /\ issued <= MaxConnections
  /\ refused \subseteq 1 .. next_token - 1
  /\ connections = (1 .. next_token - 1) \ refused

\* The descriptor of token t had its event and is not watched.
Reported(t, watched, there) == watched[t] = "disabled" /\ t \in there \cup {listener_token}

\* The events of the sequence are for different descriptors that are not watched.
Waiting(s, watched, there) ==
  /\ \A i \in DOMAIN s : Reported(s[i][1], watched, there)
  /\ \A i, j \in DOMAIN s : s[i][1] = s[j][1] => i = j

\* No event of the sequence is for token t.
NoneFor(t, s) == \A i \in DOMAIN s : s[i][1] # t

\* A descriptor is registered only for a connection that is there.
Registered(watched, there) == \A t \in Connections : t \notin there => watched[t] = "unregistered"

InHand(event, s, watched, there) ==
  event # <<>> => event \in Events /\ Reported(event[1], watched, there) /\ NoneFor(event[1], s)

ServerIInv ==
  /\ Counted
  /\ interest \in [Tokens -> Interests] /\ Registered(interest, connections)
  /\ ready_tokens \in Seq(Events) /\ Waiting(ready_tokens, interest, connections)
  /\ InHand(current, ready_tokens, interest, connections)

-----------------------------------------------------------------------------
(* Startup: every step preserves the invariant *)

\* Changing one value of a function keeps its type.
LEMMA ExceptType ==
  ASSUME NEW S, NEW T, NEW f \in [S -> T], NEW x, NEW v \in T
  PROVE  [f EXCEPT ![x] = v] \in [S -> T]
<1>1. \A y \in S : [f EXCEPT ![x] = v][y] \in T
  BY Zenon
<1>2. DOMAIN [f EXCEPT ![x] = v] = S
  BY Zenon
<1>3. [f EXCEPT ![x] = v] = [y \in S |-> [f EXCEPT ![x] = v][y]]
  BY <1>2, Zenon
<1> QED
  BY <1>1, <1>3, Zenon

\* A polled queue is a core followed by an entry of rx_queues.
LEMMA SecondOfPolled ==
  ASSUME NEW c, NEW S, NEW e \in S \X Nat
  PROVE  (<<c>> \o e)[2] = e[1]
<1>1. PICK a \in S, b \in Nat : e = <<a, b>>
  OBVIOUS
<1>2. (<<c>> \o <<a, b>>)[2] = a
  <2>1. ASSUME NEW T, NEW x \in T, NEW y \in T, NEW z \in T
        PROVE  (<<x>> \o <<y, z>>)[2] = y
    OBVIOUS
  <2>2. c \in {c, a, b} /\ a \in {c, a, b} /\ b \in {c, a, b}
    BY Zenon
  <2> QED
    BY <2>1, <2>2, Zenon
<1> QED
  BY <1>1, <1>2

\* The initial state of the process has no port.
LEMMA StartupInit ==
  ASSUME NEW commands, InitFor(commands)
  PROVE  StartupIInv
<1>1. device \in [Names -> DeviceStates] /\ arcs \in [Names -> Nat]
  BY DEF InitFor, DeviceStates
<1>2. pc = "read" /\ pc \notin Ended /\ DOMAIN ports = {} /\ polled = {}
  BY Zenon DEF InitFor, Ended, NoPorts
<1>3. QueueType
  <2>1. rx_q = 0 /\ rx_queues = [c \in {} |-> <<>>]
    BY Zenon DEF InitFor, NoQueues
  <2>2. rx_queues \in [DOMAIN rx_queues -> Seq((DOMAIN ports) \X Nat)]
    BY <2>1
  <2> QED
    BY <1>2, <2>1, <2>2 DEF QueueType
<1>4. \A n \in Names : n \notin DOMAIN ports /\ Untouched(n) /\ n \notin PolledNames(polled)
  BY Zenon, <1>2 DEF InitFor, Untouched, PolledNames
<1> QED
  BY <1>1, <1>2, <1>3, <1>4 DEF StartupIInv

\* Whichever step ends the context: a port with a queue keeps a reference, and the
\* device of the others is closed.
LEMMA LeaveKeeps ==
  ASSUME StartupIInv, pc \notin Ended, NEW how \in Ended,
         NEW devices \in [Names -> DeviceStates],
         \A n \in Names : n \in DOMAIN ports => devices[n] = device[n],
         \A n \in Names : n \notin DOMAIN ports => devices[n] # "started",
         Leave(how, devices)
  PROVE  StartupIInv'
<1>1. pc' \in Ended /\ DOMAIN ports' = {} /\ polled' = polled /\ rx_q' = rx_q
  BY Zenon DEF Leave, NoPorts
<1>2. QueueType'
  BY <1>1 DEF Leave, QueueType, NoQueues, StartupIInv, Ended
<1>3. arcs' = [n \in Names |-> IF n \in DOMAIN ports THEN arcs[n] - 1 ELSE arcs[n]]
  <2>1. ASSUME NEW n \in Names, n \in DOMAIN ports
        PROVE  arcs[n] - 1 - CacheAlignedDrop(Boxes(n, DOMAIN rx_queues)) = arcs[n] - 1
    <3>1. arcs[n] \in Nat
      BY Zenon DEF StartupIInv
    <3> QED
      BY <3>1 DEF CacheAlignedDrop
  <2>2. arcs' = [n \in Names |->
                   IF n \in DOMAIN ports
                   THEN arcs[n] - 1 - CacheAlignedDrop(Boxes(n, DOMAIN rx_queues))
                   ELSE arcs[n]]
    BY Zenon DEF Leave
  <2> QED
    BY <2>1, <2>2, Zenon
<1>4. device' = [n \in Names |-> IF n \in DOMAIN ports /\ arcs'[n] <= 0
                                THEN Dropped(ports[n], devices[n]) ELSE devices[n]]
  BY Zenon DEF Leave
<1>5. arcs' \in [Names -> Nat]
  <2>1. \A n \in Names : n \in DOMAIN ports => arcs[n] >= 1
    BY Zenon DEF StartupIInv, InContext
  <2> QED
    BY <1>3, <2>1 DEF StartupIInv
<1>6. device' \in [Names -> DeviceStates]
  BY Zenon, <1>4 DEF Dropped, DeviceStates
<1>7. ASSUME NEW n \in Names PROVE LeftBehind(n)'
  <2>1. CASE n \in DOMAIN ports
    <3>1. InContext(n) /\ arcs[n] \in Nat
      BY <2>1 DEF StartupIInv
    <3>2. arcs'[n] = arcs[n] - 1
      BY <1>3, <2>1
    <3>3. device'[n] = IF arcs'[n] <= 0 THEN Dropped(ports[n], device[n]) ELSE device[n]
      BY <1>4, <2>1
    <3>4. n \in PolledNames(polled') => arcs'[n] >= 1 /\ device'[n] # "closed"
      BY <1>1, <3>1, <3>2, <3>3 DEF InContext
    <3>5. Backend[n] \in {"dpdk", "pci"} /\ arcs'[n] = 0 => device'[n] # "started"
      BY <3>1, <3>3 DEF InContext, Dropped
    <3> QED
      BY <3>4, <3>5 DEF LeftBehind
  <2>2. CASE n \notin DOMAIN ports
    <3>1. n \notin PolledNames(polled)
      BY <2>2 DEF StartupIInv
    <3>2. device'[n] # "started"
      BY <1>4, <2>2
    <3> QED
      BY <1>1, <3>1, <3>2 DEF LeftBehind
  <2> QED
    BY <2>1, <2>2
<1> QED
  BY <1>1, <1>2, <1>5, <1>6, <1>7 DEF StartupIInv

\* A new port has one reference, that of the context.
LEMMA OpenedKeeps ==
  ASSUME StartupIInv, pc \notin Ended, Port.name \notin DOMAIN ports,
         NEW p, NEW state \in DeviceStates \ {"closed"},
         Backend[Port.name] \in {"dpdk", "pci"} => p.connected /\ p.should_close,
         Opened(p, state)
  PROVE  StartupIInv'
<1>1. pc' \notin Ended /\ polled' = polled /\ rx_q' = 0 /\ rx_queues' = rx_queues /\ Port' = Port
  BY Zenon DEF Opened, Ended, Port
<1>2. /\ DOMAIN ports' = DOMAIN ports \cup {Port.name} /\ ports'[Port.name] = p
      /\ \A n \in DOMAIN ports : ports'[n] = ports[n]
  BY Zenon DEF Opened, Inserted
<1>3. /\ device' \in [Names -> DeviceStates] /\ arcs' \in [Names -> Nat]
      /\ Port.name \in Names => device'[Port.name] = state /\ arcs'[Port.name] = 1
      /\ \A n \in Names \ {Port.name} : device'[n] = device[n] /\ arcs'[n] = arcs[n]
  <2>1. device' = [device EXCEPT ![Port.name] = state] /\ arcs' = [arcs EXCEPT ![Port.name] = 1]
    BY Zenon DEF Opened
  <2>2. device \in [Names -> DeviceStates] /\ arcs \in [Names -> Nat]
    BY Zenon DEF StartupIInv
  <2>3. /\ [device EXCEPT ![Port.name] = state] \in [Names -> DeviceStates]
        /\ [arcs EXCEPT ![Port.name] = 1] \in [Names -> Nat]
    BY <2>2, ExceptType, 1 \in Nat, Zenon
  <2> QED
    BY <2>1, <2>2, <2>3, Zenon
<1>4. QueueType'
  <2>1. rx_queues \in [DOMAIN rx_queues -> Seq((DOMAIN ports') \X Nat)]
    <3>1. \A c \in DOMAIN rx_queues : rx_queues[c] \in Seq((DOMAIN ports) \X Nat)
      BY DEF StartupIInv, QueueType
    <3>2. \A c \in DOMAIN rx_queues : rx_queues[c] \in Seq((DOMAIN ports') \X Nat)
      BY <1>2, <3>1
    <3>3. rx_queues = [c \in DOMAIN rx_queues |-> rx_queues[c]]
      BY Zenon DEF StartupIInv, QueueType
    <3> QED
      BY <3>2, <3>3, Zenon
  <2>2. pc' # "read" /\ Port'.name \in DOMAIN ports' /\ rx_q' \in Nat
    BY <1>1, <1>2 DEF Opened
  <2> QED
    BY <1>1, <2>1, <2>2, Zenon DEF QueueType
<1>5. ~ HasQueue(Port.name)
  <2>1. \A c \in DOMAIN rx_queues : \A i \in DOMAIN rx_queues[c] :
          rx_queues[c][i][1] \in DOMAIN ports
    BY DEF StartupIInv, QueueType
  <2> QED
    BY <2>1, Zenon DEF HasQueue
<1>6. \A n \in Names : HasQueue(n)' <=> HasQueue(n)
  BY <1>1, Zenon DEF HasQueue
<1>7. ASSUME NEW n \in Names, n \in DOMAIN ports' PROVE InContext(n)'
  <2>1. CASE n = Port.name
    <3>1. n \notin PolledNames(polled')
      BY Zenon, <1>1, <2>1 DEF StartupIInv
    <3>2. arcs'[n] = 1 /\ device'[n] # "closed" /\ ports'[n] = p
      BY <1>2, <1>3, <2>1
    <3> QED
      BY <1>5, <1>6, <2>1, <3>1, <3>2 DEF InContext
  <2>2. CASE n # Port.name
    <3>1. InContext(n) /\ arcs'[n] = arcs[n] /\ device'[n] = device[n] /\ ports'[n] = ports[n]
      BY <1>2, <1>3, <1>7, <2>2 DEF StartupIInv
    <3> QED
      BY <1>1, <1>6, <1>7, <3>1, Zenon DEF InContext
  <2> QED
    BY Zenon, <2>1, <2>2
<1>8. ASSUME NEW n \in Names, n \notin DOMAIN ports' PROVE Untouched(n)' /\ n \notin PolledNames(polled')
  BY <1>1, <1>2, <1>3, <1>8 DEF StartupIInv, Untouched
<1> QED
  BY <1>1, <1>3, <1>4, <1>7, <1>8 DEF StartupIInv

\* A step that touches no port, queue or device and does not end the context.
LEMMA StillOpen ==
  ASSUME StartupIInv, pc \notin Ended, pc' \notin Ended, pc' = "queues" => pc = "queues" /\ UNCHANGED Port, pc' # "read",
         rx_q' \in Nat, UNCHANGED <<ports, rx_queues, device, arcs, polled>>
  PROVE  StartupIInv'
<1>1. QueueType'
  BY DEF StartupIInv, QueueType
<1>2. ASSUME NEW n \in Names, n \in DOMAIN ports' PROVE InContext(n)'
  <2>1. InContext(n)
    BY <1>2, Zenon DEF StartupIInv
  <2> QED
    BY <2>1, Zenon DEF InContext, HasQueue
<1>3. ASSUME NEW n \in Names, n \notin DOMAIN ports' PROVE Untouched(n)' /\ n \notin PolledNames(polled')
  BY <1>3, Zenon DEF StartupIInv, Untouched
<1> QED
  BY <1>1, <1>2, <1>3, Zenon DEF StartupIInv

\* A process that ends before it has a context.
LEMMA NothingOpen ==
  ASSUME StartupIInv, pc \notin Ended, DOMAIN ports = {}, pc' \in Ended,
         UNCHANGED <<rx_q, ports, rx_queues, device, arcs, polled>>
  PROVE  StartupIInv'
<1>1. QueueType'
  BY Zenon DEF StartupIInv, QueueType, Ended
<1>2. ASSUME NEW n \in Names PROVE LeftBehind(n)'
  BY Zenon DEF StartupIInv, Untouched, LeftBehind
<1> QED
  BY <1>1, <1>2, Zenon DEF StartupIInv

\* Reading flags and file opens nothing.
LEMMA read_matchesKeeps ==
  ASSUME StartupIInv, read_matches
  PROVE  StartupIInv'
<1>1. pc = "read" /\ pc' \in Ended \cup {"init"}
  BY Zenon DEF read_matches, Ended
<1>2. UNCHANGED <<rx_q, ports, rx_queues, device, arcs, polled>>
  BY Zenon DEF read_matches, ctx, shared
<1>3. DOMAIN ports = {} /\ rx_q \in Nat /\ "read" \notin Ended /\ "init" \notin Ended
  BY <1>1 DEF StartupIInv, QueueType, Ended
<1>4. CASE pc' \in Ended
  BY <1>1, <1>2, <1>3, <1>4, NothingOpen, Zenon
<1>5. CASE pc' = "init"
  BY <1>1, <1>2, <1>3, <1>5, StillOpen
<1> QED
  BY <1>1, <1>4, <1>5, Zenon

\* Every way in which the creation of a port ends.
LEMMA new_portKeeps ==
  ASSUME StartupIInv, new_port_from_configuration
  PROVE  StartupIInv'
<1>1. pc \notin Ended
  BY Zenon DEF new_port_from_configuration, Ended
<1>2. "error" \in Ended /\ "panicked" \in Ended
  BY DEF Ended
<1>3. device \in [Names -> DeviceStates]
  BY Zenon DEF StartupIInv
<1>4. \A n \in Names : n \notin DOMAIN ports => device[n] # "started"
  BY <1>1 DEF StartupIInv, Untouched
<1>5. ASSUME NEW how \in Ended, Leave(how, device) PROVE StartupIInv'
  BY <1>1, <1>3, <1>4, <1>5, LeaveKeeps, Zenon
<1>6. CASE Port.name \in DOMAIN ports \/ Backend[Port.name] = "bare"
  <2>1. Leave("error", device) \/ Leave("panicked", device)
    BY Zenon, <1>6 DEF new_port_from_configuration
  <2> QED
    BY <1>2, <1>5, <2>1, Zenon
<1>7. CASE Port.name \notin DOMAIN ports /\ Backend[Port.name] \in {"bess", "ovs"}
  <2>1. RingPort
    BY Zenon, <1>7 DEF new_port_from_configuration
  <2>2. "started" \in DeviceStates \ {"closed"}
    BY DEF DeviceStates
  <2>3. ~ Backend[Port.name] \in {"dpdk", "pci"}
    BY Zenon, <1>7
  <2>4. ASSUME NEW p, Opened(p, "started") PROVE StartupIInv'
    BY <1>1, <1>7, <2>2, <2>3, <2>4, OpenedKeeps, Zenon
  <2> QED
    BY <1>2, <1>5, <2>1, <2>4, Zenon DEF RingPort
<1>8. CASE Port.name \notin DOMAIN ports /\ Backend[Port.name] = "null"
  <2>1. null_port
    BY Zenon, <1>8 DEF new_port_from_configuration
  <2>2. "detached" \in DeviceStates \ {"closed"}
    BY DEF DeviceStates
  <2>3. ~ Backend[Port.name] \in {"dpdk", "pci"}
    BY Zenon, <1>8
  <2>4. ASSUME NEW p, Opened(p, "detached") PROVE StartupIInv'
    BY <1>1, <1>8, <2>2, <2>3, <2>4, OpenedKeeps, Zenon
  <2> QED
    BY <2>1, <2>4, Zenon DEF null_port
<1>9. CASE Port.name \notin DOMAIN ports /\ Backend[Port.name] \notin {"bess", "ovs", "null", "bare"}
  <2>1. new_dpdk_port
    BY Zenon, <1>9 DEF new_port_from_configuration
  <2>2. CASE Leave("error", device)
    BY <1>2, <1>5, <2>2, Zenon
  <2>3. ASSUME NEW max_rxqs \in MaxQueues, NEW max_txqs \in MaxQueues,
               init_dpdk_port(max_rxqs, max_txqs)
        PROVE  StartupIInv'
    <3>1. PICK state \in init_pmd_port :
            IF state = "started"
            THEN \E p : p.connected /\ p.should_close /\ Opened(p, state)
            ELSE Leave("error", [device EXCEPT ![Port.name] = state])
      BY <2>3, Zenon DEF init_dpdk_port
    <3>2. state \in DeviceStates \ {"closed"}
      BY <3>1 DEF init_pmd_port, DeviceStates
    <3>3. CASE state = "started"
      BY <1>1, <1>9, <3>1, <3>2, <3>3, OpenedKeeps, Zenon
    <3>4. CASE state # "started"
      <4>1. [device EXCEPT ![Port.name] = state] \in [Names -> DeviceStates]
        BY <1>3, <3>2, ExceptType, Zenon
      <4>2. \A n \in Names : n \in DOMAIN ports => [device EXCEPT ![Port.name] = state][n] = device[n]
        BY <1>3, <1>9, Zenon
      <4>3. \A n \in Names : n \notin DOMAIN ports => [device EXCEPT ![Port.name] = state][n] # "started"
        BY <1>3, <1>4, <3>4, Zenon
      <4> QED
        BY <1>1, <1>2, <3>1, <3>4, <4>1, <4>2, <4>3, LeaveKeeps, Zenon
    <3> QED
      BY <3>3, <3>4, Zenon
  <2> QED
    BY <2>1, <2>2, <2>3, Zenon DEF new_dpdk_port
<1> QED
  BY <1>6, <1>7, <1>8, <1>9

\* A context that ends with no device touched in the same step.
LEMMA LeaveNow ==
  ASSUME StartupIInv, pc \notin Ended, NEW how \in Ended, Leave(how, device)
  PROVE  StartupIInv'
<1>1. device \in [Names -> DeviceStates]
  BY Zenon DEF StartupIInv
<1>2. \A n \in Names : n \notin DOMAIN ports => device[n] # "started"
  BY Zenon DEF StartupIInv, Untouched
<1> QED
  BY <1>1, <1>2, LeaveKeeps, Zenon

\* A queue on a core counts a reference to its port.
LEMMA new_queue_pairKeeps ==
  ASSUME StartupIInv, new_queue_pair
  PROVE  StartupIInv'
<1> DEFINE core == Port.rx_queues[rx_q + 1]
           outcome == QueuePair(ports[Port.name], rx_q, rx_q)
           queued == IF core \in DOMAIN rx_queues THEN rx_queues[core] ELSE <<>>
           entry == <<Port.name, rx_q>>
<1>1. pc = "queues" /\ pc \notin Ended /\ Port.name \in DOMAIN ports /\ rx_q \in Nat
  BY Zenon DEF new_queue_pair, StartupIInv, QueueType, Ended
<1>2. CASE outcome # "pair"
  <2>1. outcome \in {"pair", "error", "panicked"}
    BY DEF QueuePair
  <2>2. outcome \in Ended
    BY <1>2, <2>1 DEF Ended
  <2>3. Leave(outcome, device)
    BY <1>2, Zenon DEF new_queue_pair
  <2> QED
    BY <1>1, <2>2, <2>3, LeaveNow, Zenon
<1>3. CASE outcome = "pair"
  <2>1. /\ rx_queues' = Inserted(rx_queues, core, Append(queued, entry))
        /\ arcs' = [arcs EXCEPT ![Port.name] = @ + 1] /\ rx_q' = rx_q + 1
        /\ UNCHANGED <<pc, port, configuration, ports, device, polled>>
    BY <1>3, Zenon DEF new_queue_pair
  <2>2. Port' = Port
    BY <2>1, Zenon DEF Port
  <2> HIDE DEF core, outcome, entry
  <2>3. queued \in Seq((DOMAIN ports) \X Nat)
    BY DEF StartupIInv, QueueType
  <2>4. entry \in (DOMAIN ports) \X Nat /\ entry[1] = Port.name
    BY <1>1 DEF entry
  <2> HIDE DEF queued
  <2>5. /\ Append(queued, entry) \in Seq((DOMAIN ports) \X Nat)
        /\ DOMAIN Append(queued, entry) = 1 .. Len(queued) + 1
        /\ DOMAIN queued = 1 .. Len(queued)
        /\ \A i \in 1 .. Len(queued) : Append(queued, entry)[i] = queued[i]
        /\ Append(queued, entry)[Len(queued) + 1] = entry
    BY <2>3, <2>4
  <2>6. QueueType'
    <3>1. /\ DOMAIN rx_queues' = DOMAIN rx_queues \cup {core}
          /\ rx_queues' = [c \in DOMAIN rx_queues' |-> rx_queues'[c]]
          /\ \A c \in DOMAIN rx_queues' :
               rx_queues'[c] = IF c = core THEN Append(queued, entry) ELSE rx_queues[c]
      BY <2>1, Zenon DEF Inserted
    <3>2. \A c \in DOMAIN rx_queues : rx_queues[c] \in Seq((DOMAIN ports) \X Nat)
      BY Zenon DEF StartupIInv, QueueType
    <3>3. \A c \in DOMAIN rx_queues' : rx_queues'[c] \in Seq((DOMAIN ports) \X Nat)
      BY <2>5, <3>1, <3>2, Zenon
    <3>4. rx_queues' \in [DOMAIN rx_queues' -> Seq((DOMAIN ports') \X Nat)]
      BY <2>1, <3>1, <3>3, Zenon
    <3>5. rx_q' \in Nat
      BY <1>1, <2>1
    <3> QED
      BY <1>1, <2>1, <2>2, <3>4, <3>5 DEF QueueType
  <2>7. ASSUME NEW n \in Names, n # Port.name, HasQueue(n)' PROVE HasQueue(n)
    <3>1. PICK c \in DOMAIN rx_queues' : \E i \in DOMAIN rx_queues'[c] : rx_queues'[c][i][1] = n
      BY <2>7, Zenon DEF HasQueue
    <3>2. CASE c # core
      BY <2>1, <3>1, <3>2, Zenon DEF HasQueue, Inserted
    <3>3. CASE c = core
      <4>1. rx_queues'[c] = Append(queued, entry)
        BY <2>1, <3>3, Zenon DEF Inserted
      <4>2. PICK i \in 1 .. Len(queued) + 1 : Append(queued, entry)[i][1] = n
        BY <2>5, <3>1, <4>1, Zenon
      <4>3. i # Len(queued) + 1
        BY <2>4, <2>5, <2>7, <4>2, Zenon
      <4>4. Len(queued) \in Nat
        BY <2>3
      <4>5. i \in DOMAIN queued
        BY <2>5, <4>2, <4>3, <4>4
      <4>6. queued[i][1] = n
        BY <2>5, <4>2, <4>5, Zenon
      <4>7. core \in DOMAIN rx_queues
        BY <4>5 DEF queued
      <4> QED
        BY <4>5, <4>6, <4>7, Zenon DEF HasQueue, queued
    <3> QED
      BY Zenon, <3>2, <3>3
  <2>8. arcs' \in [Names -> Nat]
    <3>1. CASE Port.name \in Names
      <4>1. arcs[Port.name] + 1 \in Nat
        BY <3>1 DEF StartupIInv
      <4> QED
        BY <2>1, <4>1, ExceptType, Zenon DEF StartupIInv
    <3>2. CASE Port.name \notin Names
      <4>1. arcs' = arcs
        BY <2>1, <3>2, Zenon DEF StartupIInv
      <4> QED
        BY <4>1, Zenon DEF StartupIInv
    <3> QED
      BY <3>1, <3>2
  <2>9. ASSUME NEW n \in Names, n \in DOMAIN ports PROVE InContext(n)'
    <3>1. InContext(n) /\ arcs[n] \in Nat
      BY <1>1, <2>9 DEF StartupIInv
    <3>2. CASE n = Port.name
      <4>1. arcs'[n] = arcs[n] + 1
        BY <2>1, <3>2, Zenon DEF StartupIInv
      <4>2. arcs'[n] >= 2
        BY <3>1, <4>1 DEF InContext
      <4>3. arcs'[n] >= 1
        BY <3>1, <4>1
      <4> QED
        BY <2>1, <3>1, <4>2, <4>3, Zenon DEF InContext
    <3>3. CASE n # Port.name
      <4>1. arcs'[n] = arcs[n]
        BY <2>1, <3>3, Zenon DEF StartupIInv
      <4> QED
        BY <2>1, <2>7, <3>1, <3>3, <4>1, Zenon DEF InContext
    <3> QED
      BY Zenon, <3>2, <3>3
  <2>10. ASSUME NEW n \in Names, n \notin DOMAIN ports PROVE Untouched(n)' /\ n \notin PolledNames(polled')
    <3>1. arcs'[n] = arcs[n]
      BY <1>1, <2>1, <2>10, Zenon DEF StartupIInv
    <3> QED
      BY <1>1, <2>1, <2>10, <3>1, Zenon DEF StartupIInv, Untouched
  <2>11. device' \in [Names -> DeviceStates]
    BY <2>1, Zenon DEF StartupIInv
  <2> QED
    BY <1>1, <2>1, <2>6, <2>8, <2>9, <2>10, <2>11, Zenon DEF StartupIInv
<1> QED
  BY <1>2, <1>3

\* A core gets only queues whose ports the context has.
LEMMA InstallKeeps ==
  ASSUME StartupIInv, pc \notin Ended, NEW cs, Install(cs),
         pc' \notin Ended, pc' # "queues", pc' # "read"
  PROVE  StartupIInv'
<1>1. UNCHANGED <<rx_q, ports, rx_queues, device>>
  BY Zenon DEF Install, ctx
<1>2. arcs' = arcs
  <2>1. \A n \in Names : arcs[n] \in Nat
    BY DEF StartupIInv
  <2>2. \A n \in Names :
          arcs[n] + CacheAlignedClone(2 * Boxes(n, cs \cap DOMAIN rx_queues))
                  - CacheAlignedDrop(Boxes(n, cs \cap DOMAIN rx_queues)) = arcs[n]
    BY <2>1 DEF CacheAlignedClone, CacheAlignedDrop
  <2>3. arcs' = [n \in Names |->
                   arcs[n] + CacheAlignedClone(2 * Boxes(n, cs \cap DOMAIN rx_queues))
                           - CacheAlignedDrop(Boxes(n, cs \cap DOMAIN rx_queues))]
    BY Zenon DEF Install
  <2> QED
    BY <2>2, <2>3, Zenon DEF StartupIInv
<1>3. ASSUME NEW n \in PolledNames(polled') PROVE n \in PolledNames(polled) \/ HasQueue(n)
  <2>1. PICK q \in polled' : n = q[2]
    BY <1>3, Zenon DEF PolledNames
  <2>2. CASE q \in polled
    BY <2>1, <2>2, Zenon DEF PolledNames
  <2>3. CASE q \notin polled
    <3>1. PICK c \in DOMAIN rx_queues : \E i \in DOMAIN rx_queues[c] : q = <<c>> \o rx_queues[c][i]
      BY <2>1, <2>3, Zenon DEF Install
    <3>2. PICK i \in DOMAIN rx_queues[c] : q = <<c>> \o rx_queues[c][i]
      BY <3>1, Zenon
    <3>3. rx_queues[c][i] \in (DOMAIN ports) \X Nat
      BY DEF StartupIInv, QueueType
    <3>4. q[2] = rx_queues[c][i][1]
      BY <3>2, <3>3, SecondOfPolled, Zenon
    <3> QED
      BY <2>1, <3>4, Zenon DEF HasQueue
  <2> QED
    BY <2>2, <2>3
<1>4. \A n \in Names : HasQueue(n) => n \in DOMAIN ports
  BY DEF HasQueue, StartupIInv, QueueType
<1>5. QueueType'
  BY <1>1 DEF StartupIInv, QueueType
<1>6. ASSUME NEW n \in Names, n \in DOMAIN ports' PROVE InContext(n)'
  <2>1. InContext(n)
    BY <1>1, <1>6, Zenon DEF StartupIInv
  <2>2. HasQueue(n)' <=> HasQueue(n)
    BY <1>1, Zenon DEF HasQueue
  <2>3. HasQueue(n)' \/ n \in PolledNames(polled') => arcs'[n] >= 2
    BY <1>2, <1>3, <2>1, <2>2, Zenon DEF InContext
  <2> QED
    BY <1>1, <1>2, <2>1, <2>3, Zenon DEF InContext
<1>7. ASSUME NEW n \in Names, n \notin DOMAIN ports' PROVE Untouched(n)' /\ n \notin PolledNames(polled')
  BY <1>1, <1>2, <1>3, <1>4, <1>7, Zenon DEF StartupIInv, Untouched
<1> QED
  BY <1>1, <1>2, <1>5, <1>6, <1>7, Zenon DEF StartupIInv

\* The threads end; the ports of the context stay as they are.
LEMMA stopKeeps ==
  ASSUME StartupIInv, stop
  PROVE  StartupIInv'
<1>1. pc \notin Ended /\ pc' = "stopped" /\ pc' \notin Ended /\ polled' = {}
      /\ UNCHANGED <<rx_q, ports, rx_queues, device>>
  BY DEF stop, ctx, Ended
<1>2. arcs' = arcs
  <2>1. \A n \in Names : arcs[n] \in Nat
    BY DEF StartupIInv
  <2>2. \A n \in Names :
          arcs[n] - CacheAlignedDrop(Cardinality({q \in polled : q[2] = n})) = arcs[n]
    BY <2>1 DEF CacheAlignedDrop
  <2>3. arcs' = [n \in Names |->
                   arcs[n] - CacheAlignedDrop(Cardinality({q \in polled : q[2] = n}))]
    BY Zenon DEF stop
  <2> QED
    BY <2>2, <2>3, Zenon DEF StartupIInv
<1>3. PolledNames(polled') = {}
  BY <1>1, Zenon DEF PolledNames
<1>4. QueueType'
  BY <1>1 DEF StartupIInv, QueueType
<1>5. ASSUME NEW n \in Names, n \in DOMAIN ports' PROVE InContext(n)'
  <2>1. InContext(n)
    BY <1>1, <1>5, Zenon DEF StartupIInv
  <2>2. HasQueue(n)' <=> HasQueue(n)
    BY <1>1, Zenon DEF HasQueue
  <2> QED
    BY <1>1, <1>2, <1>3, <2>1, <2>2, Zenon DEF InContext
<1>6. ASSUME NEW n \in Names, n \notin DOMAIN ports' PROVE Untouched(n)' /\ n \notin PolledNames(polled')
  BY <1>1, <1>2, <1>3, <1>6, Zenon DEF StartupIInv, Untouched
<1> QED
  BY <1>1, <1>2, <1>4, <1>5, <1>6, Zenon DEF StartupIInv

\* Whatever happens from the command line to the end of the context keeps the invariant.
LEMMA StartupStep ==
  ASSUME StartupIInv, [Next]_vars
  PROVE  StartupIInv'
<1>1. CASE init_system
  <2>1. pc = "init"
    BY <1>1, Zenon DEF init_system
  <2>2. pc \notin Ended /\ "panicked" \in Ended /\ "ports" \notin Ended
    BY <2>1 DEF Ended
  <2>3. CASE Leave("panicked", device)
    BY <2>2, <2>3, LeaveNow, Zenon
  <2>4. CASE pc' = "ports" /\ UNCHANGED <<rx_q, ctx, shared>>
    <3>1. rx_q' \in Nat /\ pc' # "queues" /\ pc' # "read" /\ pc' \notin Ended
      BY <2>2, <2>4 DEF StartupIInv, QueueType
    <3>2. UNCHANGED <<ports, rx_queues, device, arcs, polled>>
      BY <2>4, Zenon DEF ctx, shared
    <3> QED
      BY <2>2, <3>1, <3>2, StillOpen, Zenon
  <2> QED
    BY <1>1, <2>3, <2>4, Zenon DEF init_system
<1>2. CASE NextPort
  <2>1. pc \notin Ended /\ pc' \notin Ended /\ pc' # "queues" /\ pc' # "read"
    BY <1>2 DEF NextPort, Ended
  <2>2. UNCHANGED <<rx_q, ports, rx_queues, device, arcs, polled>>
    BY <1>2, Zenon DEF NextPort, ctx, shared
  <2>3. rx_q' \in Nat
    BY <2>2 DEF StartupIInv, QueueType
  <2> QED
    BY <2>1, <2>2, <2>3, StillOpen, Zenon
<1>3. CASE ActivateCores
  <2>1. pc \notin Ended /\ "error" \in Ended
    BY <1>3 DEF ActivateCores, Ended
  <2>2. CASE Leave("error", device)
    BY <2>1, <2>2, LeaveNow, Zenon
  <2>3. CASE pc' = "ready" /\ UNCHANGED <<rx_q, ports, rx_queues, shared>>
    <3>1. rx_q' \in Nat /\ pc' # "queues" /\ pc' # "read" /\ pc' \notin Ended
      BY <2>3 DEF StartupIInv, QueueType, Ended
    <3>2. UNCHANGED <<ports, rx_queues, device, arcs, polled>>
      BY <2>3, Zenon DEF shared
    <3> QED
      BY <2>1, <3>1, <3>2, StillOpen, Zenon
  <2> QED
    BY <1>3, <2>2, <2>3, Zenon DEF ActivateCores
<1>4. CASE add_pipeline_to_run
  <2>1. pc \notin Ended /\ pc' \notin Ended /\ pc' # "queues" /\ pc' # "read" /\ Install(active_cores)
    BY Zenon, <1>4 DEF add_pipeline_to_run, Ended
  <2> QED
    BY <2>1, InstallKeeps, Zenon
<1>5. CASE add_pipeline_to_core
  <2>1. pc \notin Ended /\ pc' \notin Ended /\ pc' # "queues" /\ pc' # "read"
    BY Zenon, <1>5 DEF add_pipeline_to_core, Ended
  <2>2. PICK core \in active_cores : Install({core})
    BY <1>5, Zenon DEF add_pipeline_to_core
  <2> QED
    BY <2>1, <2>2, InstallKeeps, Zenon
<1>6. CASE DropContext
  <2>1. pc \notin Ended /\ "done" \in Ended /\ Leave("done", device)
    BY <1>6 DEF DropContext, Ended
  <2> QED
    BY <2>1, LeaveNow, Zenon
<1>7. CASE UNCHANGED vars
  <2>1. UNCHANGED <<pc, port, rx_q, configuration, ports, rx_queues, device, arcs, polled>>
    BY <1>7, Zenon DEF vars
  <2>2. QueueType => QueueType'
    BY <2>1, Zenon DEF QueueType, Port
  <2>3. \A n \in Names : InContext(n) => InContext(n)'
    BY <2>1, Zenon DEF InContext, HasQueue
  <2>4. \A n \in Names : (Untouched(n) => Untouched(n)') /\ (LeftBehind(n) => LeftBehind(n)')
    BY <2>1, Zenon DEF Untouched, LeftBehind
  <2> QED
    BY <2>1, <2>2, <2>3, <2>4, Zenon DEF StartupIInv
<1> QED
  BY <1>1, <1>2, <1>3, <1>4, <1>5, <1>6, <1>7, read_matchesKeeps, new_portKeeps,
     new_queue_pairKeeps, stopKeeps, Zenon DEF Next

\* The inductive invariant of Startup, for any set of command lines: the context holds a
\* reference to each of its ports and so does every queue, and what has no port is
\* untouched.
THEOREM StartupInvariant ==
  ASSUME NEW commands
  PROVE  Spec(commands) => []StartupIInv
<1>1. InitFor(commands) => StartupIInv
  BY Zenon, StartupInit
<1>2. StartupIInv /\ [Next]_vars => StartupIInv'
  BY StartupStep
<1> QED
  BY <1>1, <1>2, PTL DEF Spec

\* No device is closed while a context or a polling thread uses it, and whichever step of
\* the start fails a started device is closed unless a queue was opened on it: for any
\* command line, configuration file, names and devices.
THEOREM DevicesAreClosed ==
  ASSUME NEW commands
  PROVE  Spec(commands) => []DevicesClosed
<1>1. StartupIInv => DevicesClosed
  <2> SUFFICES ASSUME StartupIInv, NEW n \in Names
               PROVE  /\ n \in DOMAIN ports \/ n \in PolledNames(polled) => device[n] # "closed"
                      /\ pc \in Ended /\ Backend[n] \in {"dpdk", "pci"} /\ arcs[n] = 0 =>
                           device[n] # "started"
    BY Zenon DEF DevicesClosed, PolledNames, Ended
  <2>1. CASE pc \in Ended
    <3>1. n \notin DOMAIN ports /\ LeftBehind(n)
      BY <2>1, Zenon DEF StartupIInv
    <3> QED
      BY <2>1, <3>1, Zenon DEF LeftBehind
  <2>2. CASE pc \notin Ended
    <3>1. CASE n \in DOMAIN ports
      BY <2>2, <3>1, Zenon DEF StartupIInv, InContext
    <3>2. CASE n \notin DOMAIN ports
      BY <2>2, <3>2, Zenon DEF StartupIInv
    <3> QED
      BY <3>1, <3>2, Zenon
  <2> QED
    BY <2>1, <2>2, Zenon
<1> QED
  BY <1>1, StartupInvariant, PTL

-----------------------------------------------------------------------------
(* ControlServer: every step preserves the invariant *)

\* Length, domain and elements of a sequence of events.
LEMMA EventSeq ==
  ASSUME NEW s \in Seq(Events)
  PROVE  Len(s) \in Nat /\ DOMAIN s = 1 .. Len(s) /\ \A i \in 1 .. Len(s) : s[i] \in Events
OBVIOUS

\* What get_token_noblock pops, and what it leaves in ready_tokens.
LEMMA RestFacts ==
  ASSUME NEW s \in Seq(Events), s # <<>>
  PROVE  /\ Rest(s) \in Seq(Events) /\ DOMAIN Rest(s) = 1 .. Len(s) - 1
         /\ \A i \in 1 .. Len(s) - 1 : Rest(s)[i] = s[i]
         /\ Len(s) \in DOMAIN s /\ pop(s) = s[Len(s)] /\ pop(s) \in Events
<1>1. Len(s) \in Nat \ {0} /\ DOMAIN s = 1 .. Len(s)
  OBVIOUS
<1> QED
  BY <1>1 DEF Rest, pop

\* The event that is taken and those that wait are for different descriptors.
LEMMA TakeLast ==
  ASSUME NEW s \in Seq(Events), s # <<>>, NEW watched, NEW there, Waiting(s, watched, there)
  PROVE  /\ Rest(s) \in Seq(Events) /\ Waiting(Rest(s), watched, there)
         /\ InHand(pop(s), Rest(s), watched, there)
<1>1. /\ Rest(s) \in Seq(Events) /\ DOMAIN Rest(s) = 1 .. Len(s) - 1
      /\ \A i \in 1 .. Len(s) - 1 : Rest(s)[i] = s[i]
      /\ Len(s) \in DOMAIN s /\ pop(s) = s[Len(s)] /\ pop(s) \in Events
  BY RestFacts, Zenon
<1>2. \A i \in DOMAIN Rest(s) : i \in DOMAIN s /\ i # Len(s) /\ Rest(s)[i] = s[i]
  BY <1>1
<1>3. Waiting(Rest(s), watched, there)
  <2>1. \A i \in DOMAIN Rest(s) : Reported(Rest(s)[i][1], watched, there)
    BY <1>2, Zenon DEF Waiting
  <2>2. ASSUME NEW i \in DOMAIN Rest(s), NEW j \in DOMAIN Rest(s), Rest(s)[i][1] = Rest(s)[j][1]
        PROVE  i = j
    BY <1>2, <2>2, Zenon DEF Waiting
  <2> QED
    BY <2>1, <2>2, Zenon DEF Waiting
<1>4. NoneFor(pop(s)[1], Rest(s))
  <2>1. ASSUME NEW i \in DOMAIN Rest(s) PROVE Rest(s)[i][1] # s[Len(s)][1]
    BY <1>1, <1>2, Zenon DEF Waiting
  <2> QED
    BY <1>1, <2>1, Zenon DEF NoneFor
<1>5. Reported(pop(s)[1], watched, there)
  BY <1>1, Zenon DEF Waiting
<1> QED
  BY <1>1, <1>3, <1>4, <1>5, Zenon DEF InHand

\* The same for a sequence that may be empty, as get_token_noblock takes it.
LEMMA TakeOne ==
  ASSUME NEW s \in Seq(Events), NEW watched, NEW there, Waiting(s, watched, there)
  PROVE  /\ Rest(s) \in Seq(Events) /\ Waiting(Rest(s), watched, there)
         /\ InHand(pop(s), Rest(s), watched, there)
<1>1. CASE s = <<>>
  BY <1>1, Zenon DEF InHand, Rest, pop
<1>2. CASE s # <<>>
  BY <1>2, TakeLast, Zenon
<1> QED
  BY <1>1, <1>2, Zenon

\* The listener is watched and nobody has connected.
LEMMA ServerStarts ==
  ASSUME ServerInit
  PROVE  ServerIInv
<1>1. Counted
  BY CapacityAssumption DEF ServerInit, Counted
<1>2. interest \in [Tokens -> Interests] /\ Registered(interest, connections)
  BY CapacityAssumption DEF ServerInit, Interests, Registered, Tokens, Connections, listener_token
<1>3. ready_tokens = <<>> /\ current = <<>>
  BY Zenon DEF ServerInit
<1>4. <<>> \in Seq(Events)
  OBVIOUS
<1>5. \A watched, there : Waiting(<<>>, watched, there)
  BY DEF Waiting
<1>6. \A watched, there : InHand(<<>>, <<>>, watched, there)
  BY Zenon DEF InHand
<1> QED
  BY <1>1, <1>2, <1>3, <1>4, <1>5, <1>6, Zenon DEF ServerIInv

\* What a peer does changes no registration and no event that waits.
LEMMA PeersKeep ==
  ASSUME ServerIInv, Connect \/ Abort \/ \E t \in Connections : Send(t) \/ Close(t)
  PROVE  ServerIInv'
<1>1. UNCHANGED <<interest, ready_tokens, current, connections, next_token, refused>>
  BY Zenon DEF Connect, Abort, Send, Close
<1>2. Counted'
  <2>1. CASE Connect
    BY <1>1, <2>1, CapacityAssumption DEF Connect, ServerIInv, Counted
  <2>2. CASE Abort
    BY <1>1, <2>2, CapacityAssumption DEF Abort, ServerIInv, Counted
  <2>3. CASE \E t \in Connections : Send(t) \/ Close(t)
    BY <1>1, <2>3, Zenon DEF Send, Close, ServerIInv, Counted
  <2> QED
    BY <2>1, <2>2, <2>3
<1> QED
  BY <1>1, <1>2, Zenon DEF ServerIInv

\* One call of epoll_wait reports each ready descriptor once and disables it; the events
\* are then handed out one by one.
LEMMA get_tokenKeeps ==
  ASSUME ServerIInv, get_token_noblock
  PROVE  ServerIInv'
<1>1. UNCHANGED <<backlog, issued, connections, next_token, refused>>
  BY Zenon DEF get_token_noblock, peers
<1>2. Counted'
  BY <1>1, Zenon DEF ServerIInv, Counted
<1>3. CASE events > 0
  <2>1. ready_tokens' = Rest(ready_tokens) /\ current' = pop(ready_tokens) /\ interest' = interest
    BY <1>3, Zenon DEF get_token_noblock
  <2>2. /\ ready_tokens' \in Seq(Events) /\ Waiting(ready_tokens', interest, connections)
        /\ InHand(current', ready_tokens', interest, connections)
    BY <2>1, TakeOne, Zenon DEF ServerIInv
  <2> QED
    BY <1>1, <1>2, <2>1, <2>2, Zenon DEF ServerIInv
<1>4. CASE ~ (events > 0)
  <2>1. PICK batch \in Injection(1 .. Cardinality(Ready), Ready) :
          LET reported == [i \in DOMAIN batch |-> <<batch[i], Available(batch[i])>>] IN
          ready_tokens' = Rest(reported) /\ current' = pop(reported) /\ interest' = OneShot(Ready)
    BY <1>4, Zenon DEF get_token_noblock
  <2> DEFINE reported == [i \in DOMAIN batch |-> <<batch[i], Available(batch[i])>>]
  <2>2. Cardinality(Ready) \in Nat
    <3>1. IsFiniteSet(Connections)
      BY FS_Interval, CapacityAssumption DEF Connections
    <3>2. IsFiniteSet(Tokens)
      BY <3>1, FS_AddElement DEF Tokens
    <3> QED
      BY <3>2, FS_Subset, FS_CardinalityType DEF Ready
  <2>3. /\ batch \in [1 .. Cardinality(Ready) -> Ready]
        /\ \A i, j \in DOMAIN batch : batch[i] = batch[j] => i = j
    BY Zenon DEF Injection, IsInjective
  <2>4. \A t \in Ready : t \in Tokens /\ Available(t) \in SUBSET {"READ", "WRITE", "HUP"}
                         /\ interest[t] # "unregistered"
    BY DEF Ready, Available
  <2>5. \A t \in Ready : t \in connections \cup {listener_token}
    BY <2>4 DEF ServerIInv, Registered, Tokens
  <2>6. \A i \in DOMAIN batch : reported[i] \in Events /\ reported[i][1] = batch[i]
    BY <2>3, <2>4 DEF Events
  <2>7. DOMAIN reported = 1 .. Cardinality(Ready)
    BY <2>3, Zenon
  <2>8. reported \in Seq(Events)
    <3>1. reported \in [1 .. Cardinality(Ready) -> Events]
      BY <2>3, <2>6, <2>7, Zenon
    <3> HIDE DEF reported
    <3> QED
      BY <2>2, <3>1
  <2>9. interest' = [t \in Tokens |-> IF t \in Ready THEN "disabled" ELSE interest[t]]
    BY <2>1, Zenon DEF OneShot
  <2>10. interest' \in [Tokens -> Interests] /\ Registered(interest', connections)
    <3>1. \A t \in Connections : t \in Tokens
      BY DEF Tokens
    <3>2. Registered(interest', connections)
      BY <2>4, <2>9, <3>1, Zenon DEF ServerIInv, Registered
    <3>3. "disabled" \in Interests
      BY DEF Interests
    <3> QED
      BY <2>9, <3>2, <3>3, Zenon DEF ServerIInv
  <2>11. Waiting(reported, interest', connections)
    <3>1. \A i \in DOMAIN reported : Reported(reported[i][1], interest', connections)
      BY <2>3, <2>4, <2>5, <2>6, <2>9, Zenon DEF Reported
    <3> QED
      BY <2>3, <2>6, <3>1, Zenon DEF Waiting
  <2> HIDE DEF reported
  <2>12. /\ ready_tokens' \in Seq(Events) /\ Waiting(ready_tokens', interest', connections)
         /\ InHand(current', ready_tokens', interest', connections)
    BY <2>1, <2>8, <2>11, TakeOne, Zenon DEF reported
  <2> QED
    BY <1>1, <1>2, <2>10, <2>12, Zenon DEF ServerIInv
<1> QED
  BY <1>3, <1>4

\* Whoever is there, but for token t, is watched as before and still there.
OthersAsBefore(t, watched, there, watched2, there2) ==
  \A u \in Tokens : u # t /\ u \in there \cup {listener_token} =>
    watched2[u] = watched[u] /\ u \in there2 \cup {listener_token}

\* A change of the registration of token t only keeps the events for others.
LEMMA OthersWait ==
  ASSUME NEW s, NEW watched, NEW there, NEW watched2, NEW there2, NEW t,
         Waiting(s, watched, there), NoneFor(t, s),
         OthersAsBefore(t, watched, there, watched2, there2), s \in Seq(Events)
  PROVE  Waiting(s, watched2, there2)
<1>1. \A i \in DOMAIN s : s[i][1] \in Tokens
  BY EventSeq DEF Events
<1>2. \A i \in DOMAIN s : Reported(s[i][1], watched2, there2)
  BY <1>1, Zenon DEF Waiting, NoneFor, Reported, OthersAsBefore
<1> QED
  BY <1>2, Zenon DEF Waiting

\* The listener is watched again, and a new connection gets a token that none had.
LEMMA acceptKeeps ==
  ASSUME ServerIInv, accept_connection
  PROVE  ServerIInv'
<1>1. current # <<>> /\ current[1] = listener_token /\ current' = <<>>
      /\ UNCHANGED <<ready_tokens, issued, refused>>
  BY Zenon DEF accept_connection, Handled
<1>2. NoneFor(listener_token, ready_tokens)
  BY <1>1, Zenon DEF ServerIInv, InHand
<1>3. \A watched, there : InHand(current', ready_tokens', watched, there)
  BY <1>1, Zenon DEF InHand
<1>4. listener_token \in Tokens /\ "read" \in Interests
  BY Zenon DEF Tokens, Interests
<1>5. CASE "READ" \in current[2] /\ backlog > 0
  <2>1. PICK agent \in {"hup", "read", "write"} :
          /\ connections' = connections \cup {next_token} /\ next_token' = next_token + 1
          /\ backlog' = backlog - 1
          /\ interest' = [[interest EXCEPT ![next_token] = agent] EXCEPT ![listener_token] = "read"]
    BY <1>5, Zenon DEF accept_connection, listen
  <2>2. Counted'
    BY <1>1, <1>5, <2>1, CapacityAssumption DEF ServerIInv, Counted
  <2>3. next_token \in Connections /\ next_token \in Tokens /\ next_token \notin connections
        /\ next_token # listener_token
    BY <1>5, CapacityAssumption DEF ServerIInv, Counted, Connections, Tokens, listener_token
  <2>4. interest' \in [Tokens -> Interests]
    <3>1. agent \in Interests
      BY <2>1 DEF Interests
    <3>2. [interest EXCEPT ![next_token] = agent] \in [Tokens -> Interests]
      BY <3>1, ExceptType, Zenon DEF ServerIInv
    <3> QED
      BY <1>4, <2>1, <3>2, ExceptType, Zenon
  <2>5. \A t \in Tokens : t # next_token /\ t # listener_token => interest'[t] = interest[t]
    BY <2>1, Zenon DEF ServerIInv
  <2>6. Registered(interest', connections')
    <3>1. \A t \in Connections : t \in Tokens /\ t # listener_token
      BY DEF Tokens, Connections, listener_token
    <3> QED
      BY <2>1, <2>5, <3>1, Zenon DEF ServerIInv, Registered
  <2>7. OthersAsBefore(listener_token, interest, connections, interest', connections')
    BY <2>1, <2>3, <2>5, Zenon DEF OthersAsBefore
  <2>8. Waiting(ready_tokens, interest', connections')
    BY <1>2, <2>7, OthersWait, Zenon DEF ServerIInv
  <2> QED
    BY <1>1, <1>3, <2>2, <2>4, <2>6, <2>8, Zenon DEF ServerIInv
<1>6. CASE ~ ("READ" \in current[2] /\ backlog > 0)
  <2>1. /\ interest' = [interest EXCEPT ![listener_token] = "read"]
        /\ UNCHANGED <<connections, next_token, backlog>>
    BY <1>6, Zenon DEF accept_connection, listen
  <2>2. Counted'
    BY <1>1, <2>1, Zenon DEF ServerIInv, Counted
  <2>3. interest' \in [Tokens -> Interests]
    BY <1>4, <2>1, ExceptType, Zenon DEF ServerIInv
  <2>4. \A t \in Tokens : t # listener_token => interest'[t] = interest[t]
    BY <2>1, Zenon DEF ServerIInv
  <2>5. Registered(interest', connections')
    <3>1. \A t \in Connections : t \in Tokens /\ t # listener_token
      BY DEF Tokens, Connections, listener_token
    <3> QED
      BY <2>1, <2>4, <3>1, Zenon DEF ServerIInv, Registered
  <2>6. OthersAsBefore(listener_token, interest, connections, interest', connections')
    BY <2>1, <2>4, Zenon DEF OthersAsBefore
  <2>7. Waiting(ready_tokens, interest', connections')
    BY <1>2, <2>6, OthersWait, Zenon DEF ServerIInv
  <2> QED
    BY <1>1, <1>3, <2>2, <2>3, <2>5, <2>7, Zenon DEF ServerIInv
<1> QED
  BY <1>5, <1>6, Zenon

\* The connection of an event is still there; it is watched again as its agent says, or
\* removed for good.
LEMMA handle_dataKeeps ==
  ASSUME ServerIInv, handle_data
  PROVE  ServerIInv'
<1> DEFINE t == current[1]
<1>1. current # <<>> /\ t # listener_token /\ current' = <<>>
      /\ UNCHANGED <<ready_tokens, backlog, issued, next_token>>
  BY Zenon DEF handle_data, Handled
<1>2. NoneFor(t, ready_tokens) /\ t \in connections /\ current \in Events
  BY <1>1, Zenon DEF ServerIInv, InHand, Reported
<1>3. \A watched, there : InHand(current', ready_tokens', watched, there)
  BY <1>1, Zenon DEF InHand
<1>4. t \in Tokens
  BY <1>2 DEF Events
<1>5. \A u \in Connections : u \in Tokens /\ u # listener_token
  BY DEF Tokens, Connections, listener_token
<1>6. PICK preserve \in BOOLEAN, agent \in {"disabled", "read", "write"} :
        IF preserve
        THEN interest' = [interest EXCEPT ![t] = agent] /\ UNCHANGED <<connections, refused>>
        ELSE /\ interest' = [interest EXCEPT ![t] = "unregistered"]
             /\ connections' = connections \ {t} /\ refused' = refused \cup {t}
  BY <1>1, <1>2, Zenon DEF handle_data
<1>7. agent \in Interests /\ "unregistered" \in Interests
  BY DEF Interests
<1> HIDE DEF t
<1>8. interest' \in [Tokens -> Interests]
  BY <1>6, <1>7, ExceptType, ZenonT(60) DEF ServerIInv
<1>9. \A u \in Tokens : u # t => interest'[u] = interest[u]
  BY <1>6, Zenon DEF ServerIInv
<1>10. CASE preserve
  <2>1. UNCHANGED <<connections, refused>>
    BY <1>6, <1>10, Zenon
  <2>2. Counted'
    BY <1>1, <2>1, Zenon DEF ServerIInv, Counted
  <2>3. Registered(interest', connections')
    BY <1>2, <1>5, <1>9, <2>1, Zenon DEF ServerIInv, Registered
  <2>4. OthersAsBefore(t, interest, connections, interest', connections')
    BY <1>9, <2>1, Zenon DEF OthersAsBefore
  <2>5. Waiting(ready_tokens, interest', connections')
    BY <1>2, <2>4, OthersWait, Zenon DEF ServerIInv
  <2> QED
    BY <1>1, <1>3, <1>8, <2>2, <2>3, <2>5, Zenon DEF ServerIInv
<1>11. CASE ~ preserve
  <2>1. /\ interest' = [interest EXCEPT ![t] = "unregistered"]
        /\ connections' = connections \ {t} /\ refused' = refused \cup {t}
    BY <1>6, <1>11, Zenon
  <2>2. Counted'
    BY Zenon, <1>1, <1>2, <2>1 DEF ServerIInv, Counted
  <2>3. Registered(interest', connections')
    <3>1. interest'[t] = "unregistered"
      BY <1>4, <2>1, Zenon DEF ServerIInv
    <3> QED
      BY <1>5, <1>9, <2>1, <3>1, Zenon DEF ServerIInv, Registered
  <2>4. OthersAsBefore(t, interest, connections, interest', connections')
    BY <1>9, <2>1, Zenon DEF OthersAsBefore
  <2>5. Waiting(ready_tokens, interest', connections')
    BY <1>2, <2>4, OthersWait, Zenon DEF ServerIInv
  <2> QED
    BY <1>1, <1>3, <1>8, <2>2, <2>3, <2>5, Zenon DEF ServerIInv
<1> QED
  BY <1>10, <1>11, Zenon

\* The inductive invariant of the control server: the events in ready_tokens and the one
\* in hand are for different descriptors, none of them watched, each of a connection that
\* is there; tokens are given out in order and none is used twice.
THEOREM ServerInvariant == ServerSpec => []ServerIInv
<1>1. ServerInit => ServerIInv
  BY ServerStarts
<1>2. ServerIInv /\ [ServerNext]_serverVars => ServerIInv'
  <2> SUFFICES ASSUME ServerIInv, [ServerNext]_serverVars PROVE ServerIInv'
    BY Zenon
  <2>1. CASE UNCHANGED serverVars
    <3>1. UNCHANGED <<backlog, issued, interest, ready_tokens, current, connections, next_token,
                      refused>>
      BY <2>1, Zenon DEF serverVars
    <3> QED
      BY <3>1, Zenon DEF ServerIInv, Counted
  <2> QED
    BY <2>1, PeersKeep, get_tokenKeeps, acceptKeeps, handle_dataKeeps, Zenon DEF ServerNext
<1> QED
  BY <1>1, <1>2, PTL DEF ServerSpec

\* No event reaches a connection twice or after its removal, and a connection is there
\* until its own agent asked to be removed: for any number of connections, whatever the
\* peers and the agents do.
THEOREM EventsAlwaysMatch == ServerSpec => []EventsMatch
<1>1. ServerIInv => EventsMatch
  <2> SUFFICES ASSUME ServerIInv PROVE EventsMatch
    BY Zenon
  <2> DEFINE waiting == IF current = <<>> THEN ready_tokens ELSE Append(ready_tokens, current)
             tokens == [i \in DOMAIN waiting |-> waiting[i][1]]
  <2>1. Waiting(waiting, interest, connections)
    <3>1. CASE current = <<>>
      BY <3>1, Zenon DEF ServerIInv
    <3>2. CASE current # <<>>
      <4>1. waiting = Append(ready_tokens, current)
        BY <3>2, Zenon
      <4>2. current \in Events /\ Reported(current[1], interest, connections)
            /\ NoneFor(current[1], ready_tokens)
        BY <3>2, Zenon DEF ServerIInv, InHand
      <4>3. /\ DOMAIN Append(ready_tokens, current) = DOMAIN ready_tokens \cup {Len(ready_tokens) + 1}
            /\ \A i \in DOMAIN ready_tokens : Append(ready_tokens, current)[i] = ready_tokens[i]
            /\ Append(ready_tokens, current)[Len(ready_tokens) + 1] = current
        BY <4>2 DEF ServerIInv
      <4>4. Waiting(Append(ready_tokens, current), interest, connections)
        BY <4>2, <4>3, Zenon DEF Waiting, NoneFor, ServerIInv
      <4> QED
        BY <4>1, <4>4, Zenon
    <3> QED
      BY <3>1, <3>2, Zenon
  <2> HIDE DEF waiting
  <2>2. IsInjective(tokens)
    BY <2>1, Zenon DEF Waiting, IsInjective
  <2>3. \A t \in Range(tokens) : interest[t] = "disabled" /\ t \in connections \cup {listener_token}
    BY <2>1, ZenonT(60) DEF Waiting, Reported, Range
  <2>4. connections = (1 .. next_token - 1) \ refused
    BY Zenon DEF ServerIInv, Counted
  <2> QED
    BY <2>2, <2>3, <2>4, Zenon DEF EventsMatch, waiting
<1> QED
  BY <1>1, ServerInvariant, PTL
=============================================================================
