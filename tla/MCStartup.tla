------------------------------ MODULE MCStartup -------------------------------
(***************************************************************************)
(* Startup and ControlServer for TLC: what surrounds the pipelines of a    *)
(* process.  They do not interact: the initial state says which one runs.  *)
(***************************************************************************)
EXTENDS Startup, ControlServer

VARIABLE subject

allVars == <<subject, vars, serverVars>>

SomeBackends ==
  [bess0 |-> "bess", ovs |-> "bare", dpdk0 |-> "dpdk", null |-> "null", nic0 |-> "pci"]

Lists == {Absent, Other, Integer(2), Array(<<1>>), Array(<<1, 2>>), Array(<<1, NotInteger>>)}

\* Queues given for both directions at once, one by one, and in both ways.
QueueSpecs ==
  (Lists \X {Absent} \X {Absent}) \cup ({Absent} \X Lists \X Lists) \cup
  {<<Array(<<1>>), Array(<<1>>), Absent>>, <<Array(<<1>>), Absent, Array(<<1>>)>>}

PortSpec(n, s, q) == [name |-> n, settings |-> s, cores |-> q[1], rx_cores |-> q[2], tx_cores |-> q[3]]

FirstPorts == {PortSpec(n, "ok", q) : n \in Names, q \in QueueSpecs}
SecondPorts == {PortSpec(n, "ok", <<c, Absent, Absent>>) :
                  n \in {"dpdk0", "nic0"}, c \in {Array(<<2>>), Array(<<2, 1, 2>>)}}
PortLists == {<<>>} \cup {<<p>> : p \in FirstPorts}
             \cup {<<p, r>> : p \in FirstPorts, r \in SecondPorts}

File(n, s, c, x, ps) == [name |-> n, settings |-> s, cores |-> c, strict |-> x, ports |-> ps]

\* Files that differ in the ports and in the use of the core list, and files with a
\* value of the wrong type.
Documents ==
  {File("app", "ok", c, x, ps) :
     c \in {Absent, Array(<<1>>), Array(<<1, 2>>)}, x \in {"absent", "true"}, ps \in PortLists}
  \cup {File(n, s, c, x, <<PortSpec("nic0", t, <<Array(<<1>>), Absent, Absent>>)>>) :
     n \in {"absent", "", "bad"}, s \in {"ok", "bad"}, x \in {"false", "bad"},
     c \in {Other, Array(<<NotInteger>>), Array(<<2>>)}, t \in {"ok", "bad"}}
  \cup {File("app", "ok", Absent, "false", <<PortSpec("unnamed", "ok", <<Absent, Absent, Absent>>)>>)}

Flags(h, f, n, m, c, ps) == [help |-> h, f |-> f, n |-> n, m |-> m, c |-> c, p |-> ps]

OneFile == File("app", "ok", Array(<<2>>), "absent", <<PortSpec("nic0", "ok", <<Array(<<2>>), Absent, Absent>>)>>)

\* A file alone, and flags with and without a file.
Commands ==
  {Flags(FALSE, <<d>>, "absent", "absent", <<>>, <<>>) : d \in Documents}
  \cup {Flags(h, f, n, m, c, ps) :
     h \in BOOLEAN, f \in {<<>>, <<OneFile>>}, n \in {"absent", "", "app"}, m \in {"absent", "ok", "bad"},
     c \in {<<>>, <<1>>, <<1, 2>>, <<2, 1, 2>>, <<1, NotInteger>>},
     ps \in {<<>>, <<"nic0">>, <<"nic0", "nic0">>, <<"dpdk0", "nic0", "dpdk0">>, <<"bess0", "nic0">>}}

AllInit ==
  /\ subject \in {"startup", "server"}
  /\ InitFor(IF subject = "startup" THEN Commands ELSE {CHOOSE c \in Commands : TRUE})
  /\ ServerInit

AllNext ==
  /\ UNCHANGED subject
  /\ \/ subject = "startup" /\ Next /\ UNCHANGED serverVars
     \/ subject = "server" /\ ServerNext /\ UNCHANGED vars

\* The fairness of ControlServer.
Served(A) == subject = "server" /\ A /\ UNCHANGED <<subject, vars>>
AllSpec ==
  /\ AllInit /\ [][AllNext]_allVars
  /\ WF_allVars(Served(get_token_noblock))
  /\ WF_allVars(Served(accept_connection))
  /\ WF_allVars(Served(handle_data))
=============================================================================
