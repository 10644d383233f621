----------------------------- MODULE ControlServer ----------------------------
(***************************************************************************)
(* The server of control connections (framework/src/control/tcp.rs;        *)
(* sctp.rs has the same steps) over an epoll descriptor with one-shot      *)
(* registrations (control/linux/epoll.rs).  It runs as a task of a         *)
(* scheduler, one call of schedule at a time.  What an agent decides is    *)
(* left open; it drops its stream with the connection.                     *)
(***************************************************************************)
EXTENDS Integers, Sequences, FiniteSets, Functions

CONSTANTS
  MaxConnections,  \* bound: connections over the server's life
  MaxEvents        \* capacity of ready_tokens

listener_token == 0
Connections == 1 .. MaxConnections
Tokens == {listener_token} \cup Connections

\* Every registered descriptor fits into one call of epoll_wait.
ASSUME CapacityAssumption == MaxConnections \in Nat /\ MaxEvents \in Nat /\ MaxEvents > MaxConnections

VARIABLES
  backlog, issued,     \* connections not accepted yet; all that were ever made
  unread, closed,      \* connections with bytes to read, and closed by the peer
  interest,            \* what epoll watches each descriptor for
  ready_tokens, events,
  current,             \* the event that schedule handles, or <<>>
  connections, next_token,
  refused              \* connections whose agent asked to be removed

serverVars == <<backlog, issued, unread, closed, interest, ready_tokens, events, current,
                connections, next_token, refused>>
peers == <<backlog, issued, unread, closed>>

ServerInit ==
  /\ backlog = 0 /\ issued = 0 /\ unread = {} /\ closed = {}
  /\ interest = [t \in Tokens |-> IF t = listener_token THEN "read" ELSE "unregistered"]
  /\ ready_tokens = <<>> /\ events = 0 /\ current = <<>>
  /\ connections = {} /\ next_token = 1 /\ refused = {}

-----------------------------------------------------------------------------
(* Peers *)

Connect ==
  /\ issued < MaxConnections
  /\ issued' = issued + 1 /\ backlog' = backlog + 1
  /\ UNCHANGED <<unread, closed, interest, ready_tokens, events, current, connections,
                 next_token, refused>>

\* The peer is gone before its connection is accepted.
Abort ==
  /\ backlog > 0
  /\ backlog' = backlog - 1
  /\ UNCHANGED <<issued, unread, closed, interest, ready_tokens, events, current, connections,
                 next_token, refused>>

Send(t) ==
  /\ t \in connections \ closed
  /\ unread' = unread \cup {t}
  /\ UNCHANGED <<backlog, issued, closed, interest, ready_tokens, events, current, connections,
                 next_token, refused>>

Close(t) ==
  /\ t \in connections \ closed
  /\ closed' = closed \cup {t}
  /\ UNCHANGED <<backlog, issued, unread, interest, ready_tokens, events, current, connections,
                 next_token, refused>>

-----------------------------------------------------------------------------
(* epoll *)

\* What epoll reports of a descriptor.  After an event it is "disabled", until
\* schedule_read or schedule_write; "hup" is what new_io_fd registers it for.
Available(t) ==
  IF interest[t] \in {"unregistered", "disabled"} THEN {}
  ELSE {a \in {"READ", "WRITE", "HUP"} :
          \/ a = "READ" /\ interest[t] = "read"
             /\ IF t = listener_token THEN backlog > 0 ELSE t \in unread \cup closed
          \/ a = "WRITE" /\ interest[t] = "write"
          \/ a = "HUP" /\ t \in closed}

Ready == {t \in Tokens : Available(t) # {}}

\* Faulty variant: registrations are not one-shot.
StillWatched(tokens) == interest

\* An event disables its descriptor (EPOLLONESHOT).
OneShot(tokens) == [t \in Tokens |-> IF t \in tokens THEN "disabled" ELSE interest[t]]

\* The last event of ready_tokens, if there is one, and what remains without it.
pop(tokens) == IF tokens = <<>> THEN <<>> ELSE tokens[Len(tokens)]
Rest(tokens) == IF tokens = <<>> THEN <<>> ELSE SubSeq(tokens, 1, Len(tokens) - 1)

\* events counts the popped event too, so the last call finds nothing and waits not.
get_token_noblock ==
  /\ current = <<>>
  /\ IF events > 0
     THEN /\ events' = events - 1
          /\ ready_tokens' = Rest(ready_tokens) /\ current' = pop(ready_tokens)
          /\ UNCHANGED interest
     ELSE \E batch \in Injection(1 .. Cardinality(Ready), Ready) :
            LET reported == [i \in DOMAIN batch |-> <<batch[i], Available(batch[i])>>] IN
            /\ events' = Len(reported)
            /\ ready_tokens' = Rest(reported) /\ current' = pop(reported)
            /\ interest' = OneShot(Ready)
  /\ UNCHANGED peers /\ UNCHANGED <<connections, next_token, refused>>

-----------------------------------------------------------------------------
(* The handlers of schedule *)

Handled == current' = <<>> /\ UNCHANGED <<ready_tokens, events>>

\* Faulty variant: the listener is not watched again.
ListenOnce(watched) == watched

listen(watched) == [watched EXCEPT ![listener_token] = "read"]

\* A new agent has its descriptor registered and may schedule a read or a write.
accept_connection ==
  /\ current # <<>> /\ current[1] = listener_token
  /\ IF "READ" \in current[2] /\ backlog > 0
     THEN \E agent \in {"hup", "read", "write"} :
            /\ connections' = connections \cup {next_token}
            /\ next_token' = next_token + 1
            /\ backlog' = backlog - 1
            /\ interest' = listen([interest EXCEPT ![next_token] = agent])
     ELSE /\ interest' = listen(interest)
          /\ UNCHANGED <<connections, next_token, backlog>>
  /\ Handled
  /\ UNCHANGED <<issued, unread, closed, refused>>

\* One of the three calls of the agent is made, a read before a write before a hang-up.
\* The agent reads all there is, may schedule itself again, and says whether to stay.
handle_data ==
  LET t == current[1] IN
  /\ current # <<>> /\ t # listener_token
  /\ \E preserve \in BOOLEAN, agent \in {"disabled", "read", "write"} :
       IF t \notin connections
       THEN UNCHANGED <<unread, interest, connections, refused>>
       ELSE /\ unread' = IF "READ" \in current[2] \/ ~ preserve THEN unread \ {t} ELSE unread
            /\ IF preserve
               THEN /\ interest' = [interest EXCEPT ![t] = agent]
                    /\ UNCHANGED <<connections, refused>>
               ELSE /\ interest' = [interest EXCEPT ![t] = "unregistered"]
                    /\ connections' = connections \ {t}
                    /\ refused' = refused \cup {t}
  /\ Handled
  /\ UNCHANGED <<backlog, issued, closed, next_token>>

ServerNext ==
  \/ Connect \/ Abort \/ \E t \in Connections : Send(t) \/ Close(t)
  \/ get_token_noblock \/ accept_connection \/ handle_data

\* The server is a task that its scheduler executes again and again.
ServerSpec ==
  /\ ServerInit /\ [][ServerNext]_serverVars
  /\ WF_serverVars(get_token_noblock) /\ WF_serverVars(accept_connection)
  /\ WF_serverVars(handle_data)

-----------------------------------------------------------------------------
(* Properties *)

\* Each event that waits in ready_tokens or is being handled is for the listener or a
\* connection that is still there, one for each, and its descriptor is not watched
\* meanwhile: no event reaches a connection twice or after its removal.  A connection is
\* there until its own agent asked to be removed.
EventsMatch ==
  LET waiting == IF current = <<>> THEN ready_tokens ELSE Append(ready_tokens, current)
      tokens == [i \in DOMAIN waiting |-> waiting[i][1]]
  IN
  /\ IsInjective(tokens)
  /\ \A t \in Range(tokens) : interest[t] = "disabled" /\ t \in connections \cup {listener_token}
  /\ connections = (1 .. next_token - 1) \ refused

\* A pending connection is accepted in time, and a connection whose agent scheduled a
\* read or a write and is ready for it gets the event: the listener is never left
\* unwatched and no event is dropped from ready_tokens.
EventsServed ==
  /\ backlog > 0 ~> backlog = 0
  /\ \A t \in Connections :
       t \in Ready ~> (t \notin connections \/ (current # <<>> /\ current[1] = t))
=============================================================================
