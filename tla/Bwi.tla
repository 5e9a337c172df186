-------------------------------- MODULE Bwi ---------------------------------
(***************************************************************************)
(* The experiment driver bwi-client_server/main.c with the servers and     *)
(* clients it creates, starts, stops and waits for.  The driver sleeps for *)
(* a second after creating each process, so that it can calibrate its busy *)
(* loops and measure undisturbed: we take it that this second suffices.    *)
(* Nothing is assumed of its other sleeps.                                 *)
(***************************************************************************)
EXTENDS BwiClient, FiniteSets

CONSTANT Order    \* the processes as they are created: servers, then clients

(* A SERVER_CLIENT must be preceded by its subserver.                      *)
ASSUME OrderAssumption ==
    /\ Order \in Seq(Processes)
    /\ \A p \in Processes : \E i \in DOMAIN Order : Order[i] = p
    /\ \A i, j \in DOMAIN Order : Order[i] = Order[j] => i = j
    /\ \A i, j \in DOMAIN Order : Order[j] \in Servers /\ subserver[Order[j]] = Order[i] => i < j

VARIABLES
    driver,   \* what the driver is doing
    next,     \* the process it creates next
    pids      \* the processes whose proc_id it knows

vars == <<clientVars, driver, next, pids>>

Init == ClientInit /\ driver = "create" /\ next = 1 /\ pids = {}

Ended(p) == \/ p \in Servers /\ server[p].pc \in {"exited", "failed"}
            \/ p \in Clients /\ client[p].pc \in Dead

(* What a second is enough for.                                            *)
Settled(p) ==
    \/ Ended(p)
    \/ p \in Servers /\ Bound(p)
    \/ p \in Clients /\ client[p].pc = "sigwait" /\ client[p].job # "cbs"

-----------------------------------------------------------------------------

(* fork, and in the child exec.                                            *)
Fork ==
    /\ driver = "create" /\ next <= Len(Order)
    /\ driver' = "forked"
    /\ LET p == Order[next]
       IN \/ /\ p \in Servers
             /\ server' = [server EXCEPT ![p].pc = "starting"]
             /\ UNCHANGED client
          \/ /\ p \in Clients
             /\ client' = [client EXCEPT ![p].pc = "starting"]
             /\ UNCHANGED server
    /\ UNCHANGED <<signals, inbox, answers, unanswered, next, pids>>

(* The result of fork is stored.                                           *)
StoreProcId ==
    /\ driver = "forked"
    /\ driver' = "sleep"
    /\ pids' = pids \cup {Order[next]}
    /\ UNCHANGED <<clientVars, next>>

SleepASecond ==
    /\ driver = "sleep" /\ Settled(Order[next])
    /\ driver' = "create"
    /\ next' = next + 1
    /\ UNCHANGED <<clientVars, pids>>

(* A signal that is not blocked kills a client; one sent to a process that *)
(* has ended but has not been waited for does nothing.                     *)
SignalClients(signal) ==
    /\ signals' = [p \in Processes |-> IF p \in Clients /\ Alive(p) /\ Blocked(p)
                                       THEN signals[p] \cup {signal} ELSE signals[p]]
    /\ client' = [c \in Clients |-> IF Alive(c) /\ ~Blocked(c)
                                    THEN Gone("killed") ELSE client[c]]

StartClients ==
    /\ driver = "create" /\ next > Len(Order)
    /\ driver' = "run"
    /\ SignalClients("SIGUSR1")
    /\ UNCHANGED <<server, inbox, answers, unanswered, next, pids>>

StopClients ==
    /\ driver = "run"
    /\ driver' = "stopping"
    /\ SignalClients("SIGTERM")
    /\ UNCHANGED <<server, inbox, answers, unanswered, next, pids>>

StopServers ==
    /\ driver = "stopping"
    /\ driver' = "wait"
    /\ signals' = [p \in Processes |-> IF p \in Servers /\ Bound(p)
                                       THEN signals[p] \cup {"SIGTERM"} ELSE signals[p]]
    /\ UNCHANGED <<server, client, inbox, answers, unanswered, next, pids>>

Wait ==
    /\ driver = "wait"
    /\ \A p \in Processes : Ended(p)
    /\ driver' = "exited"
    /\ UNCHANGED <<clientVars, next, pids>>

(* terminate_driver, on SIGINT at any time or when SCHED_DEADLINE cannot   *)
(* be entered: SIGKILL to every process whose proc_id is known.            *)
TerminateDriver ==
    /\ driver \notin {"exited", "terminated"}
    /\ driver' = "terminated"
    /\ server' = [s \in Servers |-> IF s \in pids /\ ~Ended(s)
                                    THEN Over("exited", FALSE) ELSE server[s]]
    /\ client' = [c \in Clients |-> IF c \in pids /\ ~Ended(c)
                                    THEN Gone("killed") ELSE client[c]]
    /\ signals' = [p \in Processes |-> IF p \in pids THEN {} ELSE signals[p]]
    /\ inbox' = [s \in Servers |-> IF s \in pids THEN <<>> ELSE inbox[s]]
    /\ answers' = [p \in Processes |-> IF p \in pids THEN <<>> ELSE answers[p]]
    /\ UNCHANGED <<unanswered, next, pids>>

Driver == \/ Fork \/ StoreProcId \/ SleepASecond
          \/ StartClients \/ StopClients \/ StopServers \/ Wait

Next ==
    \/ Driver \/ TerminateDriver
    \/ \E s \in Servers : ServerProgram(s) /\ UNCHANGED <<client, driver, next, pids>>
    \/ \E s \in Servers : ServerHandler(s) /\ UNCHANGED <<client, driver, next, pids>>
    \/ \E c \in Clients : ClientMain(c) /\ UNCHANGED <<driver, next, pids>>
    \/ \E c \in Clients : ClientThread(c) /\ UNCHANGED <<driver, next, pids>>

(* Every program that can go on eventually does, and so does the driver,   *)
(* whose sleeps end.  Nothing makes SIGINT arrive or a call fail.          *)
Fairness ==
    /\ WF_vars(Driver)
    /\ \A s \in Servers :
          /\ WF_vars(ServerProgram(s) /\ UNCHANGED <<client, driver, next, pids>>)
          /\ WF_vars(ServerHandler(s) /\ UNCHANGED <<client, driver, next, pids>>)
    /\ \A c \in Clients :
          /\ WF_vars(ClientMain(c) /\ UNCHANGED <<driver, next, pids>>)
          /\ WF_vars(ClientThread(c) /\ UNCHANGED <<driver, next, pids>>)

Spec == Init /\ [][Next]_vars

FairSpec == Spec /\ Fairness

-----------------------------------------------------------------------------
(* The states of the processes, their sockets and the driver.              *)
TypeOK ==
    /\ ClientType
    /\ driver \in {"create", "forked", "sleep", "run", "stopping", "wait",
                   "exited", "terminated"}
    /\ next \in 1..(Len(Order) + 1)
    /\ pids \subseteq Processes

(* Has p ended because of an error?                                        *)
Failed(p) == \/ p \in Servers /\ server[p].pc = "failed"
             \/ p \in Clients /\ client[p].pc = "failed"

(* Is p between sending a request and receiving the answer?                *)
Waiting(p) ==
    \/ p \in Servers /\ server[p].pc \in {"await", "await_asleep"}
    \/ p \in Clients /\ (client[p].pc = "measure" \/ client[p].job \in {"recv", "recv_asleep"})

(* The requests of p at its server, the answers on their way back, and the *)
(* ones that will not come because a call of the server failed.            *)
Outstanding(p) ==
    LET s == IF p \in Servers THEN subserver[p] ELSE server_of[p]
        queued == {i \in DOMAIN inbox[s] : inbox[s][i].from = p}
    IN Cardinality(queued) + (IF server[s].work.from = p THEN 1 ELSE 0)
       + Len(answers[p]) + unanswered[p]

(* Until something ends or is told to end, whoever waits has exactly one   *)
(* request or answer under way and whoever does not has none, whatever the *)
(* signals of the measurements interrupt: nobody waits in vain, unless a   *)
(* failing send or sendto of its server has cost it the answer, and no     *)
(* answer is left over for the next request.  Unless a process fails, the  *)
(* response a client accepts always answers its own last request; a        *)
(* cleared one comes only from a chain with a server that is no longer     *)
(* there.  (A client that fails in its measurement leaves its server in    *)
(* SCHED_FIFO, and the toggles of the next ones fall between its requests.)*)
RequestsArePaired ==
    /\ (driver \notin {"wait", "terminated"} /\ \A p \in Processes : ~Ended(p)) =>
          \A p \in {s \in Servers : subserver[s] # Nobody}
                    \cup {c \in Clients : ~client[c].stopped} :
              Outstanding(p) = IF Waiting(p) THEN 1 ELSE 0
    /\ (driver # "terminated" /\ \A p \in Processes : ~Failed(p)) =>
          \A c \in Clients : client[c].result = "answer" =>
              \/ client[c].got = Request(c)
              \/ client[c].got = Zeros /\ \E s \in Servers : ~Bound(s)

(* While no process has ended: the server of a client that measures runs   *)
(* under SCHED_FIFO; a server does so only with its subserver, until they  *)
(* are told to leave; and once nobody measures every server is back to its *)
(* own scheduling with no signal left over.                                *)
SchedulingFollowsMeasurement ==
    LET measuring(pcs) == \E c \in Clients : client[c].pc \in pcs
    IN (\A p \in Processes : ~Ended(p)) =>
        /\ \A c \in Clients : client[c].pc \in {"measure", "signal_back"} =>
                                 server[server_of[c]].fifo
        /\ ~measuring({"leave"}) =>
              \A s \in Servers : server[s].fifo /\ subserver[s] # Nobody =>
                                    server[subserver[s]].fifo
        /\ ~measuring({"enter", "measure", "signal_back", "leave"}) =>
              \A s \in Servers : /\ ~server[s].fifo /\ ~server[s].handler
                                  /\ "SIGUSR1" \notin signals[s]

(* Has p ended, or been told to end?                                       *)
ToldToEnd(p) == \/ Ended(p)
                \/ p \in Servers /\ server[p].terminated
                \/ p \in Clients /\ client[p].stopped

(* The request that p forwards or makes.                                   *)
RequestOf(p) == IF p \in Servers THEN server[p].work.request ELSE Request(p)

(* Has p lent its bandwidth, or at least tried to?  A measurement does     *)
(* without, and so does a client without -b.                               *)
HasLent(p) ==
    /\ p \in Servers => server[p].lent \in {"lent", "refused"}
    /\ p \in Clients => client[p].pc = "measure" \/ p \notin use_bwi \/ client[p].lent

(* Unless a process fails, whatever a server works on is the request that  *)
(* its sender waits for at that moment, and with that sender's bandwidth,  *)
(* as far as the kernel lends it, all the way down the chain: no server    *)
(* works for one that has given up and goes on, or that has taken its      *)
(* bandwidth back.  A server that does not wait for its subserver has      *)
(* taken its own back, as far as the kernel lets it.                       *)
BandwidthFollowsRequest ==
    /\ (driver # "terminated" /\ \A p \in Processes : ~Failed(p)) =>
          \A s \in Servers, p \in Processes : server[s].work.from = p /\ ~ToldToEnd(p) =>
              Waiting(p) /\ server[s].work.request = RequestOf(p) /\ HasLent(p)
    /\ \A s \in Servers : server[s].lent = "lent" =>
                              server[s].pc \in {"forward", "await", "await_asleep", "interrupted"}

-----------------------------------------------------------------------------
(* What client.c says and the programs do not do.                          *)

(* "Ensure that client_task does not get stuck at fn recv": a client that  *)
(* has stopped its task and signalled its thread ends.                     *)
ClientNotStuck == \A c \in Clients : (client[c].pc = "join") ~> Ended(c)

=============================================================================
