----------------------------- MODULE BwiClient ------------------------------
(***************************************************************************)
(* The clients of bwi-client_server/client.c.  The main thread measures    *)
(* the overhead of one exchange with the server under SCHED_FIFO, creates  *)
(* the real-time thread, and waits for SIGTERM.  The real-time thread runs *)
(* a periodic task (module Task) whose program, client_prog, sends one     *)
(* request and waits for the answer, lending its bandwidth to the server   *)
(* meanwhile if option -b is given.                                        *)
(***************************************************************************)
EXTENDS BwiServer

CONSTANTS server_of,           \* the server of each client (option -v)
          use_bwi,             \* the clients with option -b
          stopping_iteration,  \* option -i of each client, 0 when not given
          MaxJobs              \* bound on the jobs of each client released before its stop

ASSUME ClientAssumption ==
    /\ server_of \in [Clients -> Servers]
    /\ use_bwi \subseteq Clients
    /\ stopping_iteration \in [Clients -> Nat]
    /\ MaxJobs \in [Clients -> Nat]

VARIABLE client

clientVars == <<serverVars, client>>

NewClient == [pc      |-> "down",     \* the main thread
              job     |-> "none",     \* the real-time thread
              created |-> FALSE,      \* client_task is not NULL
              stopped |-> FALSE,      \* client_task->stopped
              SIGUSR2 |-> FALSE,      \* pending for the real-time thread
              n       |-> 0,          \* nth_iteration
              lent    |-> FALSE,      \* its bandwidth, to its server
              result  |-> "none",     \* how the last exchange ended
              got     |-> Zeros]      \* response

ClientInit == ServerInit /\ client = [c \in Clients |-> NewClient]

Dead == {"exited", "failed", "killed"}
Alive(c) == client[c].pc \notin Dead \cup {"down"}

(* A client whose process has ended.                                       *)
Gone(pc) == [NewClient EXCEPT !.pc = pc]

Request(c) == <<c, client[c].n>>
Send(c) == inbox' = [inbox EXCEPT ![server_of[c]] =
                        Append(@, [from |-> c, request |-> Request(c)])]

-----------------------------------------------------------------------------
(* The main thread up to the creation of the real-time thread.             *)

ClientStart(c, ok) ==
    /\ client[c].pc = "starting"
    /\ ok \/ Faults
    /\ client' = [client EXCEPT ![c] = IF ok THEN [@ EXCEPT !.pc = "signal"]
                                       ELSE Gone("failed")]
    /\ UNCHANGED serverVars

(* SIGUSR1 makes the server enter SCHED_FIFO, or later leave it.           *)
SignalServer(c) ==
    /\ client[c].pc \in {"signal", "signal_back"}
    /\ signals' = Kill(server_of[c], "SIGUSR1")
    /\ client' = [client EXCEPT ![c].pc = IF @ = "signal" THEN "enter" ELSE "leave"]
    /\ UNCHANGED <<server, inbox, answers, unanswered>>

(* Variant: the exchange starts as soon as the server has been signalled.  *)
MeasureSendEarly(c) ==
    /\ client[c].pc = "enter"
    /\ IF Bound(server_of[c])
       THEN Send(c) /\ client' = [client EXCEPT ![c].pc = "measure"]
       ELSE /\ client' = [client EXCEPT ![c].pc = "signal_back", ![c].result = "refused"]
            /\ UNCHANGED inbox
    /\ UNCHANGED <<server, signals, answers, unanswered>>

MeasureSend(c) ==
    /\ client[c].pc = "enter" /\ server[server_of[c]].fifo
    /\ IF Bound(server_of[c])
       THEN Send(c) /\ client' = [client EXCEPT ![c].pc = "measure"]
       ELSE /\ client' = [client EXCEPT ![c].pc = "signal_back", ![c].result = "refused"]
            /\ UNCHANGED inbox
    /\ UNCHANGED <<server, signals, answers, unanswered>>

MeasureReceive(c) ==
    /\ client[c].pc = "measure" /\ answers[c] # <<>>
    /\ answers' = [answers EXCEPT ![c] = Tail(@)]
    /\ client' = [client EXCEPT ![c].pc = "signal_back", ![c].result = "answer",
                                ![c].got = Head(answers[c])]
    /\ UNCHANGED <<server, signals, inbox, unanswered>>

(* The server has left SCHED_FIFO; the response is compared, the busy      *)
(* loops and the real-time thread are created.                             *)
MeasureDone(c, ok) ==
    /\ client[c].pc = "leave" /\ ~server[server_of[c]].fifo
    /\ ok \/ Faults
    /\ LET sound == client[c].result = "answer" /\ client[c].got = Request(c)
       IN client' = [client EXCEPT ![c] = IF sound /\ ok
                                          THEN [@ EXCEPT !.pc = "sigwait", !.job = "cbs",
                                                         !.result = "none"]
                                          ELSE Gone("failed")]
    /\ UNCHANGED serverVars

(* The server does not switch within 500 ms, or SCHED_FIFO cannot be       *)
(* entered: fatal_error.                                                   *)
GiveUpMeasurement(c) ==
    /\ Faults
    /\ \/ client[c].pc = "enter"
       \/ client[c].pc = "leave" /\ server[server_of[c]].fifo
    /\ client' = [client EXCEPT ![c] = Gone("failed")]
    /\ UNCHANGED serverVars

-----------------------------------------------------------------------------
(* The real-time thread.                                                   *)

(* Its CBS may be refused; the thread returns, but nobody is told.         *)
EnterCbs(c, ok) ==
    /\ client[c].job = "cbs"
    /\ ok \/ Faults
    /\ client' = [client EXCEPT ![c].job = IF ok THEN "sigwait" ELSE "ended"]
    /\ UNCHANGED serverVars

CreateTask(c, ok) ==
    /\ client[c].job = "sigwait" /\ "SIGUSR1" \in signals[c]
    /\ ok \/ Faults
    /\ signals' = [signals EXCEPT ![c] = @ \ {"SIGUSR1"}]
    /\ client' = [client EXCEPT ![c] = IF ok THEN [@ EXCEPT !.job = "sleep", !.created = TRUE]
                                       ELSE Gone("failed")]
    /\ UNCHANGED <<server, inbox, answers, unanswered>>

(* The next job is released; its prologue runs and, with option -b, lends  *)
(* the bandwidth of the client to its server.                              *)
Release(c, ok) ==
    /\ client[c].job = "sleep"
    /\ client[c].n < MaxJobs[c] \/ client[c].stopped
    /\ ok \/ (Faults /\ c \in use_bwi)
    /\ client' = [client EXCEPT ![c] =
                     IF ok THEN [@ EXCEPT !.job = "send", !.n = client[c].n + 1, !.got = Zeros,
                                          !.lent = (c \in use_bwi)]
                     ELSE Gone("failed")]
    /\ UNCHANGED serverVars

(* SIGUSR2 is unblocked (a pending one is handled there and then) and the  *)
(* request is sent.  If nobody receives at the port, recv fails at once.   *)
SendRequest(c) ==
    /\ client[c].job = "send"
    /\ IF Bound(server_of[c])
       THEN /\ Send(c)
            /\ client' = [client EXCEPT ![c].job = "recv", ![c].SIGUSR2 = FALSE]
       ELSE /\ client' = [client EXCEPT ![c].job = "revoke", ![c].SIGUSR2 = FALSE,
                                        ![c].result = "refused"]
            /\ UNCHANGED inbox
    /\ UNCHANGED <<server, signals, answers, unanswered>>

RecvFallsAsleep(c) ==
    /\ client[c].job = "recv" /\ answers[c] = <<>>
    /\ client' = [client EXCEPT ![c].job = "recv_asleep"]
    /\ UNCHANGED serverVars

(* The empty handler of SIGUSR2 interrupts recv only while it sleeps.      *)
TakeSIGUSR2(c) ==
    /\ client[c].job \in {"recv", "recv_asleep"} /\ client[c].SIGUSR2
    /\ client' = [client EXCEPT ![c].SIGUSR2 = FALSE,
                     ![c].job = IF @ = "recv_asleep" THEN "revoke" ELSE @,
                     ![c].result = IF client[c].job = "recv_asleep" THEN "interrupted" ELSE @]
    /\ UNCHANGED serverVars

ReceiveResponse(c) ==
    /\ client[c].job \in {"recv", "recv_asleep"} /\ answers[c] # <<>>
    /\ answers' = [answers EXCEPT ![c] = Tail(@)]
    /\ client' = [client EXCEPT ![c].job = "revoke", ![c].result = "answer",
                                ![c].got = Head(answers[c])]
    /\ UNCHANGED <<server, signals, inbox, unanswered>>

(* Sending SIGTERM to a client: the main thread blocks it from just before *)
(* the creation of the real-time thread until it has received one.         *)
Blocked(c) == client[c].pc \in {"sigwait", "stop"}

(* The bandwidth is taken back, the epilogue runs and the result is looked *)
(* at; the thread tells the main thread when it is to stop.  task_start    *)
(* returns once the task has been stopped.  A bandwidth that cannot be     *)
(* taken back is fatal.                                                    *)
EndJob(c, ok) ==
    /\ client[c].job = "revoke"
    /\ ok \/ (Faults /\ c \in use_bwi)
    /\ LET ended == [client[c] EXCEPT !.lent = FALSE, !.result = "none",
                                      !.job = IF client[c].stopped THEN "ended" ELSE "sleep"]
       IN CASE client[c].result = "refused" \/ ~ok ->
                 /\ client' = [client EXCEPT ![c] = Gone("failed")]
                 /\ UNCHANGED signals
            [] client[c].result # "refused" /\ ok /\ client[c].n # stopping_iteration[c] ->
                 /\ client' = [client EXCEPT ![c] = ended]
                 /\ UNCHANGED signals
            [] client[c].result # "refused" /\ ok /\ client[c].n = stopping_iteration[c] ->
                 /\ client' = [client EXCEPT ![c] = IF Blocked(c) THEN ended
                                                    ELSE Gone("killed")]
                 /\ signals' = Kill(c, "SIGTERM")
    /\ UNCHANGED <<server, inbox, answers, unanswered>>

-----------------------------------------------------------------------------
(* The main thread from sigwait on.                                        *)

TakeTerm(c) ==
    /\ client[c].pc = "sigwait" /\ "SIGTERM" \in signals[c]
    /\ signals' = [signals EXCEPT ![c] = @ \ {"SIGTERM"}]
    /\ client' = [client EXCEPT ![c].pc = "stop"]
    /\ UNCHANGED <<server, inbox, answers, unanswered>>

(* SIGTERM is unblocked, and a second one kills the process; task_stop     *)
(* follows the NULL pointer if there is no task.                           *)
StopTask(c) ==
    /\ client[c].pc = "stop"
    /\ client' = [client EXCEPT ![c] =
          CASE "SIGTERM" \in signals[c] -> Gone("killed")
            [] "SIGTERM" \notin signals[c] /\ ~client[c].created -> Gone("failed")
            [] OTHER -> [@ EXCEPT !.pc = "interrupt", !.stopped = TRUE]]
    /\ UNCHANGED serverVars

InterruptRecv(c) ==
    /\ client[c].pc = "interrupt"
    /\ client' = [client EXCEPT ![c].pc = "join", ![c].SIGUSR2 = (client[c].job # "ended")]
    /\ UNCHANGED serverVars

Join(c) ==
    /\ client[c].pc = "join" /\ client[c].job = "ended"
    /\ client' = [client EXCEPT ![c] = Gone("exited")]
    /\ UNCHANGED serverVars

-----------------------------------------------------------------------------

ClientMain(c) ==
    \/ \E ok \in BOOLEAN : ClientStart(c, ok) \/ MeasureDone(c, ok)
    \/ SignalServer(c) \/ MeasureSend(c) \/ MeasureReceive(c) \/ GiveUpMeasurement(c)
    \/ TakeTerm(c) \/ StopTask(c) \/ InterruptRecv(c) \/ Join(c)

ClientThread(c) ==
    \/ \E ok \in BOOLEAN : EnterCbs(c, ok) \/ CreateTask(c, ok) \/ Release(c, ok)
                            \/ EndJob(c, ok)
    \/ SendRequest(c) \/ RecvFallsAsleep(c) \/ TakeSIGUSR2(c)
    \/ ReceiveResponse(c)

ClientType ==
    /\ ServerType
    /\ client \in [Clients ->
          [pc : {"down", "starting", "signal", "enter", "measure", "signal_back", "leave",
                 "sigwait", "stop", "interrupt", "join"} \cup Dead,
           job : {"none", "cbs", "sigwait", "sleep", "send", "recv", "recv_asleep",
                  "revoke", "ended"},
           created : BOOLEAN, stopped : BOOLEAN, SIGUSR2 : BOOLEAN, n : Nat,
           lent : BOOLEAN, result : {"none", "answer", "interrupted", "refused"},
           got : (Clients \cup {Nobody}) \X Nat]]

=============================================================================
