----------------------------- MODULE BwiServer ------------------------------
(***************************************************************************)
(* The UDP servers of bwi-client_server/server.c.  A server serves one     *)
(* request at a time; one with a subserver forwards the request, lends the *)
(* subserver its bandwidth (the BWI system calls 344 and 345) until the    *)
(* answer arrives, and passes the answer back.  SIGUSR1 toggles the server *)
(* and, first, its subserver between SCHED_FIFO and their own scheduling;  *)
(* SIGTERM asks the server to end.                                         *)
(*                                                                         *)
(* A datagram is a request, a pair of a client and a number; what the      *)
(* program really sends is the same "Hello!" each time.  Datagrams on the  *)
(* loopback device are neither lost nor reordered, but those queued for a  *)
(* process that ends are gone.                                             *)
(***************************************************************************)
EXTENDS Naturals, Sequences

CONSTANTS Servers, Clients,
          Nobody,      \* no process
          subserver,   \* the server option -v names (-s its port), or Nobody
          Faults       \* may system calls fail?

Processes == Servers \cup Clients

ASSUME ServerAssumption ==
    /\ Nobody \notin Processes
    /\ Servers \cap Clients = {}
    /\ subserver \in [Servers -> Servers \cup {Nobody}]
    /\ Faults \in BOOLEAN

VARIABLES
    server,    \* the servers
    signals,   \* the signals pending for each process
    inbox,     \* server_socket of each server: datagrams and their senders
    answers,   \* what has been sent back to client_socket, subserver_socket
    unanswered \* history: how many requests of each process a failing call has cost

serverVars == <<server, signals, inbox, answers, unanswered>>

Zeros == <<Nobody, 0>>     \* a buffer that memset has cleared
NoWork == [from |-> Nobody, request |-> Zeros]

NewServer == [pc         |-> "down",
              terminated |-> FALSE,
              fifo       |-> FALSE,     \* old_scheduler_set
              handler    |-> FALSE,     \* is sighand waiting for the subserver?
              work       |-> NoWork,    \* src_addr and the packet received
              buffer     |-> Zeros,
              lent       |-> "no"]      \* its bandwidth: bwi_active, and why not

ServerInit ==
    /\ server = [s \in Servers |-> NewServer]
    /\ signals = [p \in Processes |-> {}]
    /\ inbox = [s \in Servers |-> <<>>]
    /\ answers = [p \in Processes |-> <<>>]
    /\ unanswered = [p \in Processes |-> 0]

Kill(p, signal) == [signals EXCEPT ![p] = @ \cup {signal}]

(* Has the server bound its port?                                          *)
Bound(s) == server[s].pc \notin {"down", "starting", "exited", "failed"}

(* A server whose process has ended; until it is waited for, the kernel    *)
(* still knows its scheduling.                                             *)
Over(pc, fifo) == [NewServer EXCEPT !.pc = pc, !.fifo = fifo]

(* The main program of s goes on: no handler has interrupted it.           *)
At(s, pcs) == server[s].pc \in pcs /\ ~server[s].handler

-----------------------------------------------------------------------------
(* The main program.                                                       *)

(* Options, busy loop, sockets and CBS; each failure is fatal.             *)
ServerStart(s, ok) ==
    /\ server[s].pc = "starting"
    /\ ok \/ Faults
    /\ server' = [server EXCEPT ![s].pc = IF ok THEN "check" ELSE "failed"]
    /\ UNCHANGED <<signals, inbox, answers, unanswered>>

(* while (!terminated)                                                     *)
CheckTerminated(s) ==
    /\ At(s, {"check"})
    /\ IF server[s].terminated
       THEN /\ server' = [server EXCEPT ![s] = Over("exited", @.fifo)]
            /\ inbox' = [inbox EXCEPT ![s] = <<>>]
            /\ answers' = [answers EXCEPT ![s] = <<>>]
       ELSE /\ server' = [server EXCEPT ![s].pc = "recv"]
            /\ UNCHANGED <<inbox, answers>>
    /\ UNCHANGED <<signals, unanswered>>

(* recvfrom and recv sleep when there is nothing to receive; only then     *)
(* does a signal make them fail with EINTR.                                *)
FallAsleep(s) ==
    /\ \/ /\ At(s, {"recv"}) /\ inbox[s] = <<>>
          /\ server' = [server EXCEPT ![s].pc = "recv_asleep"]
       \/ /\ At(s, {"await"}) /\ answers[s] = <<>>
          /\ server' = [server EXCEPT ![s].pc = "await_asleep"]
    /\ UNCHANGED <<signals, inbox, answers, unanswered>>

(* recvfrom returns a request, and keep_cpu_busy processes it.             *)
Receive(s) ==
    /\ At(s, {"recv", "recv_asleep"})
    /\ inbox[s] # <<>>
    /\ inbox' = [inbox EXCEPT ![s] = Tail(@)]
    /\ server' = [server EXCEPT ![s].pc = IF subserver[s] = Nobody THEN "reply" ELSE "lend",
                                ![s].work = Head(inbox[s]),
                                ![s].buffer = Head(inbox[s]).request]
    /\ UNCHANGED <<signals, answers, unanswered>>

(* The kernel may refuse to lend bandwidth (EAGAIN is not even logged);    *)
(* the request is forwarded all the same.                                  *)
Lend(s, ok) ==
    /\ At(s, {"lend"})
    /\ server' = [server EXCEPT ![s].pc = "forward",
                                ![s].lent = IF ok THEN "lent" ELSE "refused"]
    /\ UNCHANGED <<signals, inbox, answers, unanswered>>

(* What becomes of the bandwidth when subserver_send_recv goes on: it is   *)
(* taken back if it was lent, and a failure to do so is only logged.       *)
Revoked(s) == IF Faults /\ server[s].lent = "lent" THEN {"no", "kept"} ELSE {"no"}

(* Variant: the bandwidth is taken back before the answer has arrived.     *)
ForwardRevoking(s) ==
    /\ At(s, {"forward"})
    /\ IF Bound(subserver[s])
       THEN /\ inbox' = [inbox EXCEPT ![subserver[s]] =
                            Append(@, [from |-> s, request |-> server[s].buffer])]
            /\ server' = [server EXCEPT ![s].pc = "await", ![s].buffer = Zeros, ![s].lent = "no"]
       ELSE /\ server' = [server EXCEPT ![s].pc = "reply", ![s].buffer = Zeros, ![s].lent = "no"]
            /\ UNCHANGED inbox
    /\ UNCHANGED <<signals, answers, unanswered>>

(* send_recv sends the request and clears the buffer.  If nobody receives  *)
(* at the port, recv fails at once; the cleared buffer is sent back.       *)
Forward(s) ==
    /\ At(s, {"forward"})
    /\ IF Bound(subserver[s])
       THEN /\ inbox' = [inbox EXCEPT ![subserver[s]] =
                            Append(@, [from |-> s, request |-> server[s].buffer])]
            /\ server' = [server EXCEPT ![s].pc = "await", ![s].buffer = Zeros]
       ELSE /\ \E left \in Revoked(s) :
                  server' = [server EXCEPT ![s].pc = "reply", ![s].buffer = Zeros,
                                           ![s].lent = left]
            /\ UNCHANGED inbox
    /\ UNCHANGED <<signals, answers, unanswered>>

(* send fails: the buffer is not cleared, and the request itself is sent   *)
(* back as if the subserver had answered.                                  *)
ForwardFails(s) ==
    /\ Faults /\ At(s, {"forward"})
    /\ \E left \in Revoked(s) :
          server' = [server EXCEPT ![s].pc = "reply", ![s].lent = left]
    /\ UNCHANGED <<signals, inbox, answers, unanswered>>

(* The request of server[s].work.from will have no answer.                 *)
Drop(s, left) ==
    /\ server' = [server EXCEPT ![s].pc = "check", ![s].work = NoWork, ![s].buffer = Zeros,
                                ![s].lent = left]
    /\ unanswered' = [unanswered EXCEPT ![server[s].work.from] = @ + 1]

(* send fails because of a signal: subserver_send_recv returns 1.          *)
ForwardInterrupted(s) ==
    /\ Faults /\ At(s, {"forward"})
    /\ \E left \in Revoked(s) : Drop(s, left)
    /\ UNCHANGED <<signals, inbox, answers>>

(* The subserver's answer, whichever request it was for.                   *)
Await(s) ==
    /\ At(s, {"await", "await_asleep"})
    /\ answers[s] # <<>>
    /\ answers' = [answers EXCEPT ![s] = Tail(@)]
    /\ \E left \in Revoked(s) :
          server' = [server EXCEPT ![s].pc = "reply", ![s].buffer = Head(answers[s]),
                                   ![s].lent = left]
    /\ UNCHANGED <<signals, inbox, unanswered>>

(* Variant: subserver_send_recv returns 0 after EINTR.                     *)
GiveUpRequestAnswering(s) ==
    /\ At(s, {"interrupted"})
    /\ server' = [server EXCEPT ![s].pc = "reply", ![s].lent = "no"]
    /\ UNCHANGED <<signals, inbox, answers, unanswered>>

(* recv was interrupted: the bandwidth is taken back and the request left  *)
(* unanswered.                                                             *)
GiveUpRequest(s) ==
    /\ At(s, {"interrupted"})
    /\ \E left \in Revoked(s) :
          server' = [server EXCEPT ![s].pc = "check", ![s].work = NoWork,
                                   ![s].buffer = Zeros, ![s].lent = left]
    /\ UNCHANGED <<signals, inbox, answers, unanswered>>

Reply(s) ==
    /\ At(s, {"reply"})
    /\ answers' = [answers EXCEPT ![server[s].work.from] = Append(@, server[s].buffer)]
    /\ server' = [server EXCEPT ![s].pc = "check", ![s].work = NoWork,
                                ![s].buffer = Zeros]
    /\ UNCHANGED <<signals, inbox, unanswered>>

(* sendto fails: a message, and the next request is waited for.            *)
ReplyFails(s) ==
    /\ Faults /\ At(s, {"reply"})
    /\ Drop(s, server[s].lent)
    /\ UNCHANGED <<signals, inbox, answers>>

-----------------------------------------------------------------------------
(* The handler sighand.                                                    *)

(* Where the main program is after a signal: no SA_RESTART is set.         *)
Interrupted(pc) == CASE pc = "recv_asleep"  -> "check"
                     [] pc = "await_asleep" -> "interrupted"
                     [] OTHER               -> pc

TakeSIGTERM(s) ==
    /\ Bound(s) /\ "SIGTERM" \in signals[s]
    /\ signals' = [signals EXCEPT ![s] = @ \ {"SIGTERM"}]
    /\ server' = [server EXCEPT ![s].terminated = TRUE, ![s].pc = Interrupted(@)]
    /\ UNCHANGED <<inbox, answers, unanswered>>

(* SIGUSR1, which is blocked while its handler runs, is passed on first.   *)
TakeSIGUSR1(s) ==
    /\ Bound(s) /\ "SIGUSR1" \in signals[s] /\ ~server[s].handler
    /\ signals' = [p \in Processes |->
                      CASE p = s            -> signals[p] \ {"SIGUSR1"}
                        [] p = subserver[s] -> signals[p] \cup {"SIGUSR1"}
                        [] OTHER            -> signals[p]]
    /\ server' = [server EXCEPT ![s].handler = TRUE, ![s].pc = Interrupted(@)]
    /\ UNCHANGED <<inbox, answers, unanswered>>

(* Variant: the scheduling is switched without waiting for the subserver.  *)
SwitchAtOnce(s, ok) ==
    /\ Bound(s) /\ server[s].handler
    /\ ok \/ Faults
    /\ server' = [server EXCEPT ![s].handler = FALSE, ![s].fifo = (@ # ok)]
    /\ UNCHANGED <<signals, inbox, answers, unanswered>>

SubserverSwitched(s) == subserver[s] # Nobody => server[subserver[s]].fifo # server[s].fifo

(* Once the subserver has switched, so does the server; a failure of       *)
(* sched_fifo_enter_max or sched_fifo_leave is only logged.                *)
SwitchScheduler(s, ok) ==
    /\ Bound(s) /\ server[s].handler
    /\ SubserverSwitched(s)
    /\ ok \/ Faults
    /\ server' = [server EXCEPT ![s].handler = FALSE, ![s].fifo = (@ # ok)]
    /\ UNCHANGED <<signals, inbox, answers, unanswered>>

(* The subserver does not switch within 500 ms: fatal_error.               *)
GiveUpSubserver(s) ==
    /\ Faults
    /\ Bound(s) /\ server[s].handler
    /\ ~SubserverSwitched(s)
    /\ server' = [server EXCEPT ![s] = Over("failed", @.fifo)]
    /\ inbox' = [inbox EXCEPT ![s] = <<>>]
    /\ answers' = [answers EXCEPT ![s] = <<>>]
    /\ UNCHANGED <<signals, unanswered>>

-----------------------------------------------------------------------------

ServerProgram(s) ==
    \/ CheckTerminated(s) \/ FallAsleep(s) \/ Receive(s)
    \/ \E ok \in BOOLEAN : ServerStart(s, ok) \/ Lend(s, ok)
    \/ Forward(s) \/ ForwardFails(s) \/ ForwardInterrupted(s)
    \/ Await(s) \/ GiveUpRequest(s) \/ Reply(s) \/ ReplyFails(s)

ServerHandler(s) ==
    \/ TakeSIGTERM(s) \/ TakeSIGUSR1(s)
    \/ \E ok \in BOOLEAN : SwitchScheduler(s, ok)
    \/ GiveUpSubserver(s)

ServerType ==
    /\ server \in [Servers ->
          [pc : {"down", "starting", "check", "recv", "recv_asleep", "lend",
                 "forward", "await", "await_asleep", "interrupted", "reply",
                 "exited", "failed"},
           terminated : BOOLEAN, fifo : BOOLEAN, handler : BOOLEAN,
           work : [from : Processes \cup {Nobody}, request : (Clients \cup {Nobody}) \X Nat],
           buffer : (Clients \cup {Nobody}) \X Nat,
           lent : {"no", "lent", "refused", "kept"}]]
    /\ signals \in [Processes -> SUBSET {"SIGTERM", "SIGUSR1"}]
    /\ inbox \in [Servers -> Seq([from : Processes, request : (Clients \cup {Nobody}) \X Nat])]
    /\ answers \in [Processes -> Seq((Clients \cup {Nobody}) \X Nat)]
    /\ unanswered \in [Processes -> Nat]

=============================================================================
