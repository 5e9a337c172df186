------------------------------ MODULE BwiProof ------------------------------
(***************************************************************************)
(* What the servers and clients of bwi-client_server keep for any chains   *)
(* of servers and any number of clients, whatever fails: that requests and *)
(* answers are paired, that the scheduling of the servers follows the      *)
(* measurements, and that the bandwidth follows the requests.              *)
(***************************************************************************)
EXTENDS Bwi, SequenceTheorems, FiniteSetTheorems, WellFoundedInduction, TLAPS

(* A set of numbers has a least element.                                   *)
LEMMA LeastIs ==
    ASSUME NEW S \in SUBSET Nat, S # {}
    PROVE  \E m \in S : \A k \in S : m <= k
<1>1. IsWellFoundedOn(OpToRel(<, Nat), Nat)
  BY NatLessThanWellFounded, Zenon
<1>2. PICK m \in S : \A k \in S : ~ (<<k, m>> \in OpToRel(<, Nat))
  BY <1>1, WFMin, Zenon
<1>3. ASSUME NEW k \in S
      PROVE  m <= k
  <2>1. ~ (<<k, m>> \in {ss \in Nat \X Nat : ss[1] < ss[2]})
    BY <1>2 DEF OpToRel
  <2> QED BY <2>1
<1> QED BY <1>3

(* A process is created at one place of Order.                             *)
Place(p) == CHOOSE i \in DOMAIN Order : Order[i] = p

LEMMA PlaceIs ==
    /\ DOMAIN Order = 1..Len(Order) /\ Len(Order) \in Nat
    /\ \A i \in DOMAIN Order : Order[i] \in Processes /\ Place(Order[i]) = i
    /\ \A p \in Processes : Place(p) \in 1..Len(Order) /\ Order[Place(p)] = p
<1>1. DOMAIN Order = 1..Len(Order) /\ Len(Order) \in Nat /\ \A i \in DOMAIN Order : Order[i] \in Processes
  BY OrderAssumption
<1>2. \A p \in Processes : Place(p) \in DOMAIN Order /\ Order[Place(p)] = p
  BY OrderAssumption DEF Place
<1> QED BY <1>1, <1>2, OrderAssumption

(* No server is its own subserver.                                         *)
LEMMA NoLoop == \A s \in Servers : subserver[s] # s
<1> SUFFICES ASSUME NEW s \in Servers, subserver[s] = s
             PROVE  FALSE
  OBVIOUS
<1>1. Order[Place(s)] = s /\ Place(s) \in DOMAIN Order /\ Place(s) \in Nat
  BY PlaceIs DEF Processes
<1> QED BY <1>1, OrderAssumption

(* A chain of servers comes to an end: among any servers there is one that *)
(* is the subserver of none of them.                                       *)
LEMMA TopmostIs ==
    ASSUME NEW S \in SUBSET Servers, S # {}
    PROVE  \E s \in S : \A r \in S : subserver[r] # s
<1> DEFINE heights == {n \in Nat : \E s \in S : n = Len(Order) - Place(s)}
<1>1. \A s \in S : Len(Order) - Place(s) \in heights
  BY PlaceIs DEF Processes
<1>2. PICK m \in heights : \A k \in heights : m <= k
  BY <1>1, LeastIs
<1>3. PICK s \in S : m = Len(Order) - Place(s)
  BY <1>2
<1>4. ASSUME NEW r \in S, subserver[r] = s
      PROVE  FALSE
  <2>1. Place(s) < Place(r)
    <3>1. r \in Processes /\ s \in Processes
      BY DEF Processes
    <3>2. Order[Place(r)] = r /\ Order[Place(s)] = s /\ Place(r) \in DOMAIN Order /\ Place(s) \in DOMAIN Order
      BY <3>1, PlaceIs
    <3> QED BY <1>4, <3>2, OrderAssumption
  <2>2. m <= Len(Order) - Place(r)
    BY <1>1, <1>2
  <2>3. Place(r) \in Nat /\ Place(s) \in Nat /\ Len(Order) \in Nat
    BY PlaceIs DEF Processes
  <2> QED BY <1>3, <2>1, <2>2, <2>3
<1> QED BY <1>4
-----------------------------------------------------------------------------
(* The types, and what they say of the fields.                             *)
Packets == (Clients \cup {Nobody}) \X Nat
Works == [from : Processes \cup {Nobody}, request : Packets]
ServerPcs == {"down", "starting", "check", "recv", "recv_asleep", "lend", "forward",
              "await", "await_asleep", "interrupted", "reply", "exited", "failed"}
ClientPcs == {"down", "starting", "signal", "enter", "measure", "signal_back", "leave",
              "sigwait", "stop", "interrupt", "join"} \cup Dead
Jobs == {"none", "cbs", "sigwait", "sleep", "send", "recv", "recv_asleep", "revoke", "ended"}
Results == {"none", "answer", "interrupted", "refused"}
Lendings == {"no", "lent", "refused", "kept"}

ServerRec == [pc : ServerPcs, terminated : BOOLEAN, fifo : BOOLEAN, handler : BOOLEAN,
              work : Works, buffer : Packets, lent : Lendings]
ClientRec == [pc : ClientPcs, job : Jobs, created : BOOLEAN, stopped : BOOLEAN,
              SIGUSR2 : BOOLEAN, n : Nat, lent : BOOLEAN, result : Results, got : Packets]
Datagrams == [from : Processes, request : Packets]

LEMMA TypeIs ==
    TypeOK <=> /\ server \in [Servers -> ServerRec]
               /\ client \in [Clients -> ClientRec]
               /\ signals \in [Processes -> SUBSET {"SIGTERM", "SIGUSR1"}]
               /\ inbox \in [Servers -> Seq(Datagrams)]
               /\ answers \in [Processes -> Seq(Packets)]
               /\ unanswered \in [Processes -> Nat]
               /\ driver \in {"create", "forked", "sleep", "run", "stopping", "wait",
                              "exited", "terminated"}
               /\ next \in 1..(Len(Order) + 1)
               /\ pids \subseteq Processes
  BY DEF TypeOK, ClientType, ServerType, ServerRec, ClientRec, Datagrams, Packets, Works,
         ServerPcs, ClientPcs, Jobs, Results, Lendings

LEMMA ServerRecKept ==
    ASSUME NEW r \in ServerRec
    PROVE  /\ \A x \in ServerPcs : [r EXCEPT !.pc = x] \in ServerRec
           /\ \A x \in BOOLEAN : /\ [r EXCEPT !.terminated = x] \in ServerRec
                                 /\ [r EXCEPT !.fifo = x] \in ServerRec
                                 /\ [r EXCEPT !.handler = x] \in ServerRec
           /\ \A x \in Lendings : [r EXCEPT !.lent = x] \in ServerRec
           /\ \A x \in Works : [r EXCEPT !.work = x] \in ServerRec
           /\ \A x \in Packets : [r EXCEPT !.buffer = x] \in ServerRec
  BY DEF ServerRec

LEMMA ClientRecKept ==
    ASSUME NEW r \in ClientRec
    PROVE  /\ \A x \in ClientPcs : [r EXCEPT !.pc = x] \in ClientRec
           /\ \A x \in Jobs : [r EXCEPT !.job = x] \in ClientRec
           /\ \A x \in BOOLEAN : /\ [r EXCEPT !.created = x] \in ClientRec
                                 /\ [r EXCEPT !.stopped = x] \in ClientRec
                                 /\ [r EXCEPT !.SIGUSR2 = x] \in ClientRec
                                 /\ [r EXCEPT !.lent = x] \in ClientRec
           /\ \A x \in Nat : [r EXCEPT !.n = x] \in ClientRec
           /\ \A x \in Results : [r EXCEPT !.result = x] \in ClientRec
           /\ \A x \in Packets : [r EXCEPT !.got = x] \in ClientRec
  BY DEF ClientRec

LEMMA Fresh ==
    /\ Zeros \in Packets /\ NoWork \in Works /\ NewServer \in ServerRec /\ NewClient \in ClientRec
    /\ "no" \in Lendings
    /\ \A pc \in ServerPcs, f \in BOOLEAN : Over(pc, f) \in ServerRec
    /\ \A pc \in ClientPcs : Gone(pc) \in ClientRec
    /\ \A c \in Clients : client[c] \in ClientRec => Request(c) \in Packets
  BY ZenonT(60) DEF Zeros, Packets, NoWork, Works, NewServer, NewClient, ServerRec, ClientRec, Over, Gone,
         ServerPcs, ClientPcs, Jobs, Results, Lendings, Request

(* The changes of several fields that the steps make.                      *)
LEMMA ServerRecChanged ==
    ASSUME NEW r \in ServerRec, NEW x \in ServerPcs, NEW w \in Works, NEW b \in Packets,
           NEW l \in Lendings
    PROVE  /\ [r EXCEPT !.pc = x, !.buffer = b] \in ServerRec
           /\ [r EXCEPT !.pc = x, !.lent = l] \in ServerRec
           /\ [r EXCEPT !.pc = x, !.buffer = b, !.lent = l] \in ServerRec
           /\ [r EXCEPT !.pc = x, !.work = w, !.buffer = b] \in ServerRec
           /\ [r EXCEPT !.pc = x, !.work = w, !.buffer = b, !.lent = l] \in ServerRec
<1> HIDE DEF ServerRec
<1>1. PICK r1 \in ServerRec : r1 = [r EXCEPT !.pc = x]
  BY ServerRecKept
<1>2. PICK r2 \in ServerRec : r2 = [r1 EXCEPT !.buffer = b]
  BY ServerRecKept
<1>3. PICK r3 \in ServerRec : r3 = [r1 EXCEPT !.work = w]
  BY ServerRecKept
<1>4. PICK r4 \in ServerRec : r4 = [r3 EXCEPT !.buffer = b]
  BY ServerRecKept
<1>5. /\ [r1 EXCEPT !.lent = l] \in ServerRec /\ [r2 EXCEPT !.lent = l] \in ServerRec
      /\ [r4 EXCEPT !.lent = l] \in ServerRec
  BY ServerRecKept
<1> QED BY <1>1, <1>2, <1>3, <1>4, <1>5

LEMMA ClientRecChanged ==
    ASSUME NEW r \in ClientRec, NEW j \in Jobs
    PROVE  /\ \A k \in Nat, x \in Packets, l \in BOOLEAN :
                  [r EXCEPT !.job = j, !.n = k, !.got = x, !.lent = l] \in ClientRec
           /\ \A b \in BOOLEAN, z \in Results :
                  /\ [r EXCEPT !.job = j, !.SIGUSR2 = b, !.result = z] \in ClientRec
                  /\ [r EXCEPT !.SIGUSR2 = b, !.job = j, !.result = z] \in ClientRec
<1> HIDE DEF ClientRec
<1>1. PICK r1 \in ClientRec : r1 = [r EXCEPT !.job = j]
  BY ClientRecKept
<1>2. ASSUME NEW k \in Nat, NEW x \in Packets, NEW l \in BOOLEAN
      PROVE  [r EXCEPT !.job = j, !.n = k, !.got = x, !.lent = l] \in ClientRec
  <2>1. PICK r2 \in ClientRec : r2 = [r1 EXCEPT !.n = k]
    BY ClientRecKept
  <2>2. PICK r3 \in ClientRec : r3 = [r2 EXCEPT !.got = x]
    BY ClientRecKept
  <2> QED BY <1>1, <2>1, <2>2, ClientRecKept
<1>3. ASSUME NEW b \in BOOLEAN, NEW z \in Results
      PROVE  /\ [r EXCEPT !.job = j, !.SIGUSR2 = b, !.result = z] \in ClientRec
             /\ [r EXCEPT !.SIGUSR2 = b, !.job = j, !.result = z] \in ClientRec
  <2>1. PICK r2 \in ClientRec : r2 = [r1 EXCEPT !.SIGUSR2 = b]
    BY ClientRecKept
  <2>2. PICK r3 \in ClientRec : r3 = [r EXCEPT !.SIGUSR2 = b]
    BY ClientRecKept
  <2>3. PICK r4 \in ClientRec : r4 = [r3 EXCEPT !.job = j]
    BY ClientRecKept
  <2> QED BY <1>1, <2>1, <2>2, <2>3, ClientRecKept
<1> QED BY <1>2, <1>3

LEMMA ServerKept ==
    ASSUME server \in [Servers -> ServerRec], NEW s \in Servers
    PROVE  /\ server[s] \in ServerRec
           /\ \A r \in ServerRec : [server EXCEPT ![s] = r] \in [Servers -> ServerRec]
  OBVIOUS

LEMMA ClientKept ==
    ASSUME client \in [Clients -> ClientRec], NEW c \in Clients
    PROVE  /\ client[c] \in ClientRec
           /\ \A r \in ClientRec : [client EXCEPT ![c] = r] \in [Clients -> ClientRec]
  OBVIOUS

LEMMA SignalsKept ==
    ASSUME signals \in [Processes -> SUBSET {"SIGTERM", "SIGUSR1"}], NEW p \in Processes,
           NEW i \in {"SIGTERM", "SIGUSR1"}
    PROVE  /\ [signals EXCEPT ![p] = @ \ {i}] \in [Processes -> SUBSET {"SIGTERM", "SIGUSR1"}]
           /\ Kill(p, i) \in [Processes -> SUBSET {"SIGTERM", "SIGUSR1"}]
  BY DEF Kill

LEMMA InboxKept ==
    ASSUME inbox \in [Servers -> Seq(Datagrams)], NEW s \in Servers
    PROVE  /\ inbox[s] \in Seq(Datagrams)
           /\ \A d \in Datagrams : [inbox EXCEPT ![s] = Append(@, d)] \in [Servers -> Seq(Datagrams)]
           /\ inbox[s] # <<>> => /\ Head(inbox[s]) \in Datagrams
                                  /\ [inbox EXCEPT ![s] = Tail(@)] \in [Servers -> Seq(Datagrams)]
           /\ [inbox EXCEPT ![s] = <<>>] \in [Servers -> Seq(Datagrams)]
  OBVIOUS

LEMMA AnswersKept ==
    ASSUME answers \in [Processes -> Seq(Packets)], NEW p \in Processes
    PROVE  /\ answers[p] \in Seq(Packets)
           /\ \A x \in Packets : [answers EXCEPT ![p] = Append(@, x)] \in [Processes -> Seq(Packets)]
           /\ answers[p] # <<>> => /\ Head(answers[p]) \in Packets
                                    /\ [answers EXCEPT ![p] = Tail(@)] \in [Processes -> Seq(Packets)]
           /\ [answers EXCEPT ![p] = <<>>] \in [Processes -> Seq(Packets)]
  OBVIOUS

LEMMA UnansweredKept ==
    ASSUME unanswered \in [Processes -> Nat], NEW p \in Processes
    PROVE  [unanswered EXCEPT ![p] = @ + 1] \in [Processes -> Nat]
  OBVIOUS

(* A server that goes on without its subserver has its bandwidth back, or  *)
(* has failed to take it.                                                  *)
LEMMA RevokedIs == \A s \in Servers : Revoked(s) \subseteq {"no", "kept"} /\ Revoked(s) \subseteq Lendings
  BY DEF Revoked, Lendings

(* A datagram's sender and request, as a server keeps them.                *)
LEMMA DatagramIs ==
    \A d \in Datagrams : d \in Works /\ d.from \in Processes /\ d.request \in Packets
  BY DEF Datagrams, Works


-----------------------------------------------------------------------------
(* What the servers keep: who is answered, what is lent, and that a server *)
(* is told to terminate only at the end.                                   *)
Working == {"lend", "forward", "await", "await_asleep", "interrupted", "reply"}
Ending == driver \in {"wait", "exited", "terminated"}

ServerOK(s) ==
    /\ server[s].work.from # Nobody <=> server[s].pc \in Working
    /\ server[s].pc \in Working \ {"reply"} => subserver[s] # Nobody
    /\ server[s].pc \in {"lend", "forward"} => server[s].buffer = server[s].work.request
    /\ server[s].lent = "lent" => server[s].pc \in {"forward", "await", "await_asleep", "interrupted"}
    /\ server[s].pc \in {"forward", "await", "await_asleep"} => server[s].lent \in {"lent", "refused"}
    /\ ~Bound(s) => inbox[s] = <<>> /\ ~server[s].handler
    /\ ~Ending => ~server[s].terminated /\ "SIGTERM" \notin signals[s] /\ server[s].pc # "exited"

ServerInv == \A s \in Servers : ServerOK(s)

-----------------------------------------------------------------------------
(* The steps that cost the request that a server works on its answer.      *)
Drops(s) == ForwardInterrupted(s) \/ ReplyFails(s)

(* What a step of one process leaves alone.                                *)
ServerStep == UNCHANGED <<client, driver, next, pids>>
ClientStep == UNCHANGED <<driver, next, pids>>

(* The driver is creating the process at next.                             *)
Creates == driver \in {"forked", "sleep"} => next <= Len(Order)

LEMMA DriverIs ==
    ASSUME next \in 1..(Len(Order) + 1), Creates
    PROVE  driver \in {"forked", "sleep"} => Order[next] \in Processes /\ next + 1 \in 1..(Len(Order) + 1)
  BY PlaceIs DEF Creates

LEMMA InitType == Init => TypeOK
<1> SUFFICES ASSUME Init PROVE TypeOK
  OBVIOUS
<1>1. next \in 1..(Len(Order) + 1) /\ pids \subseteq Processes
  BY OrderAssumption DEF Init
<1> QED BY <1>1, TypeIs, Fresh DEF Init, ClientInit, ServerInit

(* Every step keeps the types.                                             *)
LEMMA TypeKept ==
    ASSUME TypeOK, Creates, ServerInv, [Next]_vars
    PROVE  TypeOK'
<1> USE ServerAssumption, ClientAssumption
<1>0. /\ server' \in [Servers -> ServerRec] /\ client' \in [Clients -> ClientRec]
      /\ signals' \in [Processes -> SUBSET {"SIGTERM", "SIGUSR1"}]
      /\ inbox' \in [Servers -> Seq(Datagrams)] /\ answers' \in [Processes -> Seq(Packets)]
      /\ unanswered' \in [Processes -> Nat]
      /\ driver' \in {"create", "forked", "sleep", "run", "stopping", "wait", "exited", "terminated"}
      /\ next' \in 1..(Len(Order) + 1)
      /\ pids' \subseteq Processes
      => TypeOK'
  BY DEF TypeOK, ClientType, ServerType, ServerRec, ClientRec, Datagrams, Packets, Works,
         ServerPcs, ClientPcs, Jobs, Results, Lendings
<1>a. /\ server \in [Servers -> ServerRec] /\ client \in [Clients -> ClientRec]
      /\ signals \in [Processes -> SUBSET {"SIGTERM", "SIGUSR1"}]
      /\ inbox \in [Servers -> Seq(Datagrams)] /\ answers \in [Processes -> Seq(Packets)]
      /\ unanswered \in [Processes -> Nat]
      /\ driver \in {"create", "forked", "sleep", "run", "stopping", "wait", "exited", "terminated"}
      /\ next \in 1..(Len(Order) + 1)
      /\ pids \subseteq Processes
  BY TypeIs
<1> HIDE DEF ServerRec, ClientRec
<1>1. ASSUME NEW s \in Servers, CheckTerminated(s), ServerStep
      PROVE  TypeOK'
  <2>1. CASE server[s].terminated
    <3>1. Over("exited", server[s].fifo) \in ServerRec
      BY <1>a, Fresh DEF ServerRec, ServerPcs
    <3>2. /\ server' = [server EXCEPT ![s] = Over("exited", server[s].fifo)]
          /\ inbox' = [inbox EXCEPT ![s] = <<>>] /\ answers' = [answers EXCEPT ![s] = <<>>]
      BY <1>1, <2>1 DEF CheckTerminated
    <3>3. answers' \in [Processes -> Seq(Packets)]
      BY <1>a, <3>2, AnswersKept DEF Processes
    <3> QED BY <1>1, <1>0, <1>a, <3>1, <3>2, <3>3, ServerKept, InboxKept DEF CheckTerminated, ServerStep
  <2>2. CASE ~server[s].terminated
    <3>1. server' = [server EXCEPT ![s].pc = "recv"]
      BY <1>1, <2>2 DEF CheckTerminated
    <3>2. server' \in [Servers -> ServerRec]
      BY <3>1, <1>a, ServerRecKept DEF ServerPcs
    <3> QED BY <1>1, <2>2, <1>0, <1>a, <3>2 DEF CheckTerminated, ServerStep
  <2> QED BY <2>1, <2>2
<1>2. ASSUME NEW s \in Servers, FallAsleep(s), ServerStep
      PROVE  TypeOK'
  <2>1. \E x \in ServerPcs : server' = [server EXCEPT ![s].pc = x]
    BY <1>2 DEF FallAsleep, ServerPcs
  <2>2. server' \in [Servers -> ServerRec]
    BY <2>1, <1>a, ServerRecKept
  <2> QED BY <1>2, <2>2, <1>0, <1>a DEF FallAsleep, ServerStep
<1>3. ASSUME NEW s \in Servers, Receive(s), ServerStep
      PROVE  TypeOK'
  <2>1. inbox' \in [Servers -> Seq(Datagrams)]
    BY <1>3, <1>a, InboxKept DEF Receive
  <2>2. Head(inbox[s]) \in Works /\ Head(inbox[s]).request \in Packets
    BY <1>3, <1>a, InboxKept, DatagramIs DEF Receive
  <2>3. PICK x \in ServerPcs : server' = [server EXCEPT ![s].pc = x, ![s].work = Head(inbox[s]),
                                                        ![s].buffer = Head(inbox[s]).request]
    BY <1>3 DEF Receive, ServerPcs
  <2>4. server' \in [Servers -> ServerRec]
    BY ZenonT(60), <1>a, <2>2, <2>3, ServerRecChanged, Fresh
  <2> QED BY <1>3, <1>0, <1>a, <2>1, <2>4 DEF Receive, ServerStep
<1>4. ASSUME NEW s \in Servers, NEW ok \in BOOLEAN, ServerStart(s, ok), ServerStep
      PROVE  TypeOK'
  BY <1>4, <1>0, <1>a, ServerRecKept DEF ServerStart, ServerStep, serverVars, ServerPcs
<1>5. ASSUME NEW s \in Servers, NEW ok \in BOOLEAN, Lend(s, ok), ServerStep
      PROVE  TypeOK'
  <2>1. PICK l \in Lendings : server' = [server EXCEPT ![s].pc = "forward", ![s].lent = l]
    BY <1>5 DEF Lend, Lendings
  <2>2. server' \in [Servers -> ServerRec]
    BY ZenonT(60), <2>1, <1>a, ServerRecChanged, Fresh DEF ServerPcs
  <2> QED BY <1>5, <1>0, <1>a, <2>2 DEF Lend, ServerStep
<1>6. ASSUME NEW s \in Servers, Forward(s), ServerStep
      PROVE  TypeOK'
  <2>1. subserver[s] \in Servers
    BY <1>6 DEF Forward, ServerInv, ServerOK, At, Working
  <2>2. CASE Bound(subserver[s])
    <3>1. server' = [server EXCEPT ![s].pc = "await", ![s].buffer = Zeros]
      BY <1>6, <2>2 DEF Forward
    <3>2. server' \in [Servers -> ServerRec]
      BY ZenonT(60), <3>1, <1>a, ServerRecChanged, Fresh DEF ServerPcs
    <3>3. server[s].buffer \in Packets
      BY <1>a DEF ServerRec
    <3>4. [from |-> s, request |-> server[s].buffer] \in Datagrams
      BY <3>3 DEF Datagrams, Processes
    <3>5. inbox' = [inbox EXCEPT ![subserver[s]] = Append(@, [from |-> s, request |-> server[s].buffer])]
      BY <1>6, <2>2 DEF Forward
    <3>6. inbox' \in [Servers -> Seq(Datagrams)]
      BY <1>a, <2>1, <3>4, <3>5, InboxKept
    <3> QED BY <1>6, <1>0, <1>a, <3>2, <3>6 DEF Forward, ServerStep
  <2>3. CASE ~Bound(subserver[s])
    <3>1. PICK l \in Lendings : server' = [server EXCEPT ![s].pc = "reply", ![s].buffer = Zeros, ![s].lent = l]
      BY <1>6, <2>3, RevokedIs DEF Forward
    <3>2. server' \in [Servers -> ServerRec]
      BY ZenonT(60), <3>1, <1>a, ServerRecChanged, Fresh DEF ServerPcs
    <3> QED BY <1>6, <1>0, <1>a, <2>3, <3>2 DEF Forward, ServerStep
  <2> QED BY <2>2, <2>3
<1>7. ASSUME NEW s \in Servers, Await(s), ServerStep
      PROVE  TypeOK'
  <2>1. answers' \in [Processes -> Seq(Packets)]
    BY <1>7, <1>a, AnswersKept DEF Await, Processes
  <2>2. Head(answers[s]) \in Packets
    BY <1>7, <1>a, AnswersKept DEF Await, Processes
  <2>b. PICK l \in Lendings : server' = [server EXCEPT ![s].pc = "reply", ![s].buffer = Head(answers[s]),
                                                        ![s].lent = l]
    BY <1>7, RevokedIs DEF Await
  <2>3. server' \in [Servers -> ServerRec]
    BY ZenonT(60), <1>a, <2>2, <2>b, ServerRecChanged, Fresh DEF ServerPcs
  <2> QED BY <1>7, <1>0, <1>a, <2>1, <2>2, <2>3 DEF Await, ServerStep, serverVars, vars, clientVars
<1>8. ASSUME NEW s \in Servers, GiveUpRequest(s), ServerStep
      PROVE  TypeOK'
  <2>a. server[s] \in ServerRec /\ "check" \in ServerPcs
    BY <1>a DEF ServerPcs
  <2>l. PICK l \in Lendings : server' = [server EXCEPT ![s].pc = "check", ![s].work = NoWork, ![s].buffer = Zeros,
                                                        ![s].lent = l]
    BY <1>8, RevokedIs DEF GiveUpRequest
  <2>b. PICK r \in ServerRec : r = [server[s] EXCEPT !.pc = "check", !.work = NoWork, !.buffer = Zeros, !.lent = l]
    BY <2>a, ServerRecChanged, Fresh
  <2>c. server' = [server EXCEPT ![s] = r]
    BY <2>b, <2>l
  <2>1. server' \in [Servers -> ServerRec]
    BY <1>a, <2>b, <2>c
  <2> QED BY <1>8, <1>0, <1>a, <2>1 DEF GiveUpRequest, ServerStep
<1>9. ASSUME NEW s \in Servers, Reply(s), ServerStep
      PROVE  TypeOK'
  <2>a. server[s] \in ServerRec /\ "check" \in ServerPcs /\ "no" \in Lendings
    BY <1>a DEF ServerPcs, Lendings
  <2>b. PICK r \in ServerRec : r = [server[s] EXCEPT !.pc = "check", !.work = NoWork, !.buffer = Zeros]
    BY <2>a, ServerRecChanged, Fresh
  <2>c. server' = [server EXCEPT ![s] = r]
    BY <1>9, <2>b DEF Reply
  <2>1. server' \in [Servers -> ServerRec]
    BY <1>a, <2>b, <2>c
  <2>2. server[s].buffer \in Packets /\ server[s].work.from \in Processes \cup {Nobody}
    BY <1>a DEF ServerRec, Works
  <2>3. server[s].work.from \in Processes
    BY <1>9, <2>2 DEF Reply, At, ServerInv, ServerOK, Working
  <2>4. answers' \in [Processes -> Seq(Packets)]
    BY <1>9, <1>a, <2>2, <2>3, AnswersKept DEF Reply
  <2> QED BY <1>9, <1>0, <1>a, <2>1, <2>4 DEF Reply, ServerStep
<1>10. ASSUME NEW s \in Servers, TakeSIGTERM(s), ServerStep
      PROVE  TypeOK'
  <2>1. Interrupted(server[s].pc) \in ServerPcs
    BY <1>a DEF Interrupted, ServerRec, ServerPcs
  <2>2. server' \in [Servers -> ServerRec]
    BY <1>10, <1>a, <2>1, ServerRecKept, ServerKept DEF TakeSIGTERM
  <2>3. signals' \in [Processes -> SUBSET {"SIGTERM", "SIGUSR1"}]
    BY <1>10, <1>a, SignalsKept DEF TakeSIGTERM, Processes
  <2> QED BY <1>10, <1>0, <1>a, <2>1, <2>2, <2>3 DEF TakeSIGTERM, ServerStep, serverVars, vars, clientVars
<1>11. ASSUME NEW s \in Servers, TakeSIGUSR1(s), ServerStep
      PROVE  TypeOK'
  <2>1. Interrupted(server[s].pc) \in ServerPcs
    BY <1>a DEF Interrupted, ServerRec, ServerPcs
  <2>2. server' \in [Servers -> ServerRec]
    BY <1>11, <1>a, <2>1, ServerRecKept, ServerKept DEF TakeSIGUSR1
  <2>3. signals' \in [Processes -> SUBSET {"SIGTERM", "SIGUSR1"}]
    BY <1>11, <1>a DEF TakeSIGUSR1
  <2> QED BY <1>11, <1>0, <1>a, <2>1, <2>2, <2>3 DEF TakeSIGUSR1, ServerStep, serverVars, vars, clientVars
<1>12. ASSUME NEW s \in Servers, NEW ok \in BOOLEAN, SwitchScheduler(s, ok), ServerStep
      PROVE  TypeOK'
  BY <1>12, <1>0, <1>a, ServerRecKept DEF SwitchScheduler, ServerStep, serverVars, ServerPcs
<1>13. ASSUME NEW s \in Servers, GiveUpSubserver(s), ServerStep
      PROVE  TypeOK'
  <2>1. Over("failed", server[s].fifo) \in ServerRec
    BY <1>a, Fresh DEF ServerRec, ServerPcs
  <2>2. server' \in [Servers -> ServerRec]
    BY <1>13, <1>a, <2>1, ServerKept DEF GiveUpSubserver
  <2>3. inbox' \in [Servers -> Seq(Datagrams)]
    BY <1>13, <1>a, InboxKept DEF GiveUpSubserver
  <2>4. answers' \in [Processes -> Seq(Packets)]
    BY <1>13, <1>a, AnswersKept DEF GiveUpSubserver, Processes
  <2> QED BY <1>13, <1>0, <1>a, <2>1, <2>2, <2>3, <2>4 DEF GiveUpSubserver, ServerStep, serverVars, vars, clientVars
<1>14. ASSUME NEW c \in Clients, NEW ok \in BOOLEAN, ClientStart(c, ok), ClientStep
      PROVE  TypeOK'
  BY <1>14, <1>0, <1>a, ClientRecKept, Fresh DEF ClientStart, ClientStep, serverVars, ClientPcs, Jobs, Results, Dead
<1>15. ASSUME NEW c \in Clients, NEW ok \in BOOLEAN, MeasureDone(c, ok), ClientStep
      PROVE  TypeOK'
  BY <1>15, <1>0, <1>a, ClientRecKept, Fresh DEF MeasureDone, ClientStep, serverVars, ClientPcs, Jobs, Results, Dead
<1>16. ASSUME NEW c \in Clients, SignalServer(c), ClientStep
      PROVE  TypeOK'
  <2>1. client' \in [Clients -> ClientRec]
    BY <1>16, <1>a, ClientRecKept, ClientKept, Fresh DEF SignalServer, ClientPcs, Jobs, Results, Dead
  <2>2. server_of[c] \in Processes
    BY DEF Processes
  <2>3. signals' \in [Processes -> SUBSET {"SIGTERM", "SIGUSR1"}]
    BY <1>16, <1>a, <2>2, SignalsKept DEF SignalServer
  <2> QED BY <1>16, <1>0, <1>a, <2>1, <2>2, <2>3 DEF SignalServer, ClientStep, serverVars, vars, clientVars
<1>17. ASSUME NEW c \in Clients, MeasureSend(c), ClientStep
      PROVE  TypeOK'
  <2>1. [from |-> c, request |-> Request(c)] \in Datagrams
    BY <1>a, Fresh DEF Datagrams, Processes
  <2>2. CASE Bound(server_of[c])
    <3>1. client' = [client EXCEPT ![c].pc = "measure"]
      BY <1>17, <2>2 DEF MeasureSend
    <3>2. client' \in [Clients -> ClientRec]
      BY <1>a, <3>1, ClientRecKept DEF ClientPcs, Jobs
    <3>3. inbox' = [inbox EXCEPT ![server_of[c]] = Append(@, [from |-> c, request |-> Request(c)])]
      BY <1>17, <2>2 DEF MeasureSend, Send
    <3>4. inbox' \in [Servers -> Seq(Datagrams)]
      BY <1>a, <2>1, <3>3, InboxKept
    <3> QED BY <1>17, <1>0, <1>a, <3>2, <3>4 DEF MeasureSend, ClientStep
  <2>3. CASE ~Bound(server_of[c])
    <3>1. client' = [client EXCEPT ![c].pc = "signal_back", ![c].result = "refused"]
      BY <1>17, <2>3 DEF MeasureSend
    <3>2. client' \in [Clients -> ClientRec]
      BY <1>a, <3>1, ClientRecKept, ClientRecChanged DEF ClientPcs, Jobs, Results
    <3> QED BY <1>17, <1>0, <1>a, <2>3, <3>2 DEF MeasureSend, ClientStep
  <2> QED BY <2>2, <2>3
<1>18. ASSUME NEW c \in Clients, MeasureReceive(c), ClientStep
      PROVE  TypeOK'
  <2>1. answers' \in [Processes -> Seq(Packets)]
    BY <1>18, <1>a, AnswersKept DEF MeasureReceive, Processes
  <2>2. Head(answers[c]) \in Packets
    BY <1>18, <1>a, AnswersKept DEF MeasureReceive, Processes
  <2>3. client' \in [Clients -> ClientRec]
    BY <1>18, <1>a, <2>2, ClientRecKept, ClientKept DEF MeasureReceive, ClientPcs, Jobs, Results
  <2> QED BY <1>18, <1>0, <1>a, <2>1, <2>2, <2>3 DEF MeasureReceive, ClientStep, serverVars, vars, clientVars
<1>19. ASSUME NEW c \in Clients, GiveUpMeasurement(c), ClientStep
      PROVE  TypeOK'
  BY <1>19, <1>0, <1>a, ClientRecKept, Fresh DEF GiveUpMeasurement, ClientStep, serverVars, ClientPcs, Jobs, Results, Dead
<1>20. ASSUME NEW c \in Clients, TakeTerm(c), ClientStep
      PROVE  TypeOK'
  <2>1. client' \in [Clients -> ClientRec]
    BY <1>20, <1>a, ClientRecKept, ClientKept, Fresh DEF TakeTerm, ClientPcs, Jobs, Results, Dead
  <2>2. signals' \in [Processes -> SUBSET {"SIGTERM", "SIGUSR1"}]
    BY <1>20, <1>a, SignalsKept DEF TakeTerm, Processes
  <2> QED BY <1>20, <1>0, <1>a, <2>1, <2>2 DEF TakeTerm, ClientStep, serverVars, vars, clientVars
<1>21. ASSUME NEW c \in Clients, StopTask(c), ClientStep
      PROVE  TypeOK'
  BY <1>21, <1>0, <1>a, ClientRecKept, Fresh DEF StopTask, ClientStep, serverVars, ClientPcs, Jobs, Results, Dead
<1>22. ASSUME NEW c \in Clients, InterruptRecv(c), ClientStep
      PROVE  TypeOK'
  BY <1>22, <1>0, <1>a, ClientRecKept, Fresh DEF InterruptRecv, ClientStep, serverVars, ClientPcs, Jobs, Results, Dead
<1>23. ASSUME NEW c \in Clients, Join(c), ClientStep
      PROVE  TypeOK'
  BY <1>23, <1>0, <1>a, ClientRecKept, Fresh DEF Join, ClientStep, serverVars, ClientPcs, Jobs, Results, Dead
<1>24. ASSUME NEW c \in Clients, NEW ok \in BOOLEAN, EnterCbs(c, ok), ClientStep
      PROVE  TypeOK'
  BY <1>24, <1>0, <1>a, ClientRecKept, Fresh DEF EnterCbs, ClientStep, serverVars, ClientPcs, Jobs, Results, Dead
<1>25. ASSUME NEW c \in Clients, NEW ok \in BOOLEAN, CreateTask(c, ok), ClientStep
      PROVE  TypeOK'
  <2>1. client' \in [Clients -> ClientRec]
    BY <1>25, <1>a, ClientRecKept, ClientKept, Fresh DEF CreateTask, ClientPcs, Jobs, Results, Dead
  <2>2. signals' \in [Processes -> SUBSET {"SIGTERM", "SIGUSR1"}]
    BY <1>25, <1>a, SignalsKept DEF CreateTask, Processes
  <2> QED BY <1>25, <1>0, <1>a, <2>1, <2>2 DEF CreateTask, ClientStep, serverVars, vars, clientVars
<1>26. ASSUME NEW c \in Clients, NEW ok \in BOOLEAN, Release(c, ok), ClientStep
      PROVE  TypeOK'
  <2>1. client[c] \in ClientRec /\ client[c].n + 1 \in Nat
    BY <1>a DEF ClientRec
  <2>2. CASE ok
    <3>1. "send" \in Jobs
      BY DEF Jobs
    <3>2. PICK l \in BOOLEAN : l <=> c \in use_bwi
      OBVIOUS
    <3>3. PICK r \in ClientRec : r = [client[c] EXCEPT !.job = "send", !.n = client[c].n + 1,
                                                        !.got = Zeros, !.lent = l]
      BY <2>1, <3>1, ClientRecChanged, Fresh
    <3>4. (c \in use_bwi) = l
      BY <3>2
    <3>5. client' = [client EXCEPT ![c] = r]
      BY <1>26, <2>2, <3>3, <3>4 DEF Release
    <3> QED BY <1>26, <1>0, <1>a, <3>3, <3>5 DEF Release, ClientStep, serverVars
  <2>3. CASE ~ok
    BY <1>26, <1>0, <1>a, <2>3, Fresh DEF Release, ClientStep, serverVars, ClientPcs, Dead
  <2> QED BY <2>2, <2>3
<1>27. ASSUME NEW c \in Clients, SendRequest(c), ClientStep
      PROVE  TypeOK'
  <2>1. [from |-> c, request |-> Request(c)] \in Datagrams
    BY <1>a, Fresh DEF Datagrams, Processes
  <2>2. CASE Bound(server_of[c])
    <3>1. client' = [client EXCEPT ![c].job = "recv", ![c].SIGUSR2 = FALSE]
      BY <1>27, <2>2 DEF SendRequest
    <3>2. client' \in [Clients -> ClientRec]
      BY <1>a, <3>1, ClientRecKept DEF ClientPcs, Jobs
    <3>3. inbox' = [inbox EXCEPT ![server_of[c]] = Append(@, [from |-> c, request |-> Request(c)])]
      BY <1>27, <2>2 DEF SendRequest, Send
    <3>4. inbox' \in [Servers -> Seq(Datagrams)]
      BY <1>a, <2>1, <3>3, InboxKept
    <3> QED BY <1>27, <1>0, <1>a, <3>2, <3>4 DEF SendRequest, ClientStep
  <2>3. CASE ~Bound(server_of[c])
    <3>1. client' = [client EXCEPT ![c].job = "revoke", ![c].SIGUSR2 = FALSE, ![c].result = "refused"]
      BY <1>27, <2>3 DEF SendRequest
    <3>2. client' \in [Clients -> ClientRec]
      BY <1>a, <3>1, ClientRecKept, ClientRecChanged DEF ClientPcs, Jobs, Results
    <3> QED BY <1>27, <1>0, <1>a, <2>3, <3>2 DEF SendRequest, ClientStep
  <2> QED BY <2>2, <2>3
<1>28. ASSUME NEW c \in Clients, RecvFallsAsleep(c), ClientStep
      PROVE  TypeOK'
  BY <1>28, <1>0, <1>a, ClientRecKept, Fresh DEF RecvFallsAsleep, ClientStep, serverVars, ClientPcs, Jobs, Results, Dead
<1>29. ASSUME NEW c \in Clients, TakeSIGUSR2(c), ClientStep
      PROVE  TypeOK'
  <2>1. client[c].job \in Jobs /\ client[c].result \in Results
    BY <1>a DEF ClientRec
  <2>2. PICK j \in Jobs, r \in Results :
            client' = [client EXCEPT ![c].SIGUSR2 = FALSE, ![c].job = j, ![c].result = r]
    BY <1>29, <2>1 DEF TakeSIGUSR2, Jobs, Results
  <2>a. PICK x \in ClientRec : x = [client[c] EXCEPT !.SIGUSR2 = FALSE, !.job = j, !.result = r]
    BY <1>a, ClientRecChanged
  <2>3. client' \in [Clients -> ClientRec]
    BY <1>a, <2>2, <2>a
  <2> QED BY <1>29, <1>0, <1>a, <2>3 DEF TakeSIGUSR2, ClientStep, serverVars
<1>30. ASSUME NEW c \in Clients, ReceiveResponse(c), ClientStep
      PROVE  TypeOK'
  <2>1. answers' \in [Processes -> Seq(Packets)]
    BY <1>30, <1>a, AnswersKept DEF ReceiveResponse, Processes
  <2>2. Head(answers[c]) \in Packets
    BY <1>30, <1>a, AnswersKept DEF ReceiveResponse, Processes
  <2>3. client' \in [Clients -> ClientRec]
    BY <1>30, <1>a, <2>2, ClientRecKept, ClientKept DEF ReceiveResponse, ClientPcs, Jobs, Results
  <2> QED BY <1>30, <1>0, <1>a, <2>1, <2>2, <2>3 DEF ReceiveResponse, ClientStep, serverVars, vars, clientVars
<1>31. ASSUME NEW c \in Clients, NEW ok \in BOOLEAN, EndJob(c, ok), ClientStep
      PROVE  TypeOK'
  <2> DEFINE ended == [client[c] EXCEPT !.lent = FALSE, !.result = "none",
                                         !.job = IF client[c].stopped THEN "ended" ELSE "sleep"]
  <2>1. ended \in ClientRec
    BY <1>a, ClientRecKept, ClientKept DEF Jobs, Results
  <2>2. Gone("failed") \in ClientRec /\ Gone("killed") \in ClientRec
    BY Fresh DEF ClientPcs, Dead
  <2>3. \E r \in ClientRec : client' = [client EXCEPT ![c] = r]
    <3> HIDE DEF ended
    <3>1. \/ client' = [client EXCEPT ![c] = Gone("failed")]
          \/ client' = [client EXCEPT ![c] = ended]
          \/ client' = [client EXCEPT ![c] = IF Blocked(c) THEN ended ELSE Gone("killed")]
      BY <1>31 DEF EndJob, ended
    <3> QED BY <2>1, <2>2, <3>1
  <2>4. client' \in [Clients -> ClientRec]
    BY <1>a, <2>3, ClientKept
  <2>5. signals' \in [Processes -> SUBSET {"SIGTERM", "SIGUSR1"}]
    <3>1. signals' = signals \/ signals' = Kill(c, "SIGTERM")
      BY <1>31 DEF EndJob
    <3>2. c \in Processes
      BY DEF Processes
    <3> QED BY <1>a, <3>1, <3>2, SignalsKept
  <2> QED BY <1>31, <1>0, <1>a, <2>4, <2>5 DEF EndJob, ClientStep
<1>32. ASSUME Fork
      PROVE  TypeOK'
  <2>1. \/ \E p \in Servers : server' = [server EXCEPT ![p].pc = "starting"] /\ client' = client
        \/ \E p \in Clients : client' = [client EXCEPT ![p].pc = "starting"] /\ server' = server
    BY <1>32 DEF Fork
  <2>2. ASSUME NEW p \in Servers, server' = [server EXCEPT ![p].pc = "starting"]
        PROVE  server' \in [Servers -> ServerRec]
    BY <1>a, <2>2, ServerRecKept DEF ServerPcs
  <2>3. ASSUME NEW p \in Clients, client' = [client EXCEPT ![p].pc = "starting"]
        PROVE  client' \in [Clients -> ClientRec]
    BY <1>a, <2>3, ClientRecKept DEF ClientPcs
  <2> QED BY <1>32, <1>0, <1>a, <2>1, <2>2, <2>3 DEF Fork
<1>33. ASSUME StoreProcId
      PROVE  TypeOK'
  BY <1>33, <1>0, <1>a, DriverIs DEF StoreProcId, clientVars, serverVars
<1>34. ASSUME SleepASecond
      PROVE  TypeOK'
  BY <1>34, <1>0, <1>a, DriverIs DEF SleepASecond, clientVars, serverVars
<1>35. ASSUME StartClients
      PROVE  TypeOK'
  <2>1. Gone("killed") \in ClientRec
    BY Fresh DEF ClientPcs, Dead
  <2>2. client' \in [Clients -> ClientRec]
    BY <1>35, <1>a, <2>1 DEF StartClients, SignalClients
  <2>3. signals' \in [Processes -> SUBSET {"SIGTERM", "SIGUSR1"}]
    BY <1>35, <1>a DEF StartClients, SignalClients
  <2> QED BY <1>35, <1>0, <1>a, <2>1, <2>2, <2>3 DEF StartClients, vars, serverVars, vars, clientVars
<1>36. ASSUME StopClients
      PROVE  TypeOK'
  <2>1. Gone("killed") \in ClientRec
    BY Fresh DEF ClientPcs, Dead
  <2>2. client' \in [Clients -> ClientRec]
    BY <1>36, <1>a, <2>1 DEF StopClients, SignalClients
  <2>3. signals' \in [Processes -> SUBSET {"SIGTERM", "SIGUSR1"}]
    BY <1>36, <1>a DEF StopClients, SignalClients
  <2> QED BY <1>36, <1>0, <1>a, <2>1, <2>2, <2>3 DEF StopClients, vars, serverVars, vars, clientVars
<1>37. ASSUME StopServers
      PROVE  TypeOK'
  BY <1>37, <1>0, <1>a, Fresh DEF StopServers, vars, clientVars, serverVars
<1>38. ASSUME Wait
      PROVE  TypeOK'
  BY <1>38, <1>0, <1>a, DriverIs DEF Wait, clientVars, serverVars
<1>39. ASSUME TerminateDriver
      PROVE  TypeOK'
  <2>1. Gone("killed") \in ClientRec /\ Over("exited", FALSE) \in ServerRec
    BY Fresh DEF ClientPcs, ServerPcs, Dead
  <2>2. server' \in [Servers -> ServerRec]
    BY <1>39, <1>a, <2>1 DEF TerminateDriver
  <2>3. client' \in [Clients -> ClientRec]
    BY <1>39, <1>a, <2>1 DEF TerminateDriver
  <2>4. signals' \in [Processes -> SUBSET {"SIGTERM", "SIGUSR1"}]
    BY <1>39, <1>a DEF TerminateDriver
  <2>5. inbox' \in [Servers -> Seq(Datagrams)]
    BY <1>39, <1>a DEF TerminateDriver
  <2>6. answers' \in [Processes -> Seq(Packets)]
    BY <1>39, <1>a DEF TerminateDriver
  <2> QED BY <1>39, <1>0, <1>a, <2>1, <2>2, <2>3, <2>4, <2>5, <2>6 DEF TerminateDriver, vars, serverVars, vars, clientVars
<1>40. CASE UNCHANGED vars
  BY <1>40, <1>0, <1>a DEF vars, clientVars, serverVars
<1>41. ASSUME NEW s \in Servers, ForwardFails(s), ServerStep
      PROVE  TypeOK'
  <2>1. PICK l \in Lendings : server' = [server EXCEPT ![s].pc = "reply", ![s].lent = l]
    BY <1>41, RevokedIs DEF ForwardFails
  <2>2. server' \in [Servers -> ServerRec]
    BY ZenonT(60), <2>1, <1>a, ServerRecChanged, Fresh DEF ServerPcs
  <2> QED BY <1>41, <1>0, <1>a, <2>2 DEF ForwardFails, ServerStep
<1>42. ASSUME NEW s \in Servers, Drops(s), ServerStep
      PROVE  TypeOK'
  <2>a. server[s] \in ServerRec /\ "check" \in ServerPcs
    BY <1>a DEF ServerPcs
  <2>1. server[s].pc \in {"forward", "reply"} /\ signals' = signals /\ inbox' = inbox /\ answers' = answers
    BY <1>42 DEF Drops, ForwardInterrupted, ReplyFails, At
  <2>2. PICK l \in Lendings : Drop(s, l)
    <3>1. server[s].lent \in Lendings
      BY <2>a DEF ServerRec
    <3> QED BY <1>42, <3>1, RevokedIs DEF Drops, ForwardInterrupted, ReplyFails
  <2>3. PICK r \in ServerRec : r = [server[s] EXCEPT !.pc = "check", !.work = NoWork, !.buffer = Zeros, !.lent = l]
    BY <2>a, ServerRecChanged, Fresh
  <2>4. server' = [server EXCEPT ![s] = r]
    BY <2>2, <2>3 DEF Drop
  <2>5. server' \in [Servers -> ServerRec]
    BY <1>a, <2>3, <2>4
  <2>6. server[s].work.from \in Processes \cup {Nobody}
    BY <2>a DEF ServerRec, Works
  <2>7. server[s].work.from \in Processes
    BY <2>1, <2>6 DEF ServerInv, ServerOK, Working
  <2>8. unanswered' \in [Processes -> Nat]
    BY <1>a, <2>2, <2>7, UnansweredKept DEF Drop
  <2> QED BY <1>42, <1>0, <1>a, <2>1, <2>5, <2>8 DEF ServerStep
<1> QED
    BY <1>1, <1>2, <1>3, <1>4, <1>5, <1>6, <1>7, <1>8, <1>9, <1>10, <1>11, <1>12, <1>13, <1>14,
     <1>15, <1>16, <1>17, <1>18, <1>19, <1>20, <1>21, <1>22, <1>23, <1>24, <1>25, <1>26, <1>27,
     <1>28, <1>29, <1>30, <1>31, <1>32, <1>33, <1>34, <1>35, <1>36, <1>37, <1>38, <1>39, <1>40, <1>41, <1>42
    DEF Next, ServerProgram, ServerHandler, ClientMain, ClientThread, Driver, ServerStep,
     ClientStep, Drops

-----------------------------------------------------------------------------
(* What the types say of the fields.                                       *)
ServerFields == {"pc", "terminated", "fifo", "handler", "work", "buffer", "lent"}
ClientFields == {"pc", "job", "created", "stopped", "SIGUSR2", "n", "lent", "result", "got"}

LEMMA FieldsAre ==
    ASSUME TypeOK
    PROVE  /\ DOMAIN server = Servers /\ DOMAIN inbox = Servers /\ DOMAIN client = Clients
           /\ DOMAIN signals = Processes /\ DOMAIN answers = Processes
           /\ DOMAIN unanswered = Processes /\ \A p \in Processes : unanswered[p] \in Nat
           /\ \A s \in Servers : /\ DOMAIN server[s] = ServerFields
                                 /\ server[s].pc \in ServerPcs
                                 /\ server[s].terminated \in BOOLEAN /\ server[s].fifo \in BOOLEAN
                                 /\ server[s].handler \in BOOLEAN /\ server[s].lent \in Lendings
                                 /\ inbox[s] \in Seq(Datagrams)
           /\ \A c \in Clients : /\ DOMAIN client[c] = ClientFields
                                 /\ client[c].pc \in ClientPcs /\ client[c].job \in Jobs
                                 /\ client[c].stopped \in BOOLEAN
           /\ \A p \in Processes : signals[p] \subseteq {"SIGTERM", "SIGUSR1"} /\ answers[p] \in Seq(Packets)
           /\ next \in 1..(Len(Order) + 1) /\ pids \subseteq Processes
<1>1. \A r \in ServerRec : /\ DOMAIN r = ServerFields /\ r.pc \in ServerPcs
                           /\ r.terminated \in BOOLEAN /\ r.fifo \in BOOLEAN
                           /\ r.handler \in BOOLEAN /\ r.lent \in Lendings
  BY DEF ServerRec, ServerFields
<1>2. \A r \in ClientRec : /\ DOMAIN r = ClientFields /\ r.pc \in ClientPcs /\ r.job \in Jobs
                           /\ r.stopped \in BOOLEAN
  BY DEF ClientRec, ClientFields
<1> HIDE DEF ServerRec, ClientRec
<1> QED BY <1>1, <1>2, TypeIs

(* The records of a process that has ended.                                *)
LEMMA OverIs ==
    /\ \A pc, f : LET r == Over(pc, f)
                  IN /\ r.pc = pc /\ r.fifo = f /\ r.terminated = FALSE /\ r.handler = FALSE
                     /\ r.work = NoWork /\ r.buffer = Zeros /\ r.lent = "no"
    /\ \A pc : LET r == Gone(pc)
               IN /\ r.pc = pc /\ r.job = "none" /\ r.stopped = FALSE /\ r.lent = FALSE
                  /\ r.result = "none" /\ r.got = Zeros /\ r.n = 0
  BY DEF Over, Gone, NewServer, NewClient

-----------------------------------------------------------------------------
(* What each step does, field by field.                                    *)
OtherServers(s) == \A t \in Servers : t # s => server'[t] = server[t]
OtherClients(c) == \A d \in Clients : d # c => client'[d] = client[d]
KeepsMode(s) == /\ server'[s].terminated = server[s].terminated
                /\ server'[s].fifo = server[s].fifo
                /\ server'[s].handler = server[s].handler
KeepsWork(s) == /\ server'[s].work = server[s].work
                /\ server'[s].buffer = server[s].buffer
                /\ server'[s].lent = server[s].lent
KeepsMain(c) == /\ client'[c].pc = client[c].pc
                /\ client'[c].created = client[c].created
                /\ client'[c].stopped = client[c].stopped
KeepsTask(c) == /\ client'[c].job = client[c].job
                /\ client'[c].n = client[c].n
                /\ client'[c].lent = client[c].lent
KeepsExchange(c) == /\ client'[c].result = client[c].result
                    /\ client'[c].got = client[c].got
ServerIsOver(s, pc) == /\ server'[s].pc = pc /\ server'[s].fifo = server[s].fifo
                       /\ server'[s].terminated = FALSE /\ server'[s].handler = FALSE
                       /\ server'[s].work = NoWork /\ server'[s].buffer = Zeros
                       /\ server'[s].lent = "no"
ClientIsGone(c, pc) == /\ client'[c].pc = pc /\ client'[c].job = "none"
                       /\ client'[c].created = FALSE /\ client'[c].stopped = FALSE
                       /\ client'[c].n = 0 /\ client'[c].lent = FALSE
                       /\ client'[c].result = "none" /\ client'[c].got = Zeros


LEMMA ServerStartIs ==
    ASSUME TypeOK, NEW s \in Servers, NEW ok \in BOOLEAN, ServerStart(s, ok)
    PROVE  /\ OtherServers(s) /\ server[s].pc = "starting" /\ signals' = signals
           /\ inbox' = inbox /\ answers' = answers /\ KeepsMode(s) /\ KeepsWork(s)
           /\ \/ /\ ok /\ server'[s].pc = "check"
              \/ /\ ~ok /\ server'[s].pc = "failed"
<1>1. CASE ok
  BY <1>1, FieldsAre DEF ServerStart, OtherServers, KeepsMode, KeepsWork, ServerIsOver, Over, NewServer, ServerFields,
       At, serverVars
<1>2. CASE ~ok
  BY <1>2, FieldsAre DEF ServerStart, OtherServers, KeepsMode, KeepsWork, ServerIsOver, Over, NewServer, ServerFields,
       At, serverVars
<1> QED BY <1>1, <1>2

LEMMA CheckTerminatedIs ==
    ASSUME TypeOK, NEW s \in Servers, CheckTerminated(s)
    PROVE  /\ OtherServers(s) /\ server[s].pc = "check" /\ ~server[s].handler
           /\ signals' = signals
           /\ \/ /\ server[s].terminated /\ ServerIsOver(s, "exited")
                 /\ \A t \in Servers : inbox'[t] = IF t = s THEN <<>> ELSE inbox[t]
                 /\ \A t \in Processes : answers'[t] = IF t = s THEN <<>> ELSE answers[t]
              \/ /\ ~server[s].terminated /\ server'[s].pc = "recv" /\ KeepsMode(s)
                 /\ KeepsWork(s) /\ inbox' = inbox /\ answers' = answers
<1>1. CASE server[s].terminated
  <2>1. /\ server' = [server EXCEPT ![s] = Over("exited", server[s].fifo)] /\ signals' = signals
        /\ inbox' = [inbox EXCEPT ![s] = <<>>] /\ answers' = [answers EXCEPT ![s] = <<>>]
        /\ server[s].pc = "check" /\ ~server[s].handler
    BY <1>1 DEF CheckTerminated, At
  <2>2. OtherServers(s) /\ ServerIsOver(s, "exited")
    BY <2>1, FieldsAre, OverIs DEF OtherServers, ServerIsOver
  <2> QED BY <1>1, <2>1, <2>2, FieldsAre
<1>2. CASE ~server[s].terminated
  BY <1>2, FieldsAre DEF CheckTerminated, OtherServers, KeepsMode, KeepsWork, ServerFields, At
<1> QED BY <1>1, <1>2

LEMMA FallAsleepIs ==
    ASSUME TypeOK, NEW s \in Servers, FallAsleep(s)
    PROVE  /\ OtherServers(s) /\ ~server[s].handler /\ signals' = signals /\ inbox' = inbox
           /\ answers' = answers /\ KeepsMode(s) /\ KeepsWork(s)
           /\ \/ /\ server[s].pc = "recv" /\ inbox[s] = <<>> /\ server'[s].pc = "recv_asleep"
              \/ /\ server[s].pc # "recv" /\ server[s].pc = "await" /\ answers[s] = <<>>
                 /\ server'[s].pc = "await_asleep"
<1>1. CASE server[s].pc = "recv"
  BY <1>1, FieldsAre DEF FallAsleep, OtherServers, KeepsMode, KeepsWork, ServerIsOver, Over, NewServer, ServerFields,
       At, serverVars
<1>2. CASE server[s].pc # "recv"
  BY <1>2, FieldsAre DEF FallAsleep, OtherServers, KeepsMode, KeepsWork, ServerIsOver, Over, NewServer, ServerFields,
       At, serverVars
<1> QED BY <1>1, <1>2

LEMMA ReceiveIs ==
    ASSUME TypeOK, NEW s \in Servers, Receive(s)
    PROVE  /\ OtherServers(s)
           /\ server[s].pc \in {"recv", "recv_asleep"} /\ ~server[s].handler
           /\ inbox[s] # <<>> /\ signals' = signals /\ answers' = answers
           /\ \A t \in Servers : inbox'[t] = IF t = s THEN Tail(inbox[s]) ELSE inbox[t]
           /\ server'[s].pc = IF subserver[s] = Nobody THEN "reply" ELSE "lend"
           /\ server'[s].work = Head(inbox[s]) /\ server'[s].buffer = Head(inbox[s]).request
           /\ server'[s].lent = server[s].lent /\ KeepsMode(s)
  BY FieldsAre DEF Receive, OtherServers, KeepsMode, KeepsWork, ServerIsOver, Over, NewServer, ServerFields,
       At, serverVars

LEMMA LendIs ==
    ASSUME TypeOK, NEW s \in Servers, NEW ok \in BOOLEAN, Lend(s, ok)
    PROVE  /\ OtherServers(s) /\ server[s].pc = "lend" /\ ~server[s].handler
           /\ signals' = signals /\ inbox' = inbox /\ answers' = answers
           /\ server'[s].pc = "forward" /\ server'[s].lent \in {"lent", "refused"}
           /\ server'[s].work = server[s].work /\ server'[s].buffer = server[s].buffer
           /\ KeepsMode(s)
<1>1. server' = [server EXCEPT ![s].pc = "forward", ![s].lent = IF ok THEN "lent" ELSE "refused"]
  BY DEF Lend
<1>2. PICK l : l \in {"lent", "refused"} /\ server' = [server EXCEPT ![s].pc = "forward", ![s].lent = l]
  BY <1>1
<1> QED
  BY <1>2, FieldsAre DEF Lend, OtherServers, KeepsMode, KeepsWork, ServerIsOver, Over, NewServer, ServerFields,
       At, serverVars

LEMMA ForwardIs ==
    ASSUME TypeOK, NEW s \in Servers, Forward(s)
    PROVE  /\ OtherServers(s) /\ server[s].pc = "forward" /\ ~server[s].handler
           /\ signals' = signals /\ answers' = answers /\ server'[s].buffer = Zeros
           /\ server'[s].work = server[s].work /\ KeepsMode(s)
           /\ \/ /\ Bound(subserver[s]) /\ server'[s].pc = "await"
                 /\ server'[s].lent = server[s].lent
                 /\ inbox' = [inbox EXCEPT ![subserver[s]] =
                            Append(@, [from |-> s, request |-> server[s].buffer])]
              \/ /\ ~Bound(subserver[s]) /\ server'[s].pc = "reply"
                 /\ server'[s].lent \in {"no", "kept"} /\ inbox' = inbox
<1>1. CASE Bound(subserver[s])
  BY <1>1, FieldsAre DEF Forward, OtherServers, KeepsMode, KeepsWork, ServerFields, At
<1>2. CASE ~Bound(subserver[s])
  <2>1. PICK l \in Revoked(s) : server' = [server EXCEPT ![s].pc = "reply", ![s].buffer = Zeros, ![s].lent = l]
    BY <1>2 DEF Forward
  <2>2. l \in {"no", "kept"}
    BY <2>1, RevokedIs
  <2>3. /\ server[s].pc = "forward" /\ ~server[s].handler
        /\ signals' = signals /\ answers' = answers /\ inbox' = inbox
    BY <1>2 DEF Forward, At
  <2>4. /\ OtherServers(s) /\ server'[s].pc = "reply" /\ server'[s].buffer = Zeros
        /\ server'[s].lent = l /\ server'[s].work = server[s].work /\ KeepsMode(s)
    BY <2>1, FieldsAre DEF OtherServers, KeepsMode, ServerFields
  <2> QED BY <1>2, <2>2, <2>3, <2>4
<1> QED BY <1>1, <1>2

LEMMA ForwardFailsIs ==
    ASSUME TypeOK, NEW s \in Servers, ForwardFails(s)
    PROVE  /\ OtherServers(s) /\ server[s].pc = "forward" /\ ~server[s].handler
           /\ signals' = signals /\ inbox' = inbox /\ answers' = answers
           /\ server'[s].pc = "reply" /\ server'[s].lent \in {"no", "kept"}
           /\ server'[s].work = server[s].work /\ server'[s].buffer = server[s].buffer /\ KeepsMode(s)
<1>1. PICK l \in Revoked(s) : server' = [server EXCEPT ![s].pc = "reply", ![s].lent = l]
  BY DEF ForwardFails
<1>2. l \in {"no", "kept"}
  BY <1>1, RevokedIs
<1> QED BY <1>1, <1>2, FieldsAre DEF ForwardFails, OtherServers, KeepsMode, ServerFields, At

(* The server goes on as after an answered request, but nothing is sent.   *)
LEMMA DropsIs ==
    ASSUME TypeOK, NEW s \in Servers, Drops(s)
    PROVE  /\ OtherServers(s) /\ server[s].pc \in {"forward", "reply"} /\ ~server[s].handler
           /\ signals' = signals /\ inbox' = inbox /\ answers' = answers
           /\ server'[s].pc = "check" /\ server'[s].work = NoWork /\ server'[s].buffer = Zeros
           /\ server'[s].lent = "lent" => server[s].pc = "reply" /\ server[s].lent = "lent"
           /\ KeepsMode(s)
           /\ unanswered' = [unanswered EXCEPT ![server[s].work.from] = @ + 1]
<1>1. PICK l \in Lendings : /\ Drop(s, l)
                            /\ l = "lent" => server[s].pc = "reply" /\ server[s].lent = "lent"
  <2>1. CASE ForwardInterrupted(s)
    BY <2>1, RevokedIs DEF ForwardInterrupted
  <2>2. CASE ReplyFails(s)
    BY <2>2, FieldsAre DEF ReplyFails, At
  <2> QED BY <2>1, <2>2 DEF Drops
<1>2. /\ server[s].pc \in {"forward", "reply"} /\ ~server[s].handler
      /\ signals' = signals /\ inbox' = inbox /\ answers' = answers
  BY DEF Drops, ForwardInterrupted, ReplyFails, At
<1>3. /\ server' = [server EXCEPT ![s].pc = "check", ![s].work = NoWork, ![s].buffer = Zeros, ![s].lent = l]
      /\ unanswered' = [unanswered EXCEPT ![server[s].work.from] = @ + 1]
  BY <1>1 DEF Drop
<1> QED BY <1>1, <1>2, <1>3, FieldsAre DEF OtherServers, KeepsMode, ServerFields

LEMMA AwaitIs ==
    ASSUME TypeOK, NEW s \in Servers, Await(s)
    PROVE  /\ OtherServers(s)
           /\ server[s].pc \in {"await", "await_asleep"} /\ ~server[s].handler
           /\ answers[s] # <<>> /\ signals' = signals /\ inbox' = inbox
           /\ \A t \in Processes : answers'[t] = IF t = s THEN Tail(answers[s]) ELSE answers[t]
           /\ server'[s].pc = "reply" /\ server'[s].buffer = Head(answers[s])
           /\ server'[s].lent \in {"no", "kept"} /\ server'[s].work = server[s].work /\ KeepsMode(s)
<1>1. PICK l \in Revoked(s) : server' = [server EXCEPT ![s].pc = "reply", ![s].buffer = Head(answers[s]), ![s].lent = l]
  BY DEF Await
<1>2. l \in {"no", "kept"}
  BY <1>1, RevokedIs
<1> QED BY <1>1, <1>2, FieldsAre DEF Await, OtherServers, KeepsMode, ServerFields, At

LEMMA GiveUpRequestIs ==
    ASSUME TypeOK, NEW s \in Servers, GiveUpRequest(s)
    PROVE  /\ OtherServers(s) /\ server[s].pc = "interrupted" /\ ~server[s].handler
           /\ signals' = signals /\ inbox' = inbox /\ answers' = answers
           /\ server'[s].pc = "check" /\ server'[s].work = NoWork /\ server'[s].buffer = Zeros
           /\ server'[s].lent \in {"no", "kept"} /\ KeepsMode(s)
<1>1. PICK l \in Revoked(s) : server' = [server EXCEPT ![s].pc = "check", ![s].work = NoWork, ![s].buffer = Zeros, ![s].lent = l]
  BY DEF GiveUpRequest
<1>2. l \in {"no", "kept"}
  BY <1>1, RevokedIs
<1> QED BY <1>1, <1>2, FieldsAre DEF GiveUpRequest, OtherServers, KeepsMode, ServerFields, At

LEMMA ReplyIs ==
    ASSUME TypeOK, NEW s \in Servers, Reply(s)
    PROVE  /\ OtherServers(s) /\ server[s].pc = "reply" /\ ~server[s].handler
           /\ signals' = signals /\ inbox' = inbox
           /\ answers' = [answers EXCEPT ![server[s].work.from] = Append(@, server[s].buffer)]
           /\ server'[s].pc = "check" /\ server'[s].work = NoWork /\ server'[s].buffer = Zeros
           /\ server'[s].lent = server[s].lent /\ KeepsMode(s)
  BY FieldsAre DEF Reply, OtherServers, KeepsMode, KeepsWork, ServerIsOver, Over, NewServer, ServerFields,
       At, serverVars

LEMMA TakeSIGTERMIs ==
    ASSUME TypeOK, NEW s \in Servers, TakeSIGTERM(s)
    PROVE  /\ OtherServers(s) /\ Bound(s) /\ "SIGTERM" \in signals[s] /\ inbox' = inbox
           /\ answers' = answers
           /\ \A t \in Processes : signals'[t] = IF t = s THEN signals[s] \ {"SIGTERM"} ELSE signals[t]
           /\ server'[s].pc = Interrupted(server[s].pc) /\ server'[s].terminated = TRUE
           /\ server'[s].fifo = server[s].fifo /\ server'[s].handler = server[s].handler
           /\ KeepsWork(s)
  BY FieldsAre DEF TakeSIGTERM, OtherServers, KeepsMode, KeepsWork, ServerIsOver, Over, NewServer, ServerFields,
       At, serverVars

LEMMA TakeSIGUSR1Is ==
    ASSUME TypeOK, NEW s \in Servers, TakeSIGUSR1(s)
    PROVE  /\ OtherServers(s) /\ Bound(s) /\ "SIGUSR1" \in signals[s] /\ ~server[s].handler
           /\ inbox' = inbox /\ answers' = answers /\ signals'[s] = signals[s] \ {"SIGUSR1"}
           /\ \A p \in Processes : p # s =>
                  signals'[p] = IF p = subserver[s] THEN signals[p] \cup {"SIGUSR1"} ELSE signals[p]
           /\ server'[s].pc = Interrupted(server[s].pc) /\ server'[s].handler = TRUE
           /\ server'[s].fifo = server[s].fifo /\ server'[s].terminated = server[s].terminated
           /\ KeepsWork(s)
<1>1. /\ Bound(s) /\ "SIGUSR1" \in signals[s] /\ ~server[s].handler
      /\ inbox' = inbox /\ answers' = answers
      /\ server' = [server EXCEPT ![s].handler = TRUE, ![s].pc = Interrupted(@)]
      /\ signals' = [p \in Processes |-> CASE p = s            -> signals[p] \ {"SIGUSR1"}
                                         [] p = subserver[s] -> signals[p] \cup {"SIGUSR1"}
                                         [] OTHER            -> signals[p]]
  BY DEF TakeSIGUSR1
<1>2. /\ signals'[s] = signals[s] \ {"SIGUSR1"}
      /\ \A p \in Processes : p # s =>
            signals'[p] = IF p = subserver[s] THEN signals[p] \cup {"SIGUSR1"} ELSE signals[p]
  <2>1. s \in Processes /\ s # subserver[s]
    BY NoLoop DEF Processes
  <2>2. signals'[s] = signals[s] \ {"SIGUSR1"}
    BY <1>1, <2>1
  <2>3. ASSUME NEW p \in Processes, p # s, p = subserver[s]
        PROVE  signals'[p] = signals[p] \cup {"SIGUSR1"}
    BY <1>1, <2>3
  <2>4. ASSUME NEW p \in Processes, p # s, p # subserver[s]
        PROVE  signals'[p] = signals[p]
    BY <1>1, <2>4
  <2> QED BY <2>2, <2>3, <2>4
<1>3. /\ OtherServers(s) /\ KeepsWork(s) /\ server'[s].pc = Interrupted(server[s].pc)
      /\ server'[s].handler = TRUE /\ server'[s].fifo = server[s].fifo
      /\ server'[s].terminated = server[s].terminated
  BY <1>1, FieldsAre DEF OtherServers, KeepsWork, ServerFields
<1> QED BY <1>1, <1>2, <1>3

LEMMA SwitchSchedulerIs ==
    ASSUME TypeOK, NEW s \in Servers, NEW ok \in BOOLEAN, SwitchScheduler(s, ok)
    PROVE  /\ OtherServers(s) /\ Bound(s) /\ server[s].handler /\ SubserverSwitched(s)
           /\ signals' = signals /\ inbox' = inbox /\ answers' = answers
           /\ server'[s].pc = server[s].pc /\ server'[s].handler = FALSE
           /\ server'[s].fifo = (server[s].fifo # ok)
           /\ server'[s].terminated = server[s].terminated /\ KeepsWork(s)
  BY FieldsAre DEF SwitchScheduler, OtherServers, KeepsMode, KeepsWork, ServerIsOver, Over, NewServer, ServerFields,
       At, serverVars

LEMMA GiveUpSubserverIs ==
    ASSUME TypeOK, NEW s \in Servers, GiveUpSubserver(s)
    PROVE  /\ OtherServers(s) /\ Bound(s) /\ server[s].handler /\ ServerIsOver(s, "failed")
           /\ signals' = signals
           /\ \A t \in Servers : inbox'[t] = IF t = s THEN <<>> ELSE inbox[t]
           /\ \A t \in Processes : answers'[t] = IF t = s THEN <<>> ELSE answers[t]
  BY FieldsAre DEF GiveUpSubserver, OtherServers, KeepsMode, KeepsWork, ServerIsOver, Over, NewServer, ServerFields,
       At, serverVars

LEMMA ClientStartIs ==
    ASSUME TypeOK, NEW c \in Clients, NEW ok \in BOOLEAN, ClientStart(c, ok)
    PROVE  /\ OtherClients(c) /\ client[c].pc = "starting" /\ server' = server
           /\ signals' = signals /\ inbox' = inbox /\ answers' = answers
           /\ \/ /\ ok /\ client'[c].pc = "signal" /\ client'[c].created = client[c].created
                 /\ client'[c].stopped = client[c].stopped /\ KeepsTask(c) /\ KeepsExchange(c)
              \/ /\ ~ok /\ ClientIsGone(c, "failed")
<1>1. CASE ok
  BY <1>1, FieldsAre DEF ClientStart, OtherClients, KeepsMain, KeepsTask, KeepsExchange, ClientIsGone, Gone,
       NewClient, ClientFields, serverVars, Kill, Send
<1>2. CASE ~ok
  BY <1>2, FieldsAre DEF ClientStart, OtherClients, KeepsMain, KeepsTask, KeepsExchange, ClientIsGone, Gone,
       NewClient, ClientFields, serverVars, Kill, Send
<1> QED BY <1>1, <1>2

LEMMA SignalServerIs ==
    ASSUME TypeOK, NEW c \in Clients, SignalServer(c)
    PROVE  /\ OtherClients(c) /\ client[c].pc \in {"signal", "signal_back"}
           /\ server' = server /\ inbox' = inbox /\ answers' = answers
           /\ \A t \in Processes : signals'[t] = IF t = server_of[c] THEN signals[t] \cup {"SIGUSR1"} ELSE signals[t]
           /\ client'[c].pc = IF client[c].pc = "signal" THEN "enter" ELSE "leave"
           /\ client'[c].created = client[c].created /\ client'[c].stopped = client[c].stopped
           /\ KeepsTask(c) /\ KeepsExchange(c)
  BY FieldsAre DEF SignalServer, OtherClients, KeepsMain, KeepsTask, KeepsExchange, ClientIsGone, Gone,
       NewClient, ClientFields, serverVars, Kill, Send

LEMMA MeasureSendIs ==
    ASSUME TypeOK, NEW c \in Clients, MeasureSend(c)
    PROVE  /\ OtherClients(c) /\ client[c].pc = "enter" /\ server[server_of[c]].fifo
           /\ server' = server /\ signals' = signals /\ answers' = answers
           /\ client'[c].created = client[c].created /\ client'[c].stopped = client[c].stopped
           /\ KeepsTask(c) /\ client'[c].got = client[c].got
           /\ \/ /\ Bound(server_of[c]) /\ client'[c].pc = "measure"
                 /\ client'[c].result = client[c].result
                 /\ inbox' = [inbox EXCEPT ![server_of[c]] =
                            Append(@, [from |-> c, request |-> Request(c)])]
              \/ /\ ~Bound(server_of[c]) /\ client'[c].pc = "signal_back"
                 /\ client'[c].result = "refused" /\ inbox' = inbox
<1>1. CASE Bound(server_of[c])
  BY <1>1, FieldsAre DEF MeasureSend, OtherClients, KeepsMain, KeepsTask, KeepsExchange, ClientIsGone, Gone,
       NewClient, ClientFields, serverVars, Kill, Send
<1>2. CASE ~Bound(server_of[c])
  BY <1>2, FieldsAre DEF MeasureSend, OtherClients, KeepsMain, KeepsTask, KeepsExchange, ClientIsGone, Gone,
       NewClient, ClientFields, serverVars, Kill, Send
<1> QED BY <1>1, <1>2

LEMMA MeasureReceiveIs ==
    ASSUME TypeOK, NEW c \in Clients, MeasureReceive(c)
    PROVE  /\ OtherClients(c) /\ client[c].pc = "measure" /\ answers[c] # <<>>
           /\ server' = server /\ signals' = signals /\ inbox' = inbox
           /\ \A t \in Processes : answers'[t] = IF t = c THEN Tail(answers[c]) ELSE answers[t]
           /\ client'[c].pc = "signal_back" /\ client'[c].result = "answer"
           /\ client'[c].got = Head(answers[c]) /\ client'[c].created = client[c].created
           /\ client'[c].stopped = client[c].stopped /\ KeepsTask(c)
  BY FieldsAre DEF MeasureReceive, OtherClients, KeepsMain, KeepsTask, KeepsExchange, ClientIsGone, Gone,
       NewClient, ClientFields, serverVars, Kill, Send

LEMMA MeasureDoneIs ==
    ASSUME TypeOK, NEW c \in Clients, NEW ok \in BOOLEAN, MeasureDone(c, ok)
    PROVE  /\ OtherClients(c) /\ client[c].pc = "leave" /\ ~server[server_of[c]].fifo
           /\ server' = server /\ signals' = signals /\ inbox' = inbox /\ answers' = answers
           /\ \/ /\ client[c].result = "answer" /\ client[c].got = Request(c) /\ ok
                 /\ client'[c].pc = "sigwait" /\ client'[c].job = "cbs"
                 /\ client'[c].result = "none" /\ client'[c].created = client[c].created
                 /\ client'[c].stopped = client[c].stopped /\ client'[c].n = client[c].n
                 /\ client'[c].lent = client[c].lent /\ client'[c].got = client[c].got
              \/ /\ ~(client[c].result = "answer" /\ client[c].got = Request(c) /\ ok)
                 /\ ClientIsGone(c, "failed")
<1>1. CASE client[c].result = "answer" /\ client[c].got = Request(c) /\ ok
  BY <1>1, FieldsAre DEF MeasureDone, OtherClients, KeepsMain, KeepsTask, KeepsExchange, ClientIsGone, Gone,
       NewClient, ClientFields, serverVars, Kill, Send
<1>2. CASE ~(client[c].result = "answer" /\ client[c].got = Request(c) /\ ok)
  BY <1>2, FieldsAre DEF MeasureDone, OtherClients, KeepsMain, KeepsTask, KeepsExchange, ClientIsGone, Gone,
       NewClient, ClientFields, serverVars, Kill, Send
<1> QED BY <1>1, <1>2

LEMMA GiveUpMeasurementIs ==
    ASSUME TypeOK, NEW c \in Clients, GiveUpMeasurement(c)
    PROVE  /\ OtherClients(c) /\ client[c].pc \in {"enter", "leave"} /\ server' = server
           /\ signals' = signals /\ inbox' = inbox /\ answers' = answers
           /\ ClientIsGone(c, "failed")
  BY FieldsAre DEF GiveUpMeasurement, OtherClients, KeepsMain, KeepsTask, KeepsExchange, ClientIsGone, Gone,
       NewClient, ClientFields, serverVars, Kill, Send

LEMMA EnterCbsIs ==
    ASSUME TypeOK, NEW c \in Clients, NEW ok \in BOOLEAN, EnterCbs(c, ok)
    PROVE  /\ OtherClients(c) /\ client[c].job = "cbs" /\ server' = server
           /\ signals' = signals /\ inbox' = inbox /\ answers' = answers
           /\ client'[c].job = IF ok THEN "sigwait" ELSE "ended"
           /\ client'[c].n = client[c].n /\ client'[c].lent = client[c].lent /\ KeepsMain(c)
           /\ KeepsExchange(c)
  BY FieldsAre DEF EnterCbs, OtherClients, KeepsMain, KeepsTask, KeepsExchange, ClientIsGone, Gone,
       NewClient, ClientFields, serverVars, Kill, Send

LEMMA CreateTaskIs ==
    ASSUME TypeOK, NEW c \in Clients, NEW ok \in BOOLEAN, CreateTask(c, ok)
    PROVE  /\ OtherClients(c) /\ client[c].job = "sigwait" /\ "SIGUSR1" \in signals[c]
           /\ server' = server /\ inbox' = inbox /\ answers' = answers
           /\ \A t \in Processes : signals'[t] = IF t = c THEN signals[c] \ {"SIGUSR1"} ELSE signals[t]
           /\ \/ /\ ok /\ client'[c].job = "sleep" /\ client'[c].created = TRUE
                 /\ client'[c].pc = client[c].pc /\ client'[c].stopped = client[c].stopped
                 /\ client'[c].n = client[c].n /\ client'[c].lent = client[c].lent
                 /\ KeepsExchange(c)
              \/ /\ ~ok /\ ClientIsGone(c, "failed")
<1>1. CASE ok
  BY <1>1, FieldsAre DEF CreateTask, OtherClients, KeepsMain, KeepsTask, KeepsExchange, ClientIsGone, Gone,
       NewClient, ClientFields, serverVars, Kill, Send
<1>2. CASE ~ok
  BY <1>2, FieldsAre DEF CreateTask, OtherClients, KeepsMain, KeepsTask, KeepsExchange, ClientIsGone, Gone,
       NewClient, ClientFields, serverVars, Kill, Send
<1> QED BY <1>1, <1>2

LEMMA ReleaseIs ==
    ASSUME TypeOK, NEW c \in Clients, NEW ok \in BOOLEAN, Release(c, ok)
    PROVE  /\ OtherClients(c) /\ client[c].job = "sleep" /\ server' = server
           /\ signals' = signals /\ inbox' = inbox /\ answers' = answers
           /\ \/ /\ ok /\ client'[c].job = "send" /\ client'[c].n = client[c].n + 1
                 /\ client'[c].got = Zeros /\ client'[c].lent = (c \in use_bwi)
                 /\ KeepsMain(c) /\ client'[c].result = client[c].result
              \/ /\ ~ok /\ ClientIsGone(c, "failed")
<1>1. CASE ok
  BY <1>1, FieldsAre DEF Release, OtherClients, KeepsMain, KeepsTask, KeepsExchange, ClientIsGone, Gone,
       NewClient, ClientFields, serverVars, Kill, Send
<1>2. CASE ~ok
  BY <1>2, FieldsAre DEF Release, OtherClients, KeepsMain, KeepsTask, KeepsExchange, ClientIsGone, Gone,
       NewClient, ClientFields, serverVars, Kill, Send
<1> QED BY <1>1, <1>2

LEMMA SendRequestIs ==
    ASSUME TypeOK, NEW c \in Clients, SendRequest(c)
    PROVE  /\ OtherClients(c) /\ client[c].job = "send" /\ server' = server
           /\ signals' = signals /\ answers' = answers /\ KeepsMain(c)
           /\ client'[c].n = client[c].n /\ client'[c].lent = client[c].lent
           /\ client'[c].got = client[c].got
           /\ \/ /\ Bound(server_of[c]) /\ client'[c].job = "recv"
                 /\ client'[c].result = client[c].result
                 /\ inbox' = [inbox EXCEPT ![server_of[c]] =
                            Append(@, [from |-> c, request |-> Request(c)])]
              \/ /\ ~Bound(server_of[c]) /\ client'[c].job = "revoke"
                 /\ client'[c].result = "refused" /\ inbox' = inbox
<1>1. CASE Bound(server_of[c])
  BY <1>1, FieldsAre DEF SendRequest, OtherClients, KeepsMain, KeepsTask, KeepsExchange, ClientIsGone, Gone,
       NewClient, ClientFields, serverVars, Kill, Send
<1>2. CASE ~Bound(server_of[c])
  BY <1>2, FieldsAre DEF SendRequest, OtherClients, KeepsMain, KeepsTask, KeepsExchange, ClientIsGone, Gone,
       NewClient, ClientFields, serverVars, Kill, Send
<1> QED BY <1>1, <1>2

LEMMA RecvFallsAsleepIs ==
    ASSUME TypeOK, NEW c \in Clients, RecvFallsAsleep(c)
    PROVE  /\ OtherClients(c) /\ client[c].job = "recv" /\ answers[c] = <<>>
           /\ server' = server /\ signals' = signals /\ inbox' = inbox /\ answers' = answers
           /\ client'[c].job = "recv_asleep" /\ client'[c].n = client[c].n
           /\ client'[c].lent = client[c].lent /\ KeepsMain(c) /\ KeepsExchange(c)
  BY FieldsAre DEF RecvFallsAsleep, OtherClients, KeepsMain, KeepsTask, KeepsExchange, ClientIsGone, Gone,
       NewClient, ClientFields, serverVars, Kill, Send

LEMMA TakeSIGUSR2Is ==
    ASSUME TypeOK, NEW c \in Clients, TakeSIGUSR2(c)
    PROVE  /\ OtherClients(c) /\ server' = server /\ signals' = signals /\ inbox' = inbox
           /\ answers' = answers /\ KeepsMain(c) /\ client'[c].n = client[c].n
           /\ client'[c].lent = client[c].lent /\ client'[c].got = client[c].got
           /\ \/ /\ client[c].job = "recv_asleep" /\ client'[c].job = "revoke"
                 /\ client'[c].result = "interrupted"
              \/ /\ client[c].job # "recv_asleep" /\ client[c].job = "recv"
                 /\ client'[c].job = "recv" /\ client'[c].result = client[c].result
<1>1. CASE client[c].job = "recv_asleep"
  BY <1>1, FieldsAre DEF TakeSIGUSR2, OtherClients, KeepsMain, KeepsTask, KeepsExchange, ClientIsGone, Gone,
       NewClient, ClientFields, serverVars, Kill, Send
<1>2. CASE client[c].job # "recv_asleep"
  BY <1>2, FieldsAre DEF TakeSIGUSR2, OtherClients, KeepsMain, KeepsTask, KeepsExchange, ClientIsGone, Gone,
       NewClient, ClientFields, serverVars, Kill, Send
<1> QED BY <1>1, <1>2

LEMMA ReceiveResponseIs ==
    ASSUME TypeOK, NEW c \in Clients, ReceiveResponse(c)
    PROVE  /\ OtherClients(c) /\ client[c].job \in {"recv", "recv_asleep"}
           /\ answers[c] # <<>> /\ server' = server /\ signals' = signals /\ inbox' = inbox
           /\ \A t \in Processes : answers'[t] = IF t = c THEN Tail(answers[c]) ELSE answers[t]
           /\ client'[c].job = "revoke" /\ client'[c].result = "answer"
           /\ client'[c].got = Head(answers[c]) /\ KeepsMain(c) /\ client'[c].n = client[c].n
           /\ client'[c].lent = client[c].lent
  BY FieldsAre DEF ReceiveResponse, OtherClients, KeepsMain, KeepsTask, KeepsExchange, ClientIsGone, Gone,
       NewClient, ClientFields, serverVars, Kill, Send

LEMMA EndJobIs ==
    ASSUME TypeOK, NEW c \in Clients, NEW ok \in BOOLEAN, EndJob(c, ok)
    PROVE  /\ client[c].job = "revoke" /\ OtherClients(c)
           /\ server' = server /\ inbox' = inbox /\ answers' = answers
           /\ \A p \in Processes : \/ signals'[p] = signals[p]
                                   \/ p = c /\ signals'[p] = signals[p] \cup {"SIGTERM"}
           /\ \/ ClientIsGone(c, "failed")
              \/ ClientIsGone(c, "killed")
              \/ /\ client'[c].job = (IF client[c].stopped THEN "ended" ELSE "sleep")
                 /\ client'[c].result = "none" /\ client'[c].got = client[c].got
                 /\ client'[c].lent = FALSE /\ client'[c].n = client[c].n /\ KeepsMain(c)
<1>1. /\ client[c].job = "revoke" /\ server' = server /\ inbox' = inbox /\ answers' = answers
      /\ \/ signals' = signals
         \/ signals' = [signals EXCEPT ![c] = @ \cup {"SIGTERM"}]
  BY DEF EndJob, Kill
<1>2. \/ client' = [client EXCEPT ![c] = Gone("failed")]
      \/ client' = [client EXCEPT ![c] = Gone("killed")]
      \/ client' = [client EXCEPT ![c] = [client[c] EXCEPT !.lent = FALSE, !.result = "none",
                                             !.job = IF client[c].stopped THEN "ended" ELSE "sleep"]]
  BY DEF EndJob
<1>3. CASE client' = [client EXCEPT ![c] = Gone("failed")]
  BY <1>1, <1>3, FieldsAre DEF OtherClients, ClientIsGone, Gone, NewClient
<1>4. CASE client' = [client EXCEPT ![c] = Gone("killed")]
  BY <1>1, <1>4, FieldsAre DEF OtherClients, ClientIsGone, Gone, NewClient
<1>5. CASE client' = [client EXCEPT ![c] = [client[c] EXCEPT !.lent = FALSE, !.result = "none",
                                               !.job = IF client[c].stopped THEN "ended" ELSE "sleep"]]
  BY <1>1, <1>5, FieldsAre DEF OtherClients, KeepsMain, ClientFields
<1> QED BY <1>2, <1>3, <1>4, <1>5


LEMMA TakeTermIs ==
    ASSUME TypeOK, NEW c \in Clients, TakeTerm(c)
    PROVE  /\ OtherClients(c) /\ client[c].pc = "sigwait" /\ "SIGTERM" \in signals[c]
           /\ server' = server /\ inbox' = inbox /\ answers' = answers
           /\ \A t \in Processes : signals'[t] = IF t = c THEN signals[c] \ {"SIGTERM"} ELSE signals[t]
           /\ client'[c].pc = "stop" /\ client'[c].created = client[c].created
           /\ client'[c].stopped = client[c].stopped /\ KeepsTask(c) /\ KeepsExchange(c)
  BY FieldsAre DEF TakeTerm, OtherClients, KeepsMain, KeepsTask, KeepsExchange, ClientIsGone, Gone,
       NewClient, ClientFields, serverVars, Kill, Send

LEMMA StopTaskIs ==
    ASSUME TypeOK, NEW c \in Clients, StopTask(c)
    PROVE  /\ OtherClients(c) /\ client[c].pc = "stop" /\ server' = server
           /\ signals' = signals /\ inbox' = inbox /\ answers' = answers
           /\ \/ /\ "SIGTERM" \notin signals[c] /\ client[c].created
                 /\ client'[c].pc = "interrupt" /\ client'[c].stopped = TRUE
                 /\ client'[c].created = client[c].created /\ KeepsTask(c) /\ KeepsExchange(c)
              \/ /\ "SIGTERM" \in signals[c] /\ ClientIsGone(c, "killed")
              \/ /\ "SIGTERM" \notin signals[c] /\ ~client[c].created
                 /\ ClientIsGone(c, "failed")
<1>1. CASE "SIGTERM" \notin signals[c] /\ client[c].created
  BY <1>1, FieldsAre DEF StopTask, OtherClients, KeepsMain, KeepsTask, KeepsExchange, ClientIsGone, Gone,
       NewClient, ClientFields, serverVars, Kill, Send
<1>2. CASE "SIGTERM" \in signals[c]
  BY <1>2, FieldsAre DEF StopTask, OtherClients, KeepsMain, KeepsTask, KeepsExchange, ClientIsGone, Gone,
       NewClient, ClientFields, serverVars, Kill, Send
<1>3. CASE "SIGTERM" \notin signals[c] /\ ~client[c].created
  BY <1>3, FieldsAre DEF StopTask, OtherClients, KeepsMain, KeepsTask, KeepsExchange, ClientIsGone, Gone,
       NewClient, ClientFields, serverVars, Kill, Send
<1> QED BY <1>1, <1>2, <1>3

LEMMA InterruptRecvIs ==
    ASSUME TypeOK, NEW c \in Clients, InterruptRecv(c)
    PROVE  /\ OtherClients(c) /\ client[c].pc = "interrupt" /\ server' = server
           /\ signals' = signals /\ inbox' = inbox /\ answers' = answers
           /\ client'[c].pc = "join" /\ client'[c].created = client[c].created
           /\ client'[c].stopped = client[c].stopped /\ KeepsTask(c) /\ KeepsExchange(c)
  BY FieldsAre DEF InterruptRecv, OtherClients, KeepsMain, KeepsTask, KeepsExchange, ClientIsGone, Gone,
       NewClient, ClientFields, serverVars, Kill, Send

LEMMA JoinIs ==
    ASSUME TypeOK, NEW c \in Clients, Join(c)
    PROVE  /\ OtherClients(c) /\ client[c].pc = "join" /\ client[c].job = "ended"
           /\ server' = server /\ signals' = signals /\ inbox' = inbox /\ answers' = answers
           /\ ClientIsGone(c, "exited")
  BY FieldsAre DEF Join, OtherClients, KeepsMain, KeepsTask, KeepsExchange, ClientIsGone, Gone,
       NewClient, ClientFields, serverVars, Kill, Send
(* What the clients keep.                                                  *)
ClientOK(c) ==
    /\ client[c].pc \in {"down", "starting", "signal", "enter", "measure", "signal_back", "leave"} \cup Dead
          => client[c].job = "none"
    /\ client[c].stopped <=> client[c].pc \in {"interrupt", "join"}
    /\ client[c].result # "none" => \/ client[c].pc \in {"signal_back", "leave"}
                                    \/ client[c].job = "revoke"
    /\ c \in use_bwi /\ client[c].job \in {"send", "recv", "recv_asleep"} => client[c].lent

ClientInv == \A c \in Clients : ClientOK(c)

(* A process that has not been created, and one whose second is over.      *)
Down(p) == /\ p \in Servers => server[p].pc = "down"
           /\ p \in Clients => client[p].pc = "down"
Past(p) == /\ p \in Servers => server[p].pc \notin {"down", "starting"}
           /\ p \in Clients => client[p].pc \in {"sigwait", "stop", "interrupt", "join"} \cup Dead

(* The driver creates the processes in their order, and whatever it knows  *)
(* has ended when it terminates early.                                     *)
DriverInv ==
    /\ Creates
    /\ driver \in {"run", "stopping", "wait", "exited"} => next = Len(Order) + 1
    /\ \A i \in DOMAIN Order : i > next \/ (i = next /\ driver = "create") =>
                                  Down(Order[i]) /\ Order[i] \notin pids
    /\ \A i \in DOMAIN Order : i < next => Past(Order[i]) /\ Order[i] \in pids
    /\ driver = "sleep" => Order[next] \in pids
    /\ driver = "terminated" => \A p \in pids : Ended(p)

(* No process goes back.                                                   *)
Onward(p) == /\ Past(p) => Past(p)'
             /\ Ended(p) => Ended(p)'
             /\ Failed(p) => Failed(p)'
             /\ Down(p) /\ p \notin pids => Down(p)'

LEMMA OnwardKept ==
    ASSUME TypeOK, ClientInv, NEW q \in Processes, ~Fork, [Next]_vars
    PROVE  Onward(q)
<1>1. ASSUME NEW s \in Servers, CheckTerminated(s), ServerStep
      PROVE  Onward(q)
  BY <1>1, CheckTerminatedIs
  DEF OtherServers, ServerIsOver, ServerStep, Onward, Down, Past, Ended, Failed, Dead, Interrupted, Bound
<1>2. ASSUME NEW s \in Servers, FallAsleep(s), ServerStep
      PROVE  Onward(q)
  BY <1>2, FallAsleepIs
  DEF OtherServers, ServerIsOver, ServerStep, Onward, Down, Past, Ended, Failed, Dead, Interrupted, Bound
<1>3. ASSUME NEW s \in Servers, Receive(s), ServerStep
      PROVE  Onward(q)
  BY <1>3, ReceiveIs
  DEF OtherServers, ServerIsOver, ServerStep, Onward, Down, Past, Ended, Failed, Dead, Interrupted, Bound
<1>4. ASSUME NEW s \in Servers, NEW ok \in BOOLEAN, ServerStart(s, ok), ServerStep
      PROVE  Onward(q)
  BY <1>4, ServerStartIs
  DEF OtherServers, ServerIsOver, ServerStep, Onward, Down, Past, Ended, Failed, Dead, Interrupted, Bound
<1>5. ASSUME NEW s \in Servers, NEW ok \in BOOLEAN, Lend(s, ok), ServerStep
      PROVE  Onward(q)
  BY <1>5, LendIs
  DEF OtherServers, ServerIsOver, ServerStep, Onward, Down, Past, Ended, Failed, Dead, Interrupted, Bound
<1>6. ASSUME NEW s \in Servers, Forward(s), ServerStep
      PROVE  Onward(q)
  BY <1>6, ForwardIs
  DEF OtherServers, ServerIsOver, ServerStep, Onward, Down, Past, Ended, Failed, Dead, Interrupted, Bound
<1>7. ASSUME NEW s \in Servers, Await(s), ServerStep
      PROVE  Onward(q)
  BY <1>7, AwaitIs
  DEF OtherServers, ServerIsOver, ServerStep, Onward, Down, Past, Ended, Failed, Dead, Interrupted, Bound
<1>8. ASSUME NEW s \in Servers, GiveUpRequest(s), ServerStep
      PROVE  Onward(q)
  BY <1>8, GiveUpRequestIs
  DEF OtherServers, ServerIsOver, ServerStep, Onward, Down, Past, Ended, Failed, Dead, Interrupted, Bound
<1>9. ASSUME NEW s \in Servers, Reply(s), ServerStep
      PROVE  Onward(q)
  BY <1>9, ReplyIs
  DEF OtherServers, ServerIsOver, ServerStep, Onward, Down, Past, Ended, Failed, Dead, Interrupted, Bound
<1>10. ASSUME NEW s \in Servers, TakeSIGTERM(s), ServerStep
      PROVE  Onward(q)
  BY <1>10, TakeSIGTERMIs
  DEF OtherServers, ServerIsOver, ServerStep, Onward, Down, Past, Ended, Failed, Dead, Interrupted, Bound
<1>11. ASSUME NEW s \in Servers, TakeSIGUSR1(s), ServerStep
      PROVE  Onward(q)
  BY <1>11, TakeSIGUSR1Is
  DEF OtherServers, ServerIsOver, ServerStep, Onward, Down, Past, Ended, Failed, Dead, Interrupted, Bound
<1>12. ASSUME NEW s \in Servers, NEW ok \in BOOLEAN, SwitchScheduler(s, ok), ServerStep
      PROVE  Onward(q)
  BY <1>12, SwitchSchedulerIs
  DEF OtherServers, ServerIsOver, ServerStep, Onward, Down, Past, Ended, Failed, Dead, Interrupted, Bound
<1>13. ASSUME NEW s \in Servers, GiveUpSubserver(s), ServerStep
      PROVE  Onward(q)
  BY <1>13, GiveUpSubserverIs
  DEF OtherServers, ServerIsOver, ServerStep, Onward, Down, Past, Ended, Failed, Dead, Interrupted, Bound
<1>14. ASSUME NEW c \in Clients, NEW ok \in BOOLEAN, ClientStart(c, ok), ClientStep
      PROVE  Onward(q)
  <2>1. CASE ok
    BY <1>14, <2>1, ClientStartIs
    DEF OtherClients, ClientIsGone, KeepsMain, ClientStep, Onward, Down, Past, Ended, Failed, Dead, ClientInv, ClientOK
  <2>2. CASE ~ok
    BY <1>14, <2>2, ClientStartIs
    DEF OtherClients, ClientIsGone, KeepsMain, ClientStep, Onward, Down, Past, Ended, Failed, Dead, ClientInv, ClientOK
  <2> QED BY <2>1, <2>2
<1>15. ASSUME NEW c \in Clients, NEW ok \in BOOLEAN, MeasureDone(c, ok), ClientStep
      PROVE  Onward(q)
  <2>1. CASE client[c].result = "answer" /\ client[c].got = Request(c) /\ ok
    BY <1>15, <2>1, MeasureDoneIs
    DEF OtherClients, ClientIsGone, KeepsMain, ClientStep, Onward, Down, Past, Ended, Failed, Dead, ClientInv, ClientOK
  <2>2. CASE ~(client[c].result = "answer" /\ client[c].got = Request(c) /\ ok)
    BY <1>15, <2>2, MeasureDoneIs
    DEF OtherClients, ClientIsGone, KeepsMain, ClientStep, Onward, Down, Past, Ended, Failed, Dead, ClientInv, ClientOK
  <2> QED BY <2>1, <2>2
<1>16. ASSUME NEW c \in Clients, SignalServer(c), ClientStep
      PROVE  Onward(q)
  BY <1>16, SignalServerIs
  DEF OtherClients, ClientIsGone, KeepsMain, ClientStep, Onward, Down, Past, Ended, Failed, Dead, ClientInv, ClientOK
<1>17. ASSUME NEW c \in Clients, MeasureSend(c), ClientStep
      PROVE  Onward(q)
  <2>1. CASE Bound(server_of[c])
    BY <1>17, <2>1, MeasureSendIs
    DEF OtherClients, ClientIsGone, KeepsMain, ClientStep, Onward, Down, Past, Ended, Failed, Dead, ClientInv, ClientOK
  <2>2. CASE ~Bound(server_of[c])
    BY <1>17, <2>2, MeasureSendIs
    DEF OtherClients, ClientIsGone, KeepsMain, ClientStep, Onward, Down, Past, Ended, Failed, Dead, ClientInv, ClientOK
  <2> QED BY <2>1, <2>2
<1>18. ASSUME NEW c \in Clients, MeasureReceive(c), ClientStep
      PROVE  Onward(q)
  BY <1>18, MeasureReceiveIs
  DEF OtherClients, ClientIsGone, KeepsMain, ClientStep, Onward, Down, Past, Ended, Failed, Dead, ClientInv, ClientOK
<1>19. ASSUME NEW c \in Clients, GiveUpMeasurement(c), ClientStep
      PROVE  Onward(q)
  BY <1>19, GiveUpMeasurementIs
  DEF OtherClients, ClientIsGone, KeepsMain, ClientStep, Onward, Down, Past, Ended, Failed, Dead, ClientInv, ClientOK
<1>20. ASSUME NEW c \in Clients, TakeTerm(c), ClientStep
      PROVE  Onward(q)
  BY <1>20, TakeTermIs
  DEF OtherClients, ClientIsGone, KeepsMain, ClientStep, Onward, Down, Past, Ended, Failed, Dead, ClientInv, ClientOK
<1>21. ASSUME NEW c \in Clients, StopTask(c), ClientStep
      PROVE  Onward(q)
  <2>1. CASE "SIGTERM" \notin signals[c] /\ client[c].created
    BY <1>21, <2>1, StopTaskIs
    DEF OtherClients, ClientIsGone, KeepsMain, ClientStep, Onward, Down, Past, Ended, Failed, Dead, ClientInv, ClientOK
  <2>2. CASE "SIGTERM" \in signals[c]
    BY <1>21, <2>2, StopTaskIs
    DEF OtherClients, ClientIsGone, KeepsMain, ClientStep, Onward, Down, Past, Ended, Failed, Dead, ClientInv, ClientOK
  <2>3. CASE "SIGTERM" \notin signals[c] /\ ~client[c].created
    BY <1>21, <2>3, StopTaskIs
    DEF OtherClients, ClientIsGone, KeepsMain, ClientStep, Onward, Down, Past, Ended, Failed, Dead, ClientInv, ClientOK
  <2> QED BY <2>1, <2>2, <2>3
<1>22. ASSUME NEW c \in Clients, InterruptRecv(c), ClientStep
      PROVE  Onward(q)
  BY <1>22, InterruptRecvIs
  DEF OtherClients, ClientIsGone, KeepsMain, ClientStep, Onward, Down, Past, Ended, Failed, Dead, ClientInv, ClientOK
<1>23. ASSUME NEW c \in Clients, Join(c), ClientStep
      PROVE  Onward(q)
  BY <1>23, JoinIs
  DEF OtherClients, ClientIsGone, KeepsMain, ClientStep, Onward, Down, Past, Ended, Failed, Dead, ClientInv, ClientOK
<1>24. ASSUME NEW c \in Clients, NEW ok \in BOOLEAN, EnterCbs(c, ok), ClientStep
      PROVE  Onward(q)
  BY <1>24, EnterCbsIs
  DEF OtherClients, ClientIsGone, KeepsMain, ClientStep, Onward, Down, Past, Ended, Failed, Dead, ClientInv, ClientOK
<1>25. ASSUME NEW c \in Clients, NEW ok \in BOOLEAN, CreateTask(c, ok), ClientStep
      PROVE  Onward(q)
  <2>1. CASE ok
    BY ZenonT(60), <1>25, <2>1, CreateTaskIs
    DEF OtherClients, ClientIsGone, KeepsMain, ClientStep, Onward, Down, Past, Ended, Failed, Dead, ClientInv, ClientOK
  <2>2. CASE ~ok
    BY <1>25, <2>2, CreateTaskIs
    DEF OtherClients, ClientIsGone, KeepsMain, ClientStep, Onward, Down, Past, Ended, Failed, Dead, ClientInv, ClientOK
  <2> QED BY <2>1, <2>2
<1>26. ASSUME NEW c \in Clients, NEW ok \in BOOLEAN, Release(c, ok), ClientStep
      PROVE  Onward(q)
  <2>1. CASE ok
    BY ZenonT(60), <1>26, <2>1, ReleaseIs
    DEF OtherClients, ClientIsGone, KeepsMain, ClientStep, Onward, Down, Past, Ended, Failed, Dead, ClientInv, ClientOK
  <2>2. CASE ~ok
    BY <1>26, <2>2, ReleaseIs
    DEF OtherClients, ClientIsGone, KeepsMain, ClientStep, Onward, Down, Past, Ended, Failed, Dead, ClientInv, ClientOK
  <2> QED BY <2>1, <2>2
<1>27. ASSUME NEW c \in Clients, SendRequest(c), ClientStep
      PROVE  Onward(q)
  <2>1. CASE Bound(server_of[c])
    BY <1>27, <2>1, SendRequestIs
    DEF OtherClients, ClientIsGone, KeepsMain, ClientStep, Onward, Down, Past, Ended, Failed, Dead, ClientInv, ClientOK
  <2>2. CASE ~Bound(server_of[c])
    BY <1>27, <2>2, SendRequestIs
    DEF OtherClients, ClientIsGone, KeepsMain, ClientStep, Onward, Down, Past, Ended, Failed, Dead, ClientInv, ClientOK
  <2> QED BY <2>1, <2>2
<1>28. ASSUME NEW c \in Clients, RecvFallsAsleep(c), ClientStep
      PROVE  Onward(q)
  BY <1>28, RecvFallsAsleepIs
  DEF OtherClients, ClientIsGone, KeepsMain, ClientStep, Onward, Down, Past, Ended, Failed, Dead, ClientInv, ClientOK
<1>29. ASSUME NEW c \in Clients, TakeSIGUSR2(c), ClientStep
      PROVE  Onward(q)
  BY <1>29, TakeSIGUSR2Is
  DEF OtherClients, ClientIsGone, KeepsMain, ClientStep, Onward, Down, Past, Ended, Failed, Dead, ClientInv, ClientOK
<1>30. ASSUME NEW c \in Clients, ReceiveResponse(c), ClientStep
      PROVE  Onward(q)
  BY <1>30, ReceiveResponseIs
  DEF OtherClients, ClientIsGone, KeepsMain, ClientStep, Onward, Down, Past, Ended, Failed, Dead, ClientInv, ClientOK
<1>31. ASSUME NEW c \in Clients, NEW ok \in BOOLEAN, EndJob(c, ok), ClientStep
      PROVE  Onward(q)
  <2>1. CASE ClientIsGone(c, "failed") \/ ClientIsGone(c, "killed")
    BY <1>31, <2>1, EndJobIs
    DEF OtherClients, ClientIsGone, ClientStep, Onward, Down, Past, Ended, Failed, Dead, ClientInv, ClientOK
  <2>2. CASE KeepsMain(c)
    BY <1>31, <2>2, EndJobIs DEF OtherClients, KeepsMain, ClientStep, Onward, Down, Past, Ended, Failed
  <2> QED BY <1>31, <2>1, <2>2, EndJobIs
<1>32. ASSUME Fork
      PROVE  Onward(q)
  BY <1>32
<1>33. ASSUME StoreProcId
      PROVE  Onward(q)
  BY <1>33, FieldsAre, OverIs, ServerAssumption
  DEF StoreProcId, vars, clientVars, serverVars, Onward, Down, Past, Ended, Failed, Dead, Alive, SignalClients, ClientInv, ClientOK
<1>34. ASSUME SleepASecond
      PROVE  Onward(q)
  BY <1>34, FieldsAre, OverIs, ServerAssumption
  DEF SleepASecond, vars, clientVars, serverVars, Onward, Down, Past, Ended, Failed, Dead, Alive, SignalClients, ClientInv, ClientOK
<1>35. ASSUME StartClients
      PROVE  Onward(q)
  BY <1>35, FieldsAre, OverIs, ServerAssumption
  DEF StartClients, vars, clientVars, serverVars, Onward, Down, Past, Ended, Failed, Dead, Alive, SignalClients, ClientInv, ClientOK
<1>36. ASSUME StopClients
      PROVE  Onward(q)
  BY <1>36, FieldsAre, OverIs, ServerAssumption
  DEF StopClients, vars, clientVars, serverVars, Onward, Down, Past, Ended, Failed, Dead, Alive, SignalClients, ClientInv, ClientOK
<1>37. ASSUME StopServers
      PROVE  Onward(q)
  BY <1>37, FieldsAre, OverIs, ServerAssumption
  DEF StopServers, vars, clientVars, serverVars, Onward, Down, Past, Ended, Failed, Dead, Alive, SignalClients, ClientInv, ClientOK
<1>38. ASSUME Wait
      PROVE  Onward(q)
  BY <1>38, FieldsAre, OverIs, ServerAssumption
  DEF Wait, vars, clientVars, serverVars, Onward, Down, Past, Ended, Failed, Dead, Alive, SignalClients, ClientInv, ClientOK
<1>39. ASSUME TerminateDriver
      PROVE  Onward(q)
  BY ZenonT(60), <1>39, FieldsAre, OverIs, ServerAssumption
  DEF TerminateDriver, vars, clientVars, serverVars, Onward, Down, Past, Ended, Failed, Dead, Alive, SignalClients, ClientInv, ClientOK
<1>40. CASE UNCHANGED vars
  BY <1>40 DEF vars, clientVars, serverVars, Onward, Down, Past, Ended, Failed, Dead
<1>41. ASSUME NEW s \in Servers, ForwardFails(s), ServerStep
      PROVE  Onward(q)
  BY <1>41, ForwardFailsIs
  DEF OtherServers, ServerIsOver, ServerStep, Onward, Down, Past, Ended, Failed, Dead, Interrupted, Bound
<1>42. ASSUME NEW s \in Servers, Drops(s), ServerStep
      PROVE  Onward(q)
  BY <1>42, DropsIs
  DEF OtherServers, ServerIsOver, ServerStep, Onward, Down, Past, Ended, Failed, Dead, Interrupted, Bound
<1> QED
    BY <1>1, <1>2, <1>3, <1>4, <1>5, <1>6, <1>7, <1>8, <1>9, <1>10, <1>11, <1>12, <1>13, <1>14,
     <1>15, <1>16, <1>17, <1>18, <1>19, <1>20, <1>21, <1>22, <1>23, <1>24, <1>25, <1>26, <1>27,
     <1>28, <1>29, <1>30, <1>31, <1>32, <1>33, <1>34, <1>35, <1>36, <1>37, <1>38, <1>39, <1>40, <1>41, <1>42
    DEF Next, ServerProgram, ServerHandler, ClientMain, ClientThread, Driver, ServerStep,
     ClientStep, Drops

LEMMA ClientInvKept ==
    ASSUME TypeOK, DriverInv, ClientInv, [Next]_vars
    PROVE  ClientInv'
<1>a. ASSUME NEW c \in Clients, OtherClients(c), ClientOK(c)'
      PROVE  ClientInv'
  BY <1>a DEF OtherClients, ClientInv, ClientOK
<1>1. ASSUME NEW s \in Servers, CheckTerminated(s), ServerStep
      PROVE  ClientInv'
  BY <1>1 DEF ServerStep, ClientInv, ClientOK
<1>2. ASSUME NEW s \in Servers, FallAsleep(s), ServerStep
      PROVE  ClientInv'
  BY <1>2 DEF ServerStep, ClientInv, ClientOK
<1>3. ASSUME NEW s \in Servers, Receive(s), ServerStep
      PROVE  ClientInv'
  BY <1>3 DEF ServerStep, ClientInv, ClientOK
<1>4. ASSUME NEW s \in Servers, NEW ok \in BOOLEAN, ServerStart(s, ok), ServerStep
      PROVE  ClientInv'
  BY <1>4 DEF ServerStep, ClientInv, ClientOK
<1>5. ASSUME NEW s \in Servers, NEW ok \in BOOLEAN, Lend(s, ok), ServerStep
      PROVE  ClientInv'
  BY <1>5 DEF ServerStep, ClientInv, ClientOK
<1>6. ASSUME NEW s \in Servers, Forward(s), ServerStep
      PROVE  ClientInv'
  BY <1>6 DEF ServerStep, ClientInv, ClientOK
<1>7. ASSUME NEW s \in Servers, Await(s), ServerStep
      PROVE  ClientInv'
  BY <1>7 DEF ServerStep, ClientInv, ClientOK
<1>8. ASSUME NEW s \in Servers, GiveUpRequest(s), ServerStep
      PROVE  ClientInv'
  BY <1>8 DEF ServerStep, ClientInv, ClientOK
<1>9. ASSUME NEW s \in Servers, Reply(s), ServerStep
      PROVE  ClientInv'
  BY <1>9 DEF ServerStep, ClientInv, ClientOK
<1>10. ASSUME NEW s \in Servers, TakeSIGTERM(s), ServerStep
      PROVE  ClientInv'
  BY <1>10 DEF ServerStep, ClientInv, ClientOK
<1>11. ASSUME NEW s \in Servers, TakeSIGUSR1(s), ServerStep
      PROVE  ClientInv'
  BY <1>11 DEF ServerStep, ClientInv, ClientOK
<1>12. ASSUME NEW s \in Servers, NEW ok \in BOOLEAN, SwitchScheduler(s, ok), ServerStep
      PROVE  ClientInv'
  BY <1>12 DEF ServerStep, ClientInv, ClientOK
<1>13. ASSUME NEW s \in Servers, GiveUpSubserver(s), ServerStep
      PROVE  ClientInv'
  BY <1>13 DEF ServerStep, ClientInv, ClientOK
<1>14. ASSUME NEW c \in Clients, NEW ok \in BOOLEAN, ClientStart(c, ok), ClientStep
      PROVE  ClientInv'
  <2>1. ClientOK(c)'
    <3>1. CASE ok
        BY <1>14, <3>1, ClientStartIs DEF ClientIsGone, KeepsMain, KeepsTask, KeepsExchange, ClientInv, ClientOK, Dead
    <3>2. CASE ~ok
        BY <1>14, <3>2, ClientStartIs DEF ClientIsGone, KeepsMain, KeepsTask, KeepsExchange, ClientInv, ClientOK, Dead
    <3> QED BY <3>1, <3>2
  <2> QED BY <1>14, <1>a, <2>1, ClientStartIs
<1>15. ASSUME NEW c \in Clients, NEW ok \in BOOLEAN, MeasureDone(c, ok), ClientStep
      PROVE  ClientInv'
  <2>1. ClientOK(c)'
    <3>1. CASE client[c].result = "answer" /\ client[c].got = Request(c) /\ ok
        BY <1>15, <3>1, MeasureDoneIs DEF ClientIsGone, KeepsMain, KeepsTask, KeepsExchange, ClientInv, ClientOK, Dead
    <3>2. CASE ~(client[c].result = "answer" /\ client[c].got = Request(c) /\ ok)
        BY <1>15, <3>2, MeasureDoneIs DEF ClientIsGone, KeepsMain, KeepsTask, KeepsExchange, ClientInv, ClientOK, Dead
    <3> QED BY <3>1, <3>2
  <2> QED BY <1>15, <1>a, <2>1, MeasureDoneIs
<1>16. ASSUME NEW c \in Clients, SignalServer(c), ClientStep
      PROVE  ClientInv'
  <2>1. ClientOK(c)'
    BY <1>16, SignalServerIs DEF ClientIsGone, KeepsMain, KeepsTask, KeepsExchange, ClientInv, ClientOK, Dead
  <2> QED BY <1>16, <1>a, <2>1, SignalServerIs
<1>17. ASSUME NEW c \in Clients, MeasureSend(c), ClientStep
      PROVE  ClientInv'
  <2>1. ClientOK(c)'
    <3>1. CASE Bound(server_of[c])
        BY ZenonT(60), <1>17, <3>1, MeasureSendIs DEF ClientIsGone, KeepsMain, KeepsTask, KeepsExchange, ClientInv, ClientOK, Dead
    <3>2. CASE ~Bound(server_of[c])
        BY <1>17, <3>2, MeasureSendIs DEF ClientIsGone, KeepsMain, KeepsTask, KeepsExchange, ClientInv, ClientOK, Dead
    <3> QED BY <3>1, <3>2
  <2> QED BY <1>17, <1>a, <2>1, MeasureSendIs
<1>18. ASSUME NEW c \in Clients, MeasureReceive(c), ClientStep
      PROVE  ClientInv'
  <2>1. ClientOK(c)'
    BY <1>18, MeasureReceiveIs DEF ClientIsGone, KeepsMain, KeepsTask, KeepsExchange, ClientInv, ClientOK, Dead
  <2> QED BY <1>18, <1>a, <2>1, MeasureReceiveIs
<1>19. ASSUME NEW c \in Clients, GiveUpMeasurement(c), ClientStep
      PROVE  ClientInv'
  <2>1. ClientOK(c)'
    BY <1>19, GiveUpMeasurementIs DEF ClientIsGone, KeepsMain, KeepsTask, KeepsExchange, ClientInv, ClientOK, Dead
  <2> QED BY <1>19, <1>a, <2>1, GiveUpMeasurementIs
<1>20. ASSUME NEW c \in Clients, TakeTerm(c), ClientStep
      PROVE  ClientInv'
  <2>1. ClientOK(c)'
    BY ZenonT(60), <1>20, TakeTermIs DEF ClientIsGone, KeepsMain, KeepsTask, KeepsExchange, ClientInv, ClientOK, Dead
  <2> QED BY <1>20, <1>a, <2>1, TakeTermIs
<1>21. ASSUME NEW c \in Clients, StopTask(c), ClientStep
      PROVE  ClientInv'
  <2>1. ClientOK(c)'
    <3>1. CASE "SIGTERM" \notin signals[c] /\ client[c].created
        BY ZenonT(60), <1>21, <3>1, StopTaskIs DEF ClientIsGone, KeepsMain, KeepsTask, KeepsExchange, ClientInv, ClientOK, Dead
    <3>2. CASE "SIGTERM" \in signals[c]
        BY <1>21, <3>2, StopTaskIs DEF ClientIsGone, KeepsMain, KeepsTask, KeepsExchange, ClientInv, ClientOK, Dead
    <3>3. CASE "SIGTERM" \notin signals[c] /\ ~client[c].created
        BY <1>21, <3>3, StopTaskIs DEF ClientIsGone, KeepsMain, KeepsTask, KeepsExchange, ClientInv, ClientOK, Dead
    <3> QED BY <3>1, <3>2, <3>3
  <2> QED BY <1>21, <1>a, <2>1, StopTaskIs
<1>22. ASSUME NEW c \in Clients, InterruptRecv(c), ClientStep
      PROVE  ClientInv'
  <2>1. ClientOK(c)'
    BY <1>22, InterruptRecvIs DEF ClientIsGone, KeepsMain, KeepsTask, KeepsExchange, ClientInv, ClientOK, Dead
  <2> QED BY <1>22, <1>a, <2>1, InterruptRecvIs
<1>23. ASSUME NEW c \in Clients, Join(c), ClientStep
      PROVE  ClientInv'
  <2>1. ClientOK(c)'
    BY <1>23, JoinIs DEF ClientIsGone, KeepsMain, KeepsTask, KeepsExchange, ClientInv, ClientOK, Dead
  <2> QED BY <1>23, <1>a, <2>1, JoinIs
<1>24. ASSUME NEW c \in Clients, NEW ok \in BOOLEAN, EnterCbs(c, ok), ClientStep
      PROVE  ClientInv'
  <2>1. ClientOK(c)'
    BY <1>24, EnterCbsIs DEF ClientIsGone, KeepsMain, KeepsTask, KeepsExchange, ClientInv, ClientOK, Dead
  <2> QED BY <1>24, <1>a, <2>1, EnterCbsIs
<1>25. ASSUME NEW c \in Clients, NEW ok \in BOOLEAN, CreateTask(c, ok), ClientStep
      PROVE  ClientInv'
  <2>1. ClientOK(c)'
    <3>1. CASE ok
        BY ZenonT(60), <1>25, <3>1, CreateTaskIs DEF ClientIsGone, KeepsMain, KeepsTask, KeepsExchange, ClientInv, ClientOK, Dead
    <3>2. CASE ~ok
        BY <1>25, <3>2, CreateTaskIs DEF ClientIsGone, KeepsMain, KeepsTask, KeepsExchange, ClientInv, ClientOK, Dead
    <3> QED BY <3>1, <3>2
  <2> QED BY <1>25, <1>a, <2>1, CreateTaskIs
<1>26. ASSUME NEW c \in Clients, NEW ok \in BOOLEAN, Release(c, ok), ClientStep
      PROVE  ClientInv'
  <2>1. ClientOK(c)'
    <3>1. CASE ok
        BY <1>26, <3>1, ReleaseIs DEF ClientIsGone, KeepsMain, KeepsTask, KeepsExchange, ClientInv, ClientOK, Dead
    <3>2. CASE ~ok
        BY <1>26, <3>2, ReleaseIs DEF ClientIsGone, KeepsMain, KeepsTask, KeepsExchange, ClientInv, ClientOK, Dead
    <3> QED BY <3>1, <3>2
  <2> QED BY <1>26, <1>a, <2>1, ReleaseIs
<1>27. ASSUME NEW c \in Clients, SendRequest(c), ClientStep
      PROVE  ClientInv'
  <2>1. ClientOK(c)'
    <3>1. CASE Bound(server_of[c])
        BY ZenonT(60), <1>27, <3>1, SendRequestIs DEF ClientIsGone, KeepsMain, KeepsTask, KeepsExchange, ClientInv, ClientOK, Dead
    <3>2. CASE ~Bound(server_of[c])
        BY <1>27, <3>2, SendRequestIs DEF ClientIsGone, KeepsMain, KeepsTask, KeepsExchange, ClientInv, ClientOK, Dead
    <3> QED BY <3>1, <3>2
  <2> QED BY <1>27, <1>a, <2>1, SendRequestIs
<1>28. ASSUME NEW c \in Clients, RecvFallsAsleep(c), ClientStep
      PROVE  ClientInv'
  <2>1. ClientOK(c)'
    BY <1>28, RecvFallsAsleepIs DEF ClientIsGone, KeepsMain, KeepsTask, KeepsExchange, ClientInv, ClientOK, Dead
  <2> QED BY <1>28, <1>a, <2>1, RecvFallsAsleepIs
<1>29. ASSUME NEW c \in Clients, TakeSIGUSR2(c), ClientStep
      PROVE  ClientInv'
  <2>1. ClientOK(c)'
    <3>1. CASE client[c].job = "recv_asleep"
        BY <1>29, <3>1, TakeSIGUSR2Is DEF ClientIsGone, KeepsMain, KeepsTask, KeepsExchange, ClientInv, ClientOK, Dead
    <3>2. CASE client[c].job # "recv_asleep"
        BY <1>29, <3>2, TakeSIGUSR2Is DEF ClientIsGone, KeepsMain, KeepsTask, KeepsExchange, ClientInv, ClientOK, Dead
    <3> QED BY <3>1, <3>2
  <2> QED BY <1>29, <1>a, <2>1, TakeSIGUSR2Is
<1>30. ASSUME NEW c \in Clients, ReceiveResponse(c), ClientStep
      PROVE  ClientInv'
  <2>1. ClientOK(c)'
    BY <1>30, ReceiveResponseIs DEF ClientIsGone, KeepsMain, KeepsTask, KeepsExchange, ClientInv, ClientOK, Dead
  <2> QED BY <1>30, <1>a, <2>1, ReceiveResponseIs
<1>31. ASSUME NEW c \in Clients, NEW ok \in BOOLEAN, EndJob(c, ok), ClientStep
      PROVE  ClientInv'
  <2>1. ClientOK(c)'
    <3>1. CASE ClientIsGone(c, "failed") \/ ClientIsGone(c, "killed")
        BY <1>31, <3>1, EndJobIs DEF ClientIsGone, KeepsMain, KeepsTask, KeepsExchange, ClientInv, ClientOK, Dead
    <3>2. CASE ~(ClientIsGone(c, "failed") \/ ClientIsGone(c, "killed"))
      <4>1. /\ client[c].job = "revoke" /\ client'[c].job \in {"ended", "sleep"}
            /\ client'[c].result = "none" /\ KeepsMain(c)
        BY <1>31, <3>2, EndJobIs
      <4> QED BY <4>1 DEF KeepsMain, ClientInv, ClientOK, Dead
    <3> QED BY <3>1, <3>2
  <2> QED BY <1>31, <1>a, <2>1, EndJobIs
<1>32. ASSUME Fork
      PROVE  ClientInv'
  <2>1. Order[next] \in Clients => client[Order[next]].job = "none" /\ ~client[Order[next]].stopped
                                       /\ client[Order[next]].result = "none"
    <3>1. next \in DOMAIN Order
      BY <1>32, PlaceIs, FieldsAre DEF Fork
    <3>2. Down(Order[next])
      BY <1>32, <3>1, FieldsAre DEF Fork, DriverInv
    <3> QED BY <3>2 DEF ClientInv, ClientOK, Down
  <2>2. CASE client' = client
    BY <2>2 DEF ClientInv, ClientOK
  <2>3. CASE Order[next] \in Clients /\ client' = [client EXCEPT ![Order[next]].pc = "starting"]
    <3>1. PICK c \in Clients : c = Order[next]
      BY <2>3
    <3>2. /\ client'[c].pc = "starting" /\ client'[c].job = client[c].job
          /\ client'[c].stopped = client[c].stopped /\ client'[c].result = client[c].result
          /\ client'[c].lent = client[c].lent
      BY <2>3, <3>1, FieldsAre DEF ClientFields
    <3>3. OtherClients(c)
      BY <2>3, <3>1, FieldsAre DEF OtherClients
    <3>4. ClientOK(c)'
      BY <2>1, <3>1, <3>2 DEF ClientInv, ClientOK
    <3> QED BY <1>a, <3>3, <3>4
  <2> QED BY <1>32, <2>2, <2>3 DEF Fork
<1>33. ASSUME StoreProcId
      PROVE  ClientInv'
  BY <1>33 DEF StoreProcId, clientVars, serverVars, ClientInv, ClientOK
<1>34. ASSUME SleepASecond
      PROVE  ClientInv'
  BY <1>34 DEF SleepASecond, clientVars, serverVars, ClientInv, ClientOK
<1>35. ASSUME StartClients
      PROVE  ClientInv'
  BY <1>35, OverIs, FieldsAre DEF StartClients, SignalClients, ClientInv, ClientOK, Dead
<1>36. ASSUME StopClients
      PROVE  ClientInv'
  BY <1>36, OverIs, FieldsAre DEF StopClients, SignalClients, ClientInv, ClientOK, Dead
<1>37. ASSUME StopServers
      PROVE  ClientInv'
  BY <1>37 DEF StopServers, clientVars, serverVars, ClientInv, ClientOK
<1>38. ASSUME Wait
      PROVE  ClientInv'
  BY <1>38 DEF Wait, clientVars, serverVars, ClientInv, ClientOK
<1>39. ASSUME TerminateDriver
      PROVE  ClientInv'
  BY <1>39, OverIs, FieldsAre DEF TerminateDriver, ClientInv, ClientOK, Dead
<1>40. CASE UNCHANGED vars
  BY <1>40 DEF vars, clientVars, serverVars, ClientInv, ClientOK
<1>41. ASSUME NEW s \in Servers, ForwardFails(s), ServerStep
      PROVE  ClientInv'
  BY <1>41 DEF ServerStep, ClientInv, ClientOK
<1>42. ASSUME NEW s \in Servers, Drops(s), ServerStep
      PROVE  ClientInv'
  BY <1>42 DEF ServerStep, ClientInv, ClientOK
<1> QED
    BY <1>1, <1>2, <1>3, <1>4, <1>5, <1>6, <1>7, <1>8, <1>9, <1>10, <1>11, <1>12, <1>13, <1>14,
     <1>15, <1>16, <1>17, <1>18, <1>19, <1>20, <1>21, <1>22, <1>23, <1>24, <1>25, <1>26, <1>27,
     <1>28, <1>29, <1>30, <1>31, <1>32, <1>33, <1>34, <1>35, <1>36, <1>37, <1>38, <1>39, <1>40, <1>41, <1>42
    DEF Next, ServerProgram, ServerHandler, ClientMain, ClientThread, Driver, ServerStep,
     ClientStep, Drops

LEMMA DriverInvKept ==
    ASSUME TypeOK, ClientInv, DriverInv, [Next]_vars
    PROVE  DriverInv'
<1>b. ~Fork => \A q \in Processes : Onward(q)
  BY OnwardKept
<1>c. /\ DOMAIN Order = 1..Len(Order) /\ Len(Order) \in Nat /\ next \in 1..(Len(Order) + 1)
      /\ \A i \in DOMAIN Order : Order[i] \in Processes
      /\ pids \subseteq Processes
  BY FieldsAre, PlaceIs
<1>d. ~Fork => /\ \A q \in Processes : (Past(q) => Past(q)') /\ (Ended(q) => Ended(q)')
               /\ \A q \in Processes : Down(q) /\ q \notin pids => Down(q)'
  BY <1>b DEF Onward
<1>a. ASSUME UNCHANGED <<driver, next, pids>> PROVE DriverInv'
  <2>1. ~Fork
    BY <1>a DEF Fork
  <2> QED BY <1>a, <1>c, <1>d, <2>1 DEF DriverInv, Creates
<1>e. driver \in {"forked", "sleep", "run", "stopping", "wait"} => ~Fork
  BY DEF Fork
<1>1. ASSUME NEW s \in Servers, CheckTerminated(s), ServerStep
      PROVE  DriverInv'
  BY <1>1, <1>a DEF ServerStep
<1>2. ASSUME NEW s \in Servers, FallAsleep(s), ServerStep
      PROVE  DriverInv'
  BY <1>2, <1>a DEF ServerStep
<1>3. ASSUME NEW s \in Servers, Receive(s), ServerStep
      PROVE  DriverInv'
  BY <1>3, <1>a DEF ServerStep
<1>4. ASSUME NEW s \in Servers, NEW ok \in BOOLEAN, ServerStart(s, ok), ServerStep
      PROVE  DriverInv'
  BY <1>4, <1>a DEF ServerStep
<1>5. ASSUME NEW s \in Servers, NEW ok \in BOOLEAN, Lend(s, ok), ServerStep
      PROVE  DriverInv'
  BY <1>5, <1>a DEF ServerStep
<1>6. ASSUME NEW s \in Servers, Forward(s), ServerStep
      PROVE  DriverInv'
  BY <1>6, <1>a DEF ServerStep
<1>7. ASSUME NEW s \in Servers, Await(s), ServerStep
      PROVE  DriverInv'
  BY <1>7, <1>a DEF ServerStep
<1>8. ASSUME NEW s \in Servers, GiveUpRequest(s), ServerStep
      PROVE  DriverInv'
  BY <1>8, <1>a DEF ServerStep
<1>9. ASSUME NEW s \in Servers, Reply(s), ServerStep
      PROVE  DriverInv'
  BY <1>9, <1>a DEF ServerStep
<1>10. ASSUME NEW s \in Servers, TakeSIGTERM(s), ServerStep
      PROVE  DriverInv'
  BY <1>10, <1>a DEF ServerStep
<1>11. ASSUME NEW s \in Servers, TakeSIGUSR1(s), ServerStep
      PROVE  DriverInv'
  BY <1>11, <1>a DEF ServerStep
<1>12. ASSUME NEW s \in Servers, NEW ok \in BOOLEAN, SwitchScheduler(s, ok), ServerStep
      PROVE  DriverInv'
  BY <1>12, <1>a DEF ServerStep
<1>13. ASSUME NEW s \in Servers, GiveUpSubserver(s), ServerStep
      PROVE  DriverInv'
  BY <1>13, <1>a DEF ServerStep
<1>14. ASSUME NEW c \in Clients, NEW ok \in BOOLEAN, ClientStart(c, ok), ClientStep
      PROVE  DriverInv'
  BY <1>14, <1>a DEF ClientStep
<1>15. ASSUME NEW c \in Clients, NEW ok \in BOOLEAN, MeasureDone(c, ok), ClientStep
      PROVE  DriverInv'
  BY <1>15, <1>a DEF ClientStep
<1>16. ASSUME NEW c \in Clients, SignalServer(c), ClientStep
      PROVE  DriverInv'
  BY <1>16, <1>a DEF ClientStep
<1>17. ASSUME NEW c \in Clients, MeasureSend(c), ClientStep
      PROVE  DriverInv'
  BY <1>17, <1>a DEF ClientStep
<1>18. ASSUME NEW c \in Clients, MeasureReceive(c), ClientStep
      PROVE  DriverInv'
  BY <1>18, <1>a DEF ClientStep
<1>19. ASSUME NEW c \in Clients, GiveUpMeasurement(c), ClientStep
      PROVE  DriverInv'
  BY <1>19, <1>a DEF ClientStep
<1>20. ASSUME NEW c \in Clients, TakeTerm(c), ClientStep
      PROVE  DriverInv'
  BY <1>20, <1>a DEF ClientStep
<1>21. ASSUME NEW c \in Clients, StopTask(c), ClientStep
      PROVE  DriverInv'
  BY <1>21, <1>a DEF ClientStep
<1>22. ASSUME NEW c \in Clients, InterruptRecv(c), ClientStep
      PROVE  DriverInv'
  BY <1>22, <1>a DEF ClientStep
<1>23. ASSUME NEW c \in Clients, Join(c), ClientStep
      PROVE  DriverInv'
  BY <1>23, <1>a DEF ClientStep
<1>24. ASSUME NEW c \in Clients, NEW ok \in BOOLEAN, EnterCbs(c, ok), ClientStep
      PROVE  DriverInv'
  BY <1>24, <1>a DEF ClientStep
<1>25. ASSUME NEW c \in Clients, NEW ok \in BOOLEAN, CreateTask(c, ok), ClientStep
      PROVE  DriverInv'
  BY <1>25, <1>a DEF ClientStep
<1>26. ASSUME NEW c \in Clients, NEW ok \in BOOLEAN, Release(c, ok), ClientStep
      PROVE  DriverInv'
  BY <1>26, <1>a DEF ClientStep
<1>27. ASSUME NEW c \in Clients, SendRequest(c), ClientStep
      PROVE  DriverInv'
  BY <1>27, <1>a DEF ClientStep
<1>28. ASSUME NEW c \in Clients, RecvFallsAsleep(c), ClientStep
      PROVE  DriverInv'
  BY <1>28, <1>a DEF ClientStep
<1>29. ASSUME NEW c \in Clients, TakeSIGUSR2(c), ClientStep
      PROVE  DriverInv'
  BY <1>29, <1>a DEF ClientStep
<1>30. ASSUME NEW c \in Clients, ReceiveResponse(c), ClientStep
      PROVE  DriverInv'
  BY <1>30, <1>a DEF ClientStep
<1>31. ASSUME NEW c \in Clients, NEW ok \in BOOLEAN, EndJob(c, ok), ClientStep
      PROVE  DriverInv'
  BY <1>31, <1>a DEF ClientStep
<1>32. ASSUME Fork
      PROVE  DriverInv'
  <2>1. Order[next] \in Processes /\ Down(Order[next]) /\ Order[next] \notin pids
    BY <1>32, <1>c DEF Fork, DriverInv
  <2>2. \A i \in DOMAIN Order : i # next => Order[i] # Order[next]
    BY <1>32, <1>c, PlaceIs DEF Fork
  <2>3. \A q \in Processes : q # Order[next] => (Down(q) => Down(q)') /\ (Past(q) => Past(q)')
    BY <1>32, FieldsAre DEF Fork, Down, Past
  <2> QED BY <1>32, <1>c, <2>1, <2>2, <2>3 DEF Fork, DriverInv, Creates
<1>33. ASSUME StoreProcId
      PROVE  DriverInv'
  <2>1. \A i \in DOMAIN Order : i > next => Order[i] # Order[next]
    BY <1>33, <1>c, PlaceIs DEF StoreProcId, DriverInv, Creates
  <2>2. ~Fork
    BY <1>33 DEF StoreProcId, Fork
  <2> QED BY <1>33, <1>c, <1>d, <2>1, <2>2 DEF StoreProcId, DriverInv, Creates
<1>34. ASSUME SleepASecond
      PROVE  DriverInv'
  <2>1. Past(Order[next])
    BY <1>34, <1>c, ServerAssumption DEF SleepASecond, Settled, Past, Ended, Bound, Dead, DriverInv, Creates, Processes
  <2>2. \A q \in Processes : (Past(q) => Past(q)') /\ (Down(q) => Down(q)') /\ (Ended(q) => Ended(q)')
    BY <1>34 DEF SleepASecond, clientVars, serverVars, Past, Down, Ended
  <2>3. driver = "sleep" /\ driver' = "create" /\ next' = next + 1 /\ pids' = pids /\ next <= Len(Order)
    BY <1>34 DEF SleepASecond, DriverInv, Creates
  <2>4. ASSUME NEW i \in DOMAIN Order, i < next'
        PROVE  Past(Order[i])' /\ Order[i] \in pids'
    <3>1. i < next \/ i = next
      BY <1>c, <2>3, <2>4
    <3>2. Past(Order[i]) /\ Order[i] \in pids
      BY <2>1, <2>3, <3>1 DEF DriverInv
    <3> QED BY <1>c, <2>2, <2>3, <3>2
  <2>5. ASSUME NEW i \in DOMAIN Order, i >= next'
        PROVE  Down(Order[i])' /\ Order[i] \notin pids'
    <3>1. i > next
      BY <1>c, <2>3, <2>5
    <3>2. Down(Order[i]) /\ Order[i] \notin pids
      BY <3>1 DEF DriverInv
    <3> QED BY <1>c, <2>2, <2>3, <3>2
  <2> QED BY <1>c, <2>3, <2>4, <2>5 DEF DriverInv, Creates
<1>35. ASSUME StartClients
      PROVE  DriverInv'
  <2>1. ~Fork
    BY <1>35 DEF StartClients, Fork
  <2> QED BY <1>35, <1>c, <1>d, <2>1 DEF StartClients, DriverInv, Creates
<1>36. ASSUME StopClients
      PROVE  DriverInv'
  <2>1. ~Fork
    BY <1>36 DEF StopClients, Fork
  <2> QED BY <1>36, <1>c, <1>d, <2>1 DEF StopClients, DriverInv, Creates
<1>37. ASSUME StopServers
      PROVE  DriverInv'
  <2>1. ~Fork
    BY <1>37 DEF StopServers, Fork
  <2> QED BY <1>37, <1>c, <1>d, <2>1 DEF StopServers, DriverInv, Creates
<1>38. ASSUME Wait
      PROVE  DriverInv'
  <2>1. ~Fork
    BY <1>38 DEF Wait, Fork
  <2> QED BY <1>38, <1>c, <1>d, <2>1 DEF Wait, DriverInv, Creates
<1>39. ASSUME TerminateDriver
      PROVE  DriverInv'
  <2>1. \A q \in pids : Ended(q)'
    BY <1>39, OverIs, FieldsAre, ServerAssumption DEF TerminateDriver, Ended, Dead, Processes
  <2>2. ~Fork
    BY <1>39 DEF TerminateDriver, Fork
  <2> QED BY <1>39, <1>c, <1>d, <2>1, <2>2 DEF TerminateDriver, DriverInv, Creates
<1>40. CASE UNCHANGED vars
  BY <1>40, <1>a DEF vars
<1>41. ASSUME NEW s \in Servers, ForwardFails(s), ServerStep
      PROVE  DriverInv'
  BY <1>41, <1>a DEF ServerStep
<1>42. ASSUME NEW s \in Servers, Drops(s), ServerStep
      PROVE  DriverInv'
  BY <1>42, <1>a DEF ServerStep
<1> QED
    BY <1>1, <1>2, <1>3, <1>4, <1>5, <1>6, <1>7, <1>8, <1>9, <1>10, <1>11, <1>12, <1>13, <1>14,
     <1>15, <1>16, <1>17, <1>18, <1>19, <1>20, <1>21, <1>22, <1>23, <1>24, <1>25, <1>26, <1>27,
     <1>28, <1>29, <1>30, <1>31, <1>32, <1>33, <1>34, <1>35, <1>36, <1>37, <1>38, <1>39, <1>40, <1>41, <1>42
    DEF Next, ServerProgram, ServerHandler, ClientMain, ClientThread, Driver, ServerStep,
     ClientStep, Drops

LEMMA ServerInvKept ==
    ASSUME TypeOK, DriverInv, ClientInv, ServerInv, [Next]_vars
    PROVE  ServerInv'
<1>a. ASSUME NEW s \in Servers, OtherServers(s), ServerOK(s)', UNCHANGED driver,
             \A t \in Servers : t # s /\ ~Bound(t) => inbox'[t] = inbox[t],
             \A t \in Servers : t # s /\ "SIGTERM" \notin signals[t] => "SIGTERM" \notin signals'[t]
      PROVE  ServerInv'
  BY <1>a DEF OtherServers, ServerInv, ServerOK, Ending, Bound
<1>b. ASSUME server' = server, UNCHANGED driver,
             \A t \in Servers : ~Bound(t) => inbox'[t] = inbox[t],
             \A t \in Servers : "SIGTERM" \notin signals[t] => "SIGTERM" \notin signals'[t]
      PROVE  ServerInv'
  BY <1>b DEF ServerInv, ServerOK, Ending, Bound
<1>1. ASSUME NEW s \in Servers, CheckTerminated(s), ServerStep
      PROVE  ServerInv'
  <2>1. ServerOK(s)'
    <3>1. CASE server[s].terminated
      <4>1. ServerOK(s) /\ ServerIsOver(s, "exited") /\ inbox'[s] = <<>> /\ signals' = signals /\ driver' = driver
        BY <1>1, <3>1, CheckTerminatedIs DEF ServerInv, ServerStep
      <4> QED BY <3>1, <4>1 DEF ServerOK, ServerIsOver, NoWork, Zeros, Bound, Working, Ending
    <3>2. CASE ~server[s].terminated
      BY <1>1, <3>2, CheckTerminatedIs DEF KeepsMode, KeepsWork, ServerInv, ServerOK, Bound, Working, Ending, ServerStep
    <3> QED BY <3>1, <3>2
  <2>2. \A t \in Servers : t # s /\ ~Bound(t) => inbox'[t] = inbox[t]
    BY <1>1, CheckTerminatedIs
  <2>3. \A t \in Servers : t # s /\ "SIGTERM" \notin signals[t] => "SIGTERM" \notin signals'[t]
    BY <1>1, CheckTerminatedIs
  <2> QED BY <1>1, <1>a, <2>1, <2>2, <2>3, CheckTerminatedIs DEF ServerStep
<1>2. ASSUME NEW s \in Servers, FallAsleep(s), ServerStep
      PROVE  ServerInv'
  <2>1. ServerOK(s)'
    <3>1. CASE server[s].pc = "recv"
      BY <1>2, <3>1, FallAsleepIs DEF ServerIsOver, KeepsMode, KeepsWork, ServerInv, ServerOK, Bound, Working,
             Ending, NoWork, ServerStep, Zeros
    <3>2. CASE server[s].pc # "recv"
      BY <1>2, <3>2, FallAsleepIs DEF ServerIsOver, KeepsMode, KeepsWork, ServerInv, ServerOK, Bound, Working,
             Ending, NoWork, ServerStep, Zeros
    <3> QED BY <3>1, <3>2
  <2>2. \A t \in Servers : t # s /\ ~Bound(t) => inbox'[t] = inbox[t]
    BY <1>2, FallAsleepIs
  <2>3. \A t \in Servers : t # s /\ "SIGTERM" \notin signals[t] => "SIGTERM" \notin signals'[t]
    BY <1>2, FallAsleepIs
  <2> QED BY <1>2, <1>a, <2>1, <2>2, <2>3, FallAsleepIs DEF ServerStep
<1>3. ASSUME NEW s \in Servers, Receive(s), ServerStep
      PROVE  ServerInv'
  <2>a. Head(inbox[s]).from # Nobody
    BY <1>3, ReceiveIs, FieldsAre, InboxKept, TypeIs, DatagramIs, ServerAssumption
  <2>1. ServerOK(s)'
    <3>1. CASE subserver[s] = Nobody
      BY <1>3, <3>1, ReceiveIs, <2>a DEF ServerIsOver, KeepsMode, KeepsWork, ServerInv, ServerOK, Bound, Working,
             Ending, NoWork, ServerStep, Zeros
    <3>2. CASE subserver[s] # Nobody
      BY <1>3, <3>2, ReceiveIs, <2>a DEF ServerIsOver, KeepsMode, KeepsWork, ServerInv, ServerOK, Bound, Working,
             Ending, NoWork, ServerStep, Zeros
    <3> QED BY <3>1, <3>2
  <2>2. \A t \in Servers : t # s /\ ~Bound(t) => inbox'[t] = inbox[t]
    BY <1>3, ReceiveIs
  <2>3. \A t \in Servers : t # s /\ "SIGTERM" \notin signals[t] => "SIGTERM" \notin signals'[t]
    BY <1>3, ReceiveIs
  <2> QED BY <1>3, <1>a, <2>1, <2>2, <2>3, ReceiveIs DEF ServerStep
<1>4. ASSUME NEW s \in Servers, NEW ok \in BOOLEAN, ServerStart(s, ok), ServerStep
      PROVE  ServerInv'
  <2>1. ServerOK(s)'
    BY <1>4, ServerStartIs DEF ServerIsOver, KeepsMode, KeepsWork, ServerInv, ServerOK, Bound, Working,
         Ending, NoWork, ServerStep, Zeros
  <2>2. \A t \in Servers : t # s /\ ~Bound(t) => inbox'[t] = inbox[t]
    BY <1>4, ServerStartIs
  <2>3. \A t \in Servers : t # s /\ "SIGTERM" \notin signals[t] => "SIGTERM" \notin signals'[t]
    BY <1>4, ServerStartIs
  <2> QED BY <1>4, <1>a, <2>1, <2>2, <2>3, ServerStartIs DEF ServerStep
<1>5. ASSUME NEW s \in Servers, NEW ok \in BOOLEAN, Lend(s, ok), ServerStep
      PROVE  ServerInv'
  <2>1. ServerOK(s)'
    BY <1>5, LendIs DEF ServerIsOver, KeepsMode, KeepsWork, ServerInv, ServerOK, Bound, Working,
         Ending, NoWork, ServerStep, Zeros
  <2>2. \A t \in Servers : t # s /\ ~Bound(t) => inbox'[t] = inbox[t]
    BY <1>5, LendIs
  <2>3. \A t \in Servers : t # s /\ "SIGTERM" \notin signals[t] => "SIGTERM" \notin signals'[t]
    BY <1>5, LendIs
  <2> QED BY <1>5, <1>a, <2>1, <2>2, <2>3, LendIs DEF ServerStep
<1>6. ASSUME NEW s \in Servers, Forward(s), ServerStep
      PROVE  ServerInv'
  <2>1. ServerOK(s)'
    <3>1. CASE Bound(subserver[s])
      BY ZenonT(60), <1>6, <3>1, ForwardIs DEF ServerIsOver, KeepsMode, KeepsWork, ServerInv, ServerOK, Bound, Working,
             Ending, NoWork, ServerStep, Zeros
    <3>2. CASE ~Bound(subserver[s])
      BY ZenonT(60), <1>6, <3>2, ForwardIs DEF ServerIsOver, KeepsMode, KeepsWork, ServerInv, ServerOK, Bound, Working,
             Ending, NoWork, ServerStep, Zeros
    <3> QED BY <3>1, <3>2
  <2>2. \A t \in Servers : t # s /\ ~Bound(t) => inbox'[t] = inbox[t]
    BY <1>6, ForwardIs, FieldsAre
  <2>3. \A t \in Servers : t # s /\ "SIGTERM" \notin signals[t] => "SIGTERM" \notin signals'[t]
    BY <1>6, ForwardIs
  <2> QED BY <1>6, <1>a, <2>1, <2>2, <2>3, ForwardIs DEF ServerStep
<1>7. ASSUME NEW s \in Servers, Await(s), ServerStep
      PROVE  ServerInv'
  <2>1. ServerOK(s)'
    <3>1. ServerOK(s) /\ server[s].pc \in {"await", "await_asleep"} /\ server'[s].pc = "reply"
          /\ server'[s].lent # "lent" /\ server'[s].work = server[s].work /\ KeepsMode(s)
          /\ inbox' = inbox /\ signals' = signals /\ driver' = driver
      BY <1>7, AwaitIs DEF ServerInv, ServerStep
    <3> QED BY <3>1 DEF ServerOK, KeepsMode, KeepsWork, ServerIsOver, NoWork, Zeros, Bound, Working, Ending, Interrupted
  <2>2. \A t \in Servers : t # s /\ ~Bound(t) => inbox'[t] = inbox[t]
    BY <1>7, AwaitIs
  <2>3. \A t \in Servers : t # s /\ "SIGTERM" \notin signals[t] => "SIGTERM" \notin signals'[t]
    BY <1>7, AwaitIs
  <2> QED BY <1>7, <1>a, <2>1, <2>2, <2>3, AwaitIs DEF ServerStep
<1>8. ASSUME NEW s \in Servers, GiveUpRequest(s), ServerStep
      PROVE  ServerInv'
  <2>1. ServerOK(s)'
    <3>1. ServerOK(s) /\ server[s].pc = "interrupted" /\ server'[s].pc = "check"
          /\ server'[s].lent # "lent" /\ server'[s].work = NoWork /\ KeepsMode(s)
          /\ inbox' = inbox /\ signals' = signals /\ driver' = driver
      BY <1>8, GiveUpRequestIs DEF ServerInv, ServerStep
    <3> QED BY <3>1 DEF ServerOK, KeepsMode, KeepsWork, ServerIsOver, NoWork, Zeros, Bound, Working, Ending, Interrupted
  <2>2. \A t \in Servers : t # s /\ ~Bound(t) => inbox'[t] = inbox[t]
    BY <1>8, GiveUpRequestIs
  <2>3. \A t \in Servers : t # s /\ "SIGTERM" \notin signals[t] => "SIGTERM" \notin signals'[t]
    BY <1>8, GiveUpRequestIs
  <2> QED BY <1>8, <1>a, <2>1, <2>2, <2>3, GiveUpRequestIs DEF ServerStep
<1>9. ASSUME NEW s \in Servers, Reply(s), ServerStep
      PROVE  ServerInv'
  <2>1. ServerOK(s)'
    BY <1>9, ReplyIs DEF ServerIsOver, KeepsMode, KeepsWork, ServerInv, ServerOK, Bound, Working,
         Ending, NoWork, ServerStep, Zeros
  <2>2. \A t \in Servers : t # s /\ ~Bound(t) => inbox'[t] = inbox[t]
    BY <1>9, ReplyIs
  <2>3. \A t \in Servers : t # s /\ "SIGTERM" \notin signals[t] => "SIGTERM" \notin signals'[t]
    BY <1>9, ReplyIs
  <2> QED BY <1>9, <1>a, <2>1, <2>2, <2>3, ReplyIs DEF ServerStep
<1>10. ASSUME NEW s \in Servers, TakeSIGTERM(s), ServerStep
      PROVE  ServerInv'
  <2>1. ServerOK(s)'
    <3>1. ServerOK(s) /\ Bound(s) /\ "SIGTERM" \in signals[s] /\ server'[s].pc = Interrupted(server[s].pc)
          /\ KeepsWork(s) /\ inbox' = inbox /\ driver' = driver
      BY <1>10, TakeSIGTERMIs DEF ServerInv, ServerStep
    <3> QED BY <3>1 DEF ServerOK, KeepsMode, KeepsWork, ServerIsOver, NoWork, Zeros, Bound, Working, Ending, Interrupted
  <2>2. \A t \in Servers : t # s /\ ~Bound(t) => inbox'[t] = inbox[t]
    BY <1>10, TakeSIGTERMIs
  <2>3. \A t \in Servers : t # s /\ "SIGTERM" \notin signals[t] => "SIGTERM" \notin signals'[t]
    BY <1>10, TakeSIGTERMIs DEF Processes
  <2> QED BY <1>10, <1>a, <2>1, <2>2, <2>3, TakeSIGTERMIs DEF ServerStep
<1>11. ASSUME NEW s \in Servers, TakeSIGUSR1(s), ServerStep
      PROVE  ServerInv'
  <2>1. ServerOK(s)'
    <3>1. ServerOK(s) /\ Bound(s) /\ server'[s].pc = Interrupted(server[s].pc)
          /\ server'[s].terminated = server[s].terminated /\ KeepsWork(s) /\ inbox' = inbox /\ driver' = driver
          /\ ("SIGTERM" \notin signals[s] => "SIGTERM" \notin signals'[s])
      BY <1>11, TakeSIGUSR1Is DEF ServerInv, ServerStep
    <3> QED BY <3>1 DEF ServerOK, KeepsMode, KeepsWork, ServerIsOver, NoWork, Zeros, Bound, Working, Ending, Interrupted
  <2>2. \A t \in Servers : t # s /\ ~Bound(t) => inbox'[t] = inbox[t]
    BY <1>11, TakeSIGUSR1Is
  <2>3. \A t \in Servers : t # s /\ "SIGTERM" \notin signals[t] => "SIGTERM" \notin signals'[t]
    <3>1. \A t \in Servers : t \in Processes /\ t \notin Clients
      BY ServerAssumption DEF Processes
    <3>2. \A t \in Servers : t # s => signals'[t] \subseteq signals[t] \cup {"SIGUSR1"}
      BY <1>11, <3>1, TakeSIGUSR1Is
    <3> QED BY <3>2
  <2> QED BY <1>11, <1>a, <2>1, <2>2, <2>3, TakeSIGUSR1Is DEF ServerStep
<1>12. ASSUME NEW s \in Servers, NEW ok \in BOOLEAN, SwitchScheduler(s, ok), ServerStep
      PROVE  ServerInv'
  <2>1. ServerOK(s)'
    BY ZenonT(60), <1>12, SwitchSchedulerIs DEF ServerIsOver, KeepsMode, KeepsWork, ServerInv, ServerOK, Bound, Working,
         Ending, NoWork, ServerStep, Zeros
  <2>2. \A t \in Servers : t # s /\ ~Bound(t) => inbox'[t] = inbox[t]
    BY <1>12, SwitchSchedulerIs
  <2>3. \A t \in Servers : t # s /\ "SIGTERM" \notin signals[t] => "SIGTERM" \notin signals'[t]
    BY <1>12, SwitchSchedulerIs
  <2> QED BY <1>12, <1>a, <2>1, <2>2, <2>3, SwitchSchedulerIs DEF ServerStep
<1>13. ASSUME NEW s \in Servers, GiveUpSubserver(s), ServerStep
      PROVE  ServerInv'
  <2>1. ServerOK(s)'
    <3>1. ServerOK(s) /\ ServerIsOver(s, "failed") /\ Bound(s)
          /\ inbox'[s] = <<>> /\ signals' = signals /\ driver' = driver
      BY <1>13, GiveUpSubserverIs DEF ServerInv, ServerStep, Processes
    <3> QED BY <3>1 DEF ServerOK, KeepsMode, KeepsWork, ServerIsOver, NoWork, Zeros, Bound, Working, Ending, Interrupted
  <2>2. \A t \in Servers : t # s /\ ~Bound(t) => inbox'[t] = inbox[t]
    BY <1>13, GiveUpSubserverIs
  <2>3. \A t \in Servers : t # s /\ "SIGTERM" \notin signals[t] => "SIGTERM" \notin signals'[t]
    BY <1>13, GiveUpSubserverIs
  <2> QED BY <1>13, <1>a, <2>1, <2>2, <2>3, GiveUpSubserverIs DEF ServerStep
<1>14. ASSUME NEW c \in Clients, NEW ok \in BOOLEAN, ClientStart(c, ok), ClientStep
      PROVE  ServerInv'
  <2>1. \A t \in Servers : ~Bound(t) => inbox'[t] = inbox[t]
    BY <1>14, ClientStartIs
  <2>2. \A t \in Servers : "SIGTERM" \notin signals[t] => "SIGTERM" \notin signals'[t]
    BY <1>14, ClientStartIs, ServerAssumption DEF Processes
  <2> QED BY <1>14, <1>b, <2>1, <2>2, ClientStartIs DEF ClientStep
<1>15. ASSUME NEW c \in Clients, NEW ok \in BOOLEAN, MeasureDone(c, ok), ClientStep
      PROVE  ServerInv'
  <2>1. \A t \in Servers : ~Bound(t) => inbox'[t] = inbox[t]
    BY <1>15, MeasureDoneIs
  <2>2. \A t \in Servers : "SIGTERM" \notin signals[t] => "SIGTERM" \notin signals'[t]
    BY <1>15, MeasureDoneIs, ServerAssumption DEF Processes
  <2> QED BY <1>15, <1>b, <2>1, <2>2, MeasureDoneIs DEF ClientStep
<1>16. ASSUME NEW c \in Clients, SignalServer(c), ClientStep
      PROVE  ServerInv'
  <2>1. \A t \in Servers : ~Bound(t) => inbox'[t] = inbox[t]
    BY <1>16, SignalServerIs
  <2>2. \A t \in Servers : "SIGTERM" \notin signals[t] => "SIGTERM" \notin signals'[t]
    <3>1. \A t \in Servers : t \in Processes /\ t \notin Clients
      BY ServerAssumption DEF Processes
    <3>2. \A t \in Servers : signals'[t] \subseteq signals[t] \cup {"SIGUSR1"}
      BY <1>16, <3>1, SignalServerIs
    <3> QED BY <3>2
  <2> QED BY <1>16, <1>b, <2>1, <2>2, SignalServerIs DEF ClientStep
<1>17. ASSUME NEW c \in Clients, MeasureSend(c), ClientStep
      PROVE  ServerInv'
  <2>1. \A t \in Servers : ~Bound(t) => inbox'[t] = inbox[t]
    BY <1>17, MeasureSendIs, FieldsAre
  <2>2. \A t \in Servers : "SIGTERM" \notin signals[t] => "SIGTERM" \notin signals'[t]
    BY <1>17, MeasureSendIs, ServerAssumption DEF Processes
  <2> QED BY <1>17, <1>b, <2>1, <2>2, MeasureSendIs DEF ClientStep
<1>18. ASSUME NEW c \in Clients, MeasureReceive(c), ClientStep
      PROVE  ServerInv'
  <2>1. \A t \in Servers : ~Bound(t) => inbox'[t] = inbox[t]
    BY <1>18, MeasureReceiveIs
  <2>2. \A t \in Servers : "SIGTERM" \notin signals[t] => "SIGTERM" \notin signals'[t]
    BY <1>18, MeasureReceiveIs, ServerAssumption DEF Processes
  <2> QED BY <1>18, <1>b, <2>1, <2>2, MeasureReceiveIs DEF ClientStep
<1>19. ASSUME NEW c \in Clients, GiveUpMeasurement(c), ClientStep
      PROVE  ServerInv'
  <2>1. \A t \in Servers : ~Bound(t) => inbox'[t] = inbox[t]
    BY <1>19, GiveUpMeasurementIs
  <2>2. \A t \in Servers : "SIGTERM" \notin signals[t] => "SIGTERM" \notin signals'[t]
    BY <1>19, GiveUpMeasurementIs, ServerAssumption DEF Processes
  <2> QED BY <1>19, <1>b, <2>1, <2>2, GiveUpMeasurementIs DEF ClientStep
<1>20. ASSUME NEW c \in Clients, TakeTerm(c), ClientStep
      PROVE  ServerInv'
  <2>1. \A t \in Servers : ~Bound(t) => inbox'[t] = inbox[t]
    BY <1>20, TakeTermIs
  <2>2. \A t \in Servers : "SIGTERM" \notin signals[t] => "SIGTERM" \notin signals'[t]
    BY <1>20, TakeTermIs, ServerAssumption DEF Processes
  <2> QED BY <1>20, <1>b, <2>1, <2>2, TakeTermIs DEF ClientStep
<1>21. ASSUME NEW c \in Clients, StopTask(c), ClientStep
      PROVE  ServerInv'
  <2>1. \A t \in Servers : ~Bound(t) => inbox'[t] = inbox[t]
    BY <1>21, StopTaskIs
  <2>2. \A t \in Servers : "SIGTERM" \notin signals[t] => "SIGTERM" \notin signals'[t]
    BY <1>21, StopTaskIs, ServerAssumption DEF Processes
  <2> QED BY <1>21, <1>b, <2>1, <2>2, StopTaskIs DEF ClientStep
<1>22. ASSUME NEW c \in Clients, InterruptRecv(c), ClientStep
      PROVE  ServerInv'
  <2>1. \A t \in Servers : ~Bound(t) => inbox'[t] = inbox[t]
    BY <1>22, InterruptRecvIs
  <2>2. \A t \in Servers : "SIGTERM" \notin signals[t] => "SIGTERM" \notin signals'[t]
    BY <1>22, InterruptRecvIs, ServerAssumption DEF Processes
  <2> QED BY <1>22, <1>b, <2>1, <2>2, InterruptRecvIs DEF ClientStep
<1>23. ASSUME NEW c \in Clients, Join(c), ClientStep
      PROVE  ServerInv'
  <2>1. \A t \in Servers : ~Bound(t) => inbox'[t] = inbox[t]
    BY <1>23, JoinIs
  <2>2. \A t \in Servers : "SIGTERM" \notin signals[t] => "SIGTERM" \notin signals'[t]
    BY <1>23, JoinIs, ServerAssumption DEF Processes
  <2> QED BY <1>23, <1>b, <2>1, <2>2, JoinIs DEF ClientStep
<1>24. ASSUME NEW c \in Clients, NEW ok \in BOOLEAN, EnterCbs(c, ok), ClientStep
      PROVE  ServerInv'
  <2>1. \A t \in Servers : ~Bound(t) => inbox'[t] = inbox[t]
    BY <1>24, EnterCbsIs
  <2>2. \A t \in Servers : "SIGTERM" \notin signals[t] => "SIGTERM" \notin signals'[t]
    BY <1>24, EnterCbsIs, ServerAssumption DEF Processes
  <2> QED BY <1>24, <1>b, <2>1, <2>2, EnterCbsIs DEF ClientStep
<1>25. ASSUME NEW c \in Clients, NEW ok \in BOOLEAN, CreateTask(c, ok), ClientStep
      PROVE  ServerInv'
  <2>1. \A t \in Servers : ~Bound(t) => inbox'[t] = inbox[t]
    BY <1>25, CreateTaskIs
  <2>2. \A t \in Servers : "SIGTERM" \notin signals[t] => "SIGTERM" \notin signals'[t]
    BY <1>25, CreateTaskIs, ServerAssumption DEF Processes
  <2> QED BY <1>25, <1>b, <2>1, <2>2, CreateTaskIs DEF ClientStep
<1>26. ASSUME NEW c \in Clients, NEW ok \in BOOLEAN, Release(c, ok), ClientStep
      PROVE  ServerInv'
  <2>1. \A t \in Servers : ~Bound(t) => inbox'[t] = inbox[t]
    BY <1>26, ReleaseIs
  <2>2. \A t \in Servers : "SIGTERM" \notin signals[t] => "SIGTERM" \notin signals'[t]
    BY <1>26, ReleaseIs, ServerAssumption DEF Processes
  <2> QED BY <1>26, <1>b, <2>1, <2>2, ReleaseIs DEF ClientStep
<1>27. ASSUME NEW c \in Clients, SendRequest(c), ClientStep
      PROVE  ServerInv'
  <2>1. \A t \in Servers : ~Bound(t) => inbox'[t] = inbox[t]
    BY <1>27, SendRequestIs, FieldsAre
  <2>2. \A t \in Servers : "SIGTERM" \notin signals[t] => "SIGTERM" \notin signals'[t]
    BY <1>27, SendRequestIs, ServerAssumption DEF Processes
  <2> QED BY <1>27, <1>b, <2>1, <2>2, SendRequestIs DEF ClientStep
<1>28. ASSUME NEW c \in Clients, RecvFallsAsleep(c), ClientStep
      PROVE  ServerInv'
  <2>1. \A t \in Servers : ~Bound(t) => inbox'[t] = inbox[t]
    BY <1>28, RecvFallsAsleepIs
  <2>2. \A t \in Servers : "SIGTERM" \notin signals[t] => "SIGTERM" \notin signals'[t]
    BY <1>28, RecvFallsAsleepIs, ServerAssumption DEF Processes
  <2> QED BY <1>28, <1>b, <2>1, <2>2, RecvFallsAsleepIs DEF ClientStep
<1>29. ASSUME NEW c \in Clients, TakeSIGUSR2(c), ClientStep
      PROVE  ServerInv'
  <2>1. \A t \in Servers : ~Bound(t) => inbox'[t] = inbox[t]
    BY <1>29, TakeSIGUSR2Is
  <2>2. \A t \in Servers : "SIGTERM" \notin signals[t] => "SIGTERM" \notin signals'[t]
    BY <1>29, TakeSIGUSR2Is, ServerAssumption DEF Processes
  <2> QED BY <1>29, <1>b, <2>1, <2>2, TakeSIGUSR2Is DEF ClientStep
<1>30. ASSUME NEW c \in Clients, ReceiveResponse(c), ClientStep
      PROVE  ServerInv'
  <2>1. \A t \in Servers : ~Bound(t) => inbox'[t] = inbox[t]
    BY <1>30, ReceiveResponseIs
  <2>2. \A t \in Servers : "SIGTERM" \notin signals[t] => "SIGTERM" \notin signals'[t]
    BY <1>30, ReceiveResponseIs, ServerAssumption DEF Processes
  <2> QED BY <1>30, <1>b, <2>1, <2>2, ReceiveResponseIs DEF ClientStep
<1>31. ASSUME NEW c \in Clients, NEW ok \in BOOLEAN, EndJob(c, ok), ClientStep
      PROVE  ServerInv'
  <2>1. \A t \in Servers : ~Bound(t) => inbox'[t] = inbox[t]
    BY <1>31, EndJobIs
  <2>2. \A t \in Servers : "SIGTERM" \notin signals[t] => "SIGTERM" \notin signals'[t]
    <3>1. \A q \in Processes : signals'[q] = signals[q] \/ q = c
      BY <1>31, EndJobIs
    <3>2. \A t \in Servers : t \in Processes /\ t # c
      BY ServerAssumption DEF Processes
    <3> QED BY <3>1, <3>2
  <2> QED BY <1>31, <1>b, <2>1, <2>2, EndJobIs DEF ClientStep
<1>32. ASSUME Fork
      PROVE  ServerInv'
  <2>1. /\ driver = "create" /\ driver' = "forked" /\ inbox' = inbox /\ signals' = signals
        /\ \/ server' = server
           \/ Order[next] \in Servers /\ server' = [server EXCEPT ![Order[next]].pc = "starting"]
    BY <1>32 DEF Fork
  <2>2. CASE server' = server
    BY <2>1, <2>2 DEF ServerInv, ServerOK, Ending, Bound
  <2>3. CASE Order[next] \in Servers /\ server' = [server EXCEPT ![Order[next]].pc = "starting"]
    <3>1. next \in DOMAIN Order
      BY <1>32, PlaceIs, FieldsAre DEF Fork
    <3>2. Down(Order[next])
      BY <2>1, <3>1, FieldsAre DEF DriverInv
    <3>3. PICK s \in Servers : s = Order[next] /\ server[s].pc = "down"
      BY <2>3, <3>2 DEF Down
    <3>4. server'[s].pc = "starting" /\ KeepsMode(s) /\ KeepsWork(s) /\ OtherServers(s)
      BY <2>3, <3>3, FieldsAre DEF KeepsMode, KeepsWork, OtherServers, ServerFields
    <3>5. ServerOK(s)'
      BY <2>1, <3>3, <3>4 DEF KeepsMode, KeepsWork, ServerInv, ServerOK, Bound, Working, Ending
    <3> QED BY <2>1, <3>4, <3>5 DEF OtherServers, ServerInv, ServerOK, Ending, Bound
  <2> QED BY <2>1, <2>2, <2>3
<1>33. ASSUME StoreProcId
      PROVE  ServerInv'
  BY <1>33 DEF StoreProcId, clientVars, serverVars, ServerInv, ServerOK, Ending, Bound
<1>34. ASSUME SleepASecond
      PROVE  ServerInv'
  BY <1>34 DEF SleepASecond, clientVars, serverVars, ServerInv, ServerOK, Ending, Bound
<1>35. ASSUME StartClients
      PROVE  ServerInv'
  <2>1. server' = server /\ inbox' = inbox /\ ~Ending
    BY <1>35 DEF StartClients, Ending
  <2>2. \A s \in Servers : signals'[s] = signals[s]
    BY <1>35, ServerAssumption DEF StartClients, SignalClients, Processes
  <2> QED BY <2>1, <2>2 DEF ServerInv, ServerOK, Ending, Bound
<1>36. ASSUME StopClients
      PROVE  ServerInv'
  <2>1. server' = server /\ inbox' = inbox /\ ~Ending
    BY <1>36 DEF StopClients, Ending
  <2>2. \A s \in Servers : signals'[s] = signals[s]
    BY <1>36, ServerAssumption DEF StopClients, SignalClients, Processes
  <2> QED BY <2>1, <2>2 DEF ServerInv, ServerOK, Ending, Bound
<1>37. ASSUME StopServers
      PROVE  ServerInv'
  <2>1. server' = server /\ inbox' = inbox /\ Ending'
    BY <1>37 DEF StopServers, Ending
  <2> QED BY <2>1 DEF ServerInv, ServerOK, Ending, Bound
<1>38. ASSUME Wait
      PROVE  ServerInv'
  BY <1>38 DEF Wait, clientVars, serverVars, ServerInv, ServerOK, Ending, Bound
<1>39. ASSUME TerminateDriver
      PROVE  ServerInv'
  <2>1. /\ driver' = "terminated" /\ Ending'
        /\ server' = [s \in Servers |-> IF s \in pids /\ ~Ended(s) THEN Over("exited", FALSE) ELSE server[s]]
        /\ inbox' = [s \in Servers |-> IF s \in pids THEN <<>> ELSE inbox[s]]
    BY <1>39 DEF TerminateDriver, Ending
  <2>2. ASSUME NEW s \in Servers
        PROVE  ServerOK(s)'
    <3>1. CASE s \in pids /\ ~Ended(s)
      <4>1. /\ server'[s].pc = "exited" /\ server'[s].work.from = Nobody /\ server'[s].lent = "no"
            /\ server'[s].handler = FALSE
        BY <2>1, <3>1 DEF Over, NewServer, NoWork
      <4>2. inbox'[s] = <<>>
        BY <2>1, <3>1
      <4> QED BY <2>1, <4>1, <4>2 DEF ServerOK, Bound, Working
    <3>2. CASE ~(s \in pids /\ ~Ended(s))
      <4>1. server'[s] = server[s] /\ (inbox'[s] = inbox[s] \/ inbox'[s] = <<>>) /\ ServerOK(s)
        BY <2>1, <3>2 DEF ServerInv
      <4> QED BY <2>1, <4>1 DEF ServerOK, Bound
    <3> QED BY <3>1, <3>2
  <2> QED BY <2>2 DEF ServerInv
<1>40. CASE UNCHANGED vars
  BY <1>40 DEF vars, clientVars, serverVars, ServerInv, ServerOK, Ending, Bound
<1>41. ASSUME NEW s \in Servers, ForwardFails(s), ServerStep
      PROVE  ServerInv'
  <2>1. ServerOK(s)'
    <3>1. ServerOK(s) /\ server[s].pc = "forward" /\ server'[s].pc = "reply"
          /\ server'[s].lent # "lent" /\ server'[s].work = server[s].work /\ KeepsMode(s)
          /\ inbox' = inbox /\ signals' = signals /\ driver' = driver
      BY <1>41, ForwardFailsIs DEF ServerInv, ServerStep
    <3> QED BY <3>1 DEF ServerOK, KeepsMode, Bound, Working, Ending
  <2>2. \A t \in Servers : t # s /\ ~Bound(t) => inbox'[t] = inbox[t]
    BY <1>41, ForwardFailsIs
  <2>3. \A t \in Servers : t # s /\ "SIGTERM" \notin signals[t] => "SIGTERM" \notin signals'[t]
    BY <1>41, ForwardFailsIs
  <2> QED BY <1>41, <1>a, <2>1, <2>2, <2>3, ForwardFailsIs DEF ServerStep
<1>42. ASSUME NEW s \in Servers, Drops(s), ServerStep
      PROVE  ServerInv'
  <2>1. ServerOK(s)'
    <3>1. ServerOK(s) /\ server[s].pc \in {"forward", "reply"} /\ server'[s].pc = "check"
          /\ server'[s].work = NoWork /\ KeepsMode(s)
          /\ inbox' = inbox /\ signals' = signals /\ driver' = driver
      BY <1>42, DropsIs DEF ServerInv, ServerStep
    <3>2. server'[s].lent # "lent"
      BY <1>42, <3>1, DropsIs DEF ServerOK
    <3> QED BY <3>1, <3>2 DEF ServerOK, KeepsMode, NoWork, Zeros, Bound, Working, Ending
  <2>2. \A t \in Servers : t # s /\ ~Bound(t) => inbox'[t] = inbox[t]
    BY <1>42, DropsIs
  <2>3. \A t \in Servers : t # s /\ "SIGTERM" \notin signals[t] => "SIGTERM" \notin signals'[t]
    BY <1>42, DropsIs
  <2> QED BY <1>42, <1>a, <2>1, <2>2, <2>3, DropsIs DEF ServerStep
<1> QED
    BY <1>1, <1>2, <1>3, <1>4, <1>5, <1>6, <1>7, <1>8, <1>9, <1>10, <1>11, <1>12, <1>13, <1>14,
     <1>15, <1>16, <1>17, <1>18, <1>19, <1>20, <1>21, <1>22, <1>23, <1>24, <1>25, <1>26, <1>27,
     <1>28, <1>29, <1>30, <1>31, <1>32, <1>33, <1>34, <1>35, <1>36, <1>37, <1>38, <1>39, <1>40, <1>41, <1>42
    DEF Next, ServerProgram, ServerHandler, ClientMain, ClientThread, Driver, ServerStep,
     ClientStep, Drops

-----------------------------------------------------------------------------
(* What every step keeps, whatever fails and whoever is signalled when.    *)
Inv == TypeOK /\ DriverInv /\ ClientInv /\ ServerInv

LEMMA InitInv == Init => Inv
<1> SUFFICES ASSUME Init PROVE Inv
  OBVIOUS
<1>1. TypeOK
  BY InitType
<1>2. /\ driver = "create" /\ next = 1 /\ pids = {}
      /\ server = [s \in Servers |-> NewServer] /\ client = [c \in Clients |-> NewClient]
      /\ signals = [p \in Processes |-> {}] /\ inbox = [s \in Servers |-> <<>>]
  BY DEF Init, ClientInit, ServerInit
<1>3. DriverInv
  <2>1. \A p \in Processes : Down(p)
    BY <1>2 DEF Down, NewServer, NewClient
  <2> QED BY <1>2, <2>1, PlaceIs DEF DriverInv, Creates
<1>4. ClientInv
  BY <1>2 DEF ClientInv, ClientOK, NewClient
<1>5. ServerInv
  <2>1. ASSUME NEW s \in Servers
        PROVE  ServerOK(s)
    <3>1. server[s] = NewServer /\ signals[s] = {} /\ inbox[s] = <<>>
      BY <1>2 DEF Processes
    <3> QED BY <1>2, <3>1 DEF ServerOK, NewServer, NoWork, Working, Bound, Ending
  <2> QED BY <2>1 DEF ServerInv
<1> QED BY <1>1, <1>3, <1>4, <1>5 DEF Inv

LEMMA InvKept == Inv /\ [Next]_vars => Inv'
<1> SUFFICES ASSUME Inv, [Next]_vars PROVE Inv'
  OBVIOUS
<1>1. TypeOK /\ DriverInv /\ ClientInv /\ ServerInv /\ Creates
  BY DEF Inv, DriverInv
<1> QED BY <1>1, TypeKept, DriverInvKept, ClientInvKept, ServerInvKept DEF Inv

(* The processes, their sockets and the driver always have their states.   *)
THEOREM TypeCorrect == Spec => []TypeOK
<1>1. Inv => TypeOK
  BY DEF Inv
<1> QED BY <1>1, InitInv, InvKept, PTL DEF Spec

-----------------------------------------------------------------------------
(* SIGUSR1 passes through a chain of servers as a wave: from the server    *)
(* that a client measures (top) each passes it on to its subserver and     *)
(* waits in its handler, and they switch in the opposite order.  Waiting   *)
(* is who has a SIGUSR1 pending, handling who waits in its handler, and    *)
(* fast who runs under SCHED_FIFO.                                         *)
HasSub(s) == subserver[s] \in Servers

(* s is at the top or follows one of S.                                    *)
Follows(s, top, S) == s = top \/ \E r \in S : subserver[r] = s

OneWave(waiting, handling, top) ==
    /\ \A s, t \in waiting : s = t
    /\ waiting # {} => \A t \in handling : HasSub(t)
    /\ \A s \in handling \cup waiting : Follows(s, top, handling)

Closed(fast) == \A s \in fast : HasSub(s) => subserver[s] \in fast

(* The wave on which the servers enter SCHED_FIFO.  A server that fails to *)
(* do so breaks it: nobody in front of that server ever switches.          *)
Entering(waiting, handling, fast, top) ==
    /\ OneWave(waiting, handling, top) /\ Closed(fast)
    /\ waiting # {} => fast = {}
    /\ fast \cap handling = {}
    /\ \/ \A s \in fast : Follows(s, top, handling \cup fast)
       \/ waiting = {} /\ \E s \in Servers \ (fast \cup handling) : Follows(s, top, handling)

Entered(waiting, handling, fast, top) ==
    /\ waiting = {} /\ handling = {}
    /\ Closed(fast) /\ top \in fast
    /\ \A s \in fast : Follows(s, top, fast)

Leaving(waiting, handling, fast, top) ==
    /\ OneWave(waiting, handling, top)
    /\ waiting # {} => Closed(fast)
    /\ waiting \cup handling \subseteq fast
    /\ \A s \in fast : Follows(s, top, fast)

Passed(s, waiting) == (waiting \ {s}) \cup ({subserver[s]} \cap Servers)

(* A server takes SIGUSR1 and passes it on.                                *)
LEMMA PassedOn ==
    ASSUME NEW waiting \in SUBSET Servers, NEW handling \in SUBSET Servers,
           NEW fast \in SUBSET Servers, NEW top \in Servers, NEW s \in waiting,
           OneWave(waiting, handling, top)
    PROVE  /\ OneWave(Passed(s, waiting), handling \cup {s}, top)
           /\ Entering(waiting, handling, fast, top)
                => Entering(Passed(s, waiting), handling \cup {s}, fast, top)
           /\ Leaving(waiting, handling, fast, top)
                => Leaving(Passed(s, waiting), handling \cup {s}, fast, top)
<1>1. /\ waiting = {s} /\ Follows(s, top, handling)
      /\ \A t \in handling : HasSub(t) /\ Follows(t, top, handling)
  BY DEF OneWave
<1>2. Passed(s, waiting) = {subserver[s]} \cap Servers
  BY <1>1 DEF Passed
<1>3. OneWave(Passed(s, waiting), handling \cup {s}, top)
  <2>1. \A t, u \in Passed(s, waiting) : t = u
    BY <1>2
  <2>2. Passed(s, waiting) # {} => \A t \in handling \cup {s} : HasSub(t)
    BY <1>1, <1>2 DEF HasSub
  <2>3. ASSUME NEW t \in (handling \cup {s}) \cup Passed(s, waiting)
        PROVE  Follows(t, top, handling \cup {s})
    <3>1. CASE t \in handling \cup {s}
      BY <1>1, <3>1 DEF Follows
    <3>2. CASE t = subserver[s]
      BY <3>2 DEF Follows
    <3> QED BY <1>2, <2>3, <3>1, <3>2
  <2> QED BY <2>1, <2>2, <2>3 DEF OneWave
<1>4. ASSUME Entering(waiting, handling, fast, top)
      PROVE  Entering(Passed(s, waiting), handling \cup {s}, fast, top)
  <2>1. fast = {}
    BY <1>1, <1>4 DEF Entering
  <2> QED BY <1>3, <2>1 DEF Entering, Closed
<1>5. ASSUME Leaving(waiting, handling, fast, top)
      PROVE  Leaving(Passed(s, waiting), handling \cup {s}, fast, top)
  <2>1. s \in fast /\ Closed(fast)
    BY <1>1, <1>5 DEF Leaving
  <2>2. Passed(s, waiting) \subseteq fast
    BY <1>2, <2>1 DEF Closed, HasSub
  <2> QED BY <1>3, <1>5, <2>1, <2>2 DEF Leaving
<1> QED BY <1>3, <1>4, <1>5

(* A server whose subserver has entered does so too, or fails to.          *)
LEMMA SwitchedIn ==
    ASSUME NEW waiting \in SUBSET Servers, NEW handling \in SUBSET Servers,
           NEW fast \in SUBSET Servers, NEW top \in Servers, NEW s \in handling,
           Entering(waiting, handling, fast, top),
           HasSub(s) => (subserver[s] \in fast) # (s \in fast)
    PROVE  /\ s \notin fast
           /\ Entering(waiting, handling \ {s}, fast \cup {s}, top)
           /\ Entering(waiting, handling \ {s}, fast, top)
<1>1. s \notin fast /\ (HasSub(s) => subserver[s] \in fast)
  BY DEF Entering
<1>2. waiting = {}
  BY <1>1 DEF Entering, OneWave
<1>3. \A t \in Servers \ fast : Follows(t, top, handling) => Follows(t, top, handling \ {s})
  BY <1>1 DEF Follows, HasSub
<1>4. OneWave(waiting, handling \ {s}, top)
  BY <1>2, <1>3 DEF Entering, OneWave
<1>5. Closed(fast) /\ Closed(fast \cup {s}) /\ fast \cap handling = {}
  BY <1>1 DEF Entering, Closed
<1>6. Follows(s, top, handling \ {s})
  BY <1>1, <1>3 DEF Entering, OneWave
<1>7. Entering(waiting, handling \ {s}, fast, top)
  BY <1>1, <1>2, <1>4, <1>5, <1>6 DEF Entering
<1>8. Entering(waiting, handling \ {s}, fast \cup {s}, top)
  <2>1. CASE \A t \in fast : Follows(t, top, handling \cup fast)
    <3>1. (handling \ {s}) \cup (fast \cup {s}) = handling \cup fast
      OBVIOUS
    <3>2. Follows(s, top, handling \cup fast)
      BY <1>6 DEF Follows
    <3>3. (fast \cup {s}) \cap (handling \ {s}) = {}
      BY <1>5
    <3> QED BY <1>2, <1>4, <1>5, <2>1, <3>1, <3>2, <3>3 DEF Entering
  <2>2. CASE \E t \in Servers \ (fast \cup handling) : Follows(t, top, handling)
    <3>1. (fast \cup {s}) \cap (handling \ {s}) = {}
      BY <1>5
    <3>2. PICK t \in Servers \ (fast \cup handling) : Follows(t, top, handling)
      BY <2>2
    <3>3. t \in Servers \ ((fast \cup {s}) \cup (handling \ {s})) /\ Follows(t, top, handling \ {s})
      BY <1>3, <3>2
    <3> QED BY <1>2, <1>4, <1>5, <3>1, <3>3 DEF Entering
  <2> QED BY <2>1, <2>2 DEF Entering
<1> QED BY <1>1, <1>7, <1>8

(* A server whose subserver has left does so too, or fails to.             *)
LEMMA SwitchedBack ==
    ASSUME NEW waiting \in SUBSET Servers, NEW handling \in SUBSET Servers,
           NEW fast \in SUBSET Servers, NEW top \in Servers, NEW s \in handling,
           Leaving(waiting, handling, fast, top),
           HasSub(s) => (subserver[s] \in fast) # (s \in fast)
    PROVE  /\ s \in fast
           /\ Leaving(waiting, handling \ {s}, fast \ {s}, top)
           /\ Leaving(waiting, handling \ {s}, fast, top)
<1>1. s \in fast /\ handling \subseteq fast /\ subserver[s] \notin fast
  BY DEF Leaving, HasSub
<1>2. waiting = {}
  BY <1>1 DEF Leaving, OneWave, Closed
<1>3. \A t \in fast : /\ Follows(t, top, handling) => Follows(t, top, handling \ {s})
                      /\ Follows(t, top, fast) => Follows(t, top, fast \ {s})
  BY <1>1 DEF Follows
<1>4. OneWave(waiting, handling \ {s}, top)
  BY <1>1, <1>2, <1>3 DEF Leaving, OneWave
<1> QED BY <1>1, <1>2, <1>3, <1>4 DEF Leaving

(* When the server that is measured has entered, the whole wave is over,   *)
(* and when it has left, all servers have.                                 *)
LEMMA WaveIsOver ==
    ASSUME NEW waiting \in SUBSET Servers, NEW handling \in SUBSET Servers,
           NEW fast \in SUBSET Servers, NEW top \in Servers
    PROVE  /\ Entering(waiting, handling, fast, top) /\ top \in fast
                => Entered(waiting, handling, fast, top)
           /\ Leaving(waiting, handling, fast, top) /\ top \notin fast
                => waiting = {} /\ handling = {} /\ fast = {}
<1>1. ASSUME Entering(waiting, handling, fast, top), top \in fast
      PROVE  Entered(waiting, handling, fast, top)
  <2>1. waiting = {}
    BY <1>1 DEF Entering
  <2>2. ASSUME handling # {}
        PROVE  FALSE
    <3>1. PICK s \in handling : \A r \in handling : subserver[r] # s
      BY <2>2, TopmostIs
    <3>2. s = top
      BY <1>1, <3>1 DEF Entering, OneWave, Follows
    <3> QED BY <1>1, <3>2 DEF Entering
  <2>3. \A s \in fast : Follows(s, top, fast)
    BY <1>1, <2>2 DEF Entering, Follows
  <2> QED BY <1>1, <2>1, <2>2, <2>3 DEF Entering, Entered
<1>2. ASSUME Leaving(waiting, handling, fast, top), top \notin fast
      PROVE  waiting = {} /\ handling = {} /\ fast = {}
  <2>1. ASSUME fast # {}
        PROVE  FALSE
    <3>1. PICK s \in fast : \A r \in fast : subserver[r] # s
      BY <2>1, TopmostIs
    <3> QED BY <1>2, <3>1 DEF Leaving, Follows
  <2> QED BY <1>2, <2>1 DEF Leaving
<1> QED BY <1>1, <1>2

-----------------------------------------------------------------------------
(* The waves in the states of the experiment.                              *)
Pending == {s \in Servers : "SIGUSR1" \in signals[s]}
Handling == {s \in Servers : server[s].handler}
InFifo == {s \in Servers : server[s].fifo}

Measuring == {"enter", "measure", "signal_back", "leave"}

Wave(c) ==
    /\ client[c].pc = "enter" => Entering(Pending, Handling, InFifo, server_of[c])
    /\ client[c].pc \in {"measure", "signal_back"}
          => Entered(Pending, Handling, InFifo, server_of[c])
    /\ client[c].pc = "leave" => Leaving(Pending, Handling, InFifo, server_of[c])

Quiet == Pending = {} /\ Handling = {} /\ InFifo = {}

(* A client that fails while it measures leaves its server in SCHED_FIFO,  *)
(* and a driver that is terminated kills whoever takes part.               *)
Sound == /\ \A p \in Processes : ~Failed(p)
         /\ driver = "terminated" => pids = {}

SchedInv == Sound => /\ \A c \in Clients : Wave(c)
                     /\ (\A c \in Clients : client[c].pc \notin Measuring) => Quiet

(* The clients measure one at a time: within the second after its creation *)
(* each has settled.                                                       *)
LEMMA OneAtATime ==
    ASSUME TypeOK, DriverInv, NEW c \in Clients,
           client[c].pc \in Measuring \cup {"starting", "signal"}
    PROVE  /\ next \in DOMAIN Order /\ Order[next] = c
           /\ driver \in {"forked", "sleep", "terminated"}
           /\ \A d \in Clients : d # c => client[d].pc \notin Measuring \cup {"starting", "signal"}
<1>1. /\ next \in 1..(Len(Order) + 1) /\ Len(Order) \in Nat /\ DOMAIN Order = 1..Len(Order)
      /\ \A d \in Clients : Place(d) \in DOMAIN Order /\ Order[Place(d)] = d
      /\ driver \in {"create", "forked", "sleep", "run", "stopping", "wait", "exited", "terminated"}
  BY TypeIs, PlaceIs DEF Processes
<1>2. ASSUME NEW d \in Clients, client[d].pc \in Measuring \cup {"starting", "signal"}
      PROVE  next = Place(d) /\ driver # "create"
  <2>1. ~Past(d) /\ ~Down(d)
    BY <1>2 DEF Past, Down, Dead, Measuring
  <2> QED BY <1>1, <2>1 DEF DriverInv
<1>3. next = Place(c) /\ driver # "create"
  BY <1>2
<1>4. driver \notin {"run", "stopping", "wait", "exited"}
  BY <1>1, <1>3 DEF DriverInv
<1>5. \A d \in Clients : d # c => client[d].pc \notin Measuring \cup {"starting", "signal"}
  BY <1>1, <1>2, <1>3
<1> QED BY <1>1, <1>3, <1>4, <1>5

(* What has failed stays so, and a driver that is terminated kills no one  *)
(* any more.                                                               *)
LEMMA SoundBefore ==
    ASSUME TypeOK, DriverInv, ClientInv, [Next]_vars, Sound'
    PROVE  Sound
<1>1. \A p \in Processes : Failed(p) => Failed(p)'
  <2>1. CASE ~Fork
    BY <2>1, OnwardKept DEF Onward
  <2>2. CASE Fork
    <3>1. /\ next \in DOMAIN Order /\ driver = "create"
          /\ DOMAIN server = Servers /\ DOMAIN client = Clients
      BY <2>2, PlaceIs, FieldsAre DEF Fork
    <3>2. Down(Order[next])
      BY <3>1 DEF DriverInv
    <3> QED BY <2>2, <3>1, <3>2 DEF Fork, Failed, Down
  <2> QED BY <2>1, <2>2
<1>2. driver = "terminated" => driver' = "terminated" /\ pids' = pids
  BY DEF Next, Driver, Fork, StoreProcId, SleepASecond, StartClients, StopClients, StopServers,
         Wait, TerminateDriver, vars
<1> QED BY <1>1, <1>2 DEF Sound

(* Steps that neither switch nor signal a server and move no client into,  *)
(* through or out of its measurement.                                      *)
SameMode(s) == /\ server'[s].fifo = server[s].fifo
               /\ server'[s].handler <=> server[s].handler
               /\ "SIGUSR1" \in signals'[s] <=> "SIGUSR1" \in signals[s]
SamePhase(c) == \/ client'[c].pc = client[c].pc
                \/ client[c].pc \notin Measuring /\ client'[c].pc \notin Measuring

LEMMA SetsSame ==
    ASSUME \A s \in Servers : SameMode(s)
    PROVE  Pending' = Pending /\ Handling' = Handling /\ InFifo' = InFifo
  BY DEF SameMode, Pending, Handling, InFifo

LEMMA SchedSame ==
    ASSUME SchedInv, Sound' => Sound, \A s \in Servers : SameMode(s),
           \A c \in Clients : SamePhase(c)
    PROVE  SchedInv'
<1> SUFFICES ASSUME Sound' PROVE (\A c \in Clients : Wave(c)') /\ ((\A c \in Clients : client'[c].pc \notin Measuring) => Quiet')
  BY DEF SchedInv
<1>1. Pending' = Pending /\ Handling' = Handling /\ InFifo' = InFifo
  BY SetsSame
<1>2. \A c \in Clients : Wave(c)'
  <2>1. ASSUME NEW c \in Clients
        PROVE  Wave(c)'
    <3>1. Wave(c) /\ SamePhase(c)
      BY DEF SchedInv
    <3>2. CASE client'[c].pc = client[c].pc
      BY <1>1, <3>1, <3>2 DEF Wave, Entering, Entered, Leaving, OneWave, Closed, Follows, HasSub
    <3>3. CASE client'[c].pc \notin Measuring
      BY <3>3 DEF Wave, Measuring
    <3> QED BY <3>1, <3>2, <3>3 DEF SamePhase
  <2> QED BY <2>1
<1>3. (\A c \in Clients : client'[c].pc \notin Measuring) => \A c \in Clients : client[c].pc \notin Measuring
  BY DEF SamePhase
<1> QED BY <1>1, <1>2, <1>3 DEF SchedInv, Quiet
-----------------------------------------------------------------------------
(* The steps of a wave.                                                    *)

(* Some client measures when a signal is under way, or a server handles    *)
(* one or runs under SCHED_FIFO.                                           *)
LEMMA SomebodyMeasures ==
    ASSUME TypeOK, DriverInv, SchedInv, Sound, ~Quiet
    PROVE  \E c \in Clients : /\ client[c].pc \in Measuring /\ Wave(c)
                              /\ server_of[c] \in Servers
                              /\ \A d \in Clients : d # c => client[d].pc \notin Measuring
  BY OneAtATime, ClientAssumption DEF SchedInv

(* Whatever a wave becomes while its client stays where it is.             *)
LEMMA WaveGoesOn ==
    ASSUME NEW c \in Clients, client[c].pc \in Measuring, client' = client,
           \A d \in Clients : d # c => client[d].pc \notin Measuring, Wave(c)'
    PROVE  SchedInv'
<1>1. \A d \in Clients : Wave(d)'
  BY DEF Wave, Measuring
<1> QED BY <1>1 DEF SchedInv

LEMMA TakeSIGUSR1Sched ==
    ASSUME TypeOK, DriverInv, SchedInv, Sound' => Sound, client' = client,
           NEW s \in Servers, TakeSIGUSR1(s)
    PROVE  SchedInv'
<1> SUFFICES ASSUME Sound PROVE SchedInv'
  BY DEF SchedInv
<1>1. s \in Pending
  BY TakeSIGUSR1Is DEF Pending
<1>2. PICK c \in Clients : /\ client[c].pc \in Measuring /\ Wave(c) /\ server_of[c] \in Servers
                           /\ \A d \in Clients : d # c => client[d].pc \notin Measuring
  BY <1>1, SomebodyMeasures DEF Quiet
<1>3. /\ Pending' = Passed(s, Pending) /\ Handling' = Handling \cup {s} /\ InFifo' = InFifo
  <2>1. Pending' = Passed(s, Pending)
    <3>1. s # subserver[s] /\ s \in Processes
      BY NoLoop DEF Processes
    <3>2. ASSUME NEW t \in Servers
          PROVE  "SIGUSR1" \in signals'[t] <=> t # s /\ ("SIGUSR1" \in signals[t] \/ t = subserver[s])
      <4>1. t \in Processes
        BY DEF Processes
      <4>2. /\ signals'[s] = signals[s] \ {"SIGUSR1"}
            /\ t # s => signals'[t] = IF t = subserver[s] THEN signals[t] \cup {"SIGUSR1"} ELSE signals[t]
        BY ZenonT(60), <4>1, TakeSIGUSR1Is
      <4> QED BY <4>2
    <3> QED BY <3>1, <3>2 DEF Pending, Passed
  <2>2. \A t \in Servers : /\ server'[t].handler <=> (server[t].handler \/ t = s)
                           /\ server'[t].fifo = server[t].fifo
    BY TakeSIGUSR1Is DEF OtherServers
  <2> QED BY <2>1, <2>2 DEF Handling, InFifo
<1>4. /\ Pending \in SUBSET Servers /\ Handling \in SUBSET Servers /\ InFifo \in SUBSET Servers
  BY DEF Pending, Handling, InFifo
<1>5. client[c].pc \notin {"measure", "signal_back"}
  BY <1>1, <1>2 DEF Wave, Entered
<1>6. OneWave(Pending, Handling, server_of[c])
  BY <1>2, <1>5 DEF Wave, Measuring, Entering, Leaving
<1>7. Wave(c)'
  <2>1. CASE client[c].pc = "enter"
    <3>1. Entering(Pending, Handling, InFifo, server_of[c])
      BY <1>2, <2>1 DEF Wave
    <3>2. Entering(Passed(s, Pending), Handling \cup {s}, InFifo, server_of[c])
      BY <1>1, <1>2, <1>4, <1>6, <3>1, PassedOn
    <3>3. Entering(Pending, Handling, InFifo, server_of[c])'
      BY <1>3, <3>2 DEF Entering, OneWave, Closed, Follows, HasSub
    <3> QED BY <2>1, <3>3 DEF Wave
  <2>2. CASE client[c].pc = "leave"
    <3>1. Leaving(Pending, Handling, InFifo, server_of[c])
      BY <1>2, <2>2 DEF Wave
    <3>2. Leaving(Passed(s, Pending), Handling \cup {s}, InFifo, server_of[c])
      BY <1>1, <1>2, <1>4, <1>6, <3>1, PassedOn
    <3>3. Leaving(Pending, Handling, InFifo, server_of[c])'
      BY <1>3, <3>2 DEF Leaving, OneWave, Closed, Follows, HasSub
    <3> QED BY <2>2, <3>3 DEF Wave
  <2> QED BY <1>2, <1>5, <2>1, <2>2 DEF Measuring
<1> QED BY <1>2, <1>7, WaveGoesOn

LEMMA SwitchSchedulerSched ==
    ASSUME TypeOK, DriverInv, SchedInv, Sound' => Sound, client' = client,
           NEW s \in Servers, NEW ok \in BOOLEAN, SwitchScheduler(s, ok)
    PROVE  SchedInv'
<1> SUFFICES ASSUME Sound PROVE SchedInv'
  BY DEF SchedInv
<1>1. s \in Handling
  BY SwitchSchedulerIs DEF Handling
<1>2. PICK c \in Clients : /\ client[c].pc \in Measuring /\ Wave(c) /\ server_of[c] \in Servers
                           /\ \A d \in Clients : d # c => client[d].pc \notin Measuring
  BY <1>1, SomebodyMeasures DEF Quiet
<1>3. HasSub(s) => (subserver[s] \in InFifo) # (s \in InFifo)
  <2>1. \A t \in Servers : server[t].fifo \in BOOLEAN
    BY FieldsAre
  <2>2. SubserverSwitched(s)
    BY SwitchSchedulerIs
  <2> QED BY <2>1, <2>2, ServerAssumption DEF SubserverSwitched, HasSub, InFifo, Processes
<1>4. /\ Pending' = Pending /\ Handling' = Handling \ {s}
      /\ ok /\ s \in InFifo => InFifo' = InFifo \ {s}
      /\ (ok /\ s \notin InFifo) => InFifo' = InFifo \cup {s}
      /\ ~ok => InFifo' = InFifo
  <2>1. signals' = signals
    BY SwitchSchedulerIs
  <2>2. \A t \in Servers : server'[t].handler <=> (server[t].handler /\ t # s)
    BY SwitchSchedulerIs DEF OtherServers
  <2>3. \A t \in Servers : server[t].fifo \in BOOLEAN
    BY FieldsAre
  <2>4. \A t \in Servers : server'[t].fifo = IF t = s THEN server[t].fifo # ok ELSE server[t].fifo
    BY SwitchSchedulerIs DEF OtherServers
  <2> QED BY <2>1, <2>2, <2>3, <2>4 DEF Pending, Handling, InFifo
<1>5. /\ Pending \in SUBSET Servers /\ Handling \in SUBSET Servers /\ InFifo \in SUBSET Servers
  BY DEF Pending, Handling, InFifo
<1>6. client[c].pc \notin {"measure", "signal_back"}
  BY <1>1, <1>2 DEF Wave, Entered
<1>7. Wave(c)'
  <2>1. CASE client[c].pc = "enter"
    <3>1. Entering(Pending, Handling, InFifo, server_of[c])
      BY <1>2, <2>1 DEF Wave
    <3>2. /\ s \notin InFifo
          /\ Entering(Pending, Handling \ {s}, InFifo \cup {s}, server_of[c])
          /\ Entering(Pending, Handling \ {s}, InFifo, server_of[c])
      BY <1>1, <1>2, <1>3, <1>5, <3>1, SwitchedIn
    <3>3. Entering(Pending', Handling', InFifo', server_of[c])
      BY <1>4, <3>2
    <3>4. Entering(Pending, Handling, InFifo, server_of[c])'
      BY <3>3 DEF Entering, OneWave, Closed, Follows, HasSub
    <3> QED BY <2>1, <3>4 DEF Wave
  <2>2. CASE client[c].pc = "leave"
    <3>1. Leaving(Pending, Handling, InFifo, server_of[c])
      BY <1>2, <2>2 DEF Wave
    <3>2. /\ s \in InFifo
          /\ Leaving(Pending, Handling \ {s}, InFifo \ {s}, server_of[c])
          /\ Leaving(Pending, Handling \ {s}, InFifo, server_of[c])
      BY <1>1, <1>2, <1>3, <1>5, <3>1, SwitchedBack
    <3>3. Leaving(Pending', Handling', InFifo', server_of[c])
      BY <1>4, <3>2
    <3>4. Leaving(Pending, Handling, InFifo, server_of[c])'
      BY <3>3 DEF Leaving, OneWave, Closed, Follows, HasSub
    <3> QED BY <2>2, <3>4 DEF Wave
  <2> QED BY <1>2, <1>6, <2>1, <2>2 DEF Measuring
<1> QED BY <1>2, <1>7, WaveGoesOn

(* A client whose measurement moves on while nobody else measures.         *)
LEMMA WaveMovesOn ==
    ASSUME NEW c \in Clients, OtherClients(c), client'[c].pc \in Measuring,
           \A d \in Clients : d # c => client[d].pc \notin Measuring, Wave(c)'
    PROVE  SchedInv'
<1>1. \A d \in Clients : Wave(d)'
  BY DEF Wave, Measuring, OtherClients
<1> QED BY <1>1 DEF SchedInv

LEMMA SignalServerSched ==
    ASSUME TypeOK, DriverInv, SchedInv, Sound' => Sound, NEW c \in Clients, SignalServer(c)
    PROVE  SchedInv'
<1> SUFFICES ASSUME Sound PROVE SchedInv'
  BY DEF SchedInv
<1>1. /\ client[c].pc \in {"signal", "signal_back"} /\ server_of[c] \in Servers
      /\ client'[c].pc = IF client[c].pc = "signal" THEN "enter" ELSE "leave"
      /\ OtherClients(c)
  BY SignalServerIs, ClientAssumption
<1>2. \A d \in Clients : d # c => client[d].pc \notin Measuring
  BY <1>1, OneAtATime DEF Measuring
<1>3. Pending' = Pending \cup {server_of[c]} /\ Handling' = Handling /\ InFifo' = InFifo
  <2>1. \A t \in Processes : "SIGUSR1" \in signals'[t] <=> t = server_of[c] \/ "SIGUSR1" \in signals[t]
    BY ZenonT(60), SignalServerIs
  <2>2. server' = server
    BY SignalServerIs
  <2> QED BY <1>1, <2>1, <2>2 DEF Pending, Handling, InFifo, Processes
<1>4. Wave(c)'
  <2>1. CASE client[c].pc = "signal"
    <3>1. Quiet
      BY <1>2, <2>1 DEF SchedInv, Measuring
    <3>2. Entering({server_of[c]}, {}, {}, server_of[c])
      BY DEF Entering, OneWave, Closed, Follows
    <3>3. Entering(Pending', Handling', InFifo', server_of[c])
      BY <1>3, <3>1, <3>2 DEF Quiet
    <3>4. Entering(Pending, Handling, InFifo, server_of[c])'
      BY <3>3 DEF Entering, OneWave, Closed, Follows, HasSub
    <3> QED BY <1>1, <2>1, <3>4 DEF Wave
  <2>2. CASE client[c].pc = "signal_back"
    <3>1. Entered(Pending, Handling, InFifo, server_of[c])
      BY <2>2 DEF SchedInv, Wave
    <3>2. Leaving(Pending \cup {server_of[c]}, Handling, InFifo, server_of[c])
      BY <3>1 DEF Entered, Leaving, OneWave, Follows
    <3>3. Leaving(Pending', Handling', InFifo', server_of[c])
      BY <1>3, <3>2
    <3>4. Leaving(Pending, Handling, InFifo, server_of[c])'
      BY <3>3 DEF Leaving, OneWave, Closed, Follows, HasSub
    <3> QED BY <1>1, <2>2, <3>4 DEF Wave
  <2> QED BY <1>1, <2>1, <2>2
<1>5. client'[c].pc \in Measuring
  BY <1>1 DEF Measuring
<1> QED BY <1>1, <1>2, <1>4, <1>5, WaveMovesOn

LEMMA MeasureSendSched ==
    ASSUME TypeOK, DriverInv, SchedInv, Sound' => Sound, NEW c \in Clients, MeasureSend(c)
    PROVE  SchedInv'
<1> SUFFICES ASSUME Sound PROVE SchedInv'
  BY DEF SchedInv
<1>1. /\ client[c].pc = "enter" /\ server_of[c] \in Servers /\ server[server_of[c]].fifo
      /\ client'[c].pc \in {"measure", "signal_back"} /\ OtherClients(c)
      /\ server' = server /\ signals' = signals
  BY MeasureSendIs, ClientAssumption
<1>2. \A d \in Clients : d # c => client[d].pc \notin Measuring
  BY <1>1, OneAtATime DEF Measuring
<1>3. Pending' = Pending /\ Handling' = Handling /\ InFifo' = InFifo
  BY <1>1 DEF Pending, Handling, InFifo
<1>4. Entering(Pending, Handling, InFifo, server_of[c]) /\ server_of[c] \in InFifo
  BY <1>1 DEF SchedInv, Wave, InFifo
<1>5. /\ Pending \in SUBSET Servers /\ Handling \in SUBSET Servers /\ InFifo \in SUBSET Servers
  BY DEF Pending, Handling, InFifo
<1>6. Entered(Pending, Handling, InFifo, server_of[c])
  BY <1>1, <1>4, <1>5, WaveIsOver
<1>7. Entered(Pending, Handling, InFifo, server_of[c])'
  BY <1>3, <1>6 DEF Entered, Closed, Follows, HasSub
<1>8. Wave(c)' /\ client'[c].pc \in Measuring
  BY <1>1, <1>7 DEF Wave, Measuring
<1> QED BY <1>1, <1>2, <1>8, WaveMovesOn

LEMMA MeasureReceiveSched ==
    ASSUME TypeOK, DriverInv, SchedInv, Sound' => Sound, NEW c \in Clients, MeasureReceive(c)
    PROVE  SchedInv'
<1> SUFFICES ASSUME Sound PROVE SchedInv'
  BY DEF SchedInv
<1>1. /\ client[c].pc = "measure" /\ client'[c].pc = "signal_back" /\ OtherClients(c)
      /\ server' = server /\ signals' = signals
  BY MeasureReceiveIs
<1>2. \A d \in Clients : d # c => client[d].pc \notin Measuring
  BY <1>1, OneAtATime DEF Measuring
<1>3. Pending' = Pending /\ Handling' = Handling /\ InFifo' = InFifo
  BY <1>1 DEF Pending, Handling, InFifo
<1>4. Entered(Pending, Handling, InFifo, server_of[c])
  BY <1>1 DEF SchedInv, Wave
<1>5. Entered(Pending, Handling, InFifo, server_of[c])'
  BY <1>3, <1>4 DEF Entered, Closed, Follows, HasSub
<1>6. Wave(c)' /\ client'[c].pc \in Measuring
  BY <1>1, <1>5 DEF Wave, Measuring
<1> QED BY <1>1, <1>2, <1>6, WaveMovesOn

LEMMA MeasureDoneSched ==
    ASSUME TypeOK, DriverInv, SchedInv, Sound' => Sound, NEW c \in Clients, NEW ok \in BOOLEAN,
           MeasureDone(c, ok)
    PROVE  SchedInv'
<1> SUFFICES ASSUME Sound PROVE SchedInv'
  BY DEF SchedInv
<1>1. /\ client[c].pc = "leave" /\ server_of[c] \in Servers /\ ~server[server_of[c]].fifo
      /\ client'[c].pc \in {"sigwait", "failed"} /\ OtherClients(c)
      /\ server' = server /\ signals' = signals
  BY MeasureDoneIs, ClientAssumption DEF ClientIsGone
<1>2. \A d \in Clients : d # c => client[d].pc \notin Measuring
  BY <1>1, OneAtATime DEF Measuring
<1>3. Pending' = Pending /\ Handling' = Handling /\ InFifo' = InFifo
  BY <1>1 DEF Pending, Handling, InFifo
<1>4. Leaving(Pending, Handling, InFifo, server_of[c]) /\ server_of[c] \notin InFifo
  BY <1>1 DEF SchedInv, Wave, InFifo
<1>5. /\ Pending \in SUBSET Servers /\ Handling \in SUBSET Servers /\ InFifo \in SUBSET Servers
  BY DEF Pending, Handling, InFifo
<1>6. Pending = {} /\ Handling = {} /\ InFifo = {}
  BY <1>1, <1>4, <1>5, WaveIsOver
<1>7. \A d \in Clients : Wave(d)'
  BY <1>1, <1>2 DEF Wave, Measuring, OtherClients
<1> QED BY <1>3, <1>6, <1>7 DEF SchedInv, Quiet

(* Every step keeps the waves.                                             *)
LEMMA SchedInvKept ==
    ASSUME TypeOK, DriverInv, ClientInv, ServerInv, SchedInv, [Next]_vars
    PROVE  SchedInv'
<1>c. Sound' => Sound
  BY SoundBefore
<1>a. ASSUME \A t \in Servers : SameMode(t), \A d \in Clients : SamePhase(d)
      PROVE  SchedInv'
  BY <1>a, <1>c, SchedSame
<1>b. client' = client => \A d \in Clients : SamePhase(d)
  BY DEF SamePhase
<1>1. ASSUME NEW s \in Servers, CheckTerminated(s), ServerStep
      PROVE  SchedInv'
  <2>1. \A t \in Servers : SameMode(t)
    BY <1>1, CheckTerminatedIs DEF OtherServers, KeepsMode, ServerIsOver, SameMode, Processes
  <2> QED BY <1>1, <1>a, <1>b, <2>1 DEF ServerStep
<1>2. ASSUME NEW s \in Servers, FallAsleep(s), ServerStep
      PROVE  SchedInv'
  <2>1. \A t \in Servers : SameMode(t)
    BY <1>2, FallAsleepIs DEF OtherServers, KeepsMode, ServerIsOver, SameMode, Processes
  <2> QED BY <1>2, <1>a, <1>b, <2>1 DEF ServerStep
<1>3. ASSUME NEW s \in Servers, Receive(s), ServerStep
      PROVE  SchedInv'
  <2>1. \A t \in Servers : SameMode(t)
    BY <1>3, ReceiveIs DEF OtherServers, KeepsMode, ServerIsOver, SameMode, Processes
  <2> QED BY <1>3, <1>a, <1>b, <2>1 DEF ServerStep
<1>4. ASSUME NEW s \in Servers, NEW ok \in BOOLEAN, ServerStart(s, ok), ServerStep
      PROVE  SchedInv'
  <2>1. \A t \in Servers : SameMode(t)
    BY <1>4, ServerStartIs DEF OtherServers, KeepsMode, ServerIsOver, SameMode, Processes
  <2> QED BY <1>4, <1>a, <1>b, <2>1 DEF ServerStep
<1>5. ASSUME NEW s \in Servers, NEW ok \in BOOLEAN, Lend(s, ok), ServerStep
      PROVE  SchedInv'
  <2>1. \A t \in Servers : SameMode(t)
    BY <1>5, LendIs DEF OtherServers, KeepsMode, ServerIsOver, SameMode, Processes
  <2> QED BY <1>5, <1>a, <1>b, <2>1 DEF ServerStep
<1>6. ASSUME NEW s \in Servers, Forward(s), ServerStep
      PROVE  SchedInv'
  <2>1. \A t \in Servers : SameMode(t)
    BY <1>6, ForwardIs DEF OtherServers, KeepsMode, ServerIsOver, SameMode, Processes
  <2> QED BY <1>6, <1>a, <1>b, <2>1 DEF ServerStep
<1>7. ASSUME NEW s \in Servers, Await(s), ServerStep
      PROVE  SchedInv'
  <2>1. \A t \in Servers : SameMode(t)
    BY <1>7, AwaitIs DEF OtherServers, KeepsMode, ServerIsOver, SameMode, Processes
  <2> QED BY <1>7, <1>a, <1>b, <2>1 DEF ServerStep
<1>8. ASSUME NEW s \in Servers, GiveUpRequest(s), ServerStep
      PROVE  SchedInv'
  <2>1. \A t \in Servers : SameMode(t)
    BY <1>8, GiveUpRequestIs DEF OtherServers, KeepsMode, ServerIsOver, SameMode, Processes
  <2> QED BY <1>8, <1>a, <1>b, <2>1 DEF ServerStep
<1>9. ASSUME NEW s \in Servers, Reply(s), ServerStep
      PROVE  SchedInv'
  <2>1. \A t \in Servers : SameMode(t)
    BY <1>9, ReplyIs DEF OtherServers, KeepsMode, ServerIsOver, SameMode, Processes
  <2> QED BY <1>9, <1>a, <1>b, <2>1 DEF ServerStep
<1>10. ASSUME NEW s \in Servers, TakeSIGTERM(s), ServerStep
      PROVE  SchedInv'
  <2>1. \A t \in Servers : SameMode(t)
    BY <1>10, TakeSIGTERMIs DEF OtherServers, KeepsMode, ServerIsOver, SameMode, Processes
  <2> QED BY <1>10, <1>a, <1>b, <2>1 DEF ServerStep
<1>11. ASSUME NEW s \in Servers, TakeSIGUSR1(s), ServerStep
      PROVE  SchedInv'
  BY <1>11, <1>c, TakeSIGUSR1Is, TakeSIGUSR1Sched DEF ServerStep
<1>12. ASSUME NEW s \in Servers, NEW ok \in BOOLEAN, SwitchScheduler(s, ok), ServerStep
      PROVE  SchedInv'
  BY <1>12, <1>c, SwitchSchedulerIs, SwitchSchedulerSched DEF ServerStep
<1>13. ASSUME NEW s \in Servers, GiveUpSubserver(s), ServerStep
      PROVE  SchedInv'
  <2>1. ~Sound'
    BY <1>13, GiveUpSubserverIs DEF ServerIsOver, Sound, Failed, Processes
  <2> QED BY <2>1 DEF SchedInv
<1>14. ASSUME NEW c \in Clients, NEW ok \in BOOLEAN, ClientStart(c, ok), ClientStep
      PROVE  SchedInv'
  <2>1. /\ \A t \in Servers : SameMode(t)
        /\ \A d \in Clients : SamePhase(d)
    BY ZenonT(60), <1>14, ClientStartIs, ServerAssumption
    DEF OtherClients, KeepsMain, ClientIsGone, SameMode, SamePhase, Processes, Measuring, ClientOK, ClientInv, Dead
  <2> QED BY <1>a, <2>1
<1>15. ASSUME NEW c \in Clients, NEW ok \in BOOLEAN, MeasureDone(c, ok), ClientStep
      PROVE  SchedInv'
  BY <1>15, <1>c, MeasureDoneSched
<1>16. ASSUME NEW c \in Clients, SignalServer(c), ClientStep
      PROVE  SchedInv'
  BY <1>16, <1>c, SignalServerSched
<1>17. ASSUME NEW c \in Clients, MeasureSend(c), ClientStep
      PROVE  SchedInv'
  BY <1>17, <1>c, MeasureSendSched
<1>18. ASSUME NEW c \in Clients, MeasureReceive(c), ClientStep
      PROVE  SchedInv'
  BY <1>18, <1>c, MeasureReceiveSched
<1>19. ASSUME NEW c \in Clients, GiveUpMeasurement(c), ClientStep
      PROVE  SchedInv'
  <2>1. ~Sound'
    BY <1>19, GiveUpMeasurementIs DEF ClientIsGone, Sound, Failed, Processes
  <2> QED BY <2>1 DEF SchedInv
<1>20. ASSUME NEW c \in Clients, TakeTerm(c), ClientStep
      PROVE  SchedInv'
  <2>1. /\ \A t \in Servers : SameMode(t)
        /\ \A d \in Clients : SamePhase(d)
    BY ZenonT(60), <1>20, TakeTermIs, ServerAssumption
    DEF OtherClients, KeepsMain, ClientIsGone, SameMode, SamePhase, Processes, Measuring, ClientOK, ClientInv, Dead
  <2> QED BY <1>a, <2>1
<1>21. ASSUME NEW c \in Clients, StopTask(c), ClientStep
      PROVE  SchedInv'
  <2>1. /\ \A t \in Servers : SameMode(t)
        /\ \A d \in Clients : SamePhase(d)
    BY <1>21, StopTaskIs, ServerAssumption
    DEF OtherClients, KeepsMain, ClientIsGone, SameMode, SamePhase, Processes, Measuring, ClientOK, ClientInv, Dead
  <2> QED BY <1>a, <2>1
<1>22. ASSUME NEW c \in Clients, InterruptRecv(c), ClientStep
      PROVE  SchedInv'
  <2>1. /\ \A t \in Servers : SameMode(t)
        /\ \A d \in Clients : SamePhase(d)
    BY <1>22, InterruptRecvIs, ServerAssumption
    DEF OtherClients, KeepsMain, ClientIsGone, SameMode, SamePhase, Processes, Measuring, ClientOK, ClientInv, Dead
  <2> QED BY <1>a, <2>1
<1>23. ASSUME NEW c \in Clients, Join(c), ClientStep
      PROVE  SchedInv'
  <2>1. /\ \A t \in Servers : SameMode(t)
        /\ \A d \in Clients : SamePhase(d)
    BY <1>23, JoinIs, ServerAssumption
    DEF OtherClients, KeepsMain, ClientIsGone, SameMode, SamePhase, Processes, Measuring, ClientOK, ClientInv, Dead
  <2> QED BY <1>a, <2>1
<1>24. ASSUME NEW c \in Clients, NEW ok \in BOOLEAN, EnterCbs(c, ok), ClientStep
      PROVE  SchedInv'
  <2>1. /\ \A t \in Servers : SameMode(t)
        /\ \A d \in Clients : SamePhase(d)
    BY <1>24, EnterCbsIs, ServerAssumption
    DEF OtherClients, KeepsMain, ClientIsGone, SameMode, SamePhase, Processes, Measuring, ClientOK, ClientInv, Dead
  <2> QED BY <1>a, <2>1
<1>25. ASSUME NEW c \in Clients, NEW ok \in BOOLEAN, CreateTask(c, ok), ClientStep
      PROVE  SchedInv'
  <2>1. \A t \in Servers : SameMode(t)
    <3>1. server' = server /\ \A t \in Processes : t # c => signals'[t] = signals[t]
      BY <1>25, CreateTaskIs
    <3> QED BY <3>1, ServerAssumption DEF SameMode, Processes
  <2>2. SamePhase(c)
    <3>1. \/ client'[c].pc = client[c].pc
          \/ client'[c].pc \in {"failed", "killed"} /\ client[c].job # "none"
      BY <1>25, CreateTaskIs DEF ClientIsGone, KeepsMain
    <3> QED BY <3>1 DEF SamePhase, ClientInv, ClientOK, Measuring
  <2>3. OtherClients(c)
    BY <1>25, CreateTaskIs
  <2> QED BY <1>a, <2>1, <2>2, <2>3 DEF OtherClients, SamePhase
<1>26. ASSUME NEW c \in Clients, NEW ok \in BOOLEAN, Release(c, ok), ClientStep
      PROVE  SchedInv'
  <2>1. /\ \A t \in Servers : SameMode(t)
        /\ \A d \in Clients : SamePhase(d)
    BY ZenonT(60), <1>26, ReleaseIs, ServerAssumption
    DEF OtherClients, KeepsMain, ClientIsGone, SameMode, SamePhase, Processes, Measuring, ClientOK, ClientInv, Dead
  <2> QED BY <1>a, <2>1
<1>27. ASSUME NEW c \in Clients, SendRequest(c), ClientStep
      PROVE  SchedInv'
  <2>1. /\ \A t \in Servers : SameMode(t)
        /\ \A d \in Clients : SamePhase(d)
    BY <1>27, SendRequestIs, ServerAssumption
    DEF OtherClients, KeepsMain, ClientIsGone, SameMode, SamePhase, Processes, Measuring, ClientOK, ClientInv, Dead
  <2> QED BY <1>a, <2>1
<1>28. ASSUME NEW c \in Clients, RecvFallsAsleep(c), ClientStep
      PROVE  SchedInv'
  <2>1. /\ \A t \in Servers : SameMode(t)
        /\ \A d \in Clients : SamePhase(d)
    BY <1>28, RecvFallsAsleepIs, ServerAssumption
    DEF OtherClients, KeepsMain, ClientIsGone, SameMode, SamePhase, Processes, Measuring, ClientOK, ClientInv, Dead
  <2> QED BY <1>a, <2>1
<1>29. ASSUME NEW c \in Clients, TakeSIGUSR2(c), ClientStep
      PROVE  SchedInv'
  <2>1. /\ \A t \in Servers : SameMode(t)
        /\ \A d \in Clients : SamePhase(d)
    BY <1>29, TakeSIGUSR2Is, ServerAssumption
    DEF OtherClients, KeepsMain, ClientIsGone, SameMode, SamePhase, Processes, Measuring, ClientOK, ClientInv, Dead
  <2> QED BY <1>a, <2>1
<1>30. ASSUME NEW c \in Clients, ReceiveResponse(c), ClientStep
      PROVE  SchedInv'
  <2>1. /\ \A t \in Servers : SameMode(t)
        /\ \A d \in Clients : SamePhase(d)
    BY <1>30, ReceiveResponseIs, ServerAssumption
    DEF OtherClients, KeepsMain, ClientIsGone, SameMode, SamePhase, Processes, Measuring, ClientOK, ClientInv, Dead
  <2> QED BY <1>a, <2>1
<1>31. ASSUME NEW c \in Clients, NEW ok \in BOOLEAN, EndJob(c, ok), ClientStep
      PROVE  SchedInv'
  <2>1. \A t \in Servers : SameMode(t)
    <3>1. server' = server /\ \A t \in Processes : t # c => signals'[t] = signals[t]
      BY <1>31, EndJobIs
    <3> QED BY <3>1, ServerAssumption DEF SameMode, Processes
  <2>2. SamePhase(c)
    <3>1. \/ client'[c].pc = client[c].pc
          \/ client'[c].pc \in {"failed", "killed"} /\ client[c].job # "none"
      BY <1>31, EndJobIs DEF ClientIsGone, KeepsMain
    <3> QED BY <3>1 DEF SamePhase, ClientInv, ClientOK, Measuring
  <2>3. OtherClients(c)
    BY <1>31, EndJobIs
  <2> QED BY <1>a, <2>1, <2>2, <2>3 DEF OtherClients, SamePhase
<1>32. ASSUME Fork
      PROVE  SchedInv'
  <2>1. /\ next \in DOMAIN Order /\ DOMAIN server = Servers /\ DOMAIN client = Clients
        /\ \A s \in Servers : DOMAIN server[s] = ServerFields
        /\ \A c \in Clients : DOMAIN client[c] = ClientFields
    BY <1>32, PlaceIs, FieldsAre DEF Fork
  <2>2. Down(Order[next])
    BY <1>32, <2>1 DEF Fork, DriverInv
  <2>3. \A t \in Servers : SameMode(t)
    BY <1>32, <2>1 DEF Fork, SameMode, ServerFields
  <2>4. ASSUME NEW d \in Clients
        PROVE  SamePhase(d)
    <3>1. CASE client'[d].pc = client[d].pc
      BY <3>1 DEF SamePhase
    <3>2. CASE d = Order[next] /\ client' = [client EXCEPT ![Order[next]].pc = "starting"]
      <4>1. client'[d].pc = "starting" /\ client[d].pc = "down"
        BY <2>1, <2>2, <3>2 DEF Down, ClientFields
      <4> QED BY <4>1 DEF SamePhase, Measuring
    <3> QED BY <1>32, <2>1, <3>1, <3>2 DEF Fork
  <2> QED BY <1>a, <2>3, <2>4
<1>33. ASSUME StoreProcId
      PROVE  SchedInv'
  <2>1. /\ \A t \in Servers : SameMode(t)
        /\ \A d \in Clients : SamePhase(d)
    BY <1>33 DEF StoreProcId, clientVars, serverVars, SameMode, SamePhase
  <2> QED BY <1>a, <2>1
<1>34. ASSUME SleepASecond
      PROVE  SchedInv'
  <2>1. /\ \A t \in Servers : SameMode(t)
        /\ \A d \in Clients : SamePhase(d)
    BY <1>34 DEF SleepASecond, clientVars, serverVars, SameMode, SamePhase
  <2> QED BY <1>a, <2>1
<1>35. ASSUME StartClients
      PROVE  SchedInv'
  <2>1. \A t \in Servers : SameMode(t)
    BY <1>35, ServerAssumption DEF StartClients, SignalClients, SameMode, Processes
  <2>2. \A d \in Clients : client[d].pc \notin Measuring
    BY <1>35, OneAtATime DEF StartClients
  <2>3. \A d \in Clients : client'[d] = client[d] \/ client'[d].pc = "killed"
    BY <1>35, OverIs DEF StartClients, SignalClients
  <2>4. \A d \in Clients : SamePhase(d)
    BY <2>2, <2>3 DEF SamePhase, Measuring
  <2> QED BY <1>a, <2>1, <2>4
<1>36. ASSUME StopClients
      PROVE  SchedInv'
  <2>1. \A t \in Servers : SameMode(t)
    BY <1>36, ServerAssumption DEF StopClients, SignalClients, SameMode, Processes
  <2>2. \A d \in Clients : client[d].pc \notin Measuring
    BY <1>36, OneAtATime DEF StopClients
  <2>3. \A d \in Clients : client'[d] = client[d] \/ client'[d].pc = "killed"
    BY <1>36, OverIs DEF StopClients, SignalClients
  <2>4. \A d \in Clients : SamePhase(d)
    BY <2>2, <2>3 DEF SamePhase, Measuring
  <2> QED BY <1>a, <2>1, <2>4
<1>37. ASSUME StopServers
      PROVE  SchedInv'
  <2>1. \A t \in Servers : SameMode(t)
    BY <1>37 DEF StopServers, SameMode, Processes
  <2> QED BY <1>37, <1>a, <2>1 DEF StopServers, SamePhase
<1>38. ASSUME Wait
      PROVE  SchedInv'
  <2>1. /\ \A t \in Servers : SameMode(t)
        /\ \A d \in Clients : SamePhase(d)
    BY <1>38 DEF Wait, clientVars, serverVars, SameMode, SamePhase
  <2> QED BY <1>a, <2>1
<1>39. ASSUME TerminateDriver
      PROVE  SchedInv'
  <2>1. SUFFICES ASSUME Sound' PROVE SchedInv'
    BY DEF SchedInv
  <2>2. pids = {}
    BY <1>39, <2>1 DEF TerminateDriver, Sound
  <2>3. /\ \A t \in Servers : SameMode(t)
        /\ \A d \in Clients : SamePhase(d)
    BY <1>39, <2>2 DEF TerminateDriver, SameMode, SamePhase, Processes
  <2> QED BY <1>a, <2>3
<1>40. CASE UNCHANGED vars
  <2>1. /\ \A t \in Servers : SameMode(t)
        /\ \A d \in Clients : SamePhase(d)
    BY <1>40 DEF vars, clientVars, serverVars, SameMode, SamePhase
  <2> QED BY <1>a, <2>1
<1>41. ASSUME NEW s \in Servers, ForwardFails(s), ServerStep
      PROVE  SchedInv'
  <2>1. \A t \in Servers : SameMode(t)
    BY <1>41, ForwardFailsIs DEF OtherServers, KeepsMode, ServerIsOver, SameMode, Processes
  <2> QED BY <1>41, <1>a, <1>b, <2>1 DEF ServerStep
<1>42. ASSUME NEW s \in Servers, Drops(s), ServerStep
      PROVE  SchedInv'
  <2>1. \A t \in Servers : SameMode(t)
    BY <1>42, DropsIs DEF OtherServers, KeepsMode, ServerIsOver, SameMode, Processes
  <2> QED BY <1>42, <1>a, <1>b, <2>1 DEF ServerStep
<1> QED
    BY <1>1, <1>2, <1>3, <1>4, <1>5, <1>6, <1>7, <1>8, <1>9, <1>10, <1>11, <1>12, <1>13, <1>14,
     <1>15, <1>16, <1>17, <1>18, <1>19, <1>20, <1>21, <1>22, <1>23, <1>24, <1>25, <1>26, <1>27,
     <1>28, <1>29, <1>30, <1>31, <1>32, <1>33, <1>34, <1>35, <1>36, <1>37, <1>38, <1>39, <1>40, <1>41, <1>42
    DEF Next, ServerProgram, ServerHandler, ClientMain, ClientThread, Driver, ServerStep,
     ClientStep, Drops

LEMMA SchedInvInit == Init => SchedInv
<1> SUFFICES ASSUME Init PROVE SchedInv
  OBVIOUS
<1>1. /\ \A s \in Servers : server[s] = NewServer /\ signals[s] = {}
      /\ \A c \in Clients : client[c].pc = "down"
  BY DEF Init, ClientInit, ServerInit, NewClient, Processes
<1>2. Quiet
  BY <1>1 DEF Quiet, Pending, Handling, InFifo, NewServer
<1> QED BY <1>1, <1>2 DEF SchedInv, Wave

(* A client measures only under a server in SCHED_FIFO, a server is in it  *)
(* only behind its subserver, and after a measurement every server is back *)
(* in its own scheduling with no signal left over.                         *)
THEOREM SchedulingAlwaysFollows == Spec => []SchedulingFollowsMeasurement
<1>1. Inv /\ SchedInv => SchedulingFollowsMeasurement
  <2> SUFFICES ASSUME TypeOK, DriverInv, SchedInv, \A p \in Processes : ~Ended(p)
               PROVE  SchedulingFollowsMeasurement
    BY DEF Inv, SchedulingFollowsMeasurement
  <2>1. Sound
    <3>1. \A p \in Processes : ~Failed(p)
      BY DEF Ended, Failed, Dead
    <3>2. driver = "terminated" => pids = {}
      BY TypeIs DEF DriverInv
    <3> QED BY <3>1, <3>2 DEF Sound
  <2>2. \A c \in Clients : Wave(c)
    BY <2>1 DEF SchedInv
  <2>3. \A c \in Clients : client[c].pc \in {"measure", "signal_back"} => server[server_of[c]].fifo
    BY <2>2, ClientAssumption DEF Wave, Entered, InFifo
  <2>4. ASSUME NEW s \in Servers, server[s].fifo, subserver[s] # Nobody,
               \A c \in Clients : client[c].pc # "leave"
        PROVE  server[subserver[s]].fifo
    <3>1. PICK c \in Clients : client[c].pc \in Measuring /\ Wave(c)
      BY <2>1, <2>4, SomebodyMeasures DEF Quiet, InFifo
    <3>2. Closed(InFifo)
      BY <2>4, <3>1 DEF Wave, Measuring, Entering, Entered
    <3> QED BY <2>4, <3>2, ServerAssumption DEF Closed, HasSub, InFifo
  <2>5. (\A c \in Clients : client[c].pc \notin Measuring) => Quiet
    BY <2>1 DEF SchedInv
  <2> QED BY <2>3, <2>4, <2>5 DEF SchedulingFollowsMeasurement, Quiet, Pending, Handling, InFifo, Measuring
<1>2. Init => SchedInv
  BY SchedInvInit
<1>3. Inv /\ SchedInv /\ [Next]_vars => SchedInv'
  BY SchedInvKept DEF Inv
<1> QED BY <1>1, <1>2, <1>3, InitInv, InvKept, PTL DEF Spec
-----------------------------------------------------------------------------
(* How many datagrams of a queue come from p.                              *)
Places(q, p) == {i \in DOMAIN q : q[i].from = p}
Count(q, p) == Cardinality(Places(q, p))

(* What p has in a queue can be counted.                                   *)
LEMMA PlacesAreFinite ==
    ASSUME NEW q \in Seq(Datagrams), NEW p
    PROVE  IsFiniteSet(Places(q, p)) /\ Count(q, p) \in Nat
<1>1. DOMAIN q = 1..Len(q) /\ Len(q) \in Nat
  OBVIOUS
<1>2. IsFiniteSet(1..Len(q))
  BY <1>1, FS_Interval
<1>3. Places(q, p) \in SUBSET (1..Len(q))
  BY <1>1 DEF Places
<1>4. IsFiniteSet(Places(q, p))
  BY <1>2, <1>3, FS_Subset
<1> QED BY <1>4, FS_CardinalityType DEF Count

LEMMA CountEmpty ==
    \A p : Places(<<>>, p) = {} /\ Count(<<>>, p) = 0
  BY FS_EmptySet DEF Places, Count

(* A datagram sent counts for its sender, and one taken counts no more.    *)
LEMMA CountAppend ==
    ASSUME NEW q \in Seq(Datagrams), NEW d \in Datagrams, NEW p
    PROVE  Count(Append(q, d), p) = IF d.from = p THEN Count(q, p) + 1 ELSE Count(q, p)
<1>1. /\ DOMAIN q = 1..Len(q) /\ Len(q) \in Nat /\ DOMAIN Append(q, d) = 1..(Len(q) + 1)
      /\ \A i \in 1..Len(q) : Append(q, d)[i] = q[i]
      /\ Append(q, d)[Len(q) + 1] = d
  OBVIOUS
<1>2. CASE d.from = p
  <2>1. Places(Append(q, d), p) = Places(q, p) \cup {Len(q) + 1}
    BY <1>1, <1>2 DEF Places
  <2>2. Len(q) + 1 \notin Places(q, p)
    BY <1>1 DEF Places
  <2>3. IsFiniteSet(Places(q, p))
    BY PlacesAreFinite
  <2>4. Cardinality(Places(q, p) \cup {Len(q) + 1}) = Cardinality(Places(q, p)) + 1
    BY <2>2, <2>3, FS_AddElement
  <2> QED BY <1>2, <2>1, <2>4 DEF Count
<1>3. CASE d.from # p
  <2>1. Places(Append(q, d), p) = Places(q, p)
    BY <1>1, <1>3 DEF Places
  <2> QED BY <1>3, <2>1 DEF Count
<1> QED BY <1>2, <1>3

LEMMA CountTail ==
    ASSUME NEW q \in Seq(Datagrams), q # <<>>, NEW p
    PROVE  Count(Tail(q), p) = IF Head(q).from = p THEN Count(q, p) - 1 ELSE Count(q, p)
<1>1. /\ DOMAIN q = 1..Len(q) /\ Len(q) \in Nat /\ Len(q) > 0 /\ DOMAIN Tail(q) = 1..(Len(q) - 1)
      /\ \A i \in 1..(Len(q) - 1) : Tail(q)[i] = q[i + 1]
      /\ Head(q) = q[1]
  OBVIOUS
<1> DEFINE rest == Places(q, p) \ {1}
           shift == [i \in rest |-> i - 1]
<1>2. Places(q, p) \subseteq 1..Len(q) /\ Places(Tail(q), p) \subseteq 1..(Len(q) - 1)
  BY <1>1 DEF Places
<1>3. \A i \in rest : i - 1 \in Places(Tail(q), p)
  BY <1>1 DEF Places
<1>4. \A j \in Places(Tail(q), p) : j + 1 \in rest /\ (j + 1) - 1 = j
  BY <1>1 DEF Places
<1>5. shift \in Bijection(rest, Places(Tail(q), p))
  <2>1. shift \in [rest -> Places(Tail(q), p)]
    BY <1>3
  <2>2. \A i, j \in rest : shift[i] = shift[j] => i = j
    BY <1>1, <1>2
  <2>3. \A j \in Places(Tail(q), p) : \E i \in rest : shift[i] = j
    BY <1>4
  <2> QED BY <2>1, <2>2, <2>3 DEF Bijection, Injection, Surjection, IsInjective
<1>6. IsFiniteSet(rest) /\ Cardinality(rest) = IF 1 \in Places(q, p) THEN Count(q, p) - 1 ELSE Count(q, p)
  BY PlacesAreFinite, FS_RemoveElement DEF Count
<1>7. Cardinality(Places(Tail(q), p)) = Cardinality(rest)
  BY <1>5, <1>6, FS_Bijection DEF ExistsBijection
<1>8. 1 \in Places(q, p) <=> Head(q).from = p
  BY <1>1 DEF Places
<1> QED BY <1>6, <1>7, <1>8 DEF Count

(* Who has nothing in a queue has no datagram in it.                       *)
LEMMA CountZero ==
    ASSUME NEW q \in Seq(Datagrams), NEW p, Count(q, p) = 0
    PROVE  \A i \in DOMAIN q : q[i].from # p
<1>1. Places(q, p) = {}
  BY PlacesAreFinite, FS_EmptySet DEF Count
<1> QED BY <1>1 DEF Places

(* The elements of a queue that has been appended to or taken from.        *)
LEMMA QueueIs ==
    ASSUME NEW T, NEW q \in Seq(T)
    PROVE  /\ \A d \in T : \A i \in DOMAIN Append(q, d) : (i \in DOMAIN q /\ Append(q, d)[i] = q[i]) \/ Append(q, d)[i] = d
           /\ q # <<>> => /\ 1 \in DOMAIN q /\ Head(q) = q[1]
                          /\ \A i \in DOMAIN Tail(q) : i + 1 \in DOMAIN q /\ Tail(q)[i] = q[i + 1]
  OBVIOUS
-----------------------------------------------------------------------------
(* Who asks whom.                                                          *)
Askers == Clients \cup {s \in Servers : subserver[s] # Nobody}
ServerFor(p) == IF p \in Servers THEN subserver[p] ELSE server_of[p]
Asks(p, s) == p \in Askers /\ ServerFor(p) = s

(* Every client asks its server, and every server its subserver, if any.   *)
LEMMA AskersAre ==
    /\ \A p \in Askers : p \in Processes /\ ServerFor(p) \in Servers /\ ServerFor(p) # p
    /\ \A c \in Clients : c \in Askers /\ c \notin Servers /\ ServerFor(c) = server_of[c]
    /\ \A s \in Servers : /\ ServerFor(s) = subserver[s] /\ s \in Processes
                          /\ s \in Askers <=> subserver[s] # Nobody
  BY ServerAssumption, ClientAssumption, NoLoop DEF Askers, ServerFor, Processes

(* A server has requests only of those who ask it.                         *)
AllAsk(q, s) == \A i \in DOMAIN q : Asks(q[i].from, s)
FromOK(s) == /\ AllAsk(inbox[s], s)
             /\ server[s].work.from # Nobody => Asks(server[s].work.from, s)
FromInv == \A s \in Servers : FromOK(s)

(* Such queues stay so when who asks the server sends, and when it takes   *)
(* one.                                                                    *)
LEMMA AllAskKept ==
    ASSUME NEW q \in Seq(Datagrams), NEW s, AllAsk(q, s)
    PROVE  /\ \A d \in Datagrams : Asks(d.from, s) => AllAsk(Append(q, d), s)
           /\ q # <<>> => Asks(Head(q).from, s) /\ AllAsk(Tail(q), s)
           /\ AllAsk(<<>>, s)
<1>1. ASSUME NEW d \in Datagrams, Asks(d.from, s)
      PROVE  AllAsk(Append(q, d), s)
  BY <1>1, QueueIs DEF AllAsk
<1>2. ASSUME q # <<>>
      PROVE  Asks(Head(q).from, s) /\ AllAsk(Tail(q), s)
  BY <1>2, QueueIs DEF AllAsk
<1> QED BY <1>1, <1>2 DEF AllAsk

LEMMA SentIs ==
    ASSUME TypeOK, NEW p \in Processes, NEW x \in Packets
    PROVE  LET d == [from |-> p, request |-> x] IN d \in Datagrams /\ d.from = p /\ d.request = x
  BY DEF Datagrams

(* A client has been interrupted only when it has stopped its task.        *)
Usr2Inv == \A c \in Clients : client[c].SIGUSR2 => client[c].pc = "join"

(* While the driver still creates processes, no client has been signalled  *)
(* and so none has gone beyond its first sigwait.                          *)
Early == driver \in {"create", "forked", "sleep", "terminated"}
EarlyOK(c) == /\ client[c].job \in {"none", "cbs", "sigwait", "ended"} /\ signals[c] = {}
              /\ client[c].pc \notin {"stop", "interrupt", "join", "exited", "killed"}
EarlyInv == Early /\ Sound => \A c \in Clients : EarlyOK(c)

(* Requests go only to the server that is asked.                           *)
LEMMA FromInvKept ==
    ASSUME TypeOK, ServerInv, FromInv, [Next]_vars
    PROVE  FromInv'
<1>a. ASSUME NEW s \in Servers, OtherServers(s), FromOK(s)', \A t \in Servers : t # s => inbox'[t] = inbox[t]
      PROVE  FromInv'
  BY <1>a DEF FromInv, FromOK, OtherServers
<1>c. server' = server /\ inbox' = inbox => FromInv'
  BY DEF FromInv, FromOK
<1>d. ASSUME NEW t \in Servers, NEW d \in Datagrams, Asks(d.from, t),
             inbox' = [inbox EXCEPT ![t] = Append(@, d)],
             \A s \in Servers : server'[s].work = server[s].work
      PROVE  FromInv'
  <2>1. inbox[t] \in Seq(Datagrams) /\ AllAsk(inbox[t], t) /\ DOMAIN inbox = Servers
    BY FieldsAre DEF FromInv, FromOK
  <2>2. AllAsk(inbox'[t], t)
    BY <1>d, <2>1, AllAskKept
  <2>3. \A s \in Servers : s # t => inbox'[s] = inbox[s]
    BY <1>d, <2>1
  <2> QED BY <1>d, <2>2, <2>3 DEF FromInv, FromOK
<1>1. ASSUME NEW s \in Servers, CheckTerminated(s), ServerStep
      PROVE  FromInv'
  <2>1. FromOK(s)'
    <3>1. server'[s].work = server[s].work \/ server'[s].work = NoWork
      BY <1>1, CheckTerminatedIs DEF ServerIsOver, KeepsWork
    <3>2. inbox'[s] = inbox[s] \/ inbox'[s] = <<>>
      BY <1>1, CheckTerminatedIs
    <3> QED BY <3>1, <3>2 DEF FromInv, FromOK, AllAsk, NoWork
  <2>2. \A t \in Servers : t # s => inbox'[t] = inbox[t]
    BY <1>1, CheckTerminatedIs
  <2> QED BY <1>1, <1>a, <2>1, <2>2, CheckTerminatedIs
<1>2. ASSUME NEW s \in Servers, FallAsleep(s), ServerStep
      PROVE  FromInv'
  <2>1. FromOK(s)'
    BY <1>2, FallAsleepIs DEF FromInv, FromOK, ServerIsOver, KeepsWork, NoWork
  <2> QED BY <1>2, <1>a, <2>1, FallAsleepIs
<1>3. ASSUME NEW s \in Servers, Receive(s), ServerStep
      PROVE  FromInv'
  <2>1. /\ inbox'[s] = Tail(inbox[s]) /\ server'[s].work = Head(inbox[s]) /\ inbox[s] # <<>>
        /\ OtherServers(s) /\ \A t \in Servers : t # s => inbox'[t] = inbox[t]
    BY <1>3, ReceiveIs
  <2>2. inbox[s] \in Seq(Datagrams) /\ AllAsk(inbox[s], s)
    BY FieldsAre DEF FromInv, FromOK
  <2>3. FromOK(s)'
    BY <2>1, <2>2, AllAskKept DEF FromOK
  <2> QED BY <1>a, <2>1, <2>3
<1>4. ASSUME NEW s \in Servers, NEW ok \in BOOLEAN, ServerStart(s, ok), ServerStep
      PROVE  FromInv'
  <2>1. FromOK(s)'
    BY <1>4, ServerStartIs DEF FromInv, FromOK, ServerIsOver, KeepsWork, NoWork
  <2> QED BY <1>4, <1>a, <2>1, ServerStartIs
<1>5. ASSUME NEW s \in Servers, NEW ok \in BOOLEAN, Lend(s, ok), ServerStep
      PROVE  FromInv'
  <2>1. FromOK(s)'
    BY <1>5, LendIs DEF FromInv, FromOK, ServerIsOver, KeepsWork, NoWork
  <2> QED BY <1>5, <1>a, <2>1, LendIs
<1>6. ASSUME NEW s \in Servers, Forward(s), ServerStep
      PROVE  FromInv'
  <2>1. /\ OtherServers(s) /\ server'[s].work = server[s].work
        /\ subserver[s] \in Servers /\ subserver[s] # s /\ Asks(s, subserver[s])
        /\ server[s].buffer \in Packets /\ s \in Processes
    <3>1. server[s].pc = "forward" /\ subserver[s] # Nobody
      BY <1>6, ForwardIs DEF ServerInv, ServerOK, Working
    <3>2. server[s].buffer \in Packets
      BY TypeIs DEF ServerRec
    <3>3. OtherServers(s) /\ server'[s].work = server[s].work
      BY <1>6, ForwardIs
    <3>4. subserver[s] \in Servers /\ subserver[s] # s /\ s \in Processes
      BY <3>1, ServerAssumption, NoLoop DEF Processes
    <3>5. Asks(s, subserver[s])
      BY <3>1, AskersAre DEF Asks
    <3> QED BY <3>2, <3>3, <3>4, <3>5
  <2>2. CASE inbox' = inbox
    <3>1. FromOK(s)'
      BY <2>1, <2>2 DEF FromInv, FromOK
    <3> QED BY <1>a, <2>1, <2>2, <3>1
  <2>3. CASE inbox' = [inbox EXCEPT ![subserver[s]] = Append(@, [from |-> s, request |-> server[s].buffer])]
    <3>1. PICK d \in Datagrams : d = [from |-> s, request |-> server[s].buffer] /\ d.from = s
      BY <2>1, SentIs
    <3>2. \A t \in Servers : server'[t].work = server[t].work
      BY <2>1 DEF OtherServers
    <3> QED BY <1>d, <2>1, <2>3, <3>1, <3>2
  <2> QED BY <1>6, <2>2, <2>3, ForwardIs
<1>7. ASSUME NEW s \in Servers, Await(s), ServerStep
      PROVE  FromInv'
  <2>1. FromOK(s)'
    BY <1>7, AwaitIs DEF FromInv, FromOK, ServerIsOver, KeepsWork, NoWork
  <2> QED BY <1>7, <1>a, <2>1, AwaitIs
<1>8. ASSUME NEW s \in Servers, GiveUpRequest(s), ServerStep
      PROVE  FromInv'
  <2>1. FromOK(s)'
    <3>1. server'[s].work = server[s].work \/ server'[s].work = NoWork
      BY <1>8, GiveUpRequestIs DEF ServerIsOver, KeepsWork
    <3>2. inbox'[s] = inbox[s] \/ inbox'[s] = <<>>
      BY <1>8, GiveUpRequestIs
    <3> QED BY <3>1, <3>2 DEF FromInv, FromOK, AllAsk, NoWork
  <2>2. \A t \in Servers : t # s => inbox'[t] = inbox[t]
    BY <1>8, GiveUpRequestIs
  <2> QED BY <1>8, <1>a, <2>1, <2>2, GiveUpRequestIs
<1>9. ASSUME NEW s \in Servers, Reply(s), ServerStep
      PROVE  FromInv'
  <2>1. FromOK(s)'
    BY <1>9, ReplyIs DEF FromInv, FromOK, ServerIsOver, KeepsWork, NoWork
  <2> QED BY <1>9, <1>a, <2>1, ReplyIs
<1>10. ASSUME NEW s \in Servers, TakeSIGTERM(s), ServerStep
      PROVE  FromInv'
  <2>1. FromOK(s)'
    BY <1>10, TakeSIGTERMIs DEF FromInv, FromOK, ServerIsOver, KeepsWork, NoWork
  <2> QED BY <1>10, <1>a, <2>1, TakeSIGTERMIs
<1>11. ASSUME NEW s \in Servers, TakeSIGUSR1(s), ServerStep
      PROVE  FromInv'
  <2>1. FromOK(s)'
    BY <1>11, TakeSIGUSR1Is DEF FromInv, FromOK, ServerIsOver, KeepsWork, NoWork
  <2> QED BY <1>11, <1>a, <2>1, TakeSIGUSR1Is
<1>12. ASSUME NEW s \in Servers, NEW ok \in BOOLEAN, SwitchScheduler(s, ok), ServerStep
      PROVE  FromInv'
  <2>1. FromOK(s)'
    BY <1>12, SwitchSchedulerIs DEF FromInv, FromOK, ServerIsOver, KeepsWork, NoWork
  <2> QED BY <1>12, <1>a, <2>1, SwitchSchedulerIs
<1>13. ASSUME NEW s \in Servers, GiveUpSubserver(s), ServerStep
      PROVE  FromInv'
  <2>1. FromOK(s)'
    <3>1. server'[s].work = server[s].work \/ server'[s].work = NoWork
      BY <1>13, GiveUpSubserverIs DEF ServerIsOver, KeepsWork
    <3>2. inbox'[s] = inbox[s] \/ inbox'[s] = <<>>
      BY <1>13, GiveUpSubserverIs
    <3> QED BY <3>1, <3>2 DEF FromInv, FromOK, AllAsk, NoWork
  <2>2. \A t \in Servers : t # s => inbox'[t] = inbox[t]
    BY <1>13, GiveUpSubserverIs
  <2> QED BY <1>13, <1>a, <2>1, <2>2, GiveUpSubserverIs
<1>14. ASSUME NEW c \in Clients, NEW ok \in BOOLEAN, ClientStart(c, ok), ClientStep
      PROVE  FromInv'
  BY <1>14, <1>c, ClientStartIs
<1>15. ASSUME NEW c \in Clients, NEW ok \in BOOLEAN, MeasureDone(c, ok), ClientStep
      PROVE  FromInv'
  BY <1>15, <1>c, MeasureDoneIs
<1>16. ASSUME NEW c \in Clients, SignalServer(c), ClientStep
      PROVE  FromInv'
  BY <1>16, <1>c, SignalServerIs
<1>17. ASSUME NEW c \in Clients, MeasureSend(c), ClientStep
      PROVE  FromInv'
  <2>1. server' = server /\ Request(c) \in Packets /\ Asks(c, server_of[c]) /\ c \in Processes /\ server_of[c] \in Servers
    BY <1>17, MeasureSendIs, AskersAre, ClientAssumption, Fresh, TypeIs DEF Asks, Processes
  <2>2. CASE inbox' = inbox
    BY <1>c, <2>1, <2>2
  <2>3. CASE inbox' = [inbox EXCEPT ![server_of[c]] = Append(@, [from |-> c, request |-> Request(c)])]
    BY <1>d, <2>1, <2>3, SentIs
  <2> QED BY <1>17, <2>2, <2>3, MeasureSendIs
<1>18. ASSUME NEW c \in Clients, MeasureReceive(c), ClientStep
      PROVE  FromInv'
  BY <1>18, <1>c, MeasureReceiveIs
<1>19. ASSUME NEW c \in Clients, GiveUpMeasurement(c), ClientStep
      PROVE  FromInv'
  BY <1>19, <1>c, GiveUpMeasurementIs
<1>20. ASSUME NEW c \in Clients, TakeTerm(c), ClientStep
      PROVE  FromInv'
  BY <1>20, <1>c, TakeTermIs
<1>21. ASSUME NEW c \in Clients, StopTask(c), ClientStep
      PROVE  FromInv'
  BY <1>21, <1>c, StopTaskIs
<1>22. ASSUME NEW c \in Clients, InterruptRecv(c), ClientStep
      PROVE  FromInv'
  BY <1>22, <1>c, InterruptRecvIs
<1>23. ASSUME NEW c \in Clients, Join(c), ClientStep
      PROVE  FromInv'
  BY <1>23, <1>c, JoinIs
<1>24. ASSUME NEW c \in Clients, NEW ok \in BOOLEAN, EnterCbs(c, ok), ClientStep
      PROVE  FromInv'
  BY <1>24, <1>c, EnterCbsIs
<1>25. ASSUME NEW c \in Clients, NEW ok \in BOOLEAN, CreateTask(c, ok), ClientStep
      PROVE  FromInv'
  BY <1>25, <1>c, CreateTaskIs
<1>26. ASSUME NEW c \in Clients, NEW ok \in BOOLEAN, Release(c, ok), ClientStep
      PROVE  FromInv'
  BY <1>26, <1>c, ReleaseIs
<1>27. ASSUME NEW c \in Clients, SendRequest(c), ClientStep
      PROVE  FromInv'
  <2>1. server' = server /\ Request(c) \in Packets /\ Asks(c, server_of[c]) /\ c \in Processes /\ server_of[c] \in Servers
    BY <1>27, SendRequestIs, AskersAre, ClientAssumption, Fresh, TypeIs DEF Asks, Processes
  <2>2. CASE inbox' = inbox
    BY <1>c, <2>1, <2>2
  <2>3. CASE inbox' = [inbox EXCEPT ![server_of[c]] = Append(@, [from |-> c, request |-> Request(c)])]
    BY <1>d, <2>1, <2>3, SentIs
  <2> QED BY <1>27, <2>2, <2>3, SendRequestIs
<1>28. ASSUME NEW c \in Clients, RecvFallsAsleep(c), ClientStep
      PROVE  FromInv'
  BY <1>28, <1>c, RecvFallsAsleepIs
<1>29. ASSUME NEW c \in Clients, TakeSIGUSR2(c), ClientStep
      PROVE  FromInv'
  BY <1>29, <1>c, TakeSIGUSR2Is
<1>30. ASSUME NEW c \in Clients, ReceiveResponse(c), ClientStep
      PROVE  FromInv'
  BY <1>30, <1>c, ReceiveResponseIs
<1>31. ASSUME NEW c \in Clients, NEW ok \in BOOLEAN, EndJob(c, ok), ClientStep
      PROVE  FromInv'
  BY <1>31, <1>c, EndJobIs
<1>32. ASSUME Fork
      PROVE  FromInv'
  <2>1. \A s \in Servers : server'[s].work = server[s].work
    BY <1>32, FieldsAre DEF Fork, ServerFields
  <2> QED BY <1>32, <2>1 DEF Fork, FromInv, FromOK
<1>33. ASSUME StoreProcId
      PROVE  FromInv'
  BY <1>33, <1>c DEF StoreProcId, clientVars, serverVars
<1>34. ASSUME SleepASecond
      PROVE  FromInv'
  BY <1>34, <1>c DEF SleepASecond, clientVars, serverVars
<1>35. ASSUME StartClients
      PROVE  FromInv'
  BY <1>35, <1>c DEF StartClients
<1>36. ASSUME StopClients
      PROVE  FromInv'
  BY <1>36, <1>c DEF StopClients
<1>37. ASSUME StopServers
      PROVE  FromInv'
  BY <1>37, <1>c DEF StopServers
<1>38. ASSUME Wait
      PROVE  FromInv'
  BY <1>38, <1>c DEF Wait, clientVars, serverVars
<1>39. ASSUME TerminateDriver
      PROVE  FromInv'
  <2>1. ASSUME NEW s \in Servers
        PROVE  FromOK(s)'
    <3>1. server'[s] = server[s] \/ server'[s] = Over("exited", FALSE)
      BY <1>39 DEF TerminateDriver
    <3>3. server'[s].work = server[s].work \/ server'[s].work = NoWork
      BY <3>1 DEF Over, NewServer
    <3>2. inbox'[s] = inbox[s] \/ inbox'[s] = <<>>
      BY <1>39 DEF TerminateDriver
    <3> QED BY <3>2, <3>3 DEF FromInv, FromOK, AllAsk, NoWork
  <2> QED BY <2>1 DEF FromInv
<1>40. CASE UNCHANGED vars
  BY <1>40, <1>c DEF vars, clientVars, serverVars
<1>41. ASSUME NEW s \in Servers, ForwardFails(s), ServerStep
      PROVE  FromInv'
  <2>1. FromOK(s)'
    BY <1>41, ForwardFailsIs DEF FromInv, FromOK
  <2> QED BY <1>41, <1>a, <2>1, ForwardFailsIs
<1>42. ASSUME NEW s \in Servers, Drops(s), ServerStep
      PROVE  FromInv'
  <2>1. FromOK(s)'
    <3>1. server'[s].work = server[s].work \/ server'[s].work = NoWork
      BY <1>42, DropsIs DEF ServerIsOver, KeepsWork
    <3>2. inbox'[s] = inbox[s] \/ inbox'[s] = <<>>
      BY <1>42, DropsIs
    <3> QED BY <3>1, <3>2 DEF FromInv, FromOK, AllAsk, NoWork
  <2>2. \A t \in Servers : t # s => inbox'[t] = inbox[t]
    BY <1>42, DropsIs
  <2> QED BY <1>42, <1>a, <2>1, <2>2, DropsIs
<1> QED
    BY <1>1, <1>2, <1>3, <1>4, <1>5, <1>6, <1>7, <1>8, <1>9, <1>10, <1>11, <1>12, <1>13, <1>14,
     <1>15, <1>16, <1>17, <1>18, <1>19, <1>20, <1>21, <1>22, <1>23, <1>24, <1>25, <1>26, <1>27,
     <1>28, <1>29, <1>30, <1>31, <1>32, <1>33, <1>34, <1>35, <1>36, <1>37, <1>38, <1>39, <1>40, <1>41, <1>42
    DEF Next, ServerProgram, ServerHandler, ClientMain, ClientThread, Driver, ServerStep,
     ClientStep, Drops

(* Only a client that has stopped its task signals its thread.             *)
LEMMA Usr2InvKept ==
    ASSUME TypeOK, DriverInv, Usr2Inv, [Next]_vars
    PROVE  Usr2Inv'
<1>a. ASSUME NEW c \in Clients, OtherClients(c), client'[c].SIGUSR2 => client'[c].pc = "join"
      PROVE  Usr2Inv'
  BY <1>a DEF Usr2Inv, OtherClients
<1>1. ASSUME NEW s \in Servers, CheckTerminated(s), ServerStep
      PROVE  Usr2Inv'
  BY <1>1 DEF ServerStep, Usr2Inv
<1>2. ASSUME NEW s \in Servers, FallAsleep(s), ServerStep
      PROVE  Usr2Inv'
  BY <1>2 DEF ServerStep, Usr2Inv
<1>3. ASSUME NEW s \in Servers, Receive(s), ServerStep
      PROVE  Usr2Inv'
  BY <1>3 DEF ServerStep, Usr2Inv
<1>4. ASSUME NEW s \in Servers, NEW ok \in BOOLEAN, ServerStart(s, ok), ServerStep
      PROVE  Usr2Inv'
  BY <1>4 DEF ServerStep, Usr2Inv
<1>5. ASSUME NEW s \in Servers, NEW ok \in BOOLEAN, Lend(s, ok), ServerStep
      PROVE  Usr2Inv'
  BY <1>5 DEF ServerStep, Usr2Inv
<1>6. ASSUME NEW s \in Servers, Forward(s), ServerStep
      PROVE  Usr2Inv'
  BY <1>6 DEF ServerStep, Usr2Inv
<1>7. ASSUME NEW s \in Servers, Await(s), ServerStep
      PROVE  Usr2Inv'
  BY <1>7 DEF ServerStep, Usr2Inv
<1>8. ASSUME NEW s \in Servers, GiveUpRequest(s), ServerStep
      PROVE  Usr2Inv'
  BY <1>8 DEF ServerStep, Usr2Inv
<1>9. ASSUME NEW s \in Servers, Reply(s), ServerStep
      PROVE  Usr2Inv'
  BY <1>9 DEF ServerStep, Usr2Inv
<1>10. ASSUME NEW s \in Servers, TakeSIGTERM(s), ServerStep
      PROVE  Usr2Inv'
  BY <1>10 DEF ServerStep, Usr2Inv
<1>11. ASSUME NEW s \in Servers, TakeSIGUSR1(s), ServerStep
      PROVE  Usr2Inv'
  BY <1>11 DEF ServerStep, Usr2Inv
<1>12. ASSUME NEW s \in Servers, NEW ok \in BOOLEAN, SwitchScheduler(s, ok), ServerStep
      PROVE  Usr2Inv'
  BY <1>12 DEF ServerStep, Usr2Inv
<1>13. ASSUME NEW s \in Servers, GiveUpSubserver(s), ServerStep
      PROVE  Usr2Inv'
  BY <1>13 DEF ServerStep, Usr2Inv
<1>14. ASSUME NEW c \in Clients, NEW ok \in BOOLEAN, ClientStart(c, ok), ClientStep
      PROVE  Usr2Inv'
  <2>1. client'[c].SIGUSR2 => client'[c].pc = "join"
    <3>1. CASE ok
      BY <1>14, <3>1, FieldsAre
        DEF ClientStart, ClientFields, Gone, NewClient, Usr2Inv, Kill
    <3>2. CASE ~ok
      BY <1>14, <3>2, FieldsAre
        DEF ClientStart, ClientFields, Gone, NewClient, Usr2Inv, Kill
    <3> QED BY <3>1, <3>2
  <2> QED BY <1>14, <1>a, <2>1, ClientStartIs
<1>15. ASSUME NEW c \in Clients, NEW ok \in BOOLEAN, MeasureDone(c, ok), ClientStep
      PROVE  Usr2Inv'
  <2>1. client'[c].SIGUSR2 => client'[c].pc = "join"
    <3>1. CASE client[c].result = "answer" /\ client[c].got = Request(c) /\ ok
      BY <1>15, <3>1, FieldsAre
        DEF MeasureDone, ClientFields, Gone, NewClient, Usr2Inv, Kill
    <3>2. CASE ~(client[c].result = "answer" /\ client[c].got = Request(c) /\ ok)
      BY <1>15, <3>2, FieldsAre
        DEF MeasureDone, ClientFields, Gone, NewClient, Usr2Inv, Kill
    <3> QED BY <3>1, <3>2
  <2> QED BY <1>15, <1>a, <2>1, MeasureDoneIs
<1>16. ASSUME NEW c \in Clients, SignalServer(c), ClientStep
      PROVE  Usr2Inv'
  <2>1. client'[c].SIGUSR2 => client'[c].pc = "join"
    BY <1>16, FieldsAre
    DEF SignalServer, ClientFields, Gone, NewClient, Usr2Inv, Kill
  <2> QED BY <1>16, <1>a, <2>1, SignalServerIs
<1>17. ASSUME NEW c \in Clients, MeasureSend(c), ClientStep
      PROVE  Usr2Inv'
  <2>1. client'[c].SIGUSR2 = client[c].SIGUSR2 /\ client[c].pc # "join"
    <3>1. \/ client' = [client EXCEPT ![c].pc = "measure"]
          \/ client' = [client EXCEPT ![c].pc = "signal_back", ![c].result = "refused"]
      BY <1>17 DEF MeasureSend
    <3>2. client[c].pc = "enter"
      BY <1>17 DEF MeasureSend
    <3> QED BY <3>1, <3>2, FieldsAre DEF ClientFields
  <2>2. ~client'[c].SIGUSR2
    BY <2>1 DEF Usr2Inv
  <2> QED BY <1>17, <1>a, <2>2, MeasureSendIs
<1>18. ASSUME NEW c \in Clients, MeasureReceive(c), ClientStep
      PROVE  Usr2Inv'
  <2>1. client'[c].SIGUSR2 => client'[c].pc = "join"
    BY <1>18, FieldsAre
    DEF MeasureReceive, ClientFields, Gone, NewClient, Usr2Inv, Kill
  <2> QED BY <1>18, <1>a, <2>1, MeasureReceiveIs
<1>19. ASSUME NEW c \in Clients, GiveUpMeasurement(c), ClientStep
      PROVE  Usr2Inv'
  <2>1. client'[c].SIGUSR2 => client'[c].pc = "join"
    BY <1>19, FieldsAre
    DEF GiveUpMeasurement, ClientFields, Gone, NewClient, Usr2Inv, Kill
  <2> QED BY <1>19, <1>a, <2>1, GiveUpMeasurementIs
<1>20. ASSUME NEW c \in Clients, TakeTerm(c), ClientStep
      PROVE  Usr2Inv'
  <2>1. client'[c].SIGUSR2 => client'[c].pc = "join"
    BY <1>20, FieldsAre
    DEF TakeTerm, ClientFields, Gone, NewClient, Usr2Inv, Kill
  <2> QED BY <1>20, <1>a, <2>1, TakeTermIs
<1>21. ASSUME NEW c \in Clients, StopTask(c), ClientStep
      PROVE  Usr2Inv'
  <2>1. client'[c].SIGUSR2 => client'[c].pc = "join"
    <3>1. CASE "SIGTERM" \notin signals[c] /\ client[c].created
      BY <1>21, <3>1, FieldsAre
        DEF StopTask, ClientFields, Gone, NewClient, Usr2Inv, Kill
    <3>2. CASE "SIGTERM" \in signals[c]
      BY <1>21, <3>2, FieldsAre
        DEF StopTask, ClientFields, Gone, NewClient, Usr2Inv, Kill
    <3>3. CASE "SIGTERM" \notin signals[c] /\ ~client[c].created
      BY <1>21, <3>3, FieldsAre
        DEF StopTask, ClientFields, Gone, NewClient, Usr2Inv, Kill
    <3> QED BY <3>1, <3>2, <3>3
  <2> QED BY <1>21, <1>a, <2>1, StopTaskIs
<1>22. ASSUME NEW c \in Clients, InterruptRecv(c), ClientStep
      PROVE  Usr2Inv'
  <2>1. client'[c].SIGUSR2 => client'[c].pc = "join"
    BY <1>22, FieldsAre
    DEF InterruptRecv, ClientFields, Gone, NewClient, Usr2Inv, Kill
  <2> QED BY <1>22, <1>a, <2>1, InterruptRecvIs
<1>23. ASSUME NEW c \in Clients, Join(c), ClientStep
      PROVE  Usr2Inv'
  <2>1. client'[c].SIGUSR2 => client'[c].pc = "join"
    BY <1>23, FieldsAre
    DEF Join, ClientFields, Gone, NewClient, Usr2Inv, Kill
  <2> QED BY <1>23, <1>a, <2>1, JoinIs
<1>24. ASSUME NEW c \in Clients, NEW ok \in BOOLEAN, EnterCbs(c, ok), ClientStep
      PROVE  Usr2Inv'
  <2>1. client'[c].SIGUSR2 => client'[c].pc = "join"
    BY <1>24, FieldsAre
    DEF EnterCbs, ClientFields, Gone, NewClient, Usr2Inv, Kill
  <2> QED BY <1>24, <1>a, <2>1, EnterCbsIs
<1>25. ASSUME NEW c \in Clients, NEW ok \in BOOLEAN, CreateTask(c, ok), ClientStep
      PROVE  Usr2Inv'
  <2>1. client'[c].SIGUSR2 => client'[c].pc = "join"
    <3>1. CASE ok
      BY <1>25, <3>1, FieldsAre
        DEF CreateTask, ClientFields, Gone, NewClient, Usr2Inv, Kill
    <3>2. CASE ~ok
      BY <1>25, <3>2, FieldsAre
        DEF CreateTask, ClientFields, Gone, NewClient, Usr2Inv, Kill
    <3> QED BY <3>1, <3>2
  <2> QED BY <1>25, <1>a, <2>1, CreateTaskIs
<1>26. ASSUME NEW c \in Clients, NEW ok \in BOOLEAN, Release(c, ok), ClientStep
      PROVE  Usr2Inv'
  <2>1. client'[c].SIGUSR2 => client'[c].pc = "join"
    <3>1. CASE ok
      BY <1>26, <3>1, FieldsAre
        DEF Release, ClientFields, Gone, NewClient, Usr2Inv, Kill
    <3>2. CASE ~ok
      BY <1>26, <3>2, FieldsAre
        DEF Release, ClientFields, Gone, NewClient, Usr2Inv, Kill
    <3> QED BY <3>1, <3>2
  <2> QED BY <1>26, <1>a, <2>1, ReleaseIs
<1>27. ASSUME NEW c \in Clients, SendRequest(c), ClientStep
      PROVE  Usr2Inv'
  <2>1. client'[c].SIGUSR2 => client'[c].pc = "join"
    <3>1. CASE Bound(server_of[c])
      BY <1>27, <3>1, FieldsAre
        DEF SendRequest, ClientFields, Gone, NewClient, Usr2Inv, Kill
    <3>2. CASE ~Bound(server_of[c])
      BY <1>27, <3>2, FieldsAre
        DEF SendRequest, ClientFields, Gone, NewClient, Usr2Inv, Kill
    <3> QED BY <3>1, <3>2
  <2> QED BY <1>27, <1>a, <2>1, SendRequestIs
<1>28. ASSUME NEW c \in Clients, RecvFallsAsleep(c), ClientStep
      PROVE  Usr2Inv'
  <2>1. client'[c].SIGUSR2 => client'[c].pc = "join"
    BY <1>28, FieldsAre
    DEF RecvFallsAsleep, ClientFields, Gone, NewClient, Usr2Inv, Kill
  <2> QED BY <1>28, <1>a, <2>1, RecvFallsAsleepIs
<1>29. ASSUME NEW c \in Clients, TakeSIGUSR2(c), ClientStep
      PROVE  Usr2Inv'
  <2>1. client'[c].SIGUSR2 => client'[c].pc = "join"
    <3>1. CASE client[c].job = "recv_asleep"
      BY <1>29, <3>1, FieldsAre
        DEF TakeSIGUSR2, ClientFields, Gone, NewClient, Usr2Inv, Kill
    <3>2. CASE client[c].job # "recv_asleep"
      BY <1>29, <3>2, FieldsAre
        DEF TakeSIGUSR2, ClientFields, Gone, NewClient, Usr2Inv, Kill
    <3> QED BY <3>1, <3>2
  <2> QED BY <1>29, <1>a, <2>1, TakeSIGUSR2Is
<1>30. ASSUME NEW c \in Clients, ReceiveResponse(c), ClientStep
      PROVE  Usr2Inv'
  <2>1. client'[c].SIGUSR2 => client'[c].pc = "join"
    BY <1>30, FieldsAre
    DEF ReceiveResponse, ClientFields, Gone, NewClient, Usr2Inv, Kill
  <2> QED BY <1>30, <1>a, <2>1, ReceiveResponseIs
<1>31. ASSUME NEW c \in Clients, NEW ok \in BOOLEAN, EndJob(c, ok), ClientStep
      PROVE  Usr2Inv'
  <2>1. \/ client' = [client EXCEPT ![c] = Gone("failed")] \/ client' = [client EXCEPT ![c] = Gone("killed")]
        \/ client'[c].SIGUSR2 = client[c].SIGUSR2 /\ client'[c].pc = client[c].pc
    <3>1. \/ client' = [client EXCEPT ![c] = Gone("failed")] \/ client' = [client EXCEPT ![c] = Gone("killed")]
          \/ client' = [client EXCEPT ![c] = [client[c] EXCEPT !.lent = FALSE, !.result = "none",
                                                 !.job = IF client[c].stopped THEN "ended" ELSE "sleep"]]
      BY <1>31 DEF EndJob
    <3>2. CASE client' = [client EXCEPT ![c] = [client[c] EXCEPT !.lent = FALSE, !.result = "none",
                                                 !.job = IF client[c].stopped THEN "ended" ELSE "sleep"]]
      BY <3>2, FieldsAre DEF ClientFields
    <3> QED BY <3>1, <3>2
  <2>2. client'[c].SIGUSR2 => client'[c].pc = "join"
    BY ZenonT(60), <2>1, FieldsAre DEF Gone, NewClient, Usr2Inv
  <2> QED BY <1>31, <1>a, <2>2, EndJobIs
<1>32. ASSUME Fork
      PROVE  Usr2Inv'
  <2>1. Order[next] \in Clients => client[Order[next]].pc = "down"
    BY <1>32, PlaceIs, FieldsAre DEF Fork, DriverInv, Down
  <2>2. \A c \in Clients : client'[c].SIGUSR2 <=> client[c].SIGUSR2
    <3>1. client' = client \/ \E p \in Clients : client' = [client EXCEPT ![p].pc = "starting"]
      BY <1>32 DEF Fork
    <3> QED BY <3>1, FieldsAre DEF ClientFields
  <2>4. \A c \in Clients : c # Order[next] => client'[c].pc = client[c].pc
    BY <1>32, FieldsAre DEF Fork
  <2>3. ASSUME NEW c \in Clients, client'[c].SIGUSR2
        PROVE  client'[c].pc = "join"
    <3>1. client[c].SIGUSR2 /\ client[c].pc = "join"
      BY <2>2, <2>3 DEF Usr2Inv
    <3> QED BY <2>1, <2>4, <3>1
  <2> QED BY <2>3 DEF Usr2Inv
<1>33. ASSUME StoreProcId
      PROVE  Usr2Inv'
  BY <1>33 DEF StoreProcId, clientVars, serverVars, Usr2Inv
<1>34. ASSUME SleepASecond
      PROVE  Usr2Inv'
  BY <1>34 DEF SleepASecond, clientVars, serverVars, Usr2Inv
<1>35. ASSUME StartClients
      PROVE  Usr2Inv'
  BY <1>35 DEF StartClients, SignalClients, Usr2Inv, Gone, NewClient
<1>36. ASSUME StopClients
      PROVE  Usr2Inv'
  BY <1>36 DEF StopClients, SignalClients, Usr2Inv, Gone, NewClient
<1>37. ASSUME StopServers
      PROVE  Usr2Inv'
  BY <1>37 DEF StopServers, clientVars, serverVars, Usr2Inv
<1>38. ASSUME Wait
      PROVE  Usr2Inv'
  BY <1>38 DEF Wait, clientVars, serverVars, Usr2Inv
<1>39. ASSUME TerminateDriver
      PROVE  Usr2Inv'
  BY <1>39 DEF TerminateDriver, Usr2Inv, Gone, NewClient
<1>40. CASE UNCHANGED vars
  BY <1>40 DEF vars, clientVars, serverVars, Usr2Inv
<1>41. ASSUME NEW s \in Servers, ForwardFails(s), ServerStep
      PROVE  Usr2Inv'
  BY <1>41 DEF ServerStep, Usr2Inv
<1>42. ASSUME NEW s \in Servers, Drops(s), ServerStep
      PROVE  Usr2Inv'
  BY <1>42 DEF ServerStep, Usr2Inv
<1> QED
    BY <1>1, <1>2, <1>3, <1>4, <1>5, <1>6, <1>7, <1>8, <1>9, <1>10, <1>11, <1>12, <1>13, <1>14,
     <1>15, <1>16, <1>17, <1>18, <1>19, <1>20, <1>21, <1>22, <1>23, <1>24, <1>25, <1>26, <1>27,
     <1>28, <1>29, <1>30, <1>31, <1>32, <1>33, <1>34, <1>35, <1>36, <1>37, <1>38, <1>39, <1>40, <1>41, <1>42
    DEF Next, ServerProgram, ServerHandler, ClientMain, ClientThread, Driver, ServerStep,
     ClientStep, Drops

(* The driver goes back to such a state only if it is terminated, which    *)
(* is sound only while there is no process.                                *)
LEMMA EarlyBefore ==
    ASSUME TypeOK, DriverInv, [Next]_vars, Early', Sound'
    PROVE  Early \/ Clients = {}
<1>1. CASE Early
  BY <1>1
<1>2. CASE ~Early
  <2>1. driver \in {"run", "stopping", "wait", "exited"}
    BY <1>2, TypeIs DEF Early
  <2>2. TerminateDriver
    BY <1>2, <2>1 DEF Next, ServerProgram, ServerHandler, ClientMain, ClientThread, Driver, vars,
       Fork, StoreProcId, SleepASecond, StartClients, StopClients, StopServers, Wait, Early
  <2>3. pids = {} /\ next = Len(Order) + 1
    BY <2>1, <2>2 DEF TerminateDriver, Sound, DriverInv
  <2>4. \A c \in Clients : Place(c) \in DOMAIN Order /\ Place(c) < next /\ Order[Place(c)] = c
    BY <2>3, PlaceIs DEF Processes
  <2> QED BY <2>3, <2>4 DEF DriverInv
<1> QED BY <1>1, <1>2

(* No client starts before the driver has created them all.                *)
LEMMA EarlyKept ==
    ASSUME TypeOK, DriverInv, ClientInv, EarlyInv, Early', Sound', NEW k \in Clients, [Next]_vars
    PROVE  EarlyOK(k)'
<1>d. /\ \A s \in Servers : k # s /\ k # subserver[s]
      /\ \A c \in Clients : k # server_of[c]
  BY ServerAssumption, ClientAssumption DEF Processes
<1>b. k \in Processes /\ k \notin Servers
  BY ServerAssumption DEF Processes
<1>a. EarlyOK(k) /\ \A c \in Clients : EarlyOK(c)
  <2>1. Sound /\ Early
    BY SoundBefore, EarlyBefore
  <2> QED BY <2>1 DEF EarlyInv
<1>e. client'[k].pc # "failed"
  BY <1>b DEF Sound, Failed
<1>1. ASSUME NEW s \in Servers, CheckTerminated(s), ServerStep
      PROVE  EarlyOK(k)'
  <2>1. client'[k] = client[k] /\ signals'[k] = signals[k]
    BY <1>1, <1>b, CheckTerminatedIs DEF ServerStep
  <2> QED BY <1>a, <2>1 DEF EarlyOK
<1>2. ASSUME NEW s \in Servers, FallAsleep(s), ServerStep
      PROVE  EarlyOK(k)'
  <2>1. client'[k] = client[k] /\ signals'[k] = signals[k]
    BY <1>2, <1>b, FallAsleepIs DEF ServerStep
  <2> QED BY <1>a, <2>1 DEF EarlyOK
<1>3. ASSUME NEW s \in Servers, Receive(s), ServerStep
      PROVE  EarlyOK(k)'
  <2>1. client'[k] = client[k] /\ signals'[k] = signals[k]
    BY <1>3, <1>b, ReceiveIs DEF ServerStep
  <2> QED BY <1>a, <2>1 DEF EarlyOK
<1>4. ASSUME NEW s \in Servers, NEW ok \in BOOLEAN, ServerStart(s, ok), ServerStep
      PROVE  EarlyOK(k)'
  <2>1. client'[k] = client[k] /\ signals'[k] = signals[k]
    BY <1>4, <1>b, ServerStartIs DEF ServerStep
  <2> QED BY <1>a, <2>1 DEF EarlyOK
<1>5. ASSUME NEW s \in Servers, NEW ok \in BOOLEAN, Lend(s, ok), ServerStep
      PROVE  EarlyOK(k)'
  <2>1. client'[k] = client[k] /\ signals'[k] = signals[k]
    BY <1>5, <1>b, LendIs DEF ServerStep
  <2> QED BY <1>a, <2>1 DEF EarlyOK
<1>6. ASSUME NEW s \in Servers, Forward(s), ServerStep
      PROVE  EarlyOK(k)'
  <2>1. client'[k] = client[k] /\ signals'[k] = signals[k]
    BY <1>6, <1>b, ForwardIs DEF ServerStep
  <2> QED BY <1>a, <2>1 DEF EarlyOK
<1>7. ASSUME NEW s \in Servers, Await(s), ServerStep
      PROVE  EarlyOK(k)'
  <2>1. client'[k] = client[k] /\ signals'[k] = signals[k]
    BY <1>7, <1>b, AwaitIs DEF ServerStep
  <2> QED BY <1>a, <2>1 DEF EarlyOK
<1>8. ASSUME NEW s \in Servers, GiveUpRequest(s), ServerStep
      PROVE  EarlyOK(k)'
  <2>1. client'[k] = client[k] /\ signals'[k] = signals[k]
    BY <1>8, <1>b, GiveUpRequestIs DEF ServerStep
  <2> QED BY <1>a, <2>1 DEF EarlyOK
<1>9. ASSUME NEW s \in Servers, Reply(s), ServerStep
      PROVE  EarlyOK(k)'
  <2>1. client'[k] = client[k] /\ signals'[k] = signals[k]
    BY <1>9, <1>b, ReplyIs DEF ServerStep
  <2> QED BY <1>a, <2>1 DEF EarlyOK
<1>10. ASSUME NEW s \in Servers, TakeSIGTERM(s), ServerStep
      PROVE  EarlyOK(k)'
  <2>1. client'[k] = client[k] /\ signals'[k] = signals[k]
    BY <1>10, <1>b, TakeSIGTERMIs DEF ServerStep
  <2> QED BY <1>a, <2>1 DEF EarlyOK
<1>11. ASSUME NEW s \in Servers, TakeSIGUSR1(s), ServerStep
      PROVE  EarlyOK(k)'
  <2>1. client'[k] = client[k]
    BY <1>11 DEF ServerStep
  <2>2. signals'[k] = signals[k]
    BY ZenonT(60), <1>11, <1>b, <1>d, TakeSIGUSR1Is
  <2> QED BY <1>a, <2>1, <2>2 DEF EarlyOK
<1>12. ASSUME NEW s \in Servers, NEW ok \in BOOLEAN, SwitchScheduler(s, ok), ServerStep
      PROVE  EarlyOK(k)'
  <2>1. client'[k] = client[k] /\ signals'[k] = signals[k]
    BY <1>12, <1>b, SwitchSchedulerIs DEF ServerStep
  <2> QED BY <1>a, <2>1 DEF EarlyOK
<1>13. ASSUME NEW s \in Servers, GiveUpSubserver(s), ServerStep
      PROVE  EarlyOK(k)'
  <2>1. client'[k] = client[k] /\ signals'[k] = signals[k]
    BY <1>13, <1>b, GiveUpSubserverIs DEF ServerStep
  <2> QED BY <1>a, <2>1 DEF EarlyOK
<1>14. ASSUME NEW c \in Clients, NEW ok \in BOOLEAN, ClientStart(c, ok), ClientStep
      PROVE  EarlyOK(k)'
  <2>1. signals'[k] = signals[k]
    BY <1>14, <1>a, <1>b, ClientStartIs, ClientAssumption DEF EarlyOK
  <2>2. CASE k = c
    BY <1>14, <1>a, <1>e, <2>1, <2>2, ClientStartIs DEF ClientIsGone, EarlyOK, KeepsMain, KeepsTask
  <2>3. CASE k # c
    BY <1>14, <1>a, <2>1, <2>3, ClientStartIs DEF OtherClients, EarlyOK
  <2> QED BY <2>2, <2>3
<1>15. ASSUME NEW c \in Clients, NEW ok \in BOOLEAN, MeasureDone(c, ok), ClientStep
      PROVE  EarlyOK(k)'
  <2>1. signals'[k] = signals[k]
    BY <1>15, <1>a, <1>b, MeasureDoneIs, ClientAssumption DEF EarlyOK
  <2>2. CASE k = c
    BY <1>15, <1>a, <1>e, <2>1, <2>2, MeasureDoneIs DEF ClientIsGone, EarlyOK, KeepsMain, KeepsTask
  <2>3. CASE k # c
    BY <1>15, <1>a, <2>1, <2>3, MeasureDoneIs DEF OtherClients, EarlyOK
  <2> QED BY <2>2, <2>3
<1>16. ASSUME NEW c \in Clients, SignalServer(c), ClientStep
      PROVE  EarlyOK(k)'
  <2>1. signals'[k] = signals[k]
    BY ZenonT(60), <1>16, <1>b, <1>d, SignalServerIs
  <2>2. CASE k = c
    BY <1>16, <1>a, <2>1, <2>2, SignalServerIs DEF KeepsMain, KeepsTask, EarlyOK
  <2>3. CASE k # c
    BY <1>16, <1>a, <2>1, <2>3, SignalServerIs DEF OtherClients, EarlyOK
  <2> QED BY <2>2, <2>3
<1>17. ASSUME NEW c \in Clients, MeasureSend(c), ClientStep
      PROVE  EarlyOK(k)'
  <2>1. signals'[k] = signals[k]
    BY <1>17, <1>a, <1>b, MeasureSendIs, ClientAssumption DEF EarlyOK
  <2>2. CASE k = c
    BY <1>17, <1>a, <2>1, <2>2, MeasureSendIs DEF KeepsMain, KeepsTask, EarlyOK
  <2>3. CASE k # c
    BY <1>17, <1>a, <2>1, <2>3, MeasureSendIs DEF OtherClients, EarlyOK
  <2> QED BY <2>2, <2>3
<1>18. ASSUME NEW c \in Clients, MeasureReceive(c), ClientStep
      PROVE  EarlyOK(k)'
  <2>1. signals'[k] = signals[k]
    BY <1>18, <1>a, <1>b, MeasureReceiveIs, ClientAssumption DEF EarlyOK
  <2>2. CASE k = c
    BY <1>18, <1>a, <2>1, <2>2, MeasureReceiveIs DEF KeepsMain, KeepsTask, EarlyOK
  <2>3. CASE k # c
    BY <1>18, <1>a, <2>1, <2>3, MeasureReceiveIs DEF OtherClients, EarlyOK
  <2> QED BY <2>2, <2>3
<1>19. ASSUME NEW c \in Clients, GiveUpMeasurement(c), ClientStep
      PROVE  EarlyOK(k)'
  <2>1. signals'[k] = signals[k]
    BY <1>19, <1>a, <1>b, GiveUpMeasurementIs, ClientAssumption DEF EarlyOK
  <2>2. CASE k = c
    BY <1>19, <1>a, <1>e, <2>1, <2>2, GiveUpMeasurementIs DEF ClientIsGone, EarlyOK, KeepsMain, KeepsTask
  <2>3. CASE k # c
    BY <1>19, <1>a, <2>1, <2>3, GiveUpMeasurementIs DEF OtherClients, EarlyOK
  <2> QED BY <2>2, <2>3
<1>20. ASSUME NEW c \in Clients, TakeTerm(c), ClientStep
      PROVE  EarlyOK(k)'
  BY <1>20, <1>a, TakeTermIs DEF EarlyOK
<1>21. ASSUME NEW c \in Clients, StopTask(c), ClientStep
      PROVE  EarlyOK(k)'
  BY <1>21, <1>a, StopTaskIs DEF EarlyOK
<1>22. ASSUME NEW c \in Clients, InterruptRecv(c), ClientStep
      PROVE  EarlyOK(k)'
  BY <1>22, <1>a, InterruptRecvIs DEF EarlyOK
<1>23. ASSUME NEW c \in Clients, Join(c), ClientStep
      PROVE  EarlyOK(k)'
  BY <1>23, <1>a, JoinIs DEF EarlyOK
<1>24. ASSUME NEW c \in Clients, NEW ok \in BOOLEAN, EnterCbs(c, ok), ClientStep
      PROVE  EarlyOK(k)'
  <2>1. signals'[k] = signals[k]
    BY <1>24, <1>a, <1>b, EnterCbsIs, ClientAssumption DEF EarlyOK
  <2>2. CASE k = c
    BY <1>24, <1>a, <2>1, <2>2, EnterCbsIs DEF KeepsMain, KeepsTask, EarlyOK
  <2>3. CASE k # c
    BY <1>24, <1>a, <2>1, <2>3, EnterCbsIs DEF OtherClients, EarlyOK
  <2> QED BY <2>2, <2>3
<1>25. ASSUME NEW c \in Clients, NEW ok \in BOOLEAN, CreateTask(c, ok), ClientStep
      PROVE  EarlyOK(k)'
  BY <1>25, <1>a, CreateTaskIs DEF EarlyOK
<1>26. ASSUME NEW c \in Clients, NEW ok \in BOOLEAN, Release(c, ok), ClientStep
      PROVE  EarlyOK(k)'
  BY <1>26, <1>a, ReleaseIs DEF EarlyOK
<1>27. ASSUME NEW c \in Clients, SendRequest(c), ClientStep
      PROVE  EarlyOK(k)'
  BY <1>27, <1>a, SendRequestIs DEF EarlyOK
<1>28. ASSUME NEW c \in Clients, RecvFallsAsleep(c), ClientStep
      PROVE  EarlyOK(k)'
  BY <1>28, <1>a, RecvFallsAsleepIs DEF EarlyOK
<1>29. ASSUME NEW c \in Clients, TakeSIGUSR2(c), ClientStep
      PROVE  EarlyOK(k)'
  BY <1>29, <1>a, TakeSIGUSR2Is DEF EarlyOK
<1>30. ASSUME NEW c \in Clients, ReceiveResponse(c), ClientStep
      PROVE  EarlyOK(k)'
  BY <1>30, <1>a, ReceiveResponseIs DEF EarlyOK
<1>31. ASSUME NEW c \in Clients, NEW ok \in BOOLEAN, EndJob(c, ok), ClientStep
      PROVE  EarlyOK(k)'
  BY <1>31, <1>a, EndJobIs DEF EarlyOK
<1>32. ASSUME Fork
      PROVE  EarlyOK(k)'
  <2>1. next \in DOMAIN Order /\ driver = "create"
    BY <1>32, PlaceIs, FieldsAre DEF Fork
  <2>2. k = Order[next] => client[k].pc = "down" /\ client[k].job = "none"
    BY <2>1 DEF DriverInv, Down, ClientInv, ClientOK
  <2>3. client'[k].job = client[k].job /\ (client'[k].pc = client[k].pc \/ client'[k].pc = "starting")
    <3>1. \/ client' = client
          \/ client' = [client EXCEPT ![Order[next]].pc = "starting"]
      BY <1>32 DEF Fork
    <3>2. DOMAIN client = Clients /\ DOMAIN client[k] = ClientFields
      BY FieldsAre
    <3> QED BY <3>1, <3>2 DEF ClientFields
  <2> QED BY <1>32, <1>a, <2>3 DEF Fork, EarlyOK
<1>33. ASSUME StoreProcId
      PROVE  EarlyOK(k)'
  BY <1>33, <1>a DEF StoreProcId, clientVars, serverVars, EarlyOK
<1>34. ASSUME SleepASecond
      PROVE  EarlyOK(k)'
  BY <1>34, <1>a DEF SleepASecond, clientVars, serverVars, EarlyOK
<1>35. ASSUME StartClients
      PROVE  EarlyOK(k)'
  BY <1>35 DEF StartClients, Early
<1>36. ASSUME StopClients
      PROVE  EarlyOK(k)'
  BY <1>36 DEF StopClients, Early
<1>37. ASSUME StopServers
      PROVE  EarlyOK(k)'
  BY <1>37 DEF StopServers, Early
<1>38. ASSUME Wait
      PROVE  EarlyOK(k)'
  BY <1>38 DEF Wait, Early
<1>39. ASSUME TerminateDriver
      PROVE  EarlyOK(k)'
  <2>1. pids = {}
    BY <1>39 DEF TerminateDriver, Sound
  <2>2. client'[k] = client[k] /\ signals'[k] = signals[k]
    BY <1>39, <1>b, <2>1 DEF TerminateDriver
  <2> QED BY <1>a, <2>2 DEF EarlyOK
<1>40. CASE UNCHANGED vars
  BY <1>40, <1>a DEF vars, clientVars, serverVars, EarlyOK
<1>41. ASSUME NEW s \in Servers, ForwardFails(s), ServerStep
      PROVE  EarlyOK(k)'
  <2>1. client'[k] = client[k] /\ signals'[k] = signals[k]
    BY <1>41, <1>b, ForwardFailsIs DEF ServerStep
  <2> QED BY <1>a, <2>1 DEF EarlyOK
<1>42. ASSUME NEW s \in Servers, Drops(s), ServerStep
      PROVE  EarlyOK(k)'
  <2>1. client'[k] = client[k] /\ signals'[k] = signals[k]
    BY <1>42, <1>b, DropsIs DEF ServerStep
  <2> QED BY <1>a, <2>1 DEF EarlyOK
<1> QED
    BY <1>1, <1>2, <1>3, <1>4, <1>5, <1>6, <1>7, <1>8, <1>9, <1>10, <1>11, <1>12, <1>13, <1>14,
     <1>15, <1>16, <1>17, <1>18, <1>19, <1>20, <1>21, <1>22, <1>23, <1>24, <1>25, <1>26, <1>27,
     <1>28, <1>29, <1>30, <1>31, <1>32, <1>33, <1>34, <1>35, <1>36, <1>37, <1>38, <1>39, <1>40, <1>41, <1>42
    DEF Next, ServerProgram, ServerHandler, ClientMain, ClientThread, Driver, ServerStep,
     ClientStep, Drops

LEMMA EarlyInvKept ==
    ASSUME TypeOK, DriverInv, ClientInv, EarlyInv, [Next]_vars
    PROVE  EarlyInv'
  BY EarlyKept DEF EarlyInv

-----------------------------------------------------------------------------
(* What p has under way, as a total over its server's queue and work and   *)
(* its own answers.                                                        *)
Total(q, w, a, p) == Count(q, p) + (IF w = p THEN 1 ELSE 0) + Len(a)

InFlight(p) == Total(inbox[ServerFor(p)], server[ServerFor(p)].work.from, answers[p], p)

LEMMA InFlightIs ==
    ASSUME NEW p
    PROVE  /\ InFlight(p) = Total(inbox[ServerFor(p)], server[ServerFor(p)].work.from, answers[p], p)
           /\ InFlight(p)' = Total(inbox'[ServerFor(p)], server'[ServerFor(p)].work.from, answers'[p], p)
  BY DEF InFlight, ServerFor

(* What p has outstanding is that, and what a failing call has cost it.    *)
LEMMA OutstandingIs ==
    ASSUME NEW p \in Askers
    PROVE  /\ Outstanding(p) = InFlight(p) + unanswered[p]
           /\ Outstanding(p)' = InFlight(p)' + unanswered'[p]
  BY DEF Outstanding, InFlight, Total, Count, Places, ServerFor

(* A request sent adds one, one taken to be worked on and one answered     *)
(* add nothing, and an answer received subtracts one.                      *)
LEMMA TotalIs ==
    ASSUME NEW q \in Seq(Datagrams), NEW w, NEW a \in Seq(Packets), NEW p, p # Nobody
    PROVE  /\ Total(q, w, a, p) \in Nat
           /\ \A d \in Datagrams : /\ d.from = p => Total(Append(q, d), w, a, p) = Total(q, w, a, p) + 1
                                   /\ d.from # p => Total(Append(q, d), w, a, p) = Total(q, w, a, p)
           /\ q # <<>> /\ w = Nobody => Total(Tail(q), Head(q).from, a, p) = Total(q, w, a, p)
           /\ \A x \in Packets : w = p => Total(q, Nobody, Append(a, x), p) = Total(q, w, a, p)
           /\ a # <<>> => Total(q, w, Tail(a), p) = Total(q, w, a, p) - 1
           /\ Total(q, Nobody, a, p) <= Total(q, w, a, p)
           /\ Total(<<>>, Nobody, a, p) <= Total(q, w, a, p)
<1>1. Count(q, p) \in Nat /\ Len(a) \in Nat /\ Count(<<>>, p) = 0
  BY PlacesAreFinite, CountEmpty
<1>2. \A d \in Datagrams : Count(Append(q, d), p) = IF d.from = p THEN Count(q, p) + 1 ELSE Count(q, p)
  BY CountAppend
<1>3. q # <<>> => Count(Tail(q), p) = IF Head(q).from = p THEN Count(q, p) - 1 ELSE Count(q, p)
  BY CountTail
<1>4. /\ \A x \in Packets : Len(Append(a, x)) = Len(a) + 1
      /\ a # <<>> => Len(Tail(a)) = Len(a) - 1
  OBVIOUS
<1>5. Total(q, w, a, p) \in Nat
  BY <1>1 DEF Total
<1>6. \A d \in Datagrams : /\ d.from = p => Total(Append(q, d), w, a, p) = Total(q, w, a, p) + 1
                           /\ d.from # p => Total(Append(q, d), w, a, p) = Total(q, w, a, p)
  BY <1>1, <1>2 DEF Total
<1>7. q # <<>> /\ w = Nobody => Total(Tail(q), Head(q).from, a, p) = Total(q, w, a, p)
  BY <1>1, <1>3 DEF Total
<1>8. \A x \in Packets : w = p => Total(q, Nobody, Append(a, x), p) = Total(q, w, a, p)
  BY <1>1, <1>4 DEF Total
<1>9. a # <<>> => Total(q, w, Tail(a), p) = Total(q, w, a, p) - 1
  BY <1>1, <1>4 DEF Total
<1>10. Total(q, Nobody, a, p) <= Total(q, w, a, p) /\ Total(<<>>, Nobody, a, p) <= Total(q, w, a, p)
  BY <1>1 DEF Total
<1> QED BY <1>5, <1>6, <1>7, <1>8, <1>9, <1>10

(* Whoever is still to get what it waits for: not a process that has ended *)
(* or a server or client that was told to end while it waited.             *)
Owed(p) == /\ p \in Servers => /\ server[p].pc \notin {"exited", "failed", "interrupted"}
                               /\ ~(server[p].pc = "check" /\ server[p].terminated)
           /\ p \in Clients => /\ client[p].pc \notin Dead
                               /\ ~(client[p].stopped /\ client[p].job \in {"revoke", "ended"})

(* Until the servers are told to end nothing is lost; after that a request *)
(* may be, but still none is answered twice.                               *)
PairOK(p) == Owed(p) => /\ Outstanding(p) <= IF Waiting(p) THEN 1 ELSE 0
                        /\ ~Ending => Outstanding(p) = IF Waiting(p) THEN 1 ELSE 0
PairInv == Sound => \A p \in Askers : PairOK(p)

(* A server that gives up a request does so because it is to end.          *)
IntInv == Sound => \A s \in Servers : server[s].pc = "interrupted" => server[s].terminated

(* A step that changes what p has from before to after.                    *)
Moved(p, before, after) ==
    Owed(p)' => /\ Owed(p)
                /\ \/ after = before /\ (Waiting(p)' <=> Waiting(p))
                   \/ after = before + 1 /\ ~Waiting(p) /\ Waiting(p)'
                   \/ after = before - 1 /\ Waiting(p) /\ ~Waiting(p)'
                   \/ after <= before /\ (Waiting(p)' <=> Waiting(p)) /\ Ending'

Moves(p) == Moved(p, Outstanding(p), Outstanding(p)')
Flows(p) == Moved(p, InFlight(p), InFlight(p)')

(* Such steps keep p waiting for exactly what it has outstanding.          *)
LEMMA PairMoves ==
    ASSUME NEW p, Outstanding(p) \in Nat, Outstanding(p)' \in Nat, Moves(p), PairOK(p),
           Ending => Ending'
    PROVE  PairOK(p)'
<1> SUFFICES ASSUME Owed(p)' PROVE PairOK(p)'
  BY DEF PairOK
<1>1. Owed(p)
  BY DEF Moves, Moved
<1>2. CASE Outstanding(p)' = Outstanding(p) /\ (Waiting(p)' <=> Waiting(p))
  BY <1>1, <1>2 DEF PairOK
<1>3. CASE Outstanding(p)' = Outstanding(p) + 1 /\ ~Waiting(p) /\ Waiting(p)'
  BY <1>1, <1>3 DEF PairOK
<1>4. CASE Outstanding(p)' = Outstanding(p) - 1 /\ Waiting(p) /\ ~Waiting(p)'
  BY <1>1, <1>4 DEF PairOK
<1>5. CASE Outstanding(p)' <= Outstanding(p) /\ (Waiting(p)' <=> Waiting(p)) /\ Ending'
  BY <1>1, <1>5 DEF PairOK
<1> QED BY <1>2, <1>3, <1>4, <1>5 DEF Moves, Moved

SameState(p) == /\ p \in Servers => /\ server'[p].pc = server[p].pc
                                    /\ server'[p].terminated = server[p].terminated
                /\ p \in Clients => /\ client'[p].pc = client[p].pc
                                    /\ client'[p].stopped = client[p].stopped
                                    /\ client'[p].job = client[p].job

LEMMA StateSame ==
    ASSUME NEW p, SameState(p)
    PROVE  (Owed(p)' <=> Owed(p)) /\ (Waiting(p)' <=> Waiting(p))
  BY DEF SameState, Owed, Waiting

(* Every step of which no call fails sends at most one request or takes at *)
(* most one answer of p.                                                   *)
LEMMA FlowsAlways ==
    ASSUME TypeOK, DriverInv, ClientInv, ServerInv, FromInv, Usr2Inv, IntInv, Sound, Sound',
           NEW p \in Askers, [Next]_vars, \A s \in Servers : ~(Drops(s) /\ ServerStep)
    PROVE  Flows(p)
<1>p. /\ p \in Processes /\ ServerFor(p) \in Servers /\ ServerFor(p) # p /\ p # Nobody
      /\ p \in Servers => p \notin Clients
  BY AskersAre, ServerAssumption
<1>d. p \in Clients => p \notin Servers
  BY <1>p
<1>q. inbox[ServerFor(p)] \in Seq(Datagrams) /\ answers[p] \in Seq(Packets)
  BY <1>p, FieldsAre
<1>o. /\ InFlight(p) = Total(inbox[ServerFor(p)], server[ServerFor(p)].work.from, answers[p], p)
      /\ InFlight(p)' = Total(inbox'[ServerFor(p)], server'[ServerFor(p)].work.from, answers'[p], p)
  BY InFlightIs
<1>s. inbox'[ServerFor(p)] = inbox[ServerFor(p)] /\ server'[ServerFor(p)].work = server[ServerFor(p)].work
      /\ answers'[p] = answers[p] => InFlight(p)' = InFlight(p)
  BY <1>o
<1>t. SameState(p) => (Owed(p)' <=> Owed(p)) /\ (Waiting(p)' <=> Waiting(p))
  BY StateSame
<1> DEFINE q == inbox[ServerFor(p)]
           w == server[ServerFor(p)].work.from
           a == answers[p]
<1>u. /\ Total(q, w, a, p) \in Nat
      /\ \A d \in Datagrams : /\ d.from = p => Total(Append(q, d), w, a, p) = Total(q, w, a, p) + 1
                              /\ d.from # p => Total(Append(q, d), w, a, p) = Total(q, w, a, p)
      /\ q # <<>> /\ w = Nobody => Total(Tail(q), Head(q).from, a, p) = Total(q, w, a, p)
      /\ \A x \in Packets : w = p => Total(q, Nobody, Append(a, x), p) = Total(q, w, a, p)
      /\ a # <<>> => Total(q, w, Tail(a), p) = Total(q, w, a, p) - 1
      /\ Total(q, Nobody, a, p) <= Total(q, w, a, p)
      /\ Total(<<>>, Nobody, a, p) <= Total(q, w, a, p)
  BY <1>p, <1>q, TotalIs
<1>1. ASSUME NEW s \in Servers, CheckTerminated(s), ServerStep
      PROVE  Flows(p)
  <2>1. CASE server[s].terminated
    <3>1. CASE p = s
      <4>1. ~Owed(p)'
        BY <1>1, <2>1, <3>1, CheckTerminatedIs DEF ServerIsOver, Owed
      <4> QED BY <4>1 DEF Flows, Moved
    <3>2. CASE p # s
      <4>1. SameState(p)
        BY <1>1, <3>2, CheckTerminatedIs DEF OtherServers, ServerStep, SameState
      <4>2. Ending'
        BY <1>1, <2>1 DEF ServerInv, ServerOK, ServerStep, Ending
      <4>3. answers'[p] = answers[p]
        BY <1>1, <1>p, <2>1, <3>2, CheckTerminatedIs
      <4>4. CASE ServerFor(p) = s
        <5>1. inbox'[s] = <<>> /\ server'[s].work = NoWork /\ NoWork.from = Nobody
          BY <1>1, <2>1, CheckTerminatedIs DEF ServerIsOver, NoWork
        <5>2. InFlight(p)' <= InFlight(p)
          BY <1>o, <1>p, <1>q, <4>3, <4>4, <5>1, <1>u
        <5> QED BY <1>t, <4>1, <4>2, <5>2 DEF Flows, Moved
      <4>5. CASE ServerFor(p) # s
        <5>1. InFlight(p)' = InFlight(p)
          BY <1>1, <1>p, <1>s, <2>1, <4>3, <4>5, CheckTerminatedIs DEF OtherServers
        <5> QED BY <1>t, <4>1, <5>1 DEF Flows, Moved
      <4> QED BY <4>4, <4>5
    <3> QED BY <3>1, <3>2
  <2>2. CASE ~server[s].terminated
    <3>1. InFlight(p)' = InFlight(p)
      <4>1. inbox' = inbox /\ answers' = answers /\ \A t \in Servers : server'[t].work = server[t].work
        BY <1>1, <2>2, CheckTerminatedIs DEF OtherServers, KeepsWork
      <4> QED BY <1>p, <1>s, <4>1
    <3>2. CASE p = s
      <4>1. Owed(p)' => Owed(p) /\ (Waiting(p)' <=> Waiting(p))
        BY <1>1, <1>p, <2>2, <3>2, CheckTerminatedIs DEF Owed, Waiting, KeepsMode
      <4> QED BY <3>1, <4>1 DEF Flows, Moved
    <3>3. CASE p # s
      <4>1. SameState(p)
        BY <1>1, <3>3, CheckTerminatedIs DEF OtherServers, ServerStep, SameState
      <4> QED BY <1>t, <3>1, <4>1 DEF Flows, Moved
    <3> QED BY <3>2, <3>3
  <2> QED BY <2>1, <2>2
<1>2. ASSUME NEW s \in Servers, FallAsleep(s), ServerStep
      PROVE  Flows(p)
  <2>1. InFlight(p)' = InFlight(p)
    <3>1. inbox' = inbox /\ answers' = answers /\ \A t \in Servers : server'[t].work = server[t].work
      BY <1>2, FallAsleepIs DEF OtherServers, KeepsWork
    <3> QED BY <1>p, <1>s, <3>1
  <2>2. CASE p = s
    <3>1. Owed(p)' => Owed(p) /\ (Waiting(p)' <=> Waiting(p))
      BY <1>2, <1>p, <2>2, FallAsleepIs DEF Owed, Waiting, KeepsMode, Interrupted
    <3> QED BY <2>1, <3>1 DEF Flows, Moved
  <2>3. CASE p # s
    <3>1. SameState(p)
      BY <1>2, <2>3, FallAsleepIs DEF OtherServers, ServerStep, SameState
    <3> QED BY <1>t, <2>1, <3>1 DEF Flows, Moved
  <2> QED BY <2>2, <2>3
<1>3. ASSUME NEW s \in Servers, Receive(s), ServerStep
      PROVE  Flows(p)
  <2>1. InFlight(p)' = InFlight(p)
    <3>1. CASE ServerFor(p) = s
      <4>1. server[s].work.from = Nobody
        BY <1>3, ReceiveIs DEF ServerInv, ServerOK, Working
      <4>2. /\ inbox[s] # <<>> /\ inbox'[s] = Tail(inbox[s]) /\ answers' = answers
            /\ server'[s].work = Head(inbox[s])
        BY <1>3, ReceiveIs
      <4> QED BY <1>o, <1>p, <1>q, <3>1, <4>1, <4>2, <1>u
    <3>2. CASE ServerFor(p) # s
      BY <1>3, <1>p, <1>s, <3>2, ReceiveIs DEF OtherServers
    <3> QED BY <3>1, <3>2
  <2>2. CASE p = s
    <3>1. Owed(p)' => Owed(p) /\ (Waiting(p)' <=> Waiting(p))
      BY <1>3, <1>p, <2>2, ReceiveIs DEF Owed, Waiting, KeepsMode
    <3> QED BY <2>1, <3>1 DEF Flows, Moved
  <2>3. CASE p # s
    <3>1. SameState(p)
      BY <1>3, <2>3, ReceiveIs DEF OtherServers, ServerStep, SameState
    <3> QED BY <1>t, <2>1, <3>1 DEF Flows, Moved
  <2> QED BY <2>2, <2>3
<1>4. ASSUME NEW s \in Servers, NEW ok \in BOOLEAN, ServerStart(s, ok), ServerStep
      PROVE  Flows(p)
  <2>1. InFlight(p)' = InFlight(p)
    <3>1. inbox' = inbox /\ answers' = answers /\ \A t \in Servers : server'[t].work = server[t].work
      BY <1>4, ServerStartIs DEF OtherServers, KeepsWork
    <3> QED BY <1>p, <1>s, <3>1
  <2>2. CASE p = s
    <3>1. Owed(p)' => Owed(p) /\ (Waiting(p)' <=> Waiting(p))
      BY <1>4, <1>p, <2>2, ServerStartIs DEF Owed, Waiting, KeepsMode, Interrupted
    <3> QED BY <2>1, <3>1 DEF Flows, Moved
  <2>3. CASE p # s
    <3>1. SameState(p)
      BY <1>4, <2>3, ServerStartIs DEF OtherServers, ServerStep, SameState
    <3> QED BY <1>t, <2>1, <3>1 DEF Flows, Moved
  <2> QED BY <2>2, <2>3
<1>5. ASSUME NEW s \in Servers, NEW ok \in BOOLEAN, Lend(s, ok), ServerStep
      PROVE  Flows(p)
  <2>1. InFlight(p)' = InFlight(p)
    <3>1. inbox' = inbox /\ answers' = answers /\ \A t \in Servers : server'[t].work = server[t].work
      BY <1>5, LendIs DEF OtherServers, KeepsWork
    <3> QED BY <1>p, <1>s, <3>1
  <2>2. CASE p = s
    <3>1. Owed(p)' => Owed(p) /\ (Waiting(p)' <=> Waiting(p))
      BY <1>5, <1>p, <2>2, LendIs DEF Owed, Waiting, KeepsMode, Interrupted
    <3> QED BY <2>1, <3>1 DEF Flows, Moved
  <2>3. CASE p # s
    <3>1. SameState(p)
      BY <1>5, <2>3, LendIs DEF OtherServers, ServerStep, SameState
    <3> QED BY <1>t, <2>1, <3>1 DEF Flows, Moved
  <2> QED BY <2>2, <2>3
<1>6. ASSUME NEW s \in Servers, Forward(s), ServerStep
      PROVE  Flows(p)
  <2>1. /\ subserver[s] \in Servers /\ subserver[s] # s /\ s \in Processes /\ server[s].buffer \in Packets
        /\ ServerFor(s) = subserver[s]
    <3>1. server[s].pc = "forward" /\ subserver[s] # Nobody
      BY <1>6, ForwardIs DEF ServerInv, ServerOK, Working
    <3>2. server[s].buffer \in Packets
      BY TypeIs DEF ServerRec
    <3> QED BY <3>1, <3>2, AskersAre, ServerAssumption, NoLoop DEF Processes
  <2>2. /\ OtherServers(s) /\ answers' = answers /\ KeepsMode(s) /\ server'[s].work = server[s].work
        /\ server[s].pc = "forward"
    BY <1>6, ForwardIs
  <2>3. \A t \in Servers : server'[t].work = server[t].work
    BY <2>2 DEF OtherServers
  <2>4. p # s => SameState(p)
    BY <1>6, <2>2 DEF OtherServers, ServerStep, SameState
  <2>5. p = s => (Owed(p)' => Owed(p)) /\ ~Waiting(p)
    BY <1>p, <2>2 DEF KeepsMode, Owed, Waiting
  <2>6. CASE inbox' = inbox
    <3>1. InFlight(p)' = InFlight(p)
      BY <1>p, <1>s, <2>2, <2>3, <2>6
    <3>2. CASE p = s
      <4>1. server'[s].pc = "reply"
        <5>1. DOMAIN inbox = Servers /\ inbox[subserver[s]] \in Seq(Datagrams)
          BY <2>1, FieldsAre
        <5>2. Append(inbox[subserver[s]], [from |-> s, request |-> server[s].buffer]) # inbox[subserver[s]]
          <6>1. [from |-> s, request |-> server[s].buffer] \in Datagrams
            BY <2>1, SentIs
          <6> QED BY <5>1, <6>1
        <5> QED BY <1>6, <2>1, <2>6, <5>1, <5>2, ForwardIs
      <4>2. ~Waiting(p)'
        BY <1>p, <3>2, <4>1 DEF Waiting
      <4> QED BY <2>5, <3>1, <3>2, <4>2 DEF Flows, Moved
    <3> QED BY <1>t, <2>4, <3>1, <3>2 DEF Flows, Moved
  <2>7. CASE /\ server'[s].pc = "await"
             /\ inbox' = [inbox EXCEPT ![subserver[s]] = Append(@, [from |-> s, request |-> server[s].buffer])]
    <3>1. PICK d \in Datagrams : d = [from |-> s, request |-> server[s].buffer] /\ d.from = s
      BY <2>1, SentIs
    <3>2. inbox'[subserver[s]] = Append(inbox[subserver[s]], d) /\ \A t \in Servers : t # subserver[s] => inbox'[t] = inbox[t]
      BY <2>1, <2>7, <3>1, FieldsAre
    <3>3. CASE p = s
      <4>1. InFlight(p)' = InFlight(p) + 1
        <5>1. /\ inbox'[ServerFor(p)] = Append(inbox[ServerFor(p)], d) /\ d.from = p
              /\ server'[ServerFor(p)].work.from = server[ServerFor(p)].work.from /\ answers'[p] = answers[p]
          BY <2>1, <2>2, <2>3, <3>1, <3>2, <3>3
        <5> QED BY <1>o, <5>1, <1>u
      <4>2. Waiting(p)'
        BY <1>p, <2>7, <3>3 DEF Waiting
      <4> QED BY <2>5, <3>3, <4>1, <4>2 DEF Flows, Moved
    <3>4. CASE p # s
      <4>1. InFlight(p)' = InFlight(p)
        <5>1. CASE ServerFor(p) = subserver[s]
          BY <1>o, <1>p, <1>q, <2>1, <2>2, <2>3, <3>1, <3>2, <3>4, <5>1, <1>u
        <5>2. CASE ServerFor(p) # subserver[s]
          BY <1>p, <1>s, <2>2, <2>3, <3>2, <5>2
        <5> QED BY <5>1, <5>2
      <4> QED BY <1>t, <2>4, <3>4, <4>1 DEF Flows, Moved
    <3> QED BY <3>3, <3>4
  <2> QED BY <1>6, <2>6, <2>7, ForwardIs
<1>7. ASSUME NEW s \in Servers, Await(s), ServerStep
      PROVE  Flows(p)
  <2>1. /\ OtherServers(s) /\ inbox' = inbox /\ KeepsMode(s) /\ server'[s].work = server[s].work
        /\ server[s].pc \in {"await", "await_asleep"} /\ server'[s].pc = "reply"
        /\ answers[s] # <<>> /\ \A t \in Processes : answers'[t] = IF t = s THEN Tail(answers[s]) ELSE answers[t]
    BY <1>7, AwaitIs
  <2>2. \A t \in Servers : server'[t].work = server[t].work
    BY <2>1 DEF OtherServers
  <2>3. CASE p = s
    <3>1. InFlight(p)' = InFlight(p) - 1
      BY <1>o, <1>p, <1>q, <2>1, <2>2, <2>3, <1>u
    <3>2. (Owed(p)' => Owed(p)) /\ Waiting(p) /\ ~Waiting(p)'
      BY <1>p, <2>1, <2>3 DEF KeepsMode, Owed, Waiting
    <3> QED BY <3>1, <3>2 DEF Flows, Moved
  <2>4. CASE p # s
    <3>1. InFlight(p)' = InFlight(p)
      BY <1>p, <1>s, <2>1, <2>2, <2>4
    <3>2. SameState(p)
      BY <1>7, <2>1, <2>4 DEF OtherServers, ServerStep, SameState
    <3> QED BY <1>t, <3>1, <3>2 DEF Flows, Moved
  <2> QED BY <2>3, <2>4
<1>8. ASSUME NEW s \in Servers, GiveUpRequest(s), ServerStep
      PROVE  Flows(p)
  <2>1. /\ OtherServers(s) /\ inbox' = inbox /\ answers' = answers /\ server[s].pc = "interrupted"
        /\ server'[s].pc = "check" /\ server'[s].work = NoWork /\ NoWork.from = Nobody
        /\ server'[s].terminated = server[s].terminated
    BY <1>8, GiveUpRequestIs DEF KeepsMode, NoWork
  <2>2. server[s].terminated
    BY <2>1 DEF IntInv
  <2>3. Ending'
    BY <1>8, <2>2 DEF ServerInv, ServerOK, ServerStep, Ending
  <2>4. CASE p = s
    <3>1. ~Owed(p)'
      BY <2>1, <2>2, <2>4 DEF Owed
    <3> QED BY <3>1 DEF Flows, Moved
  <2>5. CASE p # s
    <3>1. SameState(p)
      BY <1>8, <2>1, <2>5 DEF OtherServers, ServerStep, SameState
    <3>2. CASE ServerFor(p) = s
      <4>1. InFlight(p)' <= InFlight(p)
        BY <1>o, <1>p, <1>q, <2>1, <3>2, <1>u
      <4> QED BY <1>t, <2>3, <3>1, <4>1 DEF Flows, Moved
    <3>3. CASE ServerFor(p) # s
      <4>1. InFlight(p)' = InFlight(p)
        BY <1>p, <1>s, <2>1, <3>3 DEF OtherServers
      <4> QED BY <1>t, <3>1, <4>1 DEF Flows, Moved
    <3> QED BY <3>2, <3>3
  <2> QED BY <2>4, <2>5
<1>9. ASSUME NEW s \in Servers, Reply(s), ServerStep
      PROVE  Flows(p)
  <2>1. /\ OtherServers(s) /\ inbox' = inbox /\ server[s].pc = "reply" /\ server'[s].pc = "check"
        /\ server'[s].work = NoWork /\ NoWork.from = Nobody /\ KeepsMode(s)
        /\ answers' = [answers EXCEPT ![server[s].work.from] = Append(@, server[s].buffer)]
    BY <1>9, ReplyIs DEF NoWork
  <2>2. server[s].work.from # Nobody /\ Asks(server[s].work.from, s) /\ server[s].buffer \in Packets
    <3>1. server[s].work.from # Nobody
      BY <2>1 DEF ServerInv, ServerOK, Working
    <3>2. server[s].buffer \in Packets
      BY TypeIs DEF ServerRec
    <3> QED BY <3>1, <3>2 DEF FromInv, FromOK
  <2>3. /\ p = server[s].work.from => answers'[p] = Append(answers[p], server[s].buffer)
        /\ p # server[s].work.from => answers'[p] = answers[p]
    BY <1>p, <2>1, FieldsAre
  <2>4. InFlight(p)' = InFlight(p)
    <3>1. CASE p = server[s].work.from
      <4>1. ServerFor(p) = s
        BY <2>2, <3>1 DEF Asks
      <4> QED BY <1>o, <1>p, <1>q, <2>1, <2>2, <2>3, <3>1, <4>1, <1>u
    <3>2. CASE p # server[s].work.from /\ ServerFor(p) = s
      <4>1. Total(inbox[s], Nobody, answers[p], p) = Total(inbox[s], server[s].work.from, answers[p], p)
        BY <1>p, <3>2 DEF Total
      <4> QED BY <1>o, <2>1, <2>3, <3>2, <4>1
    <3>3. CASE p # server[s].work.from /\ ServerFor(p) # s
      BY <1>p, <1>s, <2>1, <2>3, <3>3 DEF OtherServers
    <3> QED BY <3>1, <3>2, <3>3
  <2>5. CASE p = s
    <3>1. Owed(p)' => Owed(p) /\ (Waiting(p)' <=> Waiting(p))
      BY <1>p, <2>1, <2>5 DEF Owed, Waiting, KeepsMode
    <3> QED BY <2>4, <3>1 DEF Flows, Moved
  <2>6. CASE p # s
    <3>1. SameState(p)
      BY <1>9, <2>1, <2>6 DEF OtherServers, ServerStep, SameState
    <3> QED BY <1>t, <2>4, <3>1 DEF Flows, Moved
  <2> QED BY <2>5, <2>6
<1>10. ASSUME NEW s \in Servers, TakeSIGTERM(s), ServerStep
      PROVE  Flows(p)
  <2>1. InFlight(p)' = InFlight(p)
    <3>1. inbox' = inbox /\ answers' = answers /\ \A t \in Servers : server'[t].work = server[t].work
      BY <1>10, TakeSIGTERMIs DEF OtherServers, KeepsWork
    <3> QED BY <1>p, <1>s, <3>1
  <2>2. CASE p = s
    <3>1. Owed(p)' => Owed(p) /\ (Waiting(p)' <=> Waiting(p))
      BY <1>10, <1>p, <2>2, TakeSIGTERMIs DEF Owed, Waiting, KeepsMode, Interrupted
    <3> QED BY <2>1, <3>1 DEF Flows, Moved
  <2>3. CASE p # s
    <3>1. SameState(p)
      BY <1>10, <2>3, TakeSIGTERMIs DEF OtherServers, ServerStep, SameState
    <3> QED BY <1>t, <2>1, <3>1 DEF Flows, Moved
  <2> QED BY <2>2, <2>3
<1>11. ASSUME NEW s \in Servers, TakeSIGUSR1(s), ServerStep
      PROVE  Flows(p)
  <2>1. InFlight(p)' = InFlight(p)
    <3>1. inbox' = inbox /\ answers' = answers /\ \A t \in Servers : server'[t].work = server[t].work
      BY <1>11, TakeSIGUSR1Is DEF OtherServers, KeepsWork
    <3> QED BY <1>p, <1>s, <3>1
  <2>2. CASE p = s
    <3>1. Owed(p)' => Owed(p) /\ (Waiting(p)' <=> Waiting(p))
      BY <1>11, <1>p, <2>2, TakeSIGUSR1Is DEF Owed, Waiting, KeepsMode, Interrupted
    <3> QED BY <2>1, <3>1 DEF Flows, Moved
  <2>3. CASE p # s
    <3>1. SameState(p)
      BY <1>11, <2>3, TakeSIGUSR1Is DEF OtherServers, ServerStep, SameState
    <3> QED BY <1>t, <2>1, <3>1 DEF Flows, Moved
  <2> QED BY <2>2, <2>3
<1>12. ASSUME NEW s \in Servers, NEW ok \in BOOLEAN, SwitchScheduler(s, ok), ServerStep
      PROVE  Flows(p)
  <2>1. InFlight(p)' = InFlight(p)
    <3>1. inbox' = inbox /\ answers' = answers /\ \A t \in Servers : server'[t].work = server[t].work
      BY <1>12, SwitchSchedulerIs DEF OtherServers, KeepsWork
    <3> QED BY <1>p, <1>s, <3>1
  <2>2. CASE p = s
    <3>1. Owed(p)' => Owed(p) /\ (Waiting(p)' <=> Waiting(p))
      BY <1>12, <1>p, <2>2, SwitchSchedulerIs DEF Owed, Waiting, KeepsMode, Interrupted
    <3> QED BY <2>1, <3>1 DEF Flows, Moved
  <2>3. CASE p # s
    <3>1. SameState(p)
      BY <1>12, <2>3, SwitchSchedulerIs DEF OtherServers, ServerStep, SameState
    <3> QED BY <1>t, <2>1, <3>1 DEF Flows, Moved
  <2> QED BY <2>2, <2>3
<1>13. ASSUME NEW s \in Servers, GiveUpSubserver(s), ServerStep
      PROVE  Flows(p)
  <2>1. ~Sound'
    BY <1>13, GiveUpSubserverIs DEF ServerIsOver, Sound, Failed, Processes
  <2> QED BY <2>1
<1>14. ASSUME NEW c \in Clients, NEW ok \in BOOLEAN, ClientStart(c, ok), ClientStep
      PROVE  Flows(p)
  <2>1. InFlight(p)' = InFlight(p)
    <3>1. inbox' = inbox /\ answers' = answers /\ server' = server
      BY <1>14, ClientStartIs
    <3> QED BY <1>p, <1>s, <3>1
  <2>2. CASE p = c
    <3>1. Owed(p)' => Owed(p) /\ (Waiting(p)' <=> Waiting(p))
      BY <1>14, <1>d, <2>2, ClientStartIs DEF ClientInv, ClientOK, KeepsMain, KeepsTask, ClientIsGone, Owed, Waiting, Dead
    <3> QED BY <2>1, <3>1 DEF Flows, Moved
  <2>3. CASE p # c
    <3>1. SameState(p)
      <4>1. server' = server /\ OtherClients(c)
        BY <1>14, ClientStartIs
      <4> QED BY <2>3, <4>1 DEF OtherClients, SameState
    <3> QED BY <1>t, <2>1, <3>1 DEF Flows, Moved
  <2> QED BY <2>2, <2>3
<1>15. ASSUME NEW c \in Clients, NEW ok \in BOOLEAN, MeasureDone(c, ok), ClientStep
      PROVE  Flows(p)
  <2>1. InFlight(p)' = InFlight(p)
    <3>1. inbox' = inbox /\ answers' = answers /\ server' = server
      BY <1>15, MeasureDoneIs
    <3> QED BY <1>p, <1>s, <3>1
  <2>2. CASE p = c
    <3>1. Owed(p)' => Owed(p) /\ (Waiting(p)' <=> Waiting(p))
      BY <1>15, <1>d, <2>2, MeasureDoneIs DEF ClientInv, ClientOK, KeepsMain, KeepsTask, ClientIsGone, Owed, Waiting, Dead
    <3> QED BY <2>1, <3>1 DEF Flows, Moved
  <2>3. CASE p # c
    <3>1. SameState(p)
      <4>1. server' = server /\ OtherClients(c)
        BY <1>15, MeasureDoneIs
      <4> QED BY <2>3, <4>1 DEF OtherClients, SameState
    <3> QED BY <1>t, <2>1, <3>1 DEF Flows, Moved
  <2> QED BY <2>2, <2>3
<1>16. ASSUME NEW c \in Clients, SignalServer(c), ClientStep
      PROVE  Flows(p)
  <2>1. InFlight(p)' = InFlight(p)
    <3>1. inbox' = inbox /\ answers' = answers /\ server' = server
      BY <1>16, SignalServerIs
    <3> QED BY <1>p, <1>s, <3>1
  <2>2. CASE p = c
    <3>1. Owed(p)' => Owed(p) /\ (Waiting(p)' <=> Waiting(p))
      BY <1>16, <1>d, <2>2, SignalServerIs DEF ClientInv, ClientOK, KeepsMain, KeepsTask, ClientIsGone, Owed, Waiting, Dead
    <3> QED BY <2>1, <3>1 DEF Flows, Moved
  <2>3. CASE p # c
    <3>1. SameState(p)
      <4>1. server' = server /\ OtherClients(c)
        BY <1>16, SignalServerIs
      <4> QED BY <2>3, <4>1 DEF OtherClients, SameState
    <3> QED BY <1>t, <2>1, <3>1 DEF Flows, Moved
  <2> QED BY <2>2, <2>3
<1>17. ASSUME NEW c \in Clients, MeasureSend(c), ClientStep
      PROVE  Flows(p)
  <2>1. /\ server' = server /\ Request(c) \in Packets /\ c \in Processes /\ server_of[c] \in Servers
        /\ ServerFor(c) = server_of[c] /\ answers' = answers /\ OtherClients(c)
    BY <1>17, MeasureSendIs, AskersAre, ClientAssumption, Fresh, TypeIs DEF Processes
  <2>2. p # c => SameState(p)
    BY <2>1 DEF OtherClients, SameState
  <2>3. p = c => (Owed(p)' => Owed(p)) /\ ~Waiting(p)
    BY <1>17, <1>d, MeasureSendIs DEF ClientInv, ClientOK, KeepsMain, KeepsTask, Owed, Waiting, Dead
  <2>4. CASE ~Bound(server_of[c])
    <3>1. InFlight(p)' = InFlight(p)
      BY <1>17, <1>p, <1>s, <2>1, <2>4, MeasureSendIs
    <3>2. p = c => ~Waiting(p)'
      BY <1>17, <1>d, <2>4, MeasureSendIs DEF ClientInv, ClientOK, KeepsMain, KeepsTask, Waiting, Dead
    <3> QED BY <1>t, <2>2, <2>3, <3>1, <3>2 DEF Flows, Moved
  <2>5. CASE Bound(server_of[c])
    <3>1. PICK d \in Datagrams : d = [from |-> c, request |-> Request(c)] /\ d.from = c
      BY <2>1, SentIs
    <3>2. inbox' = [inbox EXCEPT ![server_of[c]] = Append(@, d)]
      BY <1>17, <2>5, <3>1, MeasureSendIs
    <3>3. inbox'[server_of[c]] = Append(inbox[server_of[c]], d) /\ \A t \in Servers : t # server_of[c] => inbox'[t] = inbox[t]
      BY <2>1, <3>2, FieldsAre
    <3>4. CASE p = c
      <4>1. InFlight(p)' = InFlight(p) + 1
        <5>1. /\ inbox'[ServerFor(p)] = Append(inbox[ServerFor(p)], d) /\ d.from = p
              /\ server'[ServerFor(p)].work.from = server[ServerFor(p)].work.from /\ answers'[p] = answers[p]
          BY <2>1, <3>1, <3>3, <3>4
        <5> QED BY <1>o, <5>1, <1>u
      <4>2. Waiting(p)'
        BY <1>17, <1>d, <2>5, <3>4, MeasureSendIs DEF Waiting
      <4> QED BY <2>3, <3>4, <4>1, <4>2 DEF Flows, Moved
    <3>5. CASE p # c
      <4>1. InFlight(p)' = InFlight(p)
        <5>1. CASE ServerFor(p) = server_of[c]
          BY <1>o, <1>p, <1>q, <2>1, <3>1, <3>3, <3>5, <5>1, <1>u
        <5>2. CASE ServerFor(p) # server_of[c]
          BY <1>p, <1>s, <2>1, <3>3, <5>2
        <5> QED BY <5>1, <5>2
      <4> QED BY <1>t, <2>2, <3>5, <4>1 DEF Flows, Moved
    <3> QED BY <3>4, <3>5
  <2> QED BY <2>4, <2>5
<1>18. ASSUME NEW c \in Clients, MeasureReceive(c), ClientStep
      PROVE  Flows(p)
  <2>1. /\ OtherClients(c) /\ server' = server /\ inbox' = inbox /\ answers[c] # <<>>
        /\ \A t \in Processes : answers'[t] = IF t = c THEN Tail(answers[c]) ELSE answers[t]
    BY <1>18, MeasureReceiveIs
  <2>3. CASE p = c
    <3>1. InFlight(p)' = InFlight(p) - 1
      BY <1>o, <1>p, <1>q, <2>1, <2>3, <1>u
    <3>2. (Owed(p)' => Owed(p)) /\ Waiting(p) /\ ~Waiting(p)'
      BY <1>18, <1>d, <2>3, MeasureReceiveIs DEF ClientInv, ClientOK, KeepsMain, KeepsTask, Owed, Waiting, Dead
    <3> QED BY <3>1, <3>2 DEF Flows, Moved
  <2>4. CASE p # c
    <3>1. InFlight(p)' = InFlight(p)
      BY <1>p, <1>s, <2>1, <2>4
    <3>2. SameState(p)
      BY <2>1, <2>4 DEF OtherClients, SameState
    <3> QED BY <1>t, <3>1, <3>2 DEF Flows, Moved
  <2> QED BY <2>3, <2>4
<1>19. ASSUME NEW c \in Clients, GiveUpMeasurement(c), ClientStep
      PROVE  Flows(p)
  <2>1. InFlight(p)' = InFlight(p)
    <3>1. inbox' = inbox /\ answers' = answers /\ server' = server
      BY <1>19, GiveUpMeasurementIs
    <3> QED BY <1>p, <1>s, <3>1
  <2>2. CASE p = c
    <3>1. Owed(p)' => Owed(p) /\ (Waiting(p)' <=> Waiting(p))
      BY <1>19, <1>d, <2>2, GiveUpMeasurementIs DEF ClientInv, ClientOK, KeepsMain, KeepsTask, ClientIsGone, Owed, Waiting, Dead
    <3> QED BY <2>1, <3>1 DEF Flows, Moved
  <2>3. CASE p # c
    <3>1. SameState(p)
      <4>1. server' = server /\ OtherClients(c)
        BY <1>19, GiveUpMeasurementIs
      <4> QED BY <2>3, <4>1 DEF OtherClients, SameState
    <3> QED BY <1>t, <2>1, <3>1 DEF Flows, Moved
  <2> QED BY <2>2, <2>3
<1>20. ASSUME NEW c \in Clients, TakeTerm(c), ClientStep
      PROVE  Flows(p)
  <2>1. InFlight(p)' = InFlight(p)
    <3>1. inbox' = inbox /\ answers' = answers /\ server' = server
      BY <1>20, TakeTermIs
    <3> QED BY <1>p, <1>s, <3>1
  <2>2. CASE p = c
    <3>1. Owed(p)' => Owed(p) /\ (Waiting(p)' <=> Waiting(p))
      BY <1>20, <1>d, <2>2, TakeTermIs DEF ClientInv, ClientOK, KeepsMain, KeepsTask, ClientIsGone, Owed, Waiting, Dead
    <3> QED BY <2>1, <3>1 DEF Flows, Moved
  <2>3. CASE p # c
    <3>1. SameState(p)
      <4>1. server' = server /\ OtherClients(c)
        BY <1>20, TakeTermIs
      <4> QED BY <2>3, <4>1 DEF OtherClients, SameState
    <3> QED BY <1>t, <2>1, <3>1 DEF Flows, Moved
  <2> QED BY <2>2, <2>3
<1>21. ASSUME NEW c \in Clients, StopTask(c), ClientStep
      PROVE  Flows(p)
  <2>1. InFlight(p)' = InFlight(p)
    <3>1. inbox' = inbox /\ answers' = answers /\ server' = server
      BY <1>21, StopTaskIs
    <3> QED BY <1>p, <1>s, <3>1
  <2>2. CASE p = c
    <3>1. Owed(p)' => Owed(p) /\ (Waiting(p)' <=> Waiting(p))
      BY <1>21, <1>d, <2>2, StopTaskIs DEF ClientInv, ClientOK, KeepsMain, KeepsTask, ClientIsGone, Owed, Waiting, Dead
    <3> QED BY <2>1, <3>1 DEF Flows, Moved
  <2>3. CASE p # c
    <3>1. SameState(p)
      <4>1. server' = server /\ OtherClients(c)
        BY <1>21, StopTaskIs
      <4> QED BY <2>3, <4>1 DEF OtherClients, SameState
    <3> QED BY <1>t, <2>1, <3>1 DEF Flows, Moved
  <2> QED BY <2>2, <2>3
<1>22. ASSUME NEW c \in Clients, InterruptRecv(c), ClientStep
      PROVE  Flows(p)
  <2>1. InFlight(p)' = InFlight(p)
    <3>1. inbox' = inbox /\ answers' = answers /\ server' = server
      BY <1>22, InterruptRecvIs
    <3> QED BY <1>p, <1>s, <3>1
  <2>2. CASE p = c
    <3>1. Owed(p)' => Owed(p) /\ (Waiting(p)' <=> Waiting(p))
      BY <1>22, <1>d, <2>2, InterruptRecvIs DEF ClientInv, ClientOK, KeepsMain, KeepsTask, ClientIsGone, Owed, Waiting, Dead
    <3> QED BY <2>1, <3>1 DEF Flows, Moved
  <2>3. CASE p # c
    <3>1. SameState(p)
      <4>1. server' = server /\ OtherClients(c)
        BY <1>22, InterruptRecvIs
      <4> QED BY <2>3, <4>1 DEF OtherClients, SameState
    <3> QED BY <1>t, <2>1, <3>1 DEF Flows, Moved
  <2> QED BY <2>2, <2>3
<1>23. ASSUME NEW c \in Clients, Join(c), ClientStep
      PROVE  Flows(p)
  <2>1. InFlight(p)' = InFlight(p)
    <3>1. inbox' = inbox /\ answers' = answers /\ server' = server
      BY <1>23, JoinIs
    <3> QED BY <1>p, <1>s, <3>1
  <2>2. CASE p = c
    <3>1. Owed(p)' => Owed(p) /\ (Waiting(p)' <=> Waiting(p))
      BY <1>23, <1>d, <2>2, JoinIs DEF ClientInv, ClientOK, KeepsMain, KeepsTask, ClientIsGone, Owed, Waiting, Dead
    <3> QED BY <2>1, <3>1 DEF Flows, Moved
  <2>3. CASE p # c
    <3>1. SameState(p)
      <4>1. server' = server /\ OtherClients(c)
        BY <1>23, JoinIs
      <4> QED BY <2>3, <4>1 DEF OtherClients, SameState
    <3> QED BY <1>t, <2>1, <3>1 DEF Flows, Moved
  <2> QED BY <2>2, <2>3
<1>24. ASSUME NEW c \in Clients, NEW ok \in BOOLEAN, EnterCbs(c, ok), ClientStep
      PROVE  Flows(p)
  <2>1. InFlight(p)' = InFlight(p)
    <3>1. inbox' = inbox /\ answers' = answers /\ server' = server
      BY <1>24, EnterCbsIs
    <3> QED BY <1>p, <1>s, <3>1
  <2>2. CASE p = c
    <3>1. Owed(p)' => Owed(p) /\ (Waiting(p)' <=> Waiting(p))
      BY <1>24, <1>d, <2>2, EnterCbsIs DEF ClientInv, ClientOK, KeepsMain, KeepsTask, ClientIsGone, Owed, Waiting, Dead
    <3> QED BY <2>1, <3>1 DEF Flows, Moved
  <2>3. CASE p # c
    <3>1. SameState(p)
      <4>1. server' = server /\ OtherClients(c)
        BY <1>24, EnterCbsIs
      <4> QED BY <2>3, <4>1 DEF OtherClients, SameState
    <3> QED BY <1>t, <2>1, <3>1 DEF Flows, Moved
  <2> QED BY <2>2, <2>3
<1>25. ASSUME NEW c \in Clients, NEW ok \in BOOLEAN, CreateTask(c, ok), ClientStep
      PROVE  Flows(p)
  <2>1. InFlight(p)' = InFlight(p)
    <3>1. inbox' = inbox /\ answers' = answers /\ server' = server
      BY <1>25, CreateTaskIs
    <3> QED BY <1>p, <1>s, <3>1
  <2>2. CASE p = c
    <3>1. Owed(p)' => Owed(p) /\ (Waiting(p)' <=> Waiting(p))
      BY ZenonT(60), <1>25, <1>d, <2>2, CreateTaskIs DEF ClientInv, ClientOK, KeepsMain, KeepsTask, ClientIsGone, Owed, Waiting, Dead
    <3> QED BY <2>1, <3>1 DEF Flows, Moved
  <2>3. CASE p # c
    <3>1. SameState(p)
      <4>1. server' = server /\ OtherClients(c)
        BY <1>25, CreateTaskIs
      <4> QED BY <2>3, <4>1 DEF OtherClients, SameState
    <3> QED BY <1>t, <2>1, <3>1 DEF Flows, Moved
  <2> QED BY <2>2, <2>3
<1>26. ASSUME NEW c \in Clients, NEW ok \in BOOLEAN, Release(c, ok), ClientStep
      PROVE  Flows(p)
  <2>1. InFlight(p)' = InFlight(p)
    <3>1. inbox' = inbox /\ answers' = answers /\ server' = server
      BY <1>26, ReleaseIs
    <3> QED BY <1>p, <1>s, <3>1
  <2>2. CASE p = c
    <3>1. Owed(p)' => Owed(p) /\ (Waiting(p)' <=> Waiting(p))
      BY <1>26, <1>d, <2>2, ReleaseIs DEF ClientInv, ClientOK, KeepsMain, KeepsTask, ClientIsGone, Owed, Waiting, Dead
    <3> QED BY <2>1, <3>1 DEF Flows, Moved
  <2>3. CASE p # c
    <3>1. SameState(p)
      <4>1. server' = server /\ OtherClients(c)
        BY <1>26, ReleaseIs
      <4> QED BY <2>3, <4>1 DEF OtherClients, SameState
    <3> QED BY <1>t, <2>1, <3>1 DEF Flows, Moved
  <2> QED BY <2>2, <2>3
<1>27. ASSUME NEW c \in Clients, SendRequest(c), ClientStep
      PROVE  Flows(p)
  <2>1. /\ server' = server /\ Request(c) \in Packets /\ c \in Processes /\ server_of[c] \in Servers
        /\ ServerFor(c) = server_of[c] /\ answers' = answers /\ OtherClients(c)
    BY <1>27, SendRequestIs, AskersAre, ClientAssumption, Fresh, TypeIs DEF Processes
  <2>2. p # c => SameState(p)
    BY <2>1 DEF OtherClients, SameState
  <2>3. p = c => (Owed(p)' => Owed(p)) /\ ~Waiting(p)
    BY <1>27, <1>d, SendRequestIs DEF ClientInv, ClientOK, KeepsMain, KeepsTask, Owed, Waiting, Dead
  <2>4. CASE ~Bound(server_of[c])
    <3>1. InFlight(p)' = InFlight(p)
      BY <1>27, <1>p, <1>s, <2>1, <2>4, SendRequestIs
    <3>2. p = c => ~Waiting(p)'
      BY ZenonT(60), <1>27, <1>d, <2>4, SendRequestIs DEF ClientInv, ClientOK, KeepsMain, KeepsTask, Waiting, Dead
    <3> QED BY <1>t, <2>2, <2>3, <3>1, <3>2 DEF Flows, Moved
  <2>5. CASE Bound(server_of[c])
    <3>1. PICK d \in Datagrams : d = [from |-> c, request |-> Request(c)] /\ d.from = c
      BY <2>1, SentIs
    <3>2. inbox' = [inbox EXCEPT ![server_of[c]] = Append(@, d)]
      BY <1>27, <2>5, <3>1, SendRequestIs
    <3>3. inbox'[server_of[c]] = Append(inbox[server_of[c]], d) /\ \A t \in Servers : t # server_of[c] => inbox'[t] = inbox[t]
      BY <2>1, <3>2, FieldsAre
    <3>4. CASE p = c
      <4>1. InFlight(p)' = InFlight(p) + 1
        <5>1. /\ inbox'[ServerFor(p)] = Append(inbox[ServerFor(p)], d) /\ d.from = p
              /\ server'[ServerFor(p)].work.from = server[ServerFor(p)].work.from /\ answers'[p] = answers[p]
          BY <2>1, <3>1, <3>3, <3>4
        <5> QED BY <1>o, <5>1, <1>u
      <4>2. Waiting(p)'
        BY <1>27, <1>d, <2>5, <3>4, SendRequestIs DEF Waiting
      <4> QED BY <2>3, <3>4, <4>1, <4>2 DEF Flows, Moved
    <3>5. CASE p # c
      <4>1. InFlight(p)' = InFlight(p)
        <5>1. CASE ServerFor(p) = server_of[c]
          BY <1>o, <1>p, <1>q, <2>1, <3>1, <3>3, <3>5, <5>1, <1>u
        <5>2. CASE ServerFor(p) # server_of[c]
          BY <1>p, <1>s, <2>1, <3>3, <5>2
        <5> QED BY <5>1, <5>2
      <4> QED BY <1>t, <2>2, <3>5, <4>1 DEF Flows, Moved
    <3> QED BY <3>4, <3>5
  <2> QED BY <2>4, <2>5
<1>28. ASSUME NEW c \in Clients, RecvFallsAsleep(c), ClientStep
      PROVE  Flows(p)
  <2>1. InFlight(p)' = InFlight(p)
    <3>1. inbox' = inbox /\ answers' = answers /\ server' = server
      BY <1>28, RecvFallsAsleepIs
    <3> QED BY <1>p, <1>s, <3>1
  <2>2. CASE p = c
    <3>1. Owed(p)' => Owed(p) /\ (Waiting(p)' <=> Waiting(p))
      BY <1>28, <1>d, <2>2, RecvFallsAsleepIs DEF ClientInv, ClientOK, KeepsMain, KeepsTask, ClientIsGone, Owed, Waiting, Dead
    <3> QED BY <2>1, <3>1 DEF Flows, Moved
  <2>3. CASE p # c
    <3>1. SameState(p)
      <4>1. server' = server /\ OtherClients(c)
        BY <1>28, RecvFallsAsleepIs
      <4> QED BY <2>3, <4>1 DEF OtherClients, SameState
    <3> QED BY <1>t, <2>1, <3>1 DEF Flows, Moved
  <2> QED BY <2>2, <2>3
<1>29. ASSUME NEW c \in Clients, TakeSIGUSR2(c), ClientStep
      PROVE  Flows(p)
  <2>1. InFlight(p)' = InFlight(p)
    <3>1. inbox' = inbox /\ answers' = answers /\ server' = server
      BY <1>29, TakeSIGUSR2Is
    <3> QED BY <1>p, <1>s, <3>1
  <2>2. CASE p = c
    <3>0. ~client[c].SIGUSR2 \/ client[c].stopped
      BY DEF Usr2Inv, ClientInv, ClientOK
    <3>3. client[c].SIGUSR2
      BY <1>29 DEF TakeSIGUSR2
    <3>1. Owed(p)' => Owed(p) /\ (Waiting(p)' <=> Waiting(p))
      BY <1>29, <1>d, <2>2, <3>0, <3>3, TakeSIGUSR2Is DEF KeepsMain, Owed, Waiting, Dead
    <3> QED BY <2>1, <3>1 DEF Flows, Moved
  <2>3. CASE p # c
    <3>1. SameState(p)
      <4>1. server' = server /\ OtherClients(c)
        BY <1>29, TakeSIGUSR2Is
      <4> QED BY <2>3, <4>1 DEF OtherClients, SameState
    <3> QED BY <1>t, <2>1, <3>1 DEF Flows, Moved
  <2> QED BY <2>2, <2>3
<1>30. ASSUME NEW c \in Clients, ReceiveResponse(c), ClientStep
      PROVE  Flows(p)
  <2>1. /\ OtherClients(c) /\ server' = server /\ inbox' = inbox /\ answers[c] # <<>>
        /\ \A t \in Processes : answers'[t] = IF t = c THEN Tail(answers[c]) ELSE answers[t]
    BY <1>30, ReceiveResponseIs
  <2>3. CASE p = c
    <3>1. InFlight(p)' = InFlight(p) - 1
      BY <1>o, <1>p, <1>q, <2>1, <2>3, <1>u
    <3>2. (Owed(p)' => Owed(p)) /\ Waiting(p) /\ ~Waiting(p)'
      BY <1>30, <1>d, <2>3, ReceiveResponseIs DEF ClientInv, ClientOK, KeepsMain, KeepsTask, Owed, Waiting, Dead
    <3> QED BY <3>1, <3>2 DEF Flows, Moved
  <2>4. CASE p # c
    <3>1. InFlight(p)' = InFlight(p)
      BY <1>p, <1>s, <2>1, <2>4
    <3>2. SameState(p)
      BY <2>1, <2>4 DEF OtherClients, SameState
    <3> QED BY <1>t, <3>1, <3>2 DEF Flows, Moved
  <2> QED BY <2>3, <2>4
<1>31. ASSUME NEW c \in Clients, NEW ok \in BOOLEAN, EndJob(c, ok), ClientStep
      PROVE  Flows(p)
  <2>1. InFlight(p)' = InFlight(p)
    <3>1. inbox' = inbox /\ answers' = answers /\ server' = server
      BY <1>31, EndJobIs
    <3> QED BY <1>p, <1>s, <3>1
  <2>2. CASE p = c
    <3>1. Owed(p)' => Owed(p) /\ (Waiting(p)' <=> Waiting(p))
      <4>1. CASE ClientIsGone(c, "failed") \/ ClientIsGone(c, "killed")
        <5>1. ~Owed(p)'
          BY <2>2, <4>1 DEF ClientIsGone, Owed, Dead
        <5> QED BY <5>1
      <4>2. CASE ~(ClientIsGone(c, "failed") \/ ClientIsGone(c, "killed"))
        <5>1. /\ client[c].job = "revoke" /\ KeepsMain(c)
              /\ client'[c].job = (IF client[c].stopped THEN "ended" ELSE "sleep")
          BY <1>31, <4>2, EndJobIs
        <5>2. p \notin Servers
          BY <2>2, ServerAssumption
        <5> QED BY <2>2, <5>1, <5>2 DEF KeepsMain, Owed, Waiting, Dead
      <4> QED BY <4>1, <4>2
    <3> QED BY <2>1, <3>1 DEF Flows, Moved
  <2>3. CASE p # c
    <3>1. SameState(p)
      <4>1. server' = server /\ OtherClients(c)
        BY <1>31, EndJobIs
      <4> QED BY <2>3, <4>1 DEF OtherClients, SameState
    <3> QED BY <1>t, <2>1, <3>1 DEF Flows, Moved
  <2> QED BY <2>2, <2>3
<1>32. ASSUME Fork
      PROVE  Flows(p)
  <2>1. /\ \A s \in Servers : server'[s].work = server[s].work
        /\ inbox' = inbox /\ answers' = answers
    BY <1>32, FieldsAre DEF Fork, ServerFields
  <2>2. InFlight(p)' = InFlight(p)
    BY <1>p, <1>s, <2>1
  <2>3. CASE p # Order[next]
    <3>1. SameState(p)
      <4>1. /\ p \in Servers => server'[p] = server[p]
            /\ p \in Clients => client'[p] = client[p]
        BY <1>32, <2>3, FieldsAre DEF Fork
      <4> QED BY <4>1 DEF SameState
    <3> QED BY <1>t, <2>2, <3>1 DEF Flows, Moved
  <2>4. CASE p = Order[next]
    <3>1. Down(p)
      BY <1>32, <2>4, PlaceIs, FieldsAre DEF Fork, DriverInv
    <3>2. /\ p \in Servers => server[p].pc = "down" /\ server'[p].pc \in {"down", "starting"}
          /\ p \in Clients => /\ client[p].pc = "down" /\ client[p].job = "none"
                              /\ client'[p].pc \in {"down", "starting"} /\ client'[p].job = "none"
      BY <1>32, <2>4, <3>1, FieldsAre DEF Fork, Down, ClientInv, ClientOK, ClientFields, ServerFields
    <3>3. Owed(p) /\ ~Waiting(p) /\ ~Waiting(p)'
      BY <1>p, <3>2 DEF Owed, Waiting, Dead
    <3> QED BY <2>2, <3>3 DEF Flows, Moved
  <2> QED BY <2>3, <2>4
<1>33. ASSUME StoreProcId
      PROVE  Flows(p)
  <2>1. InFlight(p)' = InFlight(p) /\ SameState(p)
    BY <1>33, <1>s DEF StoreProcId, clientVars, serverVars, SameState
  <2> QED BY <1>t, <2>1 DEF Flows, Moved
<1>34. ASSUME SleepASecond
      PROVE  Flows(p)
  <2>1. InFlight(p)' = InFlight(p) /\ SameState(p)
    BY <1>34, <1>s DEF SleepASecond, clientVars, serverVars, SameState
  <2> QED BY <1>t, <2>1 DEF Flows, Moved
<1>35. ASSUME StartClients
      PROVE  Flows(p)
  <2>1. InFlight(p)' = InFlight(p)
    BY <1>35, <1>s DEF StartClients
  <2>2. server' = server /\ \A c \in Clients : client'[c] = client[c] \/ client'[c] = Gone("killed")
    BY <1>35 DEF StartClients, SignalClients
  <2>3. SameState(p) \/ ~Owed(p)'
    BY <2>2, OverIs DEF SameState, Owed, Dead
  <2> QED BY <1>t, <2>1, <2>3 DEF Flows, Moved
<1>36. ASSUME StopClients
      PROVE  Flows(p)
  <2>1. InFlight(p)' = InFlight(p)
    BY <1>36, <1>s DEF StopClients
  <2>2. server' = server /\ \A c \in Clients : client'[c] = client[c] \/ client'[c] = Gone("killed")
    BY <1>36 DEF StopClients, SignalClients
  <2>3. SameState(p) \/ ~Owed(p)'
    BY <2>2, OverIs DEF SameState, Owed, Dead
  <2> QED BY <1>t, <2>1, <2>3 DEF Flows, Moved
<1>37. ASSUME StopServers
      PROVE  Flows(p)
  <2>1. InFlight(p)' = InFlight(p) /\ SameState(p)
    BY <1>37, <1>s DEF StopServers, clientVars, serverVars, SameState
  <2> QED BY <1>t, <2>1 DEF Flows, Moved
<1>38. ASSUME Wait
      PROVE  Flows(p)
  <2>1. InFlight(p)' = InFlight(p) /\ SameState(p)
    BY <1>38, <1>s DEF Wait, clientVars, serverVars, SameState
  <2> QED BY <1>t, <2>1 DEF Flows, Moved
<1>39. ASSUME TerminateDriver
      PROVE  Flows(p)
  <2>1. pids = {}
    BY <1>39 DEF TerminateDriver, Sound
  <2>2. InFlight(p)' = InFlight(p) /\ SameState(p)
    BY <1>39, <1>p, <1>s, <2>1 DEF TerminateDriver, SameState
  <2> QED BY <1>t, <2>2 DEF Flows, Moved
<1>40. CASE UNCHANGED vars
  <2>1. InFlight(p)' = InFlight(p) /\ SameState(p)
    BY <1>40, <1>s DEF vars, clientVars, serverVars, SameState
  <2> QED BY <1>t, <2>1 DEF Flows, Moved
<1>41. ASSUME NEW s \in Servers, ForwardFails(s), ServerStep
      PROVE  Flows(p)
  <2>1. InFlight(p)' = InFlight(p)
    <3>1. inbox' = inbox /\ answers' = answers /\ \A t \in Servers : server'[t].work = server[t].work
      BY <1>41, ForwardFailsIs DEF OtherServers, KeepsWork
    <3> QED BY <1>p, <1>s, <3>1
  <2>2. CASE p = s
    <3>1. Owed(p)' => Owed(p) /\ (Waiting(p)' <=> Waiting(p))
      BY <1>41, <1>p, <2>2, ForwardFailsIs DEF Owed, Waiting, KeepsMode, Interrupted
    <3> QED BY <2>1, <3>1 DEF Flows, Moved
  <2>3. CASE p # s
    <3>1. SameState(p)
      BY <1>41, <2>3, ForwardFailsIs DEF OtherServers, ServerStep, SameState
    <3> QED BY <1>t, <2>1, <3>1 DEF Flows, Moved
  <2> QED BY <2>2, <2>3
<1>42. ASSUME NEW s \in Servers, Drops(s), ServerStep
      PROVE  Flows(p)
  BY <1>42
<1> QED
    BY <1>1, <1>2, <1>3, <1>4, <1>5, <1>6, <1>7, <1>8, <1>9, <1>10, <1>11, <1>12, <1>13, <1>14,
     <1>15, <1>16, <1>17, <1>18, <1>19, <1>20, <1>21, <1>22, <1>23, <1>24, <1>25, <1>26, <1>27,
     <1>28, <1>29, <1>30, <1>31, <1>32, <1>33, <1>34, <1>35, <1>36, <1>37, <1>38, <1>39, <1>40, <1>41, <1>42
    DEF Next, ServerProgram, ServerHandler, ClientMain, ClientThread, Driver, ServerStep,
     ClientStep, Drops

LEMMA UnansweredSame ==
    ASSUME [Next]_vars, \A s \in Servers : ~(Drops(s) /\ ServerStep)
    PROVE  unanswered' = unanswered
<1>1. ASSUME NEW s \in Servers, ServerProgram(s), ServerStep
      PROVE  unanswered' = unanswered
  BY <1>1 DEF ServerProgram, Drops, CheckTerminated, FallAsleep, Receive, ServerStart, Lend,
     Forward, ForwardFails, Await, GiveUpRequest, Reply
<1>2. ASSUME NEW s \in Servers, ServerHandler(s)
      PROVE  unanswered' = unanswered
  BY <1>2 DEF ServerHandler, TakeSIGTERM, TakeSIGUSR1, SwitchScheduler, GiveUpSubserver
<1>3. ASSUME NEW c \in Clients, ClientMain(c)
      PROVE  unanswered' = unanswered
  BY <1>3 DEF ClientMain, ClientStart, SignalServer, MeasureSend, MeasureReceive, MeasureDone,
     GiveUpMeasurement, TakeTerm, StopTask, InterruptRecv, Join, serverVars
<1>4. ASSUME NEW c \in Clients, ClientThread(c)
      PROVE  unanswered' = unanswered
  BY <1>4 DEF ClientThread, EnterCbs, CreateTask, Release, SendRequest, RecvFallsAsleep,
     TakeSIGUSR2, ReceiveResponse, EndJob, serverVars
<1>5. ASSUME Driver \/ TerminateDriver
      PROVE  unanswered' = unanswered
  BY <1>5 DEF Driver, Fork, StoreProcId, SleepASecond, StartClients, StopClients, StopServers,
     Wait, TerminateDriver, clientVars, serverVars
<1>6. CASE UNCHANGED vars
  BY <1>6 DEF vars, clientVars, serverVars
<1> QED BY <1>1, <1>2, <1>3, <1>4, <1>5, <1>6 DEF Next, ServerStep

(* A failing call moves a request to those that will have no answer, and   *)
(* every other step changes what p has outstanding as it does what is      *)
(* under way.                                                              *)
LEMMA MovesAlways ==
    ASSUME TypeOK, TypeOK', DriverInv, ClientInv, ServerInv, FromInv, Usr2Inv, IntInv, Sound, Sound',
           NEW p \in Askers, [Next]_vars
    PROVE  Moves(p)
<1>p. /\ p \in Processes /\ ServerFor(p) \in Servers /\ ServerFor(p) # p /\ p # Nobody
      /\ p \in Servers => p \notin Clients
  BY AskersAre, ServerAssumption
<1>u. unanswered[p] \in Nat /\ DOMAIN unanswered = Processes
  BY <1>p, FieldsAre
<1>i. InFlight(p) \in Nat
  <2>1. inbox[ServerFor(p)] \in Seq(Datagrams) /\ answers[p] \in Seq(Packets)
    BY <1>p, FieldsAre
  <2>2. Total(inbox[ServerFor(p)], server[ServerFor(p)].work.from, answers[p], p) \in Nat
    BY <1>p, <2>1, TotalIs
  <2> QED BY <2>2, InFlightIs
<1>j. InFlight(p)' \in Nat
  <2>1. inbox'[ServerFor(p)] \in Seq(Datagrams) /\ answers'[p] \in Seq(Packets)
    BY <1>p DEF TypeOK, ClientType, ServerType, Datagrams, Packets
  <2>2. Total(inbox'[ServerFor(p)], server'[ServerFor(p)].work.from, answers'[p], p) \in Nat
    BY <1>p, <2>1, TotalIs
  <2> QED BY <2>2, InFlightIs
<1>t. SameState(p) => (Owed(p)' <=> Owed(p)) /\ (Waiting(p)' <=> Waiting(p))
  BY StateSame
<1>o. /\ Outstanding(p) = InFlight(p) + unanswered[p]
      /\ Outstanding(p)' = InFlight(p)' + unanswered'[p]
  BY OutstandingIs
<1>n. Outstanding(p) \in Nat
  BY <1>i, <1>o, <1>u
<1>1. ASSUME NEW s \in Servers, Drops(s), ServerStep
      PROVE  Moves(p)
  <2> DEFINE w == server[s].work.from
  <2>1. /\ OtherServers(s) /\ inbox' = inbox /\ answers' = answers
        /\ server[s].pc \in {"forward", "reply"} /\ server'[s].pc = "check"
        /\ server'[s].work = NoWork /\ NoWork.from = Nobody
        /\ server'[s].terminated = server[s].terminated
        /\ unanswered' = [unanswered EXCEPT ![w] = @ + 1]
    BY <1>1, DropsIs DEF KeepsMode, NoWork
  <2>2. w # Nobody /\ Asks(w, s)
    BY <2>1 DEF ServerInv, ServerOK, Working, FromInv, FromOK
  <2>3. p # s => SameState(p)
    BY <1>1, <2>1 DEF OtherServers, ServerStep, SameState
  <2>4. CASE p = w
    <3>1. ServerFor(p) = s
      BY <2>2, <2>4 DEF Asks
    <3>2. InFlight(p) = Total(inbox[s], p, answers[p], p) /\ InFlight(p)' = Total(inbox[s], Nobody, answers[p], p)
      BY <2>1, <2>4, <3>1, InFlightIs
    <3>3. InFlight(p)' = InFlight(p) - 1
      <4>1. Count(inbox[s], p) \in Nat /\ Len(answers[p]) \in Nat
        BY <1>p, <3>1, FieldsAre, PlacesAreFinite
      <4> QED BY <1>p, <3>2, <4>1 DEF Total
    <3>4. unanswered'[p] = unanswered[p] + 1
      BY <1>p, <1>u, <2>1, <2>4
    <3>5. Outstanding(p)' = Outstanding(p)
      BY <1>i, <1>o, <1>u, <3>3, <3>4
    <3> QED BY <1>p, <1>t, <2>3, <3>1, <3>5 DEF Moves, Moved
  <2>5. CASE p # w
    <3>1. unanswered'[p] = unanswered[p]
      BY <1>p, <1>u, <2>1, <2>5
    <3>2. InFlight(p)' = InFlight(p)
      <4>1. CASE ServerFor(p) = s
        <5>1. Total(inbox[s], Nobody, answers[p], p) = Total(inbox[s], w, answers[p], p)
          BY <1>p, <2>5 DEF Total
        <5> QED BY <2>1, <4>1, <5>1, InFlightIs
      <4>2. CASE ServerFor(p) # s
        BY <1>p, <2>1, <4>2, InFlightIs DEF OtherServers
      <4> QED BY <4>1, <4>2
    <3>3. Outstanding(p)' = Outstanding(p)
      BY <1>o, <3>1, <3>2
    <3>4. p = s => (Owed(p)' => Owed(p)) /\ ~Waiting(p) /\ ~Waiting(p)'
      BY <1>p, <2>1 DEF Owed, Waiting
    <3> QED BY <1>t, <2>3, <3>3, <3>4 DEF Moves, Moved
  <2> QED BY <2>4, <2>5
<1>2. CASE \A s \in Servers : ~(Drops(s) /\ ServerStep)
  <2>1. Flows(p)
    BY <1>2, FlowsAlways
  <2>2. unanswered' = unanswered
    BY <1>2, UnansweredSame
  <2>3. CASE InFlight(p)' <= InFlight(p) /\ (Waiting(p)' <=> Waiting(p)) /\ Ending'
    <3>1. ASSUME Owed(p)'
          PROVE  Outstanding(p)' <= Outstanding(p)
      BY <1>i, <1>j, <1>o, <1>u, <2>2, <2>3
    <3> QED BY <2>1, <2>3, <3>1 DEF Flows, Moves, Moved
  <2>4. CASE InFlight(p)' = InFlight(p)
    <3>1. Outstanding(p)' = Outstanding(p)
      BY <1>o, <2>2, <2>4
    <3> QED BY <1>i, <2>1, <2>4, <3>1 DEF Flows, Moves, Moved
  <2>5. CASE InFlight(p)' = InFlight(p) + 1
    <3>1. Outstanding(p)' = Outstanding(p) + 1
      BY <1>i, <1>o, <1>u, <2>2, <2>5
    <3> QED BY <1>i, <1>n, <2>1, <2>5, <3>1 DEF Flows, Moves, Moved
  <2>6. CASE InFlight(p)' = InFlight(p) - 1
    <3>1. Outstanding(p)' = Outstanding(p) - 1
      BY <1>i, <1>o, <1>u, <2>2, <2>6
    <3> QED BY <1>i, <1>n, <2>1, <2>6, <3>1 DEF Flows, Moves, Moved
  <2> QED BY <2>1, <2>3, <2>4, <2>5, <2>6 DEF Flows, Moves, Moved
<1> QED BY <1>1, <1>2

(* Whatever happens, whoever waits has one request or answer under way.    *)
LEMMA PairInvKept ==
    ASSUME TypeOK, TypeOK', DriverInv, ClientInv, ServerInv, FromInv, Usr2Inv, IntInv, PairInv,
           [Next]_vars
    PROVE  PairInv'
<1> SUFFICES ASSUME Sound', NEW p \in Askers PROVE PairOK(p)'
  BY DEF PairInv
<1>1. Sound /\ PairOK(p)
  BY SoundBefore DEF PairInv
<1>2. Moves(p)
  BY <1>1, MovesAlways
<1>3. p \in Processes /\ ServerFor(p) \in Servers /\ p # Nobody
  BY AskersAre, ServerAssumption
<1>4. Outstanding(p) \in Nat
  <2>1. inbox[ServerFor(p)] \in Seq(Datagrams) /\ answers[p] \in Seq(Packets)
    BY <1>3, FieldsAre
  <2>2. Total(inbox[ServerFor(p)], server[ServerFor(p)].work.from, answers[p], p) \in Nat
    BY <1>3, <2>1, TotalIs
  <2> QED BY <1>3, <2>2, FieldsAre, InFlightIs, OutstandingIs
<1>5. Outstanding(p)' \in Nat
  <2>1. /\ inbox' \in [Servers -> Seq(Datagrams)] /\ answers' \in [Processes -> Seq(Packets)]
        /\ unanswered' \in [Processes -> Nat]
    BY DEF TypeOK, ClientType, ServerType, Datagrams, Packets
  <2>2. inbox'[ServerFor(p)] \in Seq(Datagrams) /\ answers'[p] \in Seq(Packets) /\ unanswered'[p] \in Nat
    BY <1>3, <2>1
  <2>3. Total(inbox'[ServerFor(p)], server'[ServerFor(p)].work.from, answers'[p], p) \in Nat
    BY <1>3, <2>2, TotalIs
  <2> QED BY <2>2, <2>3, InFlightIs, OutstandingIs
<1>6. Ending => Ending'
  BY DEF Ending, Next, ServerProgram, ServerHandler, ClientMain, ClientThread, Driver, vars,
         Fork, StoreProcId, SleepASecond, StartClients, StopClients, StopServers, Wait, TerminateDriver
<1> QED BY <1>1, <1>2, <1>4, <1>5, <1>6, PairMoves

(* Whoever is worked for waits.                                            *)
LEMMA WorksForOne ==
    ASSUME TypeOK, PairInv, Sound, NEW s \in Servers, Asks(server[s].work.from, s),
           Owed(server[s].work.from)
    PROVE  Waiting(server[s].work.from)
<1> DEFINE p == server[s].work.from
<1>1. p \in Askers /\ ServerFor(p) = s /\ p \in Processes
  BY AskersAre DEF Asks
<1>2. Count(inbox[s], p) \in Nat /\ Len(answers[p]) \in Nat /\ unanswered[p] \in Nat
  BY <1>1, FieldsAre, PlacesAreFinite
<1>3. Outstanding(p) = Count(inbox[s], p) + 1 + Len(answers[p]) + unanswered[p]
  <2>1. InFlight(p) = Total(inbox[s], p, answers[p], p)
    BY <1>1, InFlightIs
  <2> QED BY <1>1, <1>2, <2>1, OutstandingIs DEF Total
<1>4. Outstanding(p) <= IF Waiting(p) THEN 1 ELSE 0
  BY <1>1 DEF PairInv, PairOK
<1> QED BY <1>2, <1>3, <1>4

(* While SIGUSR1 is passed on nobody waits for an answer: the client that  *)
(* measures does not, the others have not started, and so neither does any *)
(* server, the first in a chain of requests being asked by a client.       *)
LEMMA NobodyWaits ==
    ASSUME TypeOK, DriverInv, ClientInv, ServerInv, SchedInv, EarlyInv, FromInv, IntInv, PairInv,
           Sound, Pending # {}
    PROVE  \A s \in Servers : server[s].pc \notin {"await", "await_asleep"}
<1>1. PICK c \in Clients : /\ client[c].pc \in Measuring /\ Wave(c)
                           /\ \A d \in Clients : d # c => client[d].pc \notin Measuring
  BY SomebodyMeasures DEF Quiet
<1>2. next \in DOMAIN Order /\ Order[next] = c /\ driver \in {"forked", "sleep", "terminated"}
  BY <1>1, OneAtATime
<1>3. client[c].pc \notin {"measure", "signal_back"}
  BY <1>1 DEF Wave, Entered
<1>4. \A d \in Clients : ~Waiting(d) /\ Owed(d)
  <2>1. ASSUME NEW d \in Clients
        PROVE  ~Waiting(d) /\ Owed(d)
    <3>1. EarlyOK(d) /\ d \notin Servers
      BY <1>2, ServerAssumption DEF EarlyInv, Early
    <3>2. client[d].pc # "measure"
      BY <1>1, <1>3 DEF Measuring
    <3>3. client[d].pc # "failed"
      BY DEF Sound, Failed, Processes
    <3>4. client[d].pc \notin Dead /\ ~client[d].stopped
      BY <3>1, <3>3 DEF EarlyOK, Dead, ClientInv, ClientOK
    <3> QED BY <3>1, <3>2, <3>4 DEF EarlyOK, Waiting, Owed
  <2> QED BY <2>1
<1> DEFINE S == {s \in Servers : server[s].pc \in {"await", "await_asleep"}}
<1>5. ASSUME S # {}
      PROVE  FALSE
  <2>1. driver # "terminated"
    <3>1. ASSUME driver = "terminated", NEW s \in Servers
          PROVE  server[s].pc = "down"
      <4>1. pids = {}
        BY <3>1 DEF Sound
      <4>2. Place(s) \in DOMAIN Order /\ Order[Place(s)] = s /\ Order[next] # s
        BY <1>2, PlaceIs, ServerAssumption DEF Processes
      <4>3. Place(s) > next
        <5>1. Place(s) \in Nat /\ next \in Nat /\ Place(s) # next
          BY <1>2, <4>2, PlaceIs
        <5>2. ~(Place(s) < next)
          BY <4>1, <4>2 DEF DriverInv
        <5> QED BY <5>1, <5>2
      <4>4. Down(s)
        BY <4>2, <4>3 DEF DriverInv
      <4> QED BY <4>4 DEF Down
    <3> QED BY <1>5, <3>1
  <2>2. \A s \in Servers : ~server[s].terminated /\ server[s].pc \notin {"exited", "failed", "interrupted"}
    <3>1. ~Ending
      BY <1>2, <2>1 DEF Ending
    <3> QED BY <3>1 DEF ServerInv, ServerOK, IntInv, Sound, Failed, Processes
  <2>3. \A p \in Askers : Owed(p)
    BY <1>4, <2>2 DEF Askers, Owed
  <2>4. PICK s \in S : \A r \in S : subserver[r] # s
    BY <1>5, TopmostIs
  <2> DEFINE p == server[s].work.from
  <2>5. p # Nobody /\ Asks(p, s)
    BY <2>4 DEF ServerInv, ServerOK, Working, FromInv, FromOK
  <2>6. p \in Askers /\ ServerFor(p) = s /\ p \in Processes
    BY <2>5, AskersAre DEF Asks
  <2>7. Waiting(p)
    BY <2>3, <2>5, <2>6, WorksForOne
  <2>8. p \in Servers /\ server[p].pc \in {"await", "await_asleep"}
    BY <1>4, <2>6, <2>7 DEF Askers, Waiting
  <2>9. subserver[p] = s
    BY <2>6, <2>8 DEF ServerFor
  <2> QED BY <2>4, <2>8, <2>9
<1> QED BY <1>5

(* A recv of the subserver's answer is interrupted only by SIGTERM.        *)
LEMMA IntInvKept ==
    ASSUME TypeOK, DriverInv, ClientInv, ServerInv, SchedInv, EarlyInv, FromInv, IntInv, PairInv, [Next]_vars
    PROVE  IntInv'
<1> SUFFICES ASSUME Sound' PROVE IntInv'
  BY DEF IntInv
<1>a. Sound /\ Sound' /\ \A s \in Servers : server[s].pc = "interrupted" => server[s].terminated
  BY SoundBefore DEF IntInv
<1>b. ASSUME NEW s \in Servers, OtherServers(s), server'[s].pc = "interrupted" => server'[s].terminated
      PROVE  IntInv'
  BY <1>a, <1>b DEF IntInv, OtherServers
<1>c. server' = server => IntInv'
  BY <1>a DEF IntInv
<1>1. ASSUME NEW s \in Servers, CheckTerminated(s), ServerStep
      PROVE  IntInv'
  <2>1. server'[s].pc = "interrupted" => server'[s].terminated
    BY <1>1, <1>a, CheckTerminatedIs DEF KeepsMode, ServerIsOver, Interrupted
  <2> QED BY <1>1, <1>a, <1>b, <2>1, CheckTerminatedIs
<1>2. ASSUME NEW s \in Servers, FallAsleep(s), ServerStep
      PROVE  IntInv'
  <2>1. server'[s].pc = "interrupted" => server'[s].terminated
    BY <1>2, <1>a, FallAsleepIs DEF KeepsMode, ServerIsOver, Interrupted
  <2> QED BY <1>2, <1>a, <1>b, <2>1, FallAsleepIs
<1>3. ASSUME NEW s \in Servers, Receive(s), ServerStep
      PROVE  IntInv'
  <2>1. server'[s].pc = "interrupted" => server'[s].terminated
    BY <1>3, <1>a, ReceiveIs DEF KeepsMode, ServerIsOver, Interrupted
  <2> QED BY <1>3, <1>a, <1>b, <2>1, ReceiveIs
<1>4. ASSUME NEW s \in Servers, NEW ok \in BOOLEAN, ServerStart(s, ok), ServerStep
      PROVE  IntInv'
  <2>1. server'[s].pc = "interrupted" => server'[s].terminated
    BY <1>4, <1>a, ServerStartIs DEF KeepsMode, ServerIsOver, Interrupted
  <2> QED BY <1>4, <1>a, <1>b, <2>1, ServerStartIs
<1>5. ASSUME NEW s \in Servers, NEW ok \in BOOLEAN, Lend(s, ok), ServerStep
      PROVE  IntInv'
  <2>1. server'[s].pc = "interrupted" => server'[s].terminated
    BY <1>5, <1>a, LendIs DEF KeepsMode, ServerIsOver, Interrupted
  <2> QED BY <1>5, <1>a, <1>b, <2>1, LendIs
<1>6. ASSUME NEW s \in Servers, Forward(s), ServerStep
      PROVE  IntInv'
  <2>1. server'[s].pc = "interrupted" => server'[s].terminated
    BY <1>6, <1>a, ForwardIs DEF KeepsMode, ServerIsOver, Interrupted
  <2> QED BY <1>6, <1>a, <1>b, <2>1, ForwardIs
<1>7. ASSUME NEW s \in Servers, Await(s), ServerStep
      PROVE  IntInv'
  <2>1. server'[s].pc = "interrupted" => server'[s].terminated
    BY <1>7, <1>a, AwaitIs DEF KeepsMode, ServerIsOver, Interrupted
  <2> QED BY <1>7, <1>a, <1>b, <2>1, AwaitIs
<1>8. ASSUME NEW s \in Servers, GiveUpRequest(s), ServerStep
      PROVE  IntInv'
  <2>1. server'[s].pc = "interrupted" => server'[s].terminated
    BY <1>8, <1>a, GiveUpRequestIs DEF KeepsMode, ServerIsOver, Interrupted
  <2> QED BY <1>8, <1>a, <1>b, <2>1, GiveUpRequestIs
<1>9. ASSUME NEW s \in Servers, Reply(s), ServerStep
      PROVE  IntInv'
  <2>1. server'[s].pc = "interrupted" => server'[s].terminated
    BY <1>9, <1>a, ReplyIs DEF KeepsMode, ServerIsOver, Interrupted
  <2> QED BY <1>9, <1>a, <1>b, <2>1, ReplyIs
<1>10. ASSUME NEW s \in Servers, TakeSIGTERM(s), ServerStep
      PROVE  IntInv'
  <2>1. server'[s].pc = "interrupted" => server'[s].terminated
    BY <1>10, <1>a, TakeSIGTERMIs DEF KeepsMode, ServerIsOver, Interrupted
  <2> QED BY <1>10, <1>a, <1>b, <2>1, TakeSIGTERMIs
<1>11. ASSUME NEW s \in Servers, TakeSIGUSR1(s), ServerStep
      PROVE  IntInv'
  <2>1. s \in Pending
    BY <1>11, TakeSIGUSR1Is DEF Pending
  <2>2. server[s].pc \notin {"await", "await_asleep"}
    BY <1>a, <2>1, NobodyWaits
  <2>3. server'[s].pc = "interrupted" => server'[s].terminated
    BY <1>11, <1>a, <2>2, TakeSIGUSR1Is DEF Interrupted
  <2> QED BY <1>11, <1>a, <1>b, <2>3, TakeSIGUSR1Is
<1>12. ASSUME NEW s \in Servers, NEW ok \in BOOLEAN, SwitchScheduler(s, ok), ServerStep
      PROVE  IntInv'
  <2>1. server'[s].pc = "interrupted" => server'[s].terminated
    BY <1>12, <1>a, SwitchSchedulerIs DEF KeepsMode, ServerIsOver, Interrupted
  <2> QED BY <1>12, <1>a, <1>b, <2>1, SwitchSchedulerIs
<1>13. ASSUME NEW s \in Servers, GiveUpSubserver(s), ServerStep
      PROVE  IntInv'
  <2>1. server'[s].pc = "interrupted" => server'[s].terminated
    BY <1>13, <1>a, GiveUpSubserverIs DEF KeepsMode, ServerIsOver, Interrupted
  <2> QED BY <1>13, <1>a, <1>b, <2>1, GiveUpSubserverIs
<1>14. ASSUME NEW c \in Clients, NEW ok \in BOOLEAN, ClientStart(c, ok), ClientStep
      PROVE  IntInv'
  BY <1>14, <1>a, <1>c, ClientStartIs
<1>15. ASSUME NEW c \in Clients, NEW ok \in BOOLEAN, MeasureDone(c, ok), ClientStep
      PROVE  IntInv'
  BY <1>15, <1>a, <1>c, MeasureDoneIs
<1>16. ASSUME NEW c \in Clients, SignalServer(c), ClientStep
      PROVE  IntInv'
  BY <1>16, <1>a, <1>c, SignalServerIs
<1>17. ASSUME NEW c \in Clients, MeasureSend(c), ClientStep
      PROVE  IntInv'
  BY <1>17, <1>a, <1>c, MeasureSendIs
<1>18. ASSUME NEW c \in Clients, MeasureReceive(c), ClientStep
      PROVE  IntInv'
  BY <1>18, <1>a, <1>c, MeasureReceiveIs
<1>19. ASSUME NEW c \in Clients, GiveUpMeasurement(c), ClientStep
      PROVE  IntInv'
  BY <1>19, <1>a, <1>c, GiveUpMeasurementIs
<1>20. ASSUME NEW c \in Clients, TakeTerm(c), ClientStep
      PROVE  IntInv'
  BY <1>20, <1>a, <1>c, TakeTermIs
<1>21. ASSUME NEW c \in Clients, StopTask(c), ClientStep
      PROVE  IntInv'
  BY <1>21, <1>a, <1>c, StopTaskIs
<1>22. ASSUME NEW c \in Clients, InterruptRecv(c), ClientStep
      PROVE  IntInv'
  BY <1>22, <1>a, <1>c, InterruptRecvIs
<1>23. ASSUME NEW c \in Clients, Join(c), ClientStep
      PROVE  IntInv'
  BY <1>23, <1>a, <1>c, JoinIs
<1>24. ASSUME NEW c \in Clients, NEW ok \in BOOLEAN, EnterCbs(c, ok), ClientStep
      PROVE  IntInv'
  BY <1>24, <1>a, <1>c, EnterCbsIs
<1>25. ASSUME NEW c \in Clients, NEW ok \in BOOLEAN, CreateTask(c, ok), ClientStep
      PROVE  IntInv'
  BY <1>25, <1>a, <1>c, CreateTaskIs
<1>26. ASSUME NEW c \in Clients, NEW ok \in BOOLEAN, Release(c, ok), ClientStep
      PROVE  IntInv'
  BY <1>26, <1>a, <1>c, ReleaseIs
<1>27. ASSUME NEW c \in Clients, SendRequest(c), ClientStep
      PROVE  IntInv'
  BY <1>27, <1>a, <1>c, SendRequestIs
<1>28. ASSUME NEW c \in Clients, RecvFallsAsleep(c), ClientStep
      PROVE  IntInv'
  BY <1>28, <1>a, <1>c, RecvFallsAsleepIs
<1>29. ASSUME NEW c \in Clients, TakeSIGUSR2(c), ClientStep
      PROVE  IntInv'
  BY <1>29, <1>a, <1>c, TakeSIGUSR2Is
<1>30. ASSUME NEW c \in Clients, ReceiveResponse(c), ClientStep
      PROVE  IntInv'
  BY <1>30, <1>a, <1>c, ReceiveResponseIs
<1>31. ASSUME NEW c \in Clients, NEW ok \in BOOLEAN, EndJob(c, ok), ClientStep
      PROVE  IntInv'
  BY <1>31, <1>a, <1>c, EndJobIs
<1>32. ASSUME Fork
      PROVE  IntInv'
  <2>1. \A s \in Servers : /\ server'[s].terminated = server[s].terminated
                          /\ (server'[s].pc = server[s].pc \/ server'[s].pc = "starting")
    BY <1>32, FieldsAre DEF Fork, ServerFields
  <2> QED BY <1>a, <2>1 DEF IntInv
<1>33. ASSUME StoreProcId
      PROVE  IntInv'
  BY <1>33, <1>a, <1>c DEF StoreProcId, clientVars, serverVars
<1>34. ASSUME SleepASecond
      PROVE  IntInv'
  BY <1>34, <1>a, <1>c DEF SleepASecond, clientVars, serverVars
<1>35. ASSUME StartClients
      PROVE  IntInv'
  BY <1>35, <1>a, <1>c DEF StartClients
<1>36. ASSUME StopClients
      PROVE  IntInv'
  BY <1>36, <1>a, <1>c DEF StopClients
<1>37. ASSUME StopServers
      PROVE  IntInv'
  BY <1>37, <1>a, <1>c DEF StopServers
<1>38. ASSUME Wait
      PROVE  IntInv'
  BY <1>38, <1>a, <1>c DEF Wait, clientVars, serverVars
<1>39. ASSUME TerminateDriver
      PROVE  IntInv'
  <2>1. pids = {}
    BY <1>39, <1>a DEF TerminateDriver, Sound
  <2>2. \A s \in Servers : server'[s] = server[s]
    BY <1>39, <2>1 DEF TerminateDriver
  <2> QED BY <1>a, <2>2 DEF IntInv
<1>40. CASE UNCHANGED vars
  BY <1>40, <1>a, <1>c DEF vars, clientVars, serverVars
<1>41. ASSUME NEW s \in Servers, ForwardFails(s), ServerStep
      PROVE  IntInv'
  <2>1. server'[s].pc = "interrupted" => server'[s].terminated
    BY <1>41, <1>a, ForwardFailsIs DEF KeepsMode, ServerIsOver, Interrupted
  <2> QED BY <1>41, <1>a, <1>b, <2>1, ForwardFailsIs
<1>42. ASSUME NEW s \in Servers, Drops(s), ServerStep
      PROVE  IntInv'
  <2>1. server'[s].pc = "interrupted" => server'[s].terminated
    BY <1>42, <1>a, DropsIs DEF KeepsMode, ServerIsOver, Interrupted
  <2> QED BY <1>42, <1>a, <1>b, <2>1, DropsIs
<1> QED
    BY <1>1, <1>2, <1>3, <1>4, <1>5, <1>6, <1>7, <1>8, <1>9, <1>10, <1>11, <1>12, <1>13, <1>14,
     <1>15, <1>16, <1>17, <1>18, <1>19, <1>20, <1>21, <1>22, <1>23, <1>24, <1>25, <1>26, <1>27,
     <1>28, <1>29, <1>30, <1>31, <1>32, <1>33, <1>34, <1>35, <1>36, <1>37, <1>38, <1>39, <1>40, <1>41, <1>42
    DEF Next, ServerProgram, ServerHandler, ClientMain, ClientThread, Driver, ServerStep,
     ClientStep, Drops

-----------------------------------------------------------------------------
(* What p is asking for now, and what it may be answered: a server passes  *)
(* on the request it works on, and one whose subserver has ended answers   *)
(* with a cleared buffer.                                                  *)
Asked(p) == IF p \in Clients THEN Request(p) ELSE server[p].work.request
Gap == \E s \in Servers : Ended(s)
Fitting(p) == {y \in {Asked(p), Zeros} : y = Asked(p) \/ Gap}

(* Everything p has under way is for x, or an answer among Y.              *)
Tagged(q, w, a, p, x, Y) == /\ \A i \in DOMAIN q : q[i].from = p => q[i].request = x
                            /\ w.from = p => w.request = x
                            /\ \A i \in DOMAIN a : a[i] \in Y

TagOK(p) == Owed(p) => Tagged(inbox[ServerFor(p)], server[ServerFor(p)].work, answers[p],
                              p, Asked(p), Fitting(p))
ReplyOK(s) == server[s].pc = "reply" =>
                 \/ server[s].buffer = server[s].work.request
                 \/ server[s].buffer = Zeros /\ Gap
GotOK(c) == client[c].result = "answer" => client[c].got \in Fitting(c)

TagInv == Sound => /\ \A p \in Askers : TagOK(p)
                   /\ \A s \in Servers : ReplyOK(s)
                   /\ \A c \in Clients : GotOK(c)

(* What is under way stays tagged when it is passed on, taken, answered    *)
(* or lost.                                                                *)
LEMMA TaggedIs ==
    ASSUME NEW q \in Seq(Datagrams), NEW w, NEW a \in Seq(Packets), NEW p, p # Nobody,
           NEW x, NEW Y, NEW Z, Y \subseteq Z, Tagged(q, w, a, p, x, Y)
    PROVE  /\ Tagged(q, w, a, p, x, Z)
           /\ Tagged(q, NoWork, a, p, x, Z)
           /\ Tagged(<<>>, NoWork, a, p, x, Z)
           /\ \A d \in Datagrams : d.from # p \/ d.request = x => Tagged(Append(q, d), w, a, p, x, Z)
           /\ q # <<>> => Tagged(Tail(q), Head(q), a, p, x, Z)
           /\ \A y \in Packets : y \in Z => Tagged(q, NoWork, Append(a, y), p, x, Z)
<1>1. /\ \A i \in DOMAIN q : q[i].from = p => q[i].request = x
      /\ w.from = p => w.request = x
      /\ \A i \in DOMAIN a : a[i] \in Z
  BY DEF Tagged
<1>2. NoWork.from # p
  BY DEF NoWork
<1>3. Tagged(q, w, a, p, x, Z) /\ Tagged(q, NoWork, a, p, x, Z) /\ Tagged(<<>>, NoWork, a, p, x, Z)
  BY <1>1, <1>2 DEF Tagged
<1>4. ASSUME NEW d \in Datagrams, d.from # p \/ d.request = x
      PROVE  Tagged(Append(q, d), w, a, p, x, Z)
  <2>1. \A i \in DOMAIN Append(q, d) : (i \in DOMAIN q /\ Append(q, d)[i] = q[i]) \/ Append(q, d)[i] = d
    BY QueueIs
  <2> QED BY <1>1, <1>4, <2>1 DEF Tagged
<1>5. ASSUME q # <<>>
      PROVE  Tagged(Tail(q), Head(q), a, p, x, Z)
  <2>1. /\ 1 \in DOMAIN q /\ Head(q) = q[1]
        /\ \A i \in DOMAIN Tail(q) : i + 1 \in DOMAIN q /\ Tail(q)[i] = q[i + 1]
    BY <1>5, QueueIs
  <2> QED BY <1>1, <2>1 DEF Tagged
<1>6. ASSUME NEW y \in Packets, y \in Z
      PROVE  Tagged(q, NoWork, Append(a, y), p, x, Z)
  <2>1. \A i \in DOMAIN Append(a, y) : (i \in DOMAIN a /\ Append(a, y)[i] = a[i]) \/ Append(a, y)[i] = y
    BY QueueIs
  <2> QED BY <1>1, <1>2, <1>6, <2>1 DEF Tagged
<1> QED BY <1>3, <1>4, <1>5, <1>6

(* Nothing under way is for anything.                                      *)
LEMMA NothingTagged ==
    ASSUME NEW q \in Seq(Datagrams), NEW w, NEW a \in Seq(Packets), NEW p,
           Total(q, w.from, a, p) <= 0, NEW x, NEW Y
    PROVE  Tagged(q, w, a, p, x, Y)
<1>1. Count(q, p) \in Nat /\ Len(a) \in Nat
  BY PlacesAreFinite
<1>2. Count(q, p) = 0 /\ w.from # p /\ Len(a) = 0
  BY <1>1 DEF Total
<1>3. \A i \in DOMAIN q : q[i].from # p
  BY <1>2, CountZero
<1>4. DOMAIN a = {}
  BY <1>2
<1> QED BY <1>2, <1>3, <1>4 DEF Tagged

(* A server that has ended never comes back.                               *)
LEMMA GapStays ==
    ASSUME TypeOK, DriverInv, ClientInv, [Next]_vars, Gap
    PROVE  Gap'
<1>1. PICK s \in Servers : Ended(s)
  BY DEF Gap
<1>2. Ended(s)'
  <2>1. CASE ~Fork
    BY <1>1, <2>1, OnwardKept DEF Onward, Processes
  <2>2. CASE Fork
    <3>1. /\ next \in DOMAIN Order /\ driver = "create"
          /\ DOMAIN server = Servers /\ DOMAIN client = Clients
      BY <2>2, PlaceIs, FieldsAre DEF Fork
    <3>2. Down(Order[next])
      BY <3>1 DEF DriverInv
    <3>3. s # Order[next] /\ s \notin Clients /\ server[s].pc \in {"exited", "failed"}
      BY <1>1, <3>2, ServerAssumption DEF Down, Ended
    <3>4. server'[s].pc = server[s].pc
      BY <2>2, <3>1, <3>3 DEF Fork
    <3> QED BY <3>3, <3>4 DEF Ended
  <2> QED BY <2>1, <2>2
<1> QED BY <1>2 DEF Gap

(* A subserver that nobody finds at its port has ended: it was created     *)
(* before its server.                                                      *)
LEMMA NobodyThere ==
    ASSUME TypeOK, DriverInv, NEW s \in Servers, subserver[s] \in Servers,
           server[s].pc # "down", ~Bound(subserver[s])
    PROVE  Gap
<1>1. /\ s \in Processes /\ subserver[s] \in Processes
      /\ Order[Place(s)] = s /\ Order[Place(subserver[s])] = subserver[s]
      /\ Place(s) \in DOMAIN Order /\ Place(subserver[s]) \in DOMAIN Order
      /\ Place(s) \in Nat /\ Place(subserver[s]) \in Nat /\ next \in Nat
  BY PlaceIs, TypeIs DEF Processes
<1>2. Place(subserver[s]) < Place(s)
  BY <1>1, OrderAssumption
<1>3. ~(Place(s) > next)
  BY <1>1 DEF DriverInv, Down
<1>4. Past(subserver[s])
  BY <1>1, <1>2, <1>3 DEF DriverInv
<1> QED BY <1>4 DEF Past, Bound, Gap, Ended

(* Nothing under way for one who waits is ever changed or mixed up.        *)
LEMMA TagsKept ==
    ASSUME TypeOK, TypeOK', DriverInv, ClientInv, ServerInv, FromInv, Usr2Inv, IntInv,
           PairInv', TagInv, Sound, Sound', NEW p \in Askers, [Next]_vars
    PROVE  TagOK(p)'
<1>p. /\ p \in Processes /\ ServerFor(p) \in Servers /\ ServerFor(p) # p /\ p # Nobody
      /\ p \in Servers => p \notin Clients
      /\ p \in Servers \/ p \in Clients
  BY AskersAre, ServerAssumption DEF Processes
<1>d. \A t \in Servers : t \notin Clients
  BY ServerAssumption
<1> DEFINE S == ServerFor(p)
           Goal == Tagged(inbox'[S], server'[S].work, answers'[p], p, Asked(p)', Fitting(p)')
<1>i. inbox'[S] \in Seq(Datagrams) /\ answers'[p] \in Seq(Packets)
  <2>1. inbox' \in [Servers -> Seq(Datagrams)] /\ answers' \in [Processes -> Seq(Packets)]
    BY DEF TypeOK, ClientType, ServerType, Datagrams, Packets
  <2> QED BY <1>p, <2>1
<1>n. ASSUME Owed(p)', ~Waiting(p)'
      PROVE  Goal
  <2>1. Outstanding(p)' <= 0
    BY <1>n DEF PairInv, PairOK
  <2>2. Total(inbox'[S], server'[S].work.from, answers'[p], p) <= 0
    <3>1. unanswered'[p] \in Nat
      BY <1>p DEF TypeOK, ClientType, ServerType
    <3>2. Total(inbox'[S], server'[S].work.from, answers'[p], p) \in Nat
      BY <1>p, <1>i, TotalIs
    <3>3. Outstanding(p)' = Total(inbox'[S], server'[S].work.from, answers'[p], p) + unanswered'[p]
      BY InFlightIs, OutstandingIs
    <3> QED BY <2>1, <3>1, <3>2, <3>3
  <2> QED BY <1>i, <2>2, NothingTagged
<1> SUFFICES ASSUME Owed(p)', Waiting(p)' PROVE Goal
  BY <1>n DEF TagOK, ServerFor
<1>v. Owed(p)' /\ Waiting(p)'
  OBVIOUS
<1>q. inbox[S] \in Seq(Datagrams) /\ answers[p] \in Seq(Packets)
  BY <1>p, FieldsAre
<1>o. Tagged(inbox[S], server[S].work, answers[p], p, Asked(p), Fitting(p))
  <2>1. Moves(p)
    BY MovesAlways
  <2> QED BY <2>1 DEF Moves, Moved, TagInv, TagOK
<1>t. \A s \in Servers : ReplyOK(s)
  BY DEF TagInv
<1>f. Asked(p)' = Asked(p) => Fitting(p) \subseteq Fitting(p)'
  BY GapStays DEF Fitting
<1>r. /\ p \in Clients => client'[p].n = client[p].n
      /\ p \in Servers => server'[p].work = server[p].work
      => Asked(p)' = Asked(p)
  BY <1>p DEF Asked, Request
<1>s. /\ inbox'[S] = inbox[S] /\ server'[S].work = server[S].work
      /\ answers'[p] = answers[p] /\ Asked(p)' = Asked(p)
      => Goal
  BY <1>p, <1>q, <1>o, <1>f, TaggedIs
<1>g. ASSUME Asked(p)' = Asked(p)
      PROVE  /\ Tagged(inbox[S], NoWork, answers[p], p, Asked(p)', Fitting(p)')
             /\ Tagged(<<>>, NoWork, answers[p], p, Asked(p)', Fitting(p)')
             /\ \A d \in Datagrams : d.from # p \/ d.request = Asked(p) =>
                   Tagged(Append(inbox[S], d), server[S].work, answers[p], p, Asked(p)', Fitting(p)')
             /\ inbox[S] # <<>> =>
                   Tagged(Tail(inbox[S]), Head(inbox[S]), answers[p], p, Asked(p)', Fitting(p)')
             /\ \A y \in Packets : y \in Fitting(p)' =>
                   Tagged(inbox[S], NoWork, Append(answers[p], y), p, Asked(p)', Fitting(p)')
  <2>1. Fitting(p) \subseteq Fitting(p)'
    BY <1>f, <1>g
  <2>2. Tagged(inbox[S], server[S].work, answers[p], p, Asked(p)', Fitting(p))
    BY <1>o, <1>g
  <2>3. ASSUME NEW x, NEW Y, NEW Z, Y \subseteq Z,
               Tagged(inbox[S], server[S].work, answers[p], p, x, Y)
        PROVE  /\ Tagged(inbox[S], NoWork, answers[p], p, x, Z)
               /\ Tagged(<<>>, NoWork, answers[p], p, x, Z)
               /\ \A d \in Datagrams : d.from # p \/ d.request = x =>
                     Tagged(Append(inbox[S], d), server[S].work, answers[p], p, x, Z)
               /\ inbox[S] # <<>> => Tagged(Tail(inbox[S]), Head(inbox[S]), answers[p], p, x, Z)
               /\ \A y \in Packets : y \in Z =>
                     Tagged(inbox[S], NoWork, Append(answers[p], y), p, x, Z)
    <3>0. PICK w : w = server[S].work
      OBVIOUS
    <3>1. PICK q \in Seq(Datagrams), a \in Seq(Packets) : q = inbox[S] /\ w = server[S].work /\ a = answers[p]
      BY <1>q, <3>0
    <3>2. Tagged(q, w, a, p, x, Y) /\ p # Nobody
      BY <1>p, <2>3, <3>1
    <3>3. Tagged(q, NoWork, a, p, x, Z) /\ Tagged(<<>>, NoWork, a, p, x, Z)
      BY <2>3, <3>2, TaggedIs
    <3>4. \A d \in Datagrams : d.from # p \/ d.request = x => Tagged(Append(q, d), w, a, p, x, Z)
      BY <2>3, <3>2, TaggedIs
    <3>5. q # <<>> => Tagged(Tail(q), Head(q), a, p, x, Z)
      BY <2>3, <3>2, TaggedIs
    <3>6. \A y \in Packets : y \in Z => Tagged(q, NoWork, Append(a, y), p, x, Z)
      BY <2>3, <3>2, TaggedIs
    <3> QED BY <3>1, <3>3, <3>4, <3>5, <3>6
  <2>4. PICK x, Z : x = Asked(p)' /\ Z = Fitting(p)'
    OBVIOUS
  <2>5. Tagged(inbox[S], server[S].work, answers[p], p, x, Fitting(p)) /\ Fitting(p) \subseteq Z
    BY <2>1, <2>2, <2>4
  <2> QED BY <1>g, <2>3, <2>4, <2>5
<1>u. server' = server /\ client' = client /\ inbox' = inbox /\ answers' = answers => Goal
  BY <1>r, <1>s
<1> HIDE DEF Goal
<1>1. ASSUME NEW s \in Servers, CheckTerminated(s), ServerStep
      PROVE  Goal
  <2>1. CASE server[s].terminated
    <3>1. /\ OtherServers(s) /\ server'[s].pc = "exited" /\ server'[s].work = NoWork
          /\ inbox'[s] = <<>> /\ \A t \in Servers : t # s => inbox'[t] = inbox[t]
          /\ \A t \in Processes : t # s => answers'[t] = answers[t]
      BY <1>1, <2>1, CheckTerminatedIs DEF ServerIsOver, Processes
    <3>2. p # s
      BY <1>v, <3>1 DEF Owed
    <3>3. Asked(p)' = Asked(p) /\ answers'[p] = answers[p]
      BY <1>1, <1>p, <1>r, <3>1, <3>2 DEF ServerStep, OtherServers
    <3>4. CASE ServerFor(p) = s
      BY <1>g, <3>1, <3>3, <3>4 DEF Goal
    <3>5. CASE ServerFor(p) # s
      BY <1>p, <1>s, <3>1, <3>3, <3>5 DEF OtherServers
    <3> QED BY <3>4, <3>5
  <2>2. CASE ~server[s].terminated
    <3>1. inbox' = inbox /\ answers' = answers /\ \A t \in Servers : server'[t].work = server[t].work
      BY <1>1, <2>2, CheckTerminatedIs DEF OtherServers, KeepsWork
    <3>2. Asked(p)' = Asked(p)
      BY <1>1, <1>r, <3>1 DEF ServerStep
    <3> QED BY <1>p, <1>s, <3>1, <3>2
  <2> QED BY <2>1, <2>2
<1>2. ASSUME NEW s \in Servers, FallAsleep(s), ServerStep
      PROVE  Goal
  <2>1. inbox' = inbox /\ answers' = answers /\ \A t \in Servers : server'[t].work = server[t].work
    BY <1>2, FallAsleepIs DEF OtherServers, KeepsWork
  <2>2. Asked(p)' = Asked(p)
    BY <1>2, <1>r, <2>1 DEF ServerStep
  <2> QED BY <1>p, <1>s, <2>1, <2>2
<1>3. ASSUME NEW s \in Servers, Receive(s), ServerStep
      PROVE  Goal
  <2>1. /\ OtherServers(s) /\ answers' = answers /\ inbox[s] # <<>>
        /\ inbox'[s] = Tail(inbox[s]) /\ \A t \in Servers : t # s => inbox'[t] = inbox[t]
        /\ server'[s].work = Head(inbox[s]) /\ server'[s].pc \in {"reply", "lend"}
    BY <1>3, ReceiveIs
  <2>2. p # s
    BY <1>p, <1>v, <2>1 DEF Waiting
  <2>3. Asked(p)' = Asked(p)
    BY <1>3, <1>r, <2>1, <2>2 DEF ServerStep, OtherServers
  <2>4. CASE ServerFor(p) = s
    BY <1>g, <2>1, <2>3, <2>4 DEF Goal
  <2>5. CASE ServerFor(p) # s
    BY <1>p, <1>s, <2>1, <2>3, <2>5 DEF OtherServers
  <2> QED BY <2>4, <2>5
<1>4. ASSUME NEW s \in Servers, NEW ok \in BOOLEAN, ServerStart(s, ok), ServerStep
      PROVE  Goal
  <2>1. inbox' = inbox /\ answers' = answers /\ \A t \in Servers : server'[t].work = server[t].work
    BY <1>4, ServerStartIs DEF OtherServers, KeepsWork
  <2>2. Asked(p)' = Asked(p)
    BY <1>4, <1>r, <2>1 DEF ServerStep
  <2> QED BY <1>p, <1>s, <2>1, <2>2
<1>5. ASSUME NEW s \in Servers, NEW ok \in BOOLEAN, Lend(s, ok), ServerStep
      PROVE  Goal
  <2>1. inbox' = inbox /\ answers' = answers /\ \A t \in Servers : server'[t].work = server[t].work
    BY <1>5, LendIs DEF OtherServers, KeepsWork
  <2>2. Asked(p)' = Asked(p)
    BY <1>5, <1>r, <2>1 DEF ServerStep
  <2> QED BY <1>p, <1>s, <2>1, <2>2
<1>6. ASSUME NEW s \in Servers, Forward(s), ServerStep
      PROVE  Goal
  <2>1. /\ subserver[s] \in Servers /\ s \in Processes /\ server[s].buffer \in Packets
        /\ ServerFor(s) = subserver[s] /\ server[s].buffer = server[s].work.request
    <3>1. server[s].pc = "forward" /\ subserver[s] # Nobody /\ server[s].buffer = server[s].work.request
      BY <1>6, ForwardIs DEF ServerInv, ServerOK, Working
    <3>2. server[s].buffer \in Packets
      BY TypeIs DEF ServerRec
    <3> QED BY <3>1, <3>2, AskersAre, ServerAssumption DEF Processes
  <2>2. OtherServers(s) /\ answers' = answers /\ server'[s].work = server[s].work
    BY <1>6, ForwardIs
  <2>3. \A t \in Servers : server'[t].work = server[t].work
    BY <2>2 DEF OtherServers
  <2>4. Asked(p)' = Asked(p)
    BY <1>6, <1>r, <2>3 DEF ServerStep
  <2>5. CASE inbox' = inbox
    BY <1>p, <1>s, <2>2, <2>3, <2>4, <2>5
  <2>6. CASE inbox' = [inbox EXCEPT ![subserver[s]] = Append(@, [from |-> s, request |-> server[s].buffer])]
    <3>1. PICK d \in Datagrams : d = [from |-> s, request |-> server[s].buffer] /\ d.from = s
      BY <2>1, SentIs
    <3>2. inbox'[subserver[s]] = Append(inbox[subserver[s]], d) /\ \A t \in Servers : t # subserver[s] => inbox'[t] = inbox[t]
      BY <2>1, <2>6, <3>1, FieldsAre
    <3>6. d.request = server[s].buffer
      BY <3>1
    <3>3. d.from # p \/ d.request = Asked(p)
      BY <1>d, <2>1, <3>1, <3>6 DEF Asked
    <3>4. CASE ServerFor(p) = subserver[s]
      <4>1. inbox'[ServerFor(p)] = Append(inbox[ServerFor(p)], d) /\ server'[ServerFor(p)].work = server[ServerFor(p)].work
        BY <1>p, <2>3, <3>2, <3>4
      <4> QED BY <1>g, <2>2, <2>4, <3>3, <4>1 DEF Goal
    <3>5. CASE ServerFor(p) # subserver[s]
      BY <1>p, <1>s, <2>2, <2>3, <2>4, <3>2, <3>5
    <3> QED BY <3>4, <3>5
  <2> QED BY <1>6, <2>5, <2>6, ForwardIs
<1>7. ASSUME NEW s \in Servers, Await(s), ServerStep
      PROVE  Goal
  <2>1. /\ OtherServers(s) /\ inbox' = inbox /\ server'[s].work = server[s].work /\ server'[s].pc = "reply"
        /\ \A t \in Processes : t # s => answers'[t] = answers[t]
    BY <1>7, AwaitIs
  <2>2. p # s
    BY <1>p, <1>v, <2>1 DEF Waiting
  <2>3. /\ \A t \in Servers : server'[t].work = server[t].work
        /\ answers'[p] = answers[p]
    BY <1>p, <2>1, <2>2 DEF OtherServers
  <2>4. Asked(p)' = Asked(p)
    BY <1>7, <1>r, <2>3 DEF ServerStep
  <2> QED BY <1>p, <1>s, <2>1, <2>3, <2>4
<1>8. ASSUME NEW s \in Servers, GiveUpRequest(s), ServerStep
      PROVE  Goal
  <2>1. /\ OtherServers(s) /\ inbox' = inbox /\ answers' = answers
        /\ server'[s].pc = "check" /\ server'[s].work = NoWork
    BY <1>8, GiveUpRequestIs
  <2>2. p # s
    BY <1>p, <1>v, <2>1 DEF Waiting
  <2>3. Asked(p)' = Asked(p)
    BY <1>8, <1>r, <2>1, <2>2 DEF ServerStep, OtherServers
  <2>4. CASE ServerFor(p) = s
    BY <1>g, <2>1, <2>3, <2>4 DEF Goal
  <2>5. CASE ServerFor(p) # s
    BY <1>p, <1>s, <2>1, <2>3, <2>5 DEF OtherServers
  <2> QED BY <2>4, <2>5
<1>9. ASSUME NEW s \in Servers, Reply(s), ServerStep
      PROVE  Goal
  <2>1. /\ OtherServers(s) /\ inbox' = inbox /\ server[s].pc = "reply"
        /\ server'[s].pc = "check" /\ server'[s].work = NoWork
        /\ answers' = [answers EXCEPT ![server[s].work.from] = Append(@, server[s].buffer)]
    BY <1>9, ReplyIs
  <2>2. p # s
    BY <1>p, <1>v, <2>1 DEF Waiting
  <2>3. Asked(p)' = Asked(p)
    BY <1>9, <1>r, <2>1, <2>2 DEF ServerStep, OtherServers
  <2>4. /\ p = server[s].work.from => answers'[p] = Append(answers[p], server[s].buffer)
        /\ p # server[s].work.from => answers'[p] = answers[p]
    BY <1>p, <2>1, FieldsAre
  <2>5. server[s].buffer \in Packets /\ server[s].work.from # Nobody /\ Asks(server[s].work.from, s)
    <3>1. server[s].buffer \in Packets
      BY TypeIs DEF ServerRec
    <3>2. server[s].work.from # Nobody
      BY <2>1 DEF ServerInv, ServerOK, Working
    <3> QED BY <3>1, <3>2 DEF FromInv, FromOK
  <2>6. CASE p = server[s].work.from
    <3>1. ServerFor(p) = s
      BY <2>5, <2>6 DEF Asks
    <3>2. server[s].work.request = Asked(p)
      BY <1>o, <2>6, <3>1 DEF Tagged
    <3>3. server[s].buffer \in Fitting(p)
      BY <1>t, <2>1, <3>2 DEF ReplyOK, Fitting
    <3>4. server[s].buffer \in Fitting(p)'
      BY <1>f, <2>3, <3>3
    <3> QED BY <1>g, <2>1, <2>3, <2>4, <2>5, <2>6, <3>1, <3>4 DEF Goal
  <2>7. CASE p # server[s].work.from /\ ServerFor(p) = s
    BY <1>g, <2>1, <2>3, <2>4, <2>7 DEF Goal
  <2>8. CASE p # server[s].work.from /\ ServerFor(p) # s
    BY <1>p, <1>s, <2>1, <2>3, <2>4, <2>8 DEF OtherServers
  <2> QED BY <2>6, <2>7, <2>8
<1>10. ASSUME NEW s \in Servers, TakeSIGTERM(s), ServerStep
      PROVE  Goal
  <2>1. inbox' = inbox /\ answers' = answers /\ \A t \in Servers : server'[t].work = server[t].work
    BY <1>10, TakeSIGTERMIs DEF OtherServers, KeepsWork
  <2>2. Asked(p)' = Asked(p)
    BY <1>10, <1>r, <2>1 DEF ServerStep
  <2> QED BY <1>p, <1>s, <2>1, <2>2
<1>11. ASSUME NEW s \in Servers, TakeSIGUSR1(s), ServerStep
      PROVE  Goal
  <2>1. inbox' = inbox /\ answers' = answers /\ \A t \in Servers : server'[t].work = server[t].work
    BY <1>11, TakeSIGUSR1Is DEF OtherServers, KeepsWork
  <2>2. Asked(p)' = Asked(p)
    BY <1>11, <1>r, <2>1 DEF ServerStep
  <2> QED BY <1>p, <1>s, <2>1, <2>2
<1>12. ASSUME NEW s \in Servers, NEW ok \in BOOLEAN, SwitchScheduler(s, ok), ServerStep
      PROVE  Goal
  <2>1. inbox' = inbox /\ answers' = answers /\ \A t \in Servers : server'[t].work = server[t].work
    BY <1>12, SwitchSchedulerIs DEF OtherServers, KeepsWork
  <2>2. Asked(p)' = Asked(p)
    BY <1>12, <1>r, <2>1 DEF ServerStep
  <2> QED BY <1>p, <1>s, <2>1, <2>2
<1>13. ASSUME NEW s \in Servers, GiveUpSubserver(s), ServerStep
      PROVE  Goal
  <2>1. ~Sound'
    BY <1>13, GiveUpSubserverIs DEF ServerIsOver, Sound, Failed, Processes
  <2> QED BY <2>1
<1>14. ASSUME NEW c \in Clients, NEW ok \in BOOLEAN, ClientStart(c, ok), ClientStep
      PROVE  Goal
  <2>1. server' = server /\ inbox' = inbox /\ answers' = answers
    BY <1>14, ClientStartIs
  <2>2. p \in Clients => client'[p].n = client[p].n
    BY <1>14, <1>v, ClientStartIs DEF OtherClients, KeepsTask, ClientIsGone, Owed, Dead
  <2>3. Asked(p)' = Asked(p)
    BY <1>r, <2>1, <2>2
  <2> QED BY <1>p, <1>s, <2>1, <2>3
<1>15. ASSUME NEW c \in Clients, NEW ok \in BOOLEAN, MeasureDone(c, ok), ClientStep
      PROVE  Goal
  <2>1. server' = server /\ inbox' = inbox /\ answers' = answers
    BY <1>15, MeasureDoneIs
  <2>2. p \in Clients => client'[p].n = client[p].n
    BY <1>15, <1>v, MeasureDoneIs DEF OtherClients, KeepsTask, ClientIsGone, Owed, Dead
  <2>3. Asked(p)' = Asked(p)
    BY <1>r, <2>1, <2>2
  <2> QED BY <1>p, <1>s, <2>1, <2>3
<1>16. ASSUME NEW c \in Clients, SignalServer(c), ClientStep
      PROVE  Goal
  <2>1. server' = server /\ inbox' = inbox /\ answers' = answers
    BY <1>16, SignalServerIs
  <2>2. p \in Clients => client'[p].n = client[p].n
    BY <1>16, <1>v, SignalServerIs DEF OtherClients, KeepsTask, ClientIsGone, Owed, Dead
  <2>3. Asked(p)' = Asked(p)
    BY <1>r, <2>1, <2>2
  <2> QED BY <1>p, <1>s, <2>1, <2>3
<1>17. ASSUME NEW c \in Clients, MeasureSend(c), ClientStep
      PROVE  Goal
  <2>1. Request(c) \in Packets /\ server_of[c] \in Servers /\ c \in Processes /\ ServerFor(c) = server_of[c]
    BY AskersAre, ClientAssumption, Fresh, TypeIs DEF Processes
  <2>2. OtherClients(c) /\ server' = server /\ answers' = answers /\ client'[c].n = client[c].n
    BY <1>17, MeasureSendIs DEF KeepsTask
  <2>3. Asked(p)' = Asked(p)
    BY <1>r, <2>2 DEF OtherClients
  <2>4. CASE inbox' = inbox
    BY <1>p, <1>s, <2>2, <2>3, <2>4
  <2>5. CASE inbox' = [inbox EXCEPT ![server_of[c]] = Append(@, [from |-> c, request |-> Request(c)])]
    <3>1. PICK d \in Datagrams : d = [from |-> c, request |-> Request(c)] /\ d.from = c /\ d.request = Request(c)
      BY ZenonT(60), <2>1, SentIs
    <3>2. inbox'[server_of[c]] = Append(inbox[server_of[c]], d) /\ \A t \in Servers : t # server_of[c] => inbox'[t] = inbox[t]
      BY <2>1, <2>5, <3>1, FieldsAre
    <3>3. d.from # p \/ d.request = Asked(p)
      BY <3>1 DEF Asked
    <3>4. CASE ServerFor(p) = server_of[c]
      <4>1. inbox'[ServerFor(p)] = Append(inbox[ServerFor(p)], d)
        BY <3>2, <3>4
      <4> QED BY <1>g, <2>2, <2>3, <3>3, <4>1 DEF Goal
    <3>5. CASE ServerFor(p) # server_of[c]
      BY <1>p, <1>s, <2>2, <2>3, <3>2, <3>5
    <3> QED BY <3>4, <3>5
  <2> QED BY <1>17, <2>4, <2>5, MeasureSendIs
<1>18. ASSUME NEW c \in Clients, MeasureReceive(c), ClientStep
      PROVE  Goal
  <2>1. /\ OtherClients(c) /\ server' = server /\ inbox' = inbox
        /\ \A t \in Processes : t # c => answers'[t] = answers[t]
    BY <1>18, MeasureReceiveIs
  <2>2. p # c
    BY <1>18, <1>d, <1>v, MeasureReceiveIs DEF ClientInv, ClientOK, KeepsMain, KeepsTask, Waiting
  <2>3. Asked(p)' = Asked(p) /\ answers'[p] = answers[p]
    BY <1>p, <1>r, <2>1, <2>2 DEF OtherClients
  <2> QED BY <1>p, <1>s, <2>1, <2>3
<1>19. ASSUME NEW c \in Clients, GiveUpMeasurement(c), ClientStep
      PROVE  Goal
  <2>1. server' = server /\ inbox' = inbox /\ answers' = answers
    BY <1>19, GiveUpMeasurementIs
  <2>2. p \in Clients => client'[p].n = client[p].n
    BY <1>19, <1>v, GiveUpMeasurementIs DEF OtherClients, KeepsTask, ClientIsGone, Owed, Dead
  <2>3. Asked(p)' = Asked(p)
    BY <1>r, <2>1, <2>2
  <2> QED BY <1>p, <1>s, <2>1, <2>3
<1>20. ASSUME NEW c \in Clients, TakeTerm(c), ClientStep
      PROVE  Goal
  <2>1. server' = server /\ inbox' = inbox /\ answers' = answers
    BY <1>20, TakeTermIs
  <2>2. p \in Clients => client'[p].n = client[p].n
    BY <1>20, <1>v, TakeTermIs DEF OtherClients, KeepsTask, ClientIsGone, Owed, Dead
  <2>3. Asked(p)' = Asked(p)
    BY <1>r, <2>1, <2>2
  <2> QED BY <1>p, <1>s, <2>1, <2>3
<1>21. ASSUME NEW c \in Clients, StopTask(c), ClientStep
      PROVE  Goal
  <2>1. server' = server /\ inbox' = inbox /\ answers' = answers
    BY <1>21, StopTaskIs
  <2>2. p \in Clients => client'[p].n = client[p].n
    BY <1>21, <1>v, StopTaskIs DEF OtherClients, KeepsTask, ClientIsGone, Owed, Dead
  <2>3. Asked(p)' = Asked(p)
    BY <1>r, <2>1, <2>2
  <2> QED BY <1>p, <1>s, <2>1, <2>3
<1>22. ASSUME NEW c \in Clients, InterruptRecv(c), ClientStep
      PROVE  Goal
  <2>1. server' = server /\ inbox' = inbox /\ answers' = answers
    BY <1>22, InterruptRecvIs
  <2>2. p \in Clients => client'[p].n = client[p].n
    BY <1>22, <1>v, InterruptRecvIs DEF OtherClients, KeepsTask, ClientIsGone, Owed, Dead
  <2>3. Asked(p)' = Asked(p)
    BY <1>r, <2>1, <2>2
  <2> QED BY <1>p, <1>s, <2>1, <2>3
<1>23. ASSUME NEW c \in Clients, Join(c), ClientStep
      PROVE  Goal
  <2>1. server' = server /\ inbox' = inbox /\ answers' = answers
    BY <1>23, JoinIs
  <2>2. p \in Clients => client'[p].n = client[p].n
    BY <1>23, <1>v, JoinIs DEF OtherClients, KeepsTask, ClientIsGone, Owed, Dead
  <2>3. Asked(p)' = Asked(p)
    BY <1>r, <2>1, <2>2
  <2> QED BY <1>p, <1>s, <2>1, <2>3
<1>24. ASSUME NEW c \in Clients, NEW ok \in BOOLEAN, EnterCbs(c, ok), ClientStep
      PROVE  Goal
  <2>1. server' = server /\ inbox' = inbox /\ answers' = answers
    BY <1>24, EnterCbsIs
  <2>2. p \in Clients => client'[p].n = client[p].n
    BY <1>24, <1>v, EnterCbsIs DEF OtherClients, KeepsTask, ClientIsGone, Owed, Dead
  <2>3. Asked(p)' = Asked(p)
    BY <1>r, <2>1, <2>2
  <2> QED BY <1>p, <1>s, <2>1, <2>3
<1>25. ASSUME NEW c \in Clients, NEW ok \in BOOLEAN, CreateTask(c, ok), ClientStep
      PROVE  Goal
  <2>1. server' = server /\ inbox' = inbox /\ answers' = answers
    BY <1>25, CreateTaskIs
  <2>2. p \in Clients => client'[p].n = client[p].n
    BY <1>25, <1>v, CreateTaskIs DEF OtherClients, KeepsTask, ClientIsGone, Owed, Dead
  <2>3. Asked(p)' = Asked(p)
    BY <1>r, <2>1, <2>2
  <2> QED BY <1>p, <1>s, <2>1, <2>3
<1>26. ASSUME NEW c \in Clients, NEW ok \in BOOLEAN, Release(c, ok), ClientStep
      PROVE  Goal
  <2>1. server' = server /\ inbox' = inbox /\ answers' = answers
    BY <1>26, ReleaseIs
  <2>2. p \in Clients => client'[p].n = client[p].n
    BY <1>26, <1>d, <1>v, ReleaseIs DEF OtherClients, ClientInv, ClientOK, KeepsMain, Waiting, KeepsTask, ClientIsGone, Owed, Dead
  <2>3. Asked(p)' = Asked(p)
    BY <1>r, <2>1, <2>2
  <2> QED BY <1>p, <1>s, <2>1, <2>3
<1>27. ASSUME NEW c \in Clients, SendRequest(c), ClientStep
      PROVE  Goal
  <2>1. Request(c) \in Packets /\ server_of[c] \in Servers /\ c \in Processes /\ ServerFor(c) = server_of[c]
    BY AskersAre, ClientAssumption, Fresh, TypeIs DEF Processes
  <2>2. OtherClients(c) /\ server' = server /\ answers' = answers /\ client'[c].n = client[c].n
    BY <1>27, SendRequestIs DEF KeepsTask
  <2>3. Asked(p)' = Asked(p)
    BY <1>r, <2>2 DEF OtherClients
  <2>4. CASE inbox' = inbox
    BY <1>p, <1>s, <2>2, <2>3, <2>4
  <2>5. CASE inbox' = [inbox EXCEPT ![server_of[c]] = Append(@, [from |-> c, request |-> Request(c)])]
    <3>1. PICK d \in Datagrams : d = [from |-> c, request |-> Request(c)] /\ d.from = c /\ d.request = Request(c)
      BY ZenonT(60), <2>1, SentIs
    <3>2. inbox'[server_of[c]] = Append(inbox[server_of[c]], d) /\ \A t \in Servers : t # server_of[c] => inbox'[t] = inbox[t]
      BY <2>1, <2>5, <3>1, FieldsAre
    <3>3. d.from # p \/ d.request = Asked(p)
      BY <3>1 DEF Asked
    <3>4. CASE ServerFor(p) = server_of[c]
      <4>1. inbox'[ServerFor(p)] = Append(inbox[ServerFor(p)], d)
        BY <3>2, <3>4
      <4> QED BY <1>g, <2>2, <2>3, <3>3, <4>1 DEF Goal
    <3>5. CASE ServerFor(p) # server_of[c]
      BY <1>p, <1>s, <2>2, <2>3, <3>2, <3>5
    <3> QED BY <3>4, <3>5
  <2> QED BY <1>27, <2>4, <2>5, SendRequestIs
<1>28. ASSUME NEW c \in Clients, RecvFallsAsleep(c), ClientStep
      PROVE  Goal
  <2>1. server' = server /\ inbox' = inbox /\ answers' = answers
    BY <1>28, RecvFallsAsleepIs
  <2>2. p \in Clients => client'[p].n = client[p].n
    BY <1>28, <1>v, RecvFallsAsleepIs DEF OtherClients, KeepsTask, ClientIsGone, Owed, Dead
  <2>3. Asked(p)' = Asked(p)
    BY <1>r, <2>1, <2>2
  <2> QED BY <1>p, <1>s, <2>1, <2>3
<1>29. ASSUME NEW c \in Clients, TakeSIGUSR2(c), ClientStep
      PROVE  Goal
  <2>1. server' = server /\ inbox' = inbox /\ answers' = answers
    BY <1>29, TakeSIGUSR2Is
  <2>2. p \in Clients => client'[p].n = client[p].n
    BY <1>29, <1>v, TakeSIGUSR2Is DEF OtherClients, KeepsTask, ClientIsGone, Owed, Dead
  <2>3. Asked(p)' = Asked(p)
    BY <1>r, <2>1, <2>2
  <2> QED BY <1>p, <1>s, <2>1, <2>3
<1>30. ASSUME NEW c \in Clients, ReceiveResponse(c), ClientStep
      PROVE  Goal
  <2>1. /\ OtherClients(c) /\ server' = server /\ inbox' = inbox
        /\ \A t \in Processes : t # c => answers'[t] = answers[t]
    BY <1>30, ReceiveResponseIs
  <2>2. p # c
    BY <1>30, <1>d, <1>v, ReceiveResponseIs DEF ClientInv, ClientOK, KeepsMain, KeepsTask, Waiting
  <2>3. Asked(p)' = Asked(p) /\ answers'[p] = answers[p]
    BY <1>p, <1>r, <2>1, <2>2 DEF OtherClients
  <2> QED BY <1>p, <1>s, <2>1, <2>3
<1>31. ASSUME NEW c \in Clients, NEW ok \in BOOLEAN, EndJob(c, ok), ClientStep
      PROVE  Goal
  <2>1. server' = server /\ inbox' = inbox /\ answers' = answers
    BY <1>31, EndJobIs
  <2>2. p \in Clients => client'[p].n = client[p].n
    BY <1>31, <1>v, EndJobIs DEF OtherClients, KeepsTask, ClientIsGone, Owed, Dead
  <2>3. Asked(p)' = Asked(p)
    BY <1>r, <2>1, <2>2
  <2> QED BY <1>p, <1>s, <2>1, <2>3
<1>32. ASSUME Fork
      PROVE  Goal
  <2>1. inbox' = inbox /\ answers' = answers /\ \A t \in Servers : server'[t].work = server[t].work
    BY <1>32, FieldsAre DEF Fork, ServerFields
  <2>2. p \in Clients => client'[p].n = client[p].n
    <3>1. ASSUME p \in Clients
          PROVE  DOMAIN client = Clients /\ DOMAIN client[p] = ClientFields
      BY <3>1, FieldsAre
    <3>2. \/ client' = client
          \/ client' = [client EXCEPT ![Order[next]].pc = "starting"]
      BY <1>32 DEF Fork
    <3> QED BY <3>1, <3>2 DEF ClientFields
  <2>3. Asked(p)' = Asked(p)
    BY <1>r, <2>1, <2>2
  <2> QED BY <1>p, <1>s, <2>1, <2>3
<1>33. ASSUME StoreProcId
      PROVE  Goal
  BY <1>33, <1>u DEF StoreProcId, clientVars, serverVars
<1>34. ASSUME SleepASecond
      PROVE  Goal
  BY <1>34, <1>u DEF SleepASecond, clientVars, serverVars
<1>35. ASSUME StartClients
      PROVE  Goal
  <2>1. server' = server /\ inbox' = inbox /\ answers' = answers
    BY <1>35 DEF StartClients
  <2>2. p \in Clients => client'[p].n = client[p].n
    <3>1. p \in Clients => client'[p] = client[p] \/ client'[p] = Gone("killed")
      BY <1>35 DEF StartClients, SignalClients
    <3> QED BY <1>v, <3>1, OverIs DEF Owed, Dead
  <2>3. Asked(p)' = Asked(p)
    BY <1>r, <2>1, <2>2
  <2> QED BY <1>p, <1>s, <2>1, <2>3
<1>36. ASSUME StopClients
      PROVE  Goal
  <2>1. server' = server /\ inbox' = inbox /\ answers' = answers
    BY <1>36 DEF StopClients
  <2>2. p \in Clients => client'[p].n = client[p].n
    <3>1. p \in Clients => client'[p] = client[p] \/ client'[p] = Gone("killed")
      BY <1>36 DEF StopClients, SignalClients
    <3> QED BY <1>v, <3>1, OverIs DEF Owed, Dead
  <2>3. Asked(p)' = Asked(p)
    BY <1>r, <2>1, <2>2
  <2> QED BY <1>p, <1>s, <2>1, <2>3
<1>37. ASSUME StopServers
      PROVE  Goal
  BY <1>37, <1>u DEF StopServers
<1>38. ASSUME Wait
      PROVE  Goal
  BY <1>38, <1>u DEF Wait, clientVars, serverVars
<1>39. ASSUME TerminateDriver
      PROVE  Goal
  <2>1. pids = {}
    BY <1>39 DEF TerminateDriver, Sound
  <2>2. /\ \A t \in Servers : server'[t] = server[t] /\ inbox'[t] = inbox[t]
        /\ \A c \in Clients : client'[c] = client[c]
        /\ \A t \in Processes : answers'[t] = answers[t]
    BY <1>39, <2>1 DEF TerminateDriver
  <2>3. Asked(p)' = Asked(p)
    BY <1>r, <2>2
  <2> QED BY <1>p, <1>s, <2>2, <2>3
<1>40. CASE UNCHANGED vars
  BY <1>40, <1>u DEF vars, clientVars, serverVars
<1>41. ASSUME NEW s \in Servers, ForwardFails(s), ServerStep
      PROVE  Goal
  <2>1. inbox' = inbox /\ answers' = answers /\ \A t \in Servers : server'[t].work = server[t].work
    BY <1>41, ForwardFailsIs DEF OtherServers, KeepsWork
  <2>2. Asked(p)' = Asked(p)
    BY <1>41, <1>r, <2>1 DEF ServerStep
  <2> QED BY <1>p, <1>s, <2>1, <2>2
<1>42. ASSUME NEW s \in Servers, Drops(s), ServerStep
      PROVE  Goal
  <2>1. /\ OtherServers(s) /\ inbox' = inbox /\ answers' = answers
        /\ server'[s].pc = "check" /\ server'[s].work = NoWork
    BY <1>42, DropsIs
  <2>2. p # s
    BY <1>p, <1>v, <2>1 DEF Waiting
  <2>3. Asked(p)' = Asked(p)
    BY <1>42, <1>r, <2>1, <2>2 DEF ServerStep, OtherServers
  <2>4. CASE ServerFor(p) = s
    BY <1>g, <2>1, <2>3, <2>4 DEF Goal
  <2>5. CASE ServerFor(p) # s
    BY <1>p, <1>s, <2>1, <2>3, <2>5 DEF OtherServers
  <2> QED BY <2>4, <2>5
<1> QED
    BY <1>1, <1>2, <1>3, <1>4, <1>5, <1>6, <1>7, <1>8, <1>9, <1>10, <1>11, <1>12, <1>13, <1>14,
     <1>15, <1>16, <1>17, <1>18, <1>19, <1>20, <1>21, <1>22, <1>23, <1>24, <1>25, <1>26, <1>27,
     <1>28, <1>29, <1>30, <1>31, <1>32, <1>33, <1>34, <1>35, <1>36, <1>37, <1>38, <1>39, <1>40, <1>41, <1>42
    DEF Next, ServerProgram, ServerHandler, ClientMain, ClientThread, Driver, ServerStep,
     ClientStep, Drops

(* A server replies to the request it took, or with a cleared buffer when  *)
(* a server of its chain has ended.                                        *)
LEMMA RepliesKept ==
    ASSUME TypeOK, TypeOK', DriverInv, ClientInv, ServerInv, FromInv, Usr2Inv, IntInv,
           PairInv', TagInv, Sound, Sound', NEW r \in Servers, [Next]_vars
    PROVE  ReplyOK(r)'
<1>t. ReplyOK(r) /\ \A p \in Askers : TagOK(p)
  BY DEF TagInv
<1>g. Gap => Gap'
  BY GapStays
<1>d. r \notin Clients
  BY ServerAssumption
<1>a. /\ server'[r].pc = server[r].pc /\ server'[r].work = server[r].work
      /\ server'[r].buffer = server[r].buffer
      => ReplyOK(r)'
  BY <1>t, <1>g DEF ReplyOK
<1>x. server'[r].pc # "reply" => ReplyOK(r)'
  BY DEF ReplyOK
<1>o. ASSUME NEW s \in Servers, OtherServers(s), r # s
      PROVE  ReplyOK(r)'
  BY <1>a, <1>o DEF OtherServers
<1>c. server' = server => ReplyOK(r)'
  BY <1>a
<1>1. ASSUME NEW s \in Servers, CheckTerminated(s), ServerStep
      PROVE  ReplyOK(r)'
  <2>1. CASE r = s
    BY <1>1, <1>a, <1>x, <2>1, CheckTerminatedIs DEF KeepsWork, Interrupted, ServerIsOver
  <2>2. CASE r # s
    BY <1>1, <1>o, <2>2, CheckTerminatedIs
  <2> QED BY <2>1, <2>2
<1>2. ASSUME NEW s \in Servers, FallAsleep(s), ServerStep
      PROVE  ReplyOK(r)'
  <2>1. CASE r = s
    BY <1>2, <1>a, <1>x, <2>1, FallAsleepIs DEF KeepsWork, Interrupted, ServerIsOver
  <2>2. CASE r # s
    BY <1>2, <1>o, <2>2, FallAsleepIs
  <2> QED BY <2>1, <2>2
<1>3. ASSUME NEW s \in Servers, Receive(s), ServerStep
      PROVE  ReplyOK(r)'
  <2>1. CASE r = s
    BY <1>3, <2>1, ReceiveIs DEF ReplyOK
  <2>2. CASE r # s
    BY <1>3, <1>o, <2>2, ReceiveIs
  <2> QED BY <2>1, <2>2
<1>4. ASSUME NEW s \in Servers, NEW ok \in BOOLEAN, ServerStart(s, ok), ServerStep
      PROVE  ReplyOK(r)'
  <2>1. CASE r = s
    BY <1>4, <1>a, <1>x, <2>1, ServerStartIs DEF KeepsWork, Interrupted, ServerIsOver
  <2>2. CASE r # s
    BY <1>4, <1>o, <2>2, ServerStartIs
  <2> QED BY <2>1, <2>2
<1>5. ASSUME NEW s \in Servers, NEW ok \in BOOLEAN, Lend(s, ok), ServerStep
      PROVE  ReplyOK(r)'
  <2>1. CASE r = s
    BY <1>5, <1>a, <1>x, <2>1, LendIs DEF KeepsWork, Interrupted, ServerIsOver
  <2>2. CASE r # s
    BY <1>5, <1>o, <2>2, LendIs
  <2> QED BY <2>1, <2>2
<1>6. ASSUME NEW s \in Servers, Forward(s), ServerStep
      PROVE  ReplyOK(r)'
  <2>1. CASE r = s
    <3>1. CASE server'[s].pc = "await"
      BY <1>x, <2>1, <3>1
    <3>2. CASE ~Bound(subserver[s])
      <4>1. server[s].pc = "forward" /\ server'[s].buffer = Zeros
        BY <1>6, ForwardIs
      <4>2. subserver[s] \in Servers
        BY <4>1, ServerAssumption DEF ServerInv, ServerOK, Working
      <4>3. Gap'
        BY <1>g, <3>2, <4>1, <4>2, NobodyThere
      <4> QED BY <2>1, <4>1, <4>3 DEF ReplyOK
    <3> QED BY <1>6, <3>1, <3>2, ForwardIs
  <2>2. CASE r # s
    BY <1>6, <1>o, <2>2, ForwardIs
  <2> QED BY <2>1, <2>2
<1>7. ASSUME NEW s \in Servers, Await(s), ServerStep
      PROVE  ReplyOK(r)'
  <2>1. CASE r = s
    <3>1. /\ server[s].pc \in {"await", "await_asleep"} /\ answers[s] # <<>> /\ s \in Processes
          /\ server'[s].work = server[s].work /\ server'[s].buffer = Head(answers[s])
      BY <1>7, AwaitIs DEF Processes
    <3>2. s \in Askers
      BY <3>1, AskersAre DEF ServerInv, ServerOK, Working
    <3>3. Owed(s)
      BY <1>d, <2>1, <3>1 DEF Owed
    <3>4. \A i \in DOMAIN answers[s] : answers[s][i] \in Fitting(s)
      BY <1>t, <3>2, <3>3 DEF TagOK, Tagged
    <3>5. answers[s] \in Seq(Packets)
      BY <3>1, FieldsAre
    <3>6. Head(answers[s]) \in Fitting(s)
      BY <3>1, <3>4, <3>5, QueueIs
    <3>7. Asked(s) = server[s].work.request
      BY <1>d, <2>1 DEF Asked
    <3> QED BY <1>g, <2>1, <3>1, <3>6, <3>7 DEF ReplyOK, Fitting
  <2>2. CASE r # s
    BY <1>7, <1>o, <2>2, AwaitIs
  <2> QED BY <2>1, <2>2
<1>8. ASSUME NEW s \in Servers, GiveUpRequest(s), ServerStep
      PROVE  ReplyOK(r)'
  <2>1. CASE r = s
    BY <1>8, <1>a, <1>x, <2>1, GiveUpRequestIs DEF KeepsWork, Interrupted, ServerIsOver
  <2>2. CASE r # s
    BY <1>8, <1>o, <2>2, GiveUpRequestIs
  <2> QED BY <2>1, <2>2
<1>9. ASSUME NEW s \in Servers, Reply(s), ServerStep
      PROVE  ReplyOK(r)'
  <2>1. CASE r = s
    BY <1>9, <1>a, <1>x, <2>1, ReplyIs DEF KeepsWork, Interrupted, ServerIsOver
  <2>2. CASE r # s
    BY <1>9, <1>o, <2>2, ReplyIs
  <2> QED BY <2>1, <2>2
<1>10. ASSUME NEW s \in Servers, TakeSIGTERM(s), ServerStep
      PROVE  ReplyOK(r)'
  <2>1. CASE r = s
    BY <1>10, <1>a, <1>x, <2>1, TakeSIGTERMIs DEF KeepsWork, Interrupted, ServerIsOver
  <2>2. CASE r # s
    BY <1>10, <1>o, <2>2, TakeSIGTERMIs
  <2> QED BY <2>1, <2>2
<1>11. ASSUME NEW s \in Servers, TakeSIGUSR1(s), ServerStep
      PROVE  ReplyOK(r)'
  <2>1. CASE r = s
    BY <1>11, <1>a, <1>x, <2>1, TakeSIGUSR1Is DEF KeepsWork, Interrupted, ServerIsOver
  <2>2. CASE r # s
    BY <1>11, <1>o, <2>2, TakeSIGUSR1Is
  <2> QED BY <2>1, <2>2
<1>12. ASSUME NEW s \in Servers, NEW ok \in BOOLEAN, SwitchScheduler(s, ok), ServerStep
      PROVE  ReplyOK(r)'
  <2>1. CASE r = s
    BY <1>12, <1>a, <1>x, <2>1, SwitchSchedulerIs DEF KeepsWork, Interrupted, ServerIsOver
  <2>2. CASE r # s
    BY <1>12, <1>o, <2>2, SwitchSchedulerIs
  <2> QED BY <2>1, <2>2
<1>13. ASSUME NEW s \in Servers, GiveUpSubserver(s), ServerStep
      PROVE  ReplyOK(r)'
  <2>1. ~Sound'
    BY <1>13, GiveUpSubserverIs DEF ServerIsOver, Sound, Failed, Processes
  <2> QED BY <2>1
<1>14. ASSUME NEW c \in Clients, NEW ok \in BOOLEAN, ClientStart(c, ok), ClientStep
      PROVE  ReplyOK(r)'
  BY <1>14, <1>c, ClientStartIs
<1>15. ASSUME NEW c \in Clients, NEW ok \in BOOLEAN, MeasureDone(c, ok), ClientStep
      PROVE  ReplyOK(r)'
  BY <1>15, <1>c, MeasureDoneIs
<1>16. ASSUME NEW c \in Clients, SignalServer(c), ClientStep
      PROVE  ReplyOK(r)'
  BY <1>16, <1>c, SignalServerIs
<1>17. ASSUME NEW c \in Clients, MeasureSend(c), ClientStep
      PROVE  ReplyOK(r)'
  BY <1>17, <1>c, MeasureSendIs
<1>18. ASSUME NEW c \in Clients, MeasureReceive(c), ClientStep
      PROVE  ReplyOK(r)'
  BY <1>18, <1>c, MeasureReceiveIs
<1>19. ASSUME NEW c \in Clients, GiveUpMeasurement(c), ClientStep
      PROVE  ReplyOK(r)'
  BY <1>19, <1>c, GiveUpMeasurementIs
<1>20. ASSUME NEW c \in Clients, TakeTerm(c), ClientStep
      PROVE  ReplyOK(r)'
  BY <1>20, <1>c, TakeTermIs
<1>21. ASSUME NEW c \in Clients, StopTask(c), ClientStep
      PROVE  ReplyOK(r)'
  BY <1>21, <1>c, StopTaskIs
<1>22. ASSUME NEW c \in Clients, InterruptRecv(c), ClientStep
      PROVE  ReplyOK(r)'
  BY <1>22, <1>c, InterruptRecvIs
<1>23. ASSUME NEW c \in Clients, Join(c), ClientStep
      PROVE  ReplyOK(r)'
  BY <1>23, <1>c, JoinIs
<1>24. ASSUME NEW c \in Clients, NEW ok \in BOOLEAN, EnterCbs(c, ok), ClientStep
      PROVE  ReplyOK(r)'
  BY <1>24, <1>c, EnterCbsIs
<1>25. ASSUME NEW c \in Clients, NEW ok \in BOOLEAN, CreateTask(c, ok), ClientStep
      PROVE  ReplyOK(r)'
  BY <1>25, <1>c, CreateTaskIs
<1>26. ASSUME NEW c \in Clients, NEW ok \in BOOLEAN, Release(c, ok), ClientStep
      PROVE  ReplyOK(r)'
  BY <1>26, <1>c, ReleaseIs
<1>27. ASSUME NEW c \in Clients, SendRequest(c), ClientStep
      PROVE  ReplyOK(r)'
  BY <1>27, <1>c, SendRequestIs
<1>28. ASSUME NEW c \in Clients, RecvFallsAsleep(c), ClientStep
      PROVE  ReplyOK(r)'
  BY <1>28, <1>c, RecvFallsAsleepIs
<1>29. ASSUME NEW c \in Clients, TakeSIGUSR2(c), ClientStep
      PROVE  ReplyOK(r)'
  BY <1>29, <1>c, TakeSIGUSR2Is
<1>30. ASSUME NEW c \in Clients, ReceiveResponse(c), ClientStep
      PROVE  ReplyOK(r)'
  BY <1>30, <1>c, ReceiveResponseIs
<1>31. ASSUME NEW c \in Clients, NEW ok \in BOOLEAN, EndJob(c, ok), ClientStep
      PROVE  ReplyOK(r)'
  BY <1>31, <1>c, EndJobIs
<1>32. ASSUME Fork
      PROVE  ReplyOK(r)'
  <2>1. /\ server'[r].work = server[r].work /\ server'[r].buffer = server[r].buffer
        /\ (server'[r].pc = server[r].pc \/ server'[r].pc = "starting")
    <3>1. \/ server' = server
          \/ server' = [server EXCEPT ![Order[next]].pc = "starting"]
      BY <1>32 DEF Fork
    <3>2. DOMAIN server = Servers /\ DOMAIN server[r] = ServerFields
      BY FieldsAre
    <3> QED BY <3>1, <3>2 DEF ServerFields
  <2> QED BY <1>a, <1>x, <2>1
<1>33. ASSUME StoreProcId
      PROVE  ReplyOK(r)'
  BY <1>33, <1>c DEF StoreProcId, clientVars, serverVars
<1>34. ASSUME SleepASecond
      PROVE  ReplyOK(r)'
  BY <1>34, <1>c DEF SleepASecond, clientVars, serverVars
<1>35. ASSUME StartClients
      PROVE  ReplyOK(r)'
  BY <1>35, <1>c DEF StartClients
<1>36. ASSUME StopClients
      PROVE  ReplyOK(r)'
  BY <1>36, <1>c DEF StopClients
<1>37. ASSUME StopServers
      PROVE  ReplyOK(r)'
  BY <1>37, <1>c DEF StopServers
<1>38. ASSUME Wait
      PROVE  ReplyOK(r)'
  BY <1>38, <1>c DEF Wait, clientVars, serverVars
<1>39. ASSUME TerminateDriver
      PROVE  ReplyOK(r)'
  <2>1. pids = {}
    BY <1>39 DEF TerminateDriver, Sound
  <2>2. server'[r] = server[r]
    BY <1>39, <2>1 DEF TerminateDriver
  <2> QED BY <1>a, <2>2
<1>40. CASE UNCHANGED vars
  BY <1>40, <1>c DEF vars, clientVars, serverVars
<1>41. ASSUME NEW s \in Servers, ForwardFails(s), ServerStep
      PROVE  ReplyOK(r)'
  <2>1. CASE r = s
    <3>1. server[s].buffer = server[s].work.request
      BY <1>41, ForwardFailsIs DEF ServerInv, ServerOK
    <3> QED BY <1>41, <2>1, <3>1, ForwardFailsIs DEF ReplyOK
  <2>2. CASE r # s
    BY <1>41, <1>o, <2>2, ForwardFailsIs
  <2> QED BY <2>1, <2>2
<1>42. ASSUME NEW s \in Servers, Drops(s), ServerStep
      PROVE  ReplyOK(r)'
  <2>1. CASE r = s
    BY <1>42, <1>a, <1>x, <2>1, DropsIs DEF KeepsWork, Interrupted, ServerIsOver
  <2>2. CASE r # s
    BY <1>42, <1>o, <2>2, DropsIs
  <2> QED BY <2>1, <2>2
<1> QED
    BY <1>1, <1>2, <1>3, <1>4, <1>5, <1>6, <1>7, <1>8, <1>9, <1>10, <1>11, <1>12, <1>13, <1>14,
     <1>15, <1>16, <1>17, <1>18, <1>19, <1>20, <1>21, <1>22, <1>23, <1>24, <1>25, <1>26, <1>27,
     <1>28, <1>29, <1>30, <1>31, <1>32, <1>33, <1>34, <1>35, <1>36, <1>37, <1>38, <1>39, <1>40, <1>41, <1>42
    DEF Next, ServerProgram, ServerHandler, ClientMain, ClientThread, Driver, ServerStep,
     ClientStep, Drops

(* A client accepts only an answer to its own last request, or a cleared   *)
(* one.                                                                    *)
LEMMA ResponsesKept ==
    ASSUME TypeOK, TypeOK', DriverInv, ClientInv, ServerInv, FromInv, Usr2Inv, IntInv,
           PairInv', TagInv, Sound, Sound', NEW k \in Clients, [Next]_vars
    PROVE  GotOK(k)'
<1>t. GotOK(k) /\ TagOK(k)
  BY AskersAre DEF TagInv
<1>d. k \in Processes /\ k \in Askers /\ ServerFor(k) \in Servers
  BY AskersAre
<1>f. client'[k].n = client[k].n => Fitting(k) \subseteq Fitting(k)'
  <2>1. Gap => Gap'
    BY GapStays
  <2>2. client'[k].n = client[k].n => Asked(k)' = Asked(k)
    BY DEF Asked, Request
  <2> QED BY <2>1, <2>2 DEF Fitting
<1>a. client'[k].n = client[k].n /\ client'[k].result = client[k].result /\ client'[k].got = client[k].got
      => GotOK(k)'
  BY <1>t, <1>f DEF GotOK
<1>x. client'[k].result # "answer" => GotOK(k)'
  BY DEF GotOK
<1>o. ASSUME NEW c \in Clients, OtherClients(c), k # c
      PROVE  GotOK(k)'
  BY <1>a, <1>o DEF OtherClients
<1>c. client' = client => GotOK(k)'
  BY <1>a
<1>1. ASSUME NEW s \in Servers, CheckTerminated(s), ServerStep
      PROVE  GotOK(k)'
  BY <1>1, <1>c DEF ServerStep
<1>2. ASSUME NEW s \in Servers, FallAsleep(s), ServerStep
      PROVE  GotOK(k)'
  BY <1>2, <1>c DEF ServerStep
<1>3. ASSUME NEW s \in Servers, Receive(s), ServerStep
      PROVE  GotOK(k)'
  BY <1>3, <1>c DEF ServerStep
<1>4. ASSUME NEW s \in Servers, NEW ok \in BOOLEAN, ServerStart(s, ok), ServerStep
      PROVE  GotOK(k)'
  BY <1>4, <1>c DEF ServerStep
<1>5. ASSUME NEW s \in Servers, NEW ok \in BOOLEAN, Lend(s, ok), ServerStep
      PROVE  GotOK(k)'
  BY <1>5, <1>c DEF ServerStep
<1>6. ASSUME NEW s \in Servers, Forward(s), ServerStep
      PROVE  GotOK(k)'
  BY <1>6, <1>c DEF ServerStep
<1>7. ASSUME NEW s \in Servers, Await(s), ServerStep
      PROVE  GotOK(k)'
  BY <1>7, <1>c DEF ServerStep
<1>8. ASSUME NEW s \in Servers, GiveUpRequest(s), ServerStep
      PROVE  GotOK(k)'
  BY <1>8, <1>c DEF ServerStep
<1>9. ASSUME NEW s \in Servers, Reply(s), ServerStep
      PROVE  GotOK(k)'
  BY <1>9, <1>c DEF ServerStep
<1>10. ASSUME NEW s \in Servers, TakeSIGTERM(s), ServerStep
      PROVE  GotOK(k)'
  BY <1>10, <1>c DEF ServerStep
<1>11. ASSUME NEW s \in Servers, TakeSIGUSR1(s), ServerStep
      PROVE  GotOK(k)'
  BY <1>11, <1>c DEF ServerStep
<1>12. ASSUME NEW s \in Servers, NEW ok \in BOOLEAN, SwitchScheduler(s, ok), ServerStep
      PROVE  GotOK(k)'
  BY <1>12, <1>c DEF ServerStep
<1>13. ASSUME NEW s \in Servers, GiveUpSubserver(s), ServerStep
      PROVE  GotOK(k)'
  BY <1>13, <1>c DEF ServerStep
<1>14. ASSUME NEW c \in Clients, NEW ok \in BOOLEAN, ClientStart(c, ok), ClientStep
      PROVE  GotOK(k)'
  <2>1. CASE k = c
    BY <1>14, <1>a, <1>x, <2>1, ClientStartIs DEF KeepsTask, KeepsExchange, ClientIsGone
  <2>2. CASE k # c
    BY <1>14, <1>o, <2>2, ClientStartIs
  <2> QED BY <2>1, <2>2
<1>15. ASSUME NEW c \in Clients, NEW ok \in BOOLEAN, MeasureDone(c, ok), ClientStep
      PROVE  GotOK(k)'
  <2>1. CASE k = c
    BY <1>15, <1>a, <1>x, <2>1, MeasureDoneIs DEF KeepsTask, KeepsExchange, ClientIsGone
  <2>2. CASE k # c
    BY <1>15, <1>o, <2>2, MeasureDoneIs
  <2> QED BY <2>1, <2>2
<1>16. ASSUME NEW c \in Clients, SignalServer(c), ClientStep
      PROVE  GotOK(k)'
  <2>1. CASE k = c
    BY <1>16, <1>a, <1>x, <2>1, SignalServerIs DEF KeepsTask, KeepsExchange, ClientIsGone
  <2>2. CASE k # c
    BY <1>16, <1>o, <2>2, SignalServerIs
  <2> QED BY <2>1, <2>2
<1>17. ASSUME NEW c \in Clients, MeasureSend(c), ClientStep
      PROVE  GotOK(k)'
  <2>1. CASE k = c
    BY <1>17, <1>a, <1>x, <2>1, MeasureSendIs DEF KeepsTask, KeepsExchange, ClientIsGone
  <2>2. CASE k # c
    BY <1>17, <1>o, <2>2, MeasureSendIs
  <2> QED BY <2>1, <2>2
<1>18. ASSUME NEW c \in Clients, MeasureReceive(c), ClientStep
      PROVE  GotOK(k)'
  <2>1. CASE k = c
    <3>1. /\ answers[c] # <<>> /\ client'[c].got = Head(answers[c]) /\ client'[c].n = client[c].n
      BY <1>18, MeasureReceiveIs DEF KeepsTask
    <3>2. Owed(c)
      <4>1. c \notin Servers
        BY ServerAssumption
      <4> QED BY <1>18, <4>1, MeasureReceiveIs DEF Owed, Dead, ClientInv, ClientOK
    <3>3. \A i \in DOMAIN answers[c] : answers[c][i] \in Fitting(c)
      BY <1>t, <2>1, <3>2 DEF TagOK, Tagged
    <3>4. answers[c] \in Seq(Packets)
      BY <1>d, <2>1, FieldsAre
    <3>5. Head(answers[c]) \in Fitting(c)
      BY <3>1, <3>3, <3>4, QueueIs
    <3> QED BY <1>f, <2>1, <3>1, <3>5 DEF GotOK
  <2>2. CASE k # c
    BY <1>18, <1>o, <2>2, MeasureReceiveIs
  <2> QED BY <2>1, <2>2
<1>19. ASSUME NEW c \in Clients, GiveUpMeasurement(c), ClientStep
      PROVE  GotOK(k)'
  <2>1. CASE k = c
    BY <1>19, <1>a, <1>x, <2>1, GiveUpMeasurementIs DEF KeepsTask, KeepsExchange, ClientIsGone
  <2>2. CASE k # c
    BY <1>19, <1>o, <2>2, GiveUpMeasurementIs
  <2> QED BY <2>1, <2>2
<1>20. ASSUME NEW c \in Clients, TakeTerm(c), ClientStep
      PROVE  GotOK(k)'
  <2>1. CASE k = c
    BY <1>20, <1>a, <1>x, <2>1, TakeTermIs DEF KeepsTask, KeepsExchange, ClientIsGone
  <2>2. CASE k # c
    BY <1>20, <1>o, <2>2, TakeTermIs
  <2> QED BY <2>1, <2>2
<1>21. ASSUME NEW c \in Clients, StopTask(c), ClientStep
      PROVE  GotOK(k)'
  <2>1. CASE k = c
    BY <1>21, <1>a, <1>x, <2>1, StopTaskIs DEF KeepsTask, KeepsExchange, ClientIsGone
  <2>2. CASE k # c
    BY <1>21, <1>o, <2>2, StopTaskIs
  <2> QED BY <2>1, <2>2
<1>22. ASSUME NEW c \in Clients, InterruptRecv(c), ClientStep
      PROVE  GotOK(k)'
  <2>1. CASE k = c
    BY <1>22, <1>a, <1>x, <2>1, InterruptRecvIs DEF KeepsTask, KeepsExchange, ClientIsGone
  <2>2. CASE k # c
    BY <1>22, <1>o, <2>2, InterruptRecvIs
  <2> QED BY <2>1, <2>2
<1>23. ASSUME NEW c \in Clients, Join(c), ClientStep
      PROVE  GotOK(k)'
  <2>1. CASE k = c
    BY <1>23, <1>a, <1>x, <2>1, JoinIs DEF KeepsTask, KeepsExchange, ClientIsGone
  <2>2. CASE k # c
    BY <1>23, <1>o, <2>2, JoinIs
  <2> QED BY <2>1, <2>2
<1>24. ASSUME NEW c \in Clients, NEW ok \in BOOLEAN, EnterCbs(c, ok), ClientStep
      PROVE  GotOK(k)'
  <2>1. CASE k = c
    BY <1>24, <1>a, <1>x, <2>1, EnterCbsIs DEF KeepsTask, KeepsExchange, ClientIsGone
  <2>2. CASE k # c
    BY <1>24, <1>o, <2>2, EnterCbsIs
  <2> QED BY <2>1, <2>2
<1>25. ASSUME NEW c \in Clients, NEW ok \in BOOLEAN, CreateTask(c, ok), ClientStep
      PROVE  GotOK(k)'
  <2>1. CASE k = c
    BY <1>25, <1>a, <1>x, <2>1, CreateTaskIs DEF KeepsTask, KeepsExchange, ClientIsGone
  <2>2. CASE k # c
    BY ZenonT(60), <1>25, <1>o, <2>2, CreateTaskIs
  <2> QED BY <2>1, <2>2
<1>26. ASSUME NEW c \in Clients, NEW ok \in BOOLEAN, Release(c, ok), ClientStep
      PROVE  GotOK(k)'
  <2>1. CASE k = c
    <3>1. client[k].result # "answer"
      BY <1>26, <2>1, ReleaseIs DEF ClientInv, ClientOK
    <3> QED BY <1>26, <1>x, <2>1, <3>1, ReleaseIs DEF ClientIsGone
  <2>2. CASE k # c
    BY <1>26, <1>o, <2>2, ReleaseIs
  <2> QED BY <2>1, <2>2
<1>27. ASSUME NEW c \in Clients, SendRequest(c), ClientStep
      PROVE  GotOK(k)'
  <2>1. CASE k = c
    BY <1>27, <1>a, <1>x, <2>1, SendRequestIs DEF KeepsTask, KeepsExchange, ClientIsGone
  <2>2. CASE k # c
    BY <1>27, <1>o, <2>2, SendRequestIs
  <2> QED BY <2>1, <2>2
<1>28. ASSUME NEW c \in Clients, RecvFallsAsleep(c), ClientStep
      PROVE  GotOK(k)'
  <2>1. CASE k = c
    BY <1>28, <1>a, <1>x, <2>1, RecvFallsAsleepIs DEF KeepsTask, KeepsExchange, ClientIsGone
  <2>2. CASE k # c
    BY <1>28, <1>o, <2>2, RecvFallsAsleepIs
  <2> QED BY <2>1, <2>2
<1>29. ASSUME NEW c \in Clients, TakeSIGUSR2(c), ClientStep
      PROVE  GotOK(k)'
  <2>1. CASE k = c
    BY <1>29, <1>a, <1>x, <2>1, TakeSIGUSR2Is DEF KeepsTask, KeepsExchange, ClientIsGone
  <2>2. CASE k # c
    BY <1>29, <1>o, <2>2, TakeSIGUSR2Is
  <2> QED BY <2>1, <2>2
<1>30. ASSUME NEW c \in Clients, ReceiveResponse(c), ClientStep
      PROVE  GotOK(k)'
  <2>1. CASE k = c
    <3>1. /\ answers[c] # <<>> /\ client'[c].got = Head(answers[c]) /\ client'[c].n = client[c].n
      BY <1>30, ReceiveResponseIs DEF KeepsTask
    <3>2. Owed(c)
      <4>1. c \notin Servers
        BY ServerAssumption
      <4> QED BY <1>30, <4>1, ReceiveResponseIs DEF Owed, Dead, ClientInv, ClientOK
    <3>3. \A i \in DOMAIN answers[c] : answers[c][i] \in Fitting(c)
      BY <1>t, <2>1, <3>2 DEF TagOK, Tagged
    <3>4. answers[c] \in Seq(Packets)
      BY <1>d, <2>1, FieldsAre
    <3>5. Head(answers[c]) \in Fitting(c)
      BY <3>1, <3>3, <3>4, QueueIs
    <3> QED BY <1>f, <2>1, <3>1, <3>5 DEF GotOK
  <2>2. CASE k # c
    BY <1>30, <1>o, <2>2, ReceiveResponseIs
  <2> QED BY <2>1, <2>2
<1>31. ASSUME NEW c \in Clients, NEW ok \in BOOLEAN, EndJob(c, ok), ClientStep
      PROVE  GotOK(k)'
  <2>1. CASE k = c
    BY <1>31, <1>a, <1>x, <2>1, EndJobIs DEF KeepsTask, KeepsExchange, ClientIsGone
  <2>2. CASE k # c
    BY <1>31, <1>o, <2>2, EndJobIs
  <2> QED BY <2>1, <2>2
<1>32. ASSUME Fork
      PROVE  GotOK(k)'
  <2>1. \/ client' = client
        \/ client' = [client EXCEPT ![Order[next]].pc = "starting"]
    BY <1>32 DEF Fork
  <2>2. DOMAIN client = Clients /\ DOMAIN client[k] = ClientFields
    BY FieldsAre
  <2>3. client'[k].n = client[k].n /\ client'[k].result = client[k].result /\ client'[k].got = client[k].got
    BY <2>1, <2>2 DEF ClientFields
  <2> QED BY <1>a, <2>3
<1>33. ASSUME StoreProcId
      PROVE  GotOK(k)'
  BY <1>33, <1>c DEF StoreProcId, clientVars, serverVars
<1>34. ASSUME SleepASecond
      PROVE  GotOK(k)'
  BY <1>34, <1>c DEF SleepASecond, clientVars, serverVars
<1>35. ASSUME StartClients
      PROVE  GotOK(k)'
  <2>1. client'[k] = client[k] \/ client'[k] = Gone("killed")
    BY <1>35 DEF StartClients, SignalClients
  <2> QED BY <1>a, <1>x, <2>1 DEF Gone, NewClient
<1>36. ASSUME StopClients
      PROVE  GotOK(k)'
  <2>1. client'[k] = client[k] \/ client'[k] = Gone("killed")
    BY <1>36 DEF StopClients, SignalClients
  <2> QED BY <1>a, <1>x, <2>1 DEF Gone, NewClient
<1>37. ASSUME StopServers
      PROVE  GotOK(k)'
  BY <1>37, <1>c DEF StopServers
<1>38. ASSUME Wait
      PROVE  GotOK(k)'
  BY <1>38, <1>c DEF Wait, clientVars, serverVars
<1>39. ASSUME TerminateDriver
      PROVE  GotOK(k)'
  <2>1. pids = {}
    BY <1>39 DEF TerminateDriver, Sound
  <2>2. client'[k] = client[k]
    BY <1>39, <2>1 DEF TerminateDriver
  <2> QED BY <1>a, <2>2
<1>40. CASE UNCHANGED vars
  BY <1>40, <1>c DEF vars, clientVars, serverVars
<1>41. ASSUME NEW s \in Servers, ForwardFails(s), ServerStep
      PROVE  GotOK(k)'
  BY <1>41, <1>c DEF ServerStep
<1>42. ASSUME NEW s \in Servers, Drops(s), ServerStep
      PROVE  GotOK(k)'
  BY <1>42, <1>c DEF ServerStep
<1> QED
    BY <1>1, <1>2, <1>3, <1>4, <1>5, <1>6, <1>7, <1>8, <1>9, <1>10, <1>11, <1>12, <1>13, <1>14,
     <1>15, <1>16, <1>17, <1>18, <1>19, <1>20, <1>21, <1>22, <1>23, <1>24, <1>25, <1>26, <1>27,
     <1>28, <1>29, <1>30, <1>31, <1>32, <1>33, <1>34, <1>35, <1>36, <1>37, <1>38, <1>39, <1>40, <1>41, <1>42
    DEF Next, ServerProgram, ServerHandler, ClientMain, ClientThread, Driver, ServerStep,
     ClientStep, Drops

-----------------------------------------------------------------------------
(* The driver has waited for every process.                                *)
LastInv == driver = "exited" => \A p \in Processes : Ended(p)

(* The driver exits last.                                                  *)
LEMMA LastInvKept ==
    ASSUME TypeOK, ClientInv, LastInv, [Next]_vars
    PROVE  LastInv'
<1> SUFFICES ASSUME driver' = "exited" PROVE \A p \in Processes : Ended(p)'
  BY DEF LastInv
<1>1. CASE driver = "exited"
  <2>1. ~Fork
    BY <1>1 DEF Fork
  <2> QED BY <1>1, <2>1, OnwardKept DEF LastInv, Onward
<1>2. CASE driver # "exited"
  <2>1. Wait
    BY <1>2 DEF Next, ServerProgram, ServerHandler, ClientMain, ClientThread, Driver, vars,
       Fork, StoreProcId, SleepASecond, StartClients, StopClients, StopServers, TerminateDriver
  <2> QED BY <2>1 DEF Wait, Ended, clientVars, serverVars
<1> QED BY <1>1, <1>2

(* What pairs the answers with the requests.                               *)
ExchangeInv == LastInv /\ SchedInv /\ FromInv /\ Usr2Inv /\ EarlyInv /\ IntInv /\ PairInv /\ TagInv

LEMMA ExchangeInit == Init => ExchangeInv
<1> SUFFICES ASSUME Init PROVE ExchangeInv
  OBVIOUS
<1>1. /\ \A s \in Servers : server[s] = NewServer /\ inbox[s] = <<>>
      /\ \A c \in Clients : client[c] = NewClient
      /\ \A p \in Processes : signals[p] = {} /\ answers[p] = <<>> /\ unanswered[p] = 0
  BY DEF Init, ClientInit, ServerInit
<1>2. FromInv /\ Usr2Inv /\ IntInv
  BY <1>1 DEF FromInv, FromOK, AllAsk, Usr2Inv, IntInv, NewServer, NewClient, NoWork
<1>3. EarlyInv
  BY <1>1 DEF EarlyInv, EarlyOK, NewClient, Processes
<1>4. \A p \in Askers : Outstanding(p) = 0 /\ ~Waiting(p)
  <2>1. ASSUME NEW p \in Askers
        PROVE  Outstanding(p) = 0 /\ ~Waiting(p)
    <3>1. /\ p \in Processes /\ p # Nobody /\ inbox[ServerFor(p)] = <<>> /\ answers[p] = <<>>
          /\ server[ServerFor(p)].work.from = Nobody
      BY <1>1, AskersAre, ServerAssumption DEF NewServer, NoWork
    <3>2. Total(<<>>, Nobody, <<>>, p) = 0
      BY <3>1, CountEmpty DEF Total
    <3>3. Outstanding(p) = 0
      BY <1>1, <3>1, <3>2, InFlightIs, OutstandingIs
    <3>4. ~Waiting(p)
      BY <1>1 DEF Waiting, NewServer, NewClient
    <3> QED BY <3>3, <3>4
  <2> QED BY <2>1
<1>5. PairInv
  BY <1>4 DEF PairInv, PairOK
<1>6. TagInv
  <2>1. \A p \in Askers : TagOK(p)
    <3>1. ASSUME NEW p \in Askers
          PROVE  TagOK(p)
      <4>1. /\ inbox[ServerFor(p)] = <<>> /\ answers[p] = <<>> /\ p # Nobody
            /\ server[ServerFor(p)].work.from = Nobody
        BY <1>1, AskersAre, ServerAssumption DEF NewServer, NoWork
      <4> QED BY <4>1 DEF TagOK, Tagged
    <3> QED BY <3>1
  <2>2. (\A s \in Servers : ReplyOK(s)) /\ (\A c \in Clients : GotOK(c))
    BY <1>1 DEF ReplyOK, GotOK, NewServer, NewClient
  <2> QED BY <2>1, <2>2 DEF TagInv
<1>7. LastInv
  BY DEF Init, LastInv
<1> QED BY <1>2, <1>3, <1>5, <1>6, <1>7, SchedInvInit DEF ExchangeInv

LEMMA ExchangeKept ==
    ASSUME Inv, ExchangeInv, [Next]_vars
    PROVE  ExchangeInv'
<1>1. /\ TypeOK /\ TypeOK' /\ DriverInv /\ ClientInv /\ ServerInv
      /\ LastInv /\ SchedInv /\ FromInv /\ Usr2Inv /\ EarlyInv /\ IntInv /\ PairInv /\ TagInv
  BY InvKept DEF Inv, ExchangeInv
<1>2. SchedInv'
  BY <1>1, SchedInvKept
<1>3. FromInv' /\ Usr2Inv' /\ EarlyInv'
  BY <1>1, FromInvKept, Usr2InvKept, EarlyInvKept
<1>4. IntInv'
  BY <1>1, IntInvKept
<1>5. PairInv'
  BY <1>1, PairInvKept
<1>6. TagInv'
  <2> SUFFICES ASSUME Sound' PROVE TagInv'
    BY DEF TagInv
  <2>1. Sound
    BY <1>1, SoundBefore
  <2>2. \A p \in Askers : TagOK(p)'
    BY <1>1, <1>5, <2>1, TagsKept
  <2>3. \A s \in Servers : ReplyOK(s)'
    BY <1>1, <1>5, <2>1, RepliesKept
  <2>4. \A c \in Clients : GotOK(c)'
    BY <1>1, <1>5, <2>1, ResponsesKept
  <2> QED BY <2>2, <2>3, <2>4 DEF TagInv
<1>7. LastInv'
  BY <1>1, LastInvKept
<1> QED BY <1>2, <1>3, <1>4, <1>5, <1>6, <1>7 DEF ExchangeInv

(* Until something ends, whoever waits has exactly one request or answer   *)
(* under way and whoever does not has none; and unless something fails, a  *)
(* client accepts only an answer to its own last request.                  *)
THEOREM RequestsAlwaysPaired == Spec => []RequestsArePaired
<1>1. Inv /\ ExchangeInv => RequestsArePaired
  <2> SUFFICES ASSUME Inv, ExchangeInv PROVE RequestsArePaired
    OBVIOUS
  <2>1. ASSUME driver \notin {"wait", "terminated"}, \A p \in Processes : ~Ended(p),
               NEW p \in {s \in Servers : subserver[s] # Nobody} \cup {c \in Clients : ~client[c].stopped}
        PROVE  Outstanding(p) = IF Waiting(p) THEN 1 ELSE 0
    <3>1. Sound
      BY <2>1 DEF Sound, Ended, Failed, Dead
    <3>2. p \in Askers /\ p \in Processes /\ (p \in Servers => p \notin Clients)
      BY AskersAre, ServerAssumption DEF Askers
    <3>3. ~Ending => Owed(p)
      <4>1. ASSUME ~Ending, p \in Servers
            PROVE  Owed(p)
        <5>1. ~server[p].terminated
          BY <4>1 DEF Inv, ServerInv, ServerOK
        <5>2. server[p].pc # "interrupted"
          BY <3>1, <4>1, <5>1 DEF ExchangeInv, IntInv
        <5> QED BY <2>1, <3>2, <4>1, <5>1, <5>2 DEF Owed, Ended
      <4>2. ASSUME p \notin Servers
            PROVE  Owed(p)
        <5>1. p \in Clients /\ ~client[p].stopped
          BY <2>1, <4>2
        <5> QED BY <2>1, <3>2, <4>2, <5>1 DEF Owed, Ended
      <4> QED BY <4>1, <4>2
    <3>4. CASE ~Ending
      BY <3>1, <3>2, <3>3, <3>4 DEF ExchangeInv, PairInv, PairOK
    <3>5. CASE Ending
      BY <2>1, <3>2, <3>5 DEF Ending, ExchangeInv, LastInv
    <3> QED BY <3>4, <3>5
  <2>2. ASSUME driver # "terminated", \A p \in Processes : ~Failed(p),
               NEW c \in Clients, client[c].result = "answer"
        PROVE  \/ client[c].got = Request(c)
               \/ client[c].got = Zeros /\ \E s \in Servers : ~Bound(s)
    <3>1. client[c].got \in Fitting(c) /\ Asked(c) = Request(c)
      BY <2>2 DEF ExchangeInv, TagInv, GotOK, Sound, Asked
    <3>2. Gap => \E s \in Servers : ~Bound(s)
      BY ServerAssumption DEF Gap, Ended, Bound
    <3> QED BY <3>1, <3>2 DEF Fitting
  <2> QED BY <2>1, <2>2 DEF RequestsArePaired
<1> QED BY <1>1, InitInv, InvKept, ExchangeInit, ExchangeKept, PTL DEF Spec

(* Unless something fails, whatever a server works on is the request that  *)
(* its sender waits for at that moment, with the bandwidth that the sender *)
(* lends or is refused; and a server's own bandwidth is lent only while    *)
(* its request is at its subserver or being given up, unless the kernel    *)
(* does not give it back.                                                  *)
THEOREM BandwidthAlwaysFollows == Spec => []BandwidthFollowsRequest
<1>1. Inv /\ ExchangeInv => BandwidthFollowsRequest
  <2> SUFFICES ASSUME Inv, ExchangeInv PROVE BandwidthFollowsRequest
    OBVIOUS
  <2>1. ASSUME driver # "terminated", \A p \in Processes : ~Failed(p),
               NEW s \in Servers, NEW p \in Processes, server[s].work.from = p, ~ToldToEnd(p)
        PROVE  Waiting(p) /\ server[s].work.request = RequestOf(p) /\ HasLent(p)
    <3>1. Sound
      BY <2>1 DEF Sound
    <3>2. /\ p # Nobody /\ Asks(p, s) /\ p \in Askers /\ ServerFor(p) = s
          /\ (p \in Servers <=> p \notin Clients)
      BY <2>1, ServerAssumption DEF ExchangeInv, FromInv, FromOK, Asks, Processes
    <3>3. Owed(p)
      <4>1. CASE p \in Servers
        <5>1. server[p].pc # "interrupted"
          BY <2>1, <3>1, <4>1 DEF ToldToEnd, ExchangeInv, IntInv
        <5> QED BY <2>1, <3>2, <4>1, <5>1 DEF ToldToEnd, Ended, Owed
      <4>2. CASE p \in Clients
        BY <2>1, <3>2, <4>2 DEF ToldToEnd, Ended, Owed
      <4> QED BY <3>2, <4>1, <4>2
    <3>4. Waiting(p)
      BY <2>1, <3>1, <3>2, <3>3, WorksForOne DEF Inv, ExchangeInv
    <3>5. server[s].work.request = Asked(p)
      BY <2>1, <3>1, <3>2, <3>3 DEF ExchangeInv, TagInv, TagOK, Tagged
    <3>6. HasLent(p)
      <4>1. CASE p \in Servers
        BY <3>2, <3>4, <4>1 DEF Waiting, HasLent, Inv, ServerInv, ServerOK
      <4>2. CASE p \in Clients
        BY <3>2, <3>4, <4>2 DEF Waiting, HasLent, Inv, ClientInv, ClientOK
      <4> QED BY <3>2, <4>1, <4>2
    <3> QED BY <3>2, <3>4, <3>5, <3>6 DEF Asked, RequestOf
  <2>2. \A s \in Servers : server[s].lent = "lent" =>
                              server[s].pc \in {"forward", "await", "await_asleep", "interrupted"}
    BY DEF Inv, ServerInv, ServerOK
  <2> QED BY <2>1, <2>2 DEF BandwidthFollowsRequest
<1> QED BY <1>1, InitInv, InvKept, ExchangeInit, ExchangeKept, PTL DEF Spec
=============================================================================
