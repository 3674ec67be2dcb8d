------------------------------- MODULE Client -------------------------------
(***************************************************************************)
(* The LWM2M client: the main loop of src/lwm2m/client/lwm2mclient.c and   *)
(* what it drives, the state machine of liblwm2m.c, the registrations of   *)
(* registration.c, the bootstrap of bootstrap.c, and the creations and     *)
(* deletions of management.c that change a registration.                   *)
(*                                                                         *)
(* The loop is one thread: it calls lwm2m_step, then waits for a packet    *)
(* and handles it.  Its actions are therefore whole calls, of lwm2m_step   *)
(* (Step) and of lwm2m_handle_packet (Reply, Command, Finish, Manage), and *)
(* what makes it hard is their order: packets arrive or are lost as they   *)
(* like, deadlines pass when they like, and lwm2m_step returns early from  *)
(* several states, without running the transactions.                       *)
(*                                                                         *)
(* ctx is the lwm2m_context_t that the C code hands from call to call; an  *)
(* operator with the argument c stands for a function that changes it, one *)
(* with the argument v for what is done to a server.  A server has the id  *)
(* of its Security instance, by which the lists are sorted.                *)
(* Transaction.tla shows how a transaction lives; here it is answered, or  *)
(* becomes late and is given up by the next transaction_step.              *)
(***************************************************************************)
EXTENDS Integers, FiniteSets

CONSTANTS Bootstraps,     \* ids of bootstrap servers
          Servers,        \* ids of LWM2M servers
          MaxFailures,    \* MAX_FAILURES
          MaxTransactions \* bound: transactions outstanding at a time, to a server

ASSUME ClientAssumption ==
  /\ Bootstraps \subseteq Nat /\ Servers \subseteq Nat
  /\ IsFiniteSet(Bootstraps \cup Servers)
  /\ Bootstraps \cap Servers = {}
  /\ MaxFailures \in Nat \ {0} /\ MaxTransactions \in Nat \ {0}

VARIABLES
  waiting,  \* the main loop is in select()
  ctx,      \* contextP: state, listed (the ids in its two lists), server
  failures, \* unavailableTimes, up to MaxFailures
  security, \* the Security object, an instance per id: "none", "good", "bad",
            \* or "spoilt" by a write that failed half-way
  account   \* the servers with an instance in the Server object

vars == <<waiting, ctx, failures, security, account>>

Ids == Bootstraps \cup Servers
Slots == 1 .. MaxTransactions

States == {"INITIAL", "BOOTSTRAP_REQUIRED", "BOOTSTRAPPING", "REGISTER_REQUIRED", "REGISTERING",
           "READY"}
RegistrationStatuses ==
  {"DEREGISTERED", "REG_PENDING", "REGISTERED", "REG_FAILED", "REG_UPDATE_PENDING",
   "REG_FULL_UPDATE_NEEDED"}
BootstrapStatuses ==
  {"DEREGISTERED", "BS_HOLD_OFF", "BS_INITIATED", "BS_PENDING", "BS_FINISHING", "BS_FINISHED",
   "BS_FAILING", "BS_FAILED"}

\* A transaction: its request, whether the connection (peerH) and the server
\* (userData) it points to still exist, whether its last waiting time is over.
Transaction ==
  [op : {"none", "bootstrap", "register", "update", "full"},
   open : BOOLEAN, owned : BOOLEAN, late : BOOLEAN]
None == [op |-> "none", open |-> FALSE, owned |-> FALSE, late |-> FALSE]

\* lwm2m_server_t, with the transactions that go to it.
Server(statuses) ==
  [status : statuses,
   session : BOOLEAN,  \* sessionH is not NULL
   dirty : BOOLEAN,
   overdue : BOOLEAN,  \* the time that registration stands for has come
   tx : [Slots -> Transaction],
   refused : BOOLEAN,  \* history: this step could not connect to it
   sent : BOOLEAN]     \* history: it was sent the objects as they are

TypeOK ==
  /\ waiting \in BOOLEAN
  /\ ctx.state \in States
  /\ ctx.listed \subseteq Ids
  /\ \A s \in Servers : ctx.server[s] \in Server(RegistrationStatuses)
  /\ \A b \in Bootstraps : ctx.server[b] \in Server(BootstrapStatuses)
  /\ failures \in 0 .. MaxFailures
  /\ security \in [Ids -> {"none", "good", "bad", "spoilt"}]
  /\ account \subseteq Servers

NewServer == [status |-> "DEREGISTERED", session |-> FALSE, dirty |-> FALSE, overdue |-> FALSE,
              tx |-> [k \in Slots |-> None], refused |-> FALSE, sent |-> FALSE]

\* get_security_object, get_server_object, lwm2m_init, lwm2m_configure.
FirstContext ==
  [state |-> "INITIAL", listed |-> {}, server |-> [i \in Ids |-> NewServer]]

Init ==
  /\ waiting = FALSE
  /\ ctx = FirstContext
  /\ failures = 0
  /\ security = [i \in Ids |-> IF i \in Bootstraps THEN "good" ELSE "none"]
  /\ account = {}

\* A loop over the servers of S: what it does to one touches no other.
ForEach(Op(_, _), c, S) ==
  [c EXCEPT !.server = [i \in Ids |-> IF i \in S THEN Op(i, c.server[i]) ELSE c.server[i]]]

------------------------------------------------------------------------------
\* Transactions and connections of one server, v.

Live(v) == {k \in Slots : v.tx[k].op # "none"}

\* transaction_new and transaction_send
Send(v, op) ==
  LET k == CHOOSE k \in Slots : k \notin Live(v)
  IN [v EXCEPT !.tx[k] = [op |-> op, open |-> TRUE, owned |-> TRUE, late |-> FALSE],
               !.sent = @ \/ op \in {"register", "full"}]

Connect(v, up) ==
  IF v.session THEN v
  ELSE IF up THEN [v EXCEPT !.session = TRUE]
  ELSE [v EXCEPT !.refused = TRUE]

\* lwm2m_close_connection: transactions keep their pointer to it
Close(v) ==
  [v EXCEPT !.session = FALSE, !.tx = [k \in Slots |-> [v.tx[k] EXCEPT !.open = FALSE]]]

\* prv_deleteServer: transactions keep their pointer to it, too
Delete(v) ==
  [NewServer EXCEPT !.tx = [k \in Slots |-> [v.tx[k] EXCEPT !.open = FALSE, !.owned = FALSE]],
                    !.refused = v.refused]

\* MUTANT of BootstrapReply: the failure of a registration.
BootstrapReplyMixed(v, good) ==
  IF v.status # "BS_INITIATED" THEN v
  ELSE [v EXCEPT !.status = IF good THEN "BS_PENDING" ELSE "REG_FAILED"]

\* prv_handleBootstrapReply and prv_handleResponse; good is a 2.04
BootstrapReply(v, good) ==
  IF v.status # "BS_INITIATED" THEN v
  ELSE IF good THEN [v EXCEPT !.status = "BS_PENDING", !.overdue = FALSE]
  ELSE [v EXCEPT !.status = "BS_FAILING"]

\* prv_handleRegistrationReply; good is a 2.01
RegistrationReply(v, good) ==
  IF v.status # "REG_PENDING" THEN v
  ELSE [v EXCEPT !.overdue = FALSE, !.status = IF good THEN "REGISTERED" ELSE "REG_FAILED"]

\* prv_handleRegistrationUpdateReply; good is a 2.04
UpdateReply(v, good) ==
  IF v.status # "REG_UPDATE_PENDING" THEN v
  ELSE [v EXCEPT !.overdue = FALSE, !.status = IF good THEN "REGISTERED" ELSE "REG_FAILED"]

\* The callbacks, and transaction_remove, of the transactions in K, which end
\* alike: of several one at most finds the server waiting for it.  What a
\* callback writes to a server that was freed reaches none of those left.
Answer(v, K, good) ==
  LET ops == {v.tx[k].op : k \in {k \in K : v.tx[k].owned}}
      d == [v EXCEPT !.tx = [k \in Slots |-> IF k \in K THEN None ELSE v.tx[k]]]
      e == IF "bootstrap" \in ops THEN BootstrapReply(d, good) ELSE d
      f == IF "register" \in ops THEN RegistrationReply(e, good) ELSE e
  IN IF ops \cap {"update", "full"} # {} THEN UpdateReply(f, good) ELSE f

\* The transactions whose last waiting time is over.
Late(v) == {k \in Live(v) : v.tx[k].late}

\* MUTANT of TransactionStep: the callback is not called.
TransactionStepSilent(c) ==
  ForEach(LAMBDA i, v : [v EXCEPT !.tx = [k \in Slots |-> IF k \in Late(v) THEN None ELSE @[k]]],
          c, Ids)

\* transaction_step gives up what is late.
TransactionStep(c) == ForEach(LAMBDA i, v : Answer(v, Late(v), FALSE), c, Ids)

------------------------------------------------------------------------------
\* bootstrap.c

\* bootstrap_start
BootstrapStart(c, down) ==
  ForEach(LAMBDA b, v : Connect([v EXCEPT !.status = "DEREGISTERED"], b \notin down),
          c, c.listed \cap Bootstraps)

\* prv_requestBootstrap
RequestBootstrap(v, up) ==
  IF v.session \/ up THEN [Send(Connect(v, up), "bootstrap") EXCEPT !.status = "BS_INITIATED"]
  ELSE [Connect(v, up) EXCEPT !.status = "BS_FAILED"]

\* MUTANT of BootstrapStepOf: the connection outlives the bootstrap.
BootstrapStepOfKept(v, up) ==
  CASE v.status = "DEREGISTERED" -> [v EXCEPT !.status = "BS_HOLD_OFF", !.overdue = FALSE]
    [] v.status = "BS_HOLD_OFF" /\ v.overdue -> RequestBootstrap(v, up)
    [] v.status = "BS_PENDING" /\ v.overdue -> [v EXCEPT !.status = "BS_FAILING"]
    [] v.status = "BS_FINISHING" -> [v EXCEPT !.status = "BS_FINISHED"]
    [] v.status = "BS_FAILING" -> [Close(v) EXCEPT !.status = "BS_FAILED"]
    [] OTHER -> v

\* One server's part of bootstrap_step.
BootstrapStepOf(v, up) ==
  CASE v.status = "DEREGISTERED" -> [v EXCEPT !.status = "BS_HOLD_OFF", !.overdue = FALSE]
    [] v.status = "BS_HOLD_OFF" /\ v.overdue -> RequestBootstrap(v, up)
    [] v.status = "BS_PENDING" /\ v.overdue -> [v EXCEPT !.status = "BS_FAILING"]
    [] v.status = "BS_FINISHING" -> [Close(v) EXCEPT !.status = "BS_FINISHED"]
    [] v.status = "BS_FAILING" -> [Close(v) EXCEPT !.status = "BS_FAILED"]
    [] OTHER -> v

\* bootstrap_step
BootstrapStep(c, down) ==
  ForEach(LAMBDA b, v : BootstrapStepOf(v, b \notin down), c, c.listed \cap Bootstraps)

\* bootstrap_getStatus
BootstrapStatus(c) ==
  LET seen == {c.server[b].status : b \in c.listed \cap Bootstraps}
  IN IF seen \cap {"BS_HOLD_OFF", "BS_INITIATED", "BS_PENDING", "BS_FINISHING", "BS_FAILING"} # {}
     THEN "BS_PENDING"
     ELSE IF "BS_FINISHED" \in seen THEN "BS_FINISHED"
     ELSE "BS_FAILED"

------------------------------------------------------------------------------
\* registration.c

\* prv_register, when it can connect
Register(v) == [Send(v, "register") EXCEPT !.session = TRUE, !.status = "REG_PENDING"]

\* The servers registration_start registers with.
Unregistered(c) ==
  {s \in c.listed \cap Servers : c.server[s].status \in {"DEREGISTERED", "REG_FAILED"}}

\* The servers registration_start does not reach for one before them, or
\* their own, that could not be connected to.
Unreached(c, down) ==
  {s \in Unregistered(c) :
     \E r \in Unregistered(c) \cap down : r <= s /\ ~c.server[r].session}

\* registration_start
RegistrationStart(c, down) ==
  ForEach(LAMBDA s, v : IF s \in Unreached(c, down) THEN [v EXCEPT !.refused = TRUE]
                        ELSE Register(v),
          c, Unregistered(c))

Registered == {"REGISTERED", "REG_FULL_UPDATE_NEEDED", "REG_UPDATE_PENDING"}

\* registration_getStatus
RegistrationStatus(c) ==
  LET seen == {c.server[s].status : s \in c.listed \cap Servers}
  IN IF "REG_PENDING" \in seen THEN "REG_PENDING"
     ELSE IF seen \cap Registered # {} THEN "REGISTERED"
     ELSE "REG_FAILED"

\* prv_updateRegistration
Update(v, op) == [Send(v, op) EXCEPT !.status = "REG_UPDATE_PENDING"]

\* One server's part of registration_step.
RegistrationStepOf(v) ==
  CASE v.status = "REGISTERED" /\ v.overdue -> Update(v, "update")
    [] v.status = "REG_FULL_UPDATE_NEEDED" -> Update(v, "full")
    [] v.status = "REG_FAILED" -> Close(v)
    [] OTHER -> v

\* registration_step
RegistrationStep(c) == ForEach(LAMBDA s, v : RegistrationStepOf(v), c, c.listed \cap Servers)

------------------------------------------------------------------------------
\* lwm2m_step

\* The ids of Security instances object_getServers has to read: those that
\* are in no list.  It stops at the first that it cannot read.
NewInstances(c) == {i \in Ids \ c.listed : security[i] # "none"}
Unreadable(c) == {i \in NewInstances(c) : security[i] # "good"}
GetServers(c) ==
  [c EXCEPT !.listed = @ \cup {i \in NewInstances(c) : /\ i \in Bootstraps \cup account
                                                      /\ \A j \in Unreadable(c) : i < j}]

\* prv_refreshServerList
Refresh(c) ==
  LET dirty == {i \in c.listed : c.server[i].dirty}
      Kept(v) == [v EXCEPT !.status = "DEREGISTERED"]
      d == ForEach(LAMBDA i, v : IF i \in dirty THEN Delete(v) ELSE Kept(v),
                   c, dirty \cup Bootstraps)
  IN GetServers([d EXCEPT !.listed = @ \ dirty])

\* What a step returns: 503 and nothing else done, or 0 at its end.
Unavailable(c) == [ctx |-> c, unavailable |-> TRUE]
Done(c) == [ctx |-> TransactionStep(RegistrationStep(c)), unavailable |-> FALSE]

InState(c, state) == [c EXCEPT !.state = state]

BootstrapRequired(c, down) ==
  IF c.listed \cap Bootstraps = {} THEN Unavailable(InState(c, "BOOTSTRAP_REQUIRED"))
  ELSE Done(BootstrapStep(InState(BootstrapStart(c, down), "BOOTSTRAPPING"), down))

RegisterRequired(c, down) ==
  LET d == RegistrationStart(c, down)
  IN IF Unreached(c, down) # {} THEN Unavailable(InState(d, "REGISTER_REQUIRED"))
     ELSE Done(InState(d, "REGISTERING"))

Initial(c, down) ==
  LET d == InState(Refresh(c), "INITIAL")
  IN IF Unreadable(d) # {} THEN Unavailable(d)
     ELSE IF d.listed \cap Servers # {} THEN RegisterRequired(d, down)
     ELSE BootstrapRequired(d, down)

Bootstrapping(c, down) ==
  CASE BootstrapStatus(c) = "BS_FINISHED" -> Initial(c, down)
    [] BootstrapStatus(c) = "BS_FAILED" -> Unavailable(c)
    [] OTHER -> Done(BootstrapStep(c, down))

Registering(c, down) ==
  CASE RegistrationStatus(c) = "REGISTERED" -> Done(InState(c, "READY"))
    [] RegistrationStatus(c) = "REG_FAILED" -> BootstrapRequired(c, down)
    [] OTHER -> Done(c)

Ready(c, down) ==
  IF RegistrationStatus(c) = "REG_FAILED" THEN BootstrapRequired(c, down) ELSE Done(c)

StepFrom(c, down) ==
  CASE c.state = "INITIAL" -> Initial(c, down)
    [] c.state = "BOOTSTRAP_REQUIRED" -> BootstrapRequired(c, down)
    [] c.state = "BOOTSTRAPPING" -> Bootstrapping(c, down)
    [] c.state = "REGISTER_REQUIRED" -> RegisterRequired(c, down)
    [] c.state = "REGISTERING" -> Registering(c, down)
    [] c.state = "READY" -> Ready(c, down)

\* Dirty servers are deleted by the next refresh.
Dirtied(c, ids) == ForEach(LAMBDA i, v : [v EXCEPT !.dirty = TRUE], c, c.listed \cap ids)

\* MUTANT of StartOver: the bootstrap servers are told, the state is not.
StartOverHalf(c) == Dirtied(c, Bootstraps)

\* What the main loop does when the client has been unavailable too often.
StartOver(c) == InState(Dirtied(c, Bootstraps), "INITIAL")

\* One turn of the main loop up to select(); the servers in down cannot be
\* connected to.
Step(down) ==
  LET c == ForEach(LAMBDA i, v : [v EXCEPT !.refused = FALSE], ctx, Ids)
      r == StepFrom(c, down)
      times == IF failures < MaxFailures THEN failures + 1 ELSE MaxFailures
  IN /\ ~waiting /\ waiting' = TRUE
     /\ failures' = IF r.unavailable THEN times ELSE 0
     /\ ctx' = IF r.unavailable /\ times = MaxFailures THEN StartOver(r.ctx) ELSE r.ctx
     /\ UNCHANGED <<security, account>>

------------------------------------------------------------------------------
\* lwm2m_handle_packet: a response, and the requests of the two kinds of
\* server.  A packet reaches a server through its session only.

Receive == waiting /\ waiting' = FALSE

\* The response to transaction k of server i.
Reply(i, k, good) ==
  /\ Receive
  /\ k \in Live(ctx.server[i]) /\ ctx.server[i].tx[k].open
  /\ ctx' = [ctx EXCEPT !.server[i] = Answer(@, {k}, good)]
  /\ UNCHANGED <<failures, security, account>>

\* prv_checkServerStatus lets it pass.
Accepted == {"BS_HOLD_OFF", "BS_INITIATED", "BS_PENDING", "DEREGISTERED"}
CheckServerStatus(c, b) ==
  IF c.server[b].status \in {"BS_HOLD_OFF", "BS_INITIATED"}
  THEN [c EXCEPT !.server[b].status = "BS_PENDING"]
  ELSE [c EXCEPT !.server[b].overdue = FALSE]

\* The end of bootstrap_handleCommand, after a change.
Changed(c, b) ==
  IF c.server[b].status = "BS_PENDING" THEN c
  ELSE [c EXCEPT !.server[b].status = "BS_PENDING", !.state = "BOOTSTRAPPING"]

\* MUTANT of Tag: prv_tagServer looks at the bootstrap servers only.
TagBootstraps(c, ids) == Dirtied(c, ids \cap Bootstraps)

\* prv_tagServer, for each instance that was changed
Tag(c, ids) == Dirtied(c, ids)

MayCommand(b) ==
  /\ b \in ctx.listed \cap Bootstraps
  /\ ctx.server[b].session /\ ctx.server[b].status \in Accepted

\* PUT on the Security object: a new instance, or an old one rewritten.
WriteSecurity(b, i, data) ==
  /\ Receive /\ MayCommand(b)
  /\ security' = [security EXCEPT ![i] = data]
  /\ LET c == CheckServerStatus(ctx, b) IN
       ctx' = Changed(IF security[i] = "none" THEN c ELSE Tag(c, {i}), b)
  /\ UNCHANGED <<failures, account>>

\* DELETE of one or of all instances of the Security object.
DeleteSecurity(b, ids) ==
  /\ Receive /\ MayCommand(b)
  /\ \A i \in ids : security[i] # "none"
  /\ security' = [i \in Ids |-> IF i \in ids THEN "none" ELSE security[i]]
  /\ ctx' = Changed(Tag(CheckServerStatus(ctx, b), ids), b)
  /\ UNCHANGED <<failures, account>>

\* PUT or DELETE on the Server object.
SetAccounts(b, servers) ==
  /\ Receive /\ MayCommand(b)
  /\ account' = servers
  /\ ctx' = Changed(CheckServerStatus(ctx, b), b)
  /\ UNCHANGED <<failures, security>>

\* A command that is answered with an error: nothing but the status changes.
Refuse(b) ==
  /\ Receive /\ MayCommand(b)
  /\ ctx' = CheckServerStatus(ctx, b)
  /\ UNCHANGED <<failures, security, account>>

\* PUT on an old instance that fails at one of its resources: those before it
\* are written, and the server is not tagged.
SpoilSecurity(b, i) ==
  /\ Receive /\ MayCommand(b)
  /\ security[i] # "none"
  /\ security' = [security EXCEPT ![i] = "spoilt"]
  /\ ctx' = CheckServerStatus(ctx, b)
  /\ UNCHANGED <<failures, account>>

\* bootstrap_handleDeleteAll, DELETE /: all but the server that asks for it.
DeleteAll(b) ==
  /\ Receive /\ MayCommand(b)
  /\ security' = [i \in Ids |-> IF i = b THEN security[i] ELSE "none"]
  /\ account' = {}
  /\ ctx' = Tag(CheckServerStatus(ctx, b), ctx.listed \ {b})
  /\ UNCHANGED failures

Command(b) ==
  \/ \E i \in Ids, data \in {"good", "bad"} : WriteSecurity(b, i, data)
  \/ \E i \in Ids : DeleteSecurity(b, {i}) \/ SpoilSecurity(b, i)
  \/ DeleteSecurity(b, {i \in Ids : security[i] # "none"})
  \/ \E s \in Servers : SetAccounts(b, account \cup {s}) \/ SetAccounts(b, account \ {s})
  \/ SetAccounts(b, {})
  \/ Refuse(b) \/ DeleteAll(b)

\* bootstrap_handleFinish; 4.06 if an instance cannot be read.
Finish(b) ==
  /\ Receive
  /\ b \in ctx.listed \cap Bootstraps /\ ctx.server[b].session
  /\ ctx.server[b].status = "BS_PENDING"
  /\ Unreadable(ctx) = {}
  /\ ctx' = [ctx EXCEPT !.server[b].status = "BS_FINISHING"]
  /\ UNCHANGED <<failures, security, account>>

\* The servers to be told of a change.
ToTell(c) == {s \in c.listed \cap Servers : c.server[s].status \in Registered}

\* MUTANT of UpdateRegistration: an update is under way already.
UpdateRegistrationOnce(c) ==
  ForEach(LAMBDA s, v : IF v.status = "REG_UPDATE_PENDING" THEN [v EXCEPT !.sent = FALSE]
                        ELSE [v EXCEPT !.sent = FALSE, !.status = "REG_FULL_UPDATE_NEEDED"],
          c, ToTell(c))

\* lwm2m_update_registration(contextP, 0, true)
UpdateRegistration(c) ==
  ForEach(LAMBDA s, v : [v EXCEPT !.sent = FALSE, !.status = "REG_FULL_UPDATE_NEEDED"],
          c, ToTell(c))

\* Bound: room for another transaction, and for a registration after it.
HasRoom(v) == Cardinality(Live(v)) < MaxTransactions - 1

\* dm_handleRequest, POST /1 and DELETE /1/x: server s creates or deletes an
\* instance of the Server object, the only one that has such instances.
Manage(s, servers) ==
  /\ Receive
  /\ s \in ToTell(ctx) /\ ctx.server[s].session
  /\ \A t \in ToTell(ctx) : HasRoom(ctx.server[t])
  /\ account' = servers
  /\ ctx' = UpdateRegistration(ctx)
  /\ UNCHANGED <<failures, security>>

\* The discovery thread has got a new bootstrap server (bootstrap_ready):
\* new instances, lwm2m_close, lwm2m_init, lwm2m_configure.
Rediscover ==
  /\ ~waiting /\ UNCHANGED waiting
  /\ ctx' = FirstContext
  /\ failures' = 0
  /\ security' = [i \in Ids |-> IF i \in Bootstraps THEN "good" ELSE "none"]
  /\ account' = {}

------------------------------------------------------------------------------
\* Time.

\* The end of the hold-off time, of COAP_EXCHANGE_LIFETIME after a command, of
\* the interval between updates.  A transaction to a bootstrap server ends
\* sooner: COAP_MAX_TRANSMIT_WAIT is 93 s, COAP_EXCHANGE_LIFETIME 247 s, and
\* what 503s held up ends within seconds of the next complete step.
Elapse(i) ==
  /\ LET v == ctx.server[i] IN
       /\ ~v.overdue
       /\ \/ v.status = "REGISTERED" /\ HasRoom(v)
          \/ v.status \in {"BS_HOLD_OFF", "BS_PENDING"} /\ Live(v) = {}
  /\ ctx' = [ctx EXCEPT !.server[i].overdue = TRUE]
  /\ UNCHANGED <<waiting, failures, security, account>>

\* The last waiting time of transaction k of server i is over.
GetLate(i, k) ==
  /\ k \in Live(ctx.server[i]) /\ ~ctx.server[i].tx[k].late
  /\ ctx' = [ctx EXCEPT !.server[i].tx[k].late = TRUE]
  /\ UNCHANGED <<waiting, failures, security, account>>

\* select() returns, for a timeout or a packet that changes nothing.
Wake ==
  /\ Receive
  /\ UNCHANGED <<ctx, failures, security, account>>

------------------------------------------------------------------------------
Next ==
  \/ \E down \in SUBSET Ids : Step(down)
  \/ \E i \in Ids, k \in Slots : GetLate(i, k) \/ \E good \in BOOLEAN : Reply(i, k, good)
  \/ \E b \in Bootstraps : Command(b) \/ Finish(b)
  \/ \E s, t \in Servers : Manage(s, account \cup {t}) \/ Manage(s, account \ {t})
  \/ \E i \in Ids : Elapse(i)
  \/ Wake \/ Rediscover

Spec == Init /\ [][Next]_vars

\* The loop runs, time passes; no server has to do anything.  Step, always
\* enabled when the loop is not waiting, is the only step to select().
FairSpec ==
  /\ Spec
  /\ WF_waiting(~waiting /\ waiting' = TRUE) /\ WF_vars(Wake)
  /\ \A i \in Ids : WF_vars(Elapse(i)) /\ \A k \in Slots : WF_vars(GetLate(i, k))

------------------------------------------------------------------------------
\* Whoever waits for a reply has a transaction, over a connection that is
\* open, whose callback finds it waiting: no lost message, no server that was
\* deleted and no step that returned early leaves a server waiting for good.
WaitingHasTransaction ==
  \A i \in ctx.listed :
    LET v == ctx.server[i]
        Waits(ops) == \E k \in Slots : v.tx[k].op \in ops /\ v.tx[k].open /\ v.tx[k].owned
    IN /\ v.status = "BS_INITIATED" => Waits({"bootstrap"})
       /\ v.status = "REG_PENDING" => Waits({"register"})
       /\ v.status = "REG_UPDATE_PENDING" => Waits({"update", "full"})

\* A bootstrap server that may change the configuration, or was told that it
\* has, meets a client that is bootstrapping (liblwm2m.c:383).
BootstrapOnlyWhenAsked ==
  \A b \in ctx.listed \cap Bootstraps :
    ctx.server[b].status \in Accepted \cup {"BS_FINISHING"} /\ ctx.server[b].session =>
      ctx.state = "BOOTSTRAPPING"

\* A client that registers or is registered uses no server that a bootstrap,
\* finished or given up half-way, deleted or rewrote.
ServersAsConfigured ==
  ctx.state \in {"REGISTER_REQUIRED", "REGISTERING", "READY"} =>
    \A i \in ctx.listed : security[i] \in {"good", "spoilt"} /\ ~ctx.server[i].dirty

\* A server that counts as registered, with no full update ahead, was sent
\* the objects as the last creation or deletion since it registered left
\* them, whatever update was under way then.
NoChangeForgotten ==
  \A s \in ctx.listed :
    ctx.server[s].status \in {"REGISTERED", "REG_UPDATE_PENDING"} => ctx.server[s].sent

\* A bootstrap server whose command shows that the ACK was lost
\* (bootstrap.c:309) gets the time that the ACK would have given it.
LostAckForgiven ==
  [][\A b \in Bootstraps :
       ctx.server[b].status = "BS_INITIATED" /\ ctx'.server[b].status = "BS_PENDING" =>
         ~ctx'.server[b].overdue]_vars

\* Nothing is left to connect to, or an instance that cannot be read stops
\* prv_refreshServerList every time.
Stranded ==
  \/ \E i \in Ids : security[i] \in {"bad", "spoilt"} /\ (i \in ctx.listed => ctx.server[i].dirty)
  \/ \A i \in Ids : /\ i \notin ctx.listed
                     /\ ~(security[i] = "good" /\ i \in Bootstraps \cup account)

\* From some time on names resolve, bootstrap servers and discovery keep
\* still, and the configuration is usable.  Packets may be lost for ever.
Settled ==
  /\ <>[](~Stranded /\ \A i \in Ids : ~ctx.server[i].refused)
  /\ <>[][~(Rediscover \/ \E b \in Bootstraps : Command(b))]_vars

\* The client never gives up: again and again it is ready or has a request
\* on its way, though every answer may be lost.  Every transaction ends,
\* although lwm2m_step returns before transaction_step for as long as it
\* reports 503.  Registrations that all failed are not the end: the client
\* bootstraps, starts over and registers again, whether the bootstrap succeeds
\* or not (liblwm2m.c:419-458, lwm2mclient.c:546-556).
AllFailed ==
  /\ ctx.listed \cap Servers # {}
  /\ \A s \in ctx.listed \cap Servers : ctx.server[s].status = "REG_FAILED"
Progress ==
  Settled => /\ []<>(ctx.state = "READY" \/ \E i \in Ids : Live(ctx.server[i]) # {})
             /\ \A i \in Ids, k \in Slots : []<>(k \notin Live(ctx.server[i]))
             /\ []<>~AllFailed

==============================================================================
