---------------------------- MODULE Client_proofs ----------------------------
(***************************************************************************)
(* Proofs about Client, for any bootstrap servers and LWM2M servers, any   *)
(* number of failures and of transactions: that whoever waits has a        *)
(* transaction, that a bootstrap meets a client that is bootstrapping,     *)
(* that no server is used that was deleted or rewritten, and that no       *)
(* change of the objects is forgotten.                                     *)
(***************************************************************************)
EXTENDS Client, FiniteSetTheorems, TLAPS

Statuses == RegistrationStatuses \cup BootstrapStatuses

Contexts == [state : States, listed : SUBSET Ids, server : [Ids -> Server(Statuses)]]

\* Neither registered nor trying to be.
Idle == {"DEREGISTERED", "REG_FAILED"}

\* Whoever waits has a transaction.
HasTransaction(v, ops) == \E k \in Slots : v.tx[k].op \in ops /\ v.tx[k].open /\ v.tx[k].owned

\* Room for n transactions more.
Room(v, n) == Cardinality(Live(v)) <= MaxTransactions - n

\* An LWM2M server.  A registration may take the last slot, for none begins
\* until it has ended; an update leaves room for the registration that follows
\* when it fails.
RegServer(v) ==
  /\ v \in Server(RegistrationStatuses)
  /\ v.status = "REG_PENDING" => HasTransaction(v, {"register"})
  /\ v.status = "REG_UPDATE_PENDING" => HasTransaction(v, {"update", "full"})
  /\ v.status \in {"DEREGISTERED", "REG_FAILED", "REGISTERED", "REG_UPDATE_PENDING"} => Room(v, 1)
  /\ v.status = "REG_FULL_UPDATE_NEEDED" \/ (v.status = "REGISTERED" /\ v.overdue) => Room(v, 2)
  /\ v.status \in {"REG_PENDING", "REGISTERED", "REG_UPDATE_PENDING"} => v.sent
  /\ v.dirty => v.status \in Idle

\* A bootstrap server.  Its connection does not outlive the bootstrap.
BootServer(v) ==
  /\ v \in Server(BootstrapStatuses)
  /\ v.status = "BS_INITIATED" => HasTransaction(v, {"bootstrap"})
  /\ v.status = "BS_HOLD_OFF" /\ v.overdue => Live(v) = {}
  /\ v.status \in {"BS_FINISHED", "BS_FAILED"} => ~v.session

\* An id that no server has.
Unused(v) == v.status = "DEREGISTERED" /\ ~v.session /\ ~v.dirty

Sound(c) ==
  /\ c \in Contexts
  /\ \A s \in Servers : RegServer(c.server[s])
  /\ \A b \in Bootstraps : BootServer(c.server[b])
  /\ \A i \in Ids \ c.listed : Unused(c.server[i])

\* No connection to a bootstrap server.
Closed(c) == \A b \in Bootstraps : ~c.server[b].session

\* While the client bootstraps it registers nowhere, and otherwise it is not
\* connected to a bootstrap server.
Phase(c) ==
  /\ c.state = "BOOTSTRAPPING" =>
       \A b \in c.listed \cap Bootstraps : c.server[b].status # "DEREGISTERED"
  /\ c.state \in {"BOOTSTRAP_REQUIRED", "BOOTSTRAPPING"} =>
       \A s \in c.listed \cap Servers : c.server[s].status \in Idle
  /\ c.state # "BOOTSTRAPPING" => Closed(c)

\* What the configuration lost or changed is dirty, and deleted before the client
\* registers.
Configured(c) ==
  /\ \A i \in c.listed : ~c.server[i].dirty => security[i] \in {"good", "spoilt"}
  /\ c.state \in {"REGISTER_REQUIRED", "REGISTERING", "READY"} =>
       \A i \in c.listed : ~c.server[i].dirty

Good(c) == Sound(c) /\ Phase(c) /\ Configured(c)

OtherTypes ==
  /\ waiting \in BOOLEAN /\ failures \in 0 .. MaxFailures
  /\ security \in [Ids -> {"none", "good", "bad", "spoilt"}]
  /\ account \subseteq Servers

IInv == OtherTypes /\ Good(ctx)

------------------------------------------------------------------------------
\* What is done to one server.

\* A server that has ended transactions, or begun one.
LEMMA Counts ==
  ASSUME NEW v, NEW w
  PROVE  /\ IsFiniteSet(Live(v)) /\ Cardinality(Live(v)) \in Nat
         /\ Cardinality(Live(v)) <= MaxTransactions
         /\ Cardinality(Live(v)) < MaxTransactions => Live(v) # Slots
         /\ Live(v) = {} => Live(v) # Slots
         /\ Live(w) \subseteq Live(v) => Cardinality(Live(w)) <= Cardinality(Live(v))
         /\ \A k \in Live(v) : k \notin Live(w) /\ Live(w) \subseteq Live(v) =>
              Cardinality(Live(w)) <= Cardinality(Live(v)) - 1
         /\ \A k \in Slots \ Live(v) : Live(w) = Live(v) \cup {k} =>
              Cardinality(Live(w)) = Cardinality(Live(v)) + 1
<1>1. IsFiniteSet(Slots) /\ Cardinality(Slots) = MaxTransactions /\ 1 \in Slots
      /\ MaxTransactions \in Nat
  BY ClientAssumption, FS_Interval DEF Slots
<1>2. \A x : Live(x) \subseteq Slots
  BY DEF Live
<1>3. \A x : IsFiniteSet(Live(x)) /\ Cardinality(Live(x)) <= MaxTransactions
             /\ Cardinality(Live(x)) \in Nat
  BY <1>1, <1>2, FS_Subset, FS_CardinalityType
<1>4. Live(w) \subseteq Live(v) => Cardinality(Live(w)) <= Cardinality(Live(v))
  BY <1>3, FS_Subset
<1>5. ASSUME NEW k \in Live(v), k \notin Live(w), Live(w) \subseteq Live(v)
      PROVE  Cardinality(Live(w)) <= Cardinality(Live(v)) - 1
  <2>1. Live(w) \subseteq Live(v) \ {k}
    BY <1>5
  <2>2. IsFiniteSet(Live(v) \ {k}) /\ Cardinality(Live(v) \ {k}) = Cardinality(Live(v)) - 1
    BY <1>3, FS_RemoveElement
  <2> QED BY <2>1, <2>2, FS_Subset
<1>6. ASSUME NEW k \in Slots \ Live(v), Live(w) = Live(v) \cup {k}
      PROVE  Cardinality(Live(w)) = Cardinality(Live(v)) + 1
  BY <1>3, <1>6, FS_AddElement
<1> QED BY <1>1, <1>3, <1>4, <1>5, <1>6

\* transaction_send: a transaction that its server waits for.
LEMMA Sends ==
  ASSUME NEW v \in Server(Statuses), Live(v) # Slots,
         NEW op \in {"bootstrap", "register", "update", "full"}
  PROVE  LET w == Send(v, op) IN
         /\ w \in Server(Statuses)
         /\ w.status = v.status /\ w.session = v.session /\ w.dirty = v.dirty
         /\ w.overdue = v.overdue /\ w.refused = v.refused
         /\ w.sent <=> v.sent \/ op \in {"register", "full"}
         /\ HasTransaction(w, {op})
         /\ Cardinality(Live(w)) = Cardinality(Live(v)) + 1
<1> DEFINE k == CHOOSE k \in Slots : k \notin Live(v)
           t == [op |-> op, open |-> TRUE, owned |-> TRUE, late |-> FALSE]
           w == [v EXCEPT !.tx[k] = t, !.sent = @ \/ op \in {"register", "full"}]
<1>1. k \in Slots /\ k \notin Live(v)
  BY DEF Live
<1>2. Send(v, op) = w
  BY DEF Send
<1> HIDE DEF k
<1>3. t \in Transaction
  BY DEF Transaction
<1>4. w \in Server(Statuses)
  BY <1>1, <1>3 DEF Server
<1>5. /\ w.status = v.status /\ w.session = v.session /\ w.dirty = v.dirty
      /\ w.overdue = v.overdue /\ w.refused = v.refused
      /\ w.sent <=> v.sent \/ op \in {"register", "full"}
      /\ w.tx = [v.tx EXCEPT ![k] = t]
  BY DEF Server
<1>6. w.tx[k] = t /\ \A j \in Slots \ {k} : w.tx[j] = v.tx[j]
  BY <1>1, <1>5 DEF Server
<1>7. HasTransaction(w, {op})
  BY <1>1, <1>6 DEF HasTransaction
<1>8. Live(w) = Live(v) \cup {k}
  BY <1>1, <1>6 DEF Live
<1> HIDE DEF w
<1>9. Cardinality(Live(w)) = Cardinality(Live(v)) + 1
  BY <1>1, <1>8, Counts
<1> QED BY <1>2, <1>4, <1>5, <1>7, <1>9

\* Of the transactions in K, one is told its caller.
Told(v, K, ops) == \E k \in K : v.tx[k].owned /\ v.tx[k].op \in ops

\* transaction_remove and the callback: only a server that waits for one of the
\* transactions changes.
LEMMA Answers ==
  ASSUME NEW v \in Server(Statuses), NEW K \in SUBSET Slots, NEW good \in BOOLEAN
  PROVE  LET w == Answer(v, K, good) IN
         /\ w \in Server(Statuses)
         /\ w.tx = [k \in Slots |-> IF k \in K THEN None ELSE v.tx[k]]
         /\ w.session = v.session /\ w.dirty = v.dirty /\ w.sent = v.sent
         /\ w.status =
              IF v.status = "BS_INITIATED" /\ Told(v, K, {"bootstrap"})
              THEN IF good THEN "BS_PENDING" ELSE "BS_FAILING"
              ELSE IF \/ v.status = "REG_PENDING" /\ Told(v, K, {"register"})
                      \/ v.status = "REG_UPDATE_PENDING" /\ Told(v, K, {"update", "full"})
              THEN IF good THEN "REGISTERED" ELSE "REG_FAILED"
              ELSE v.status
         /\ w.overdue = v.overdue \/ ~w.overdue
         /\ w.status = "REGISTERED" /\ v.status # "REGISTERED" => ~w.overdue
<1> DEFINE d == [v EXCEPT !.tx = [k \in Slots |-> IF k \in K THEN None ELSE v.tx[k]]]
           ops == {v.tx[k].op : k \in {k \in K : v.tx[k].owned}}
           e == IF "bootstrap" \in ops THEN BootstrapReply(d, good) ELSE d
           f == IF "register" \in ops THEN RegistrationReply(e, good) ELSE e
           w == IF ops \cap {"update", "full"} # {} THEN UpdateReply(f, good) ELSE f
           Rest(x) == /\ x \in Server(Statuses) /\ x.tx = d.tx /\ x.session = d.session
                      /\ x.dirty = d.dirty /\ x.sent = d.sent
                      /\ x.overdue = d.overdue \/ ~x.overdue
<1>1. /\ d \in Server(Statuses)
      /\ d.tx = [k \in Slots |-> IF k \in K THEN None ELSE v.tx[k]]
      /\ d.session = v.session /\ d.dirty = v.dirty /\ d.sent = v.sent
      /\ d.overdue = v.overdue /\ d.status = v.status
  BY DEF Server, Transaction, None
<1>2. /\ "bootstrap" \in ops <=> Told(v, K, {"bootstrap"})
      /\ "register" \in ops <=> Told(v, K, {"register"})
      /\ ops \cap {"update", "full"} # {} <=> Told(v, K, {"update", "full"})
  BY DEF Told
<1>3. Answer(v, K, good) = w
  BY DEF Answer
<1> HIDE DEF d, ops
<1>4. /\ Rest(e)
      /\ e.status = IF d.status = "BS_INITIATED" /\ "bootstrap" \in ops
                    THEN IF good THEN "BS_PENDING" ELSE "BS_FAILING" ELSE d.status
  BY <1>1 DEF BootstrapReply, Server, Statuses, BootstrapStatuses
<1> HIDE DEF e
<1>5. /\ Rest(f)
      /\ f.status = IF e.status = "REG_PENDING" /\ "register" \in ops
                    THEN IF good THEN "REGISTERED" ELSE "REG_FAILED" ELSE e.status
      /\ f.status # e.status => ~f.overdue
  BY <1>4 DEF RegistrationReply, Server, Statuses, RegistrationStatuses
<1> HIDE DEF f
<1>6. /\ Rest(w)
      /\ w.status = IF f.status = "REG_UPDATE_PENDING" /\ ops \cap {"update", "full"} # {}
                    THEN IF good THEN "REGISTERED" ELSE "REG_FAILED" ELSE f.status
      /\ w.status # f.status => ~w.overdue
      /\ ~f.overdue => ~w.overdue
  BY <1>5 DEF UpdateReply, Server, Statuses, RegistrationStatuses
<1> HIDE DEF w
<1>7. w.status =
              IF v.status = "BS_INITIATED" /\ Told(v, K, {"bootstrap"})
              THEN IF good THEN "BS_PENDING" ELSE "BS_FAILING"
              ELSE IF \/ v.status = "REG_PENDING" /\ Told(v, K, {"register"})
                      \/ v.status = "REG_UPDATE_PENDING" /\ Told(v, K, {"update", "full"})
              THEN IF good THEN "REGISTERED" ELSE "REG_FAILED"
              ELSE v.status
  BY <1>1, <1>2, <1>4, <1>5, <1>6
<1>8. w.status = "REGISTERED" /\ v.status # "REGISTERED" => ~w.overdue
  BY <1>1, <1>4, <1>5, <1>6
<1> QED BY <1>1, <1>3, <1>6, <1>7, <1>8

\* A callback leaves an LWM2M server sound.
LEMMA RegAnswers ==
  ASSUME NEW v, RegServer(v), NEW K \in SUBSET Slots, NEW good \in BOOLEAN
  PROVE  LET w == Answer(v, K, good) IN
         /\ RegServer(w) /\ w.session = v.session /\ w.dirty = v.dirty
         /\ v.status \in Idle => w.status = v.status
<1> DEFINE w == Answer(v, K, good)
<1>1. /\ v \in Server(Statuses) /\ v.status \in RegistrationStatuses
  BY DEF RegServer, Server, Statuses
<1>2. /\ w \in Server(Statuses)
      /\ w.tx = [k \in Slots |-> IF k \in K THEN None ELSE v.tx[k]]
      /\ w.session = v.session /\ w.dirty = v.dirty /\ w.sent = v.sent
      /\ w.status =
              IF \/ v.status = "REG_PENDING" /\ Told(v, K, {"register"})
                 \/ v.status = "REG_UPDATE_PENDING" /\ Told(v, K, {"update", "full"})
              THEN IF good THEN "REGISTERED" ELSE "REG_FAILED"
              ELSE v.status
      /\ w.overdue = v.overdue \/ ~w.overdue
      /\ w.status = "REGISTERED" /\ v.status # "REGISTERED" => ~w.overdue
  BY <1>1, Answers DEF RegistrationStatuses
<1> HIDE DEF w
<1>3. w \in Server(RegistrationStatuses)
  BY <1>1, <1>2 DEF Server, RegistrationStatuses
<1>4. Live(w) \subseteq Live(v) /\ \A k \in K : k \notin Live(w)
  BY <1>2 DEF Live, None
<1>5. ASSUME NEW ops, HasTransaction(v, ops), ~Told(v, K, ops) PROVE HasTransaction(w, ops)
  BY <1>2, <1>5 DEF HasTransaction, Told
<1>6. /\ Cardinality(Live(w)) <= Cardinality(Live(v))
      /\ Told(v, K, {"register"}) => Cardinality(Live(w)) <= Cardinality(Live(v)) - 1
  <2>1. ASSUME NEW k \in K, v.tx[k].op = "register" PROVE k \in Live(v)
    BY <2>1 DEF Live
  <2> QED BY <1>4, <2>1, Counts DEF Told
<1>7. Cardinality(Live(v)) \in Nat /\ Cardinality(Live(w)) \in Nat /\ MaxTransactions \in Nat
      /\ Cardinality(Live(v)) <= MaxTransactions
  BY Counts, ClientAssumption
<1>8. /\ w.status \in {"DEREGISTERED", "REG_FAILED", "REGISTERED", "REG_UPDATE_PENDING"} =>
           Room(w, 1)
      /\ w.status = "REG_FULL_UPDATE_NEEDED" \/ (w.status = "REGISTERED" /\ w.overdue) =>
           Room(w, 2)
  BY <1>1, <1>2, <1>6, <1>7 DEF RegServer, Room, RegistrationStatuses
<1>9. /\ w.status = "REG_PENDING" => HasTransaction(w, {"register"})
      /\ w.status = "REG_UPDATE_PENDING" => HasTransaction(w, {"update", "full"})
  BY <1>2, <1>5 DEF RegServer
<1>10. /\ w.status \in {"REG_PENDING", "REGISTERED", "REG_UPDATE_PENDING"} => w.sent
       /\ v.status \in Idle => w.status = v.status
       /\ w.dirty => w.status \in Idle
  BY <1>2 DEF RegServer, Idle
<1> QED BY <1>2, <1>3, <1>8, <1>9, <1>10 DEF RegServer, w

\* A callback leaves a bootstrap server sound.
LEMMA BootAnswers ==
  ASSUME NEW v, BootServer(v), NEW K \in SUBSET Slots, NEW good \in BOOLEAN
  PROVE  LET w == Answer(v, K, good) IN
         /\ BootServer(w) /\ w.session = v.session /\ w.dirty = v.dirty
         /\ w.status = "DEREGISTERED" <=> v.status = "DEREGISTERED"
<1> DEFINE w == Answer(v, K, good)
<1>1. /\ v \in Server(Statuses) /\ v.status \in BootstrapStatuses
  BY DEF BootServer, Server, Statuses
<1>2. /\ w \in Server(Statuses)
      /\ w.tx = [k \in Slots |-> IF k \in K THEN None ELSE v.tx[k]]
      /\ w.session = v.session /\ w.dirty = v.dirty
      /\ w.status =
              IF v.status = "BS_INITIATED" /\ Told(v, K, {"bootstrap"})
              THEN IF good THEN "BS_PENDING" ELSE "BS_FAILING"
              ELSE v.status
      /\ w.overdue = v.overdue \/ ~w.overdue
  BY <1>1, Answers DEF BootstrapStatuses
<1> HIDE DEF w
<1>3. w \in Server(BootstrapStatuses)
  BY <1>1, <1>2 DEF Server, BootstrapStatuses
<1>4. Live(w) \subseteq Live(v)
  BY <1>2 DEF Live, None
<1>5. ASSUME HasTransaction(v, {"bootstrap"}), ~Told(v, K, {"bootstrap"})
      PROVE  HasTransaction(w, {"bootstrap"})
  BY <1>2, <1>5 DEF HasTransaction, Told
<1> QED BY <1>2, <1>3, <1>4, <1>5 DEF BootServer, w

\* prv_register.
LEMMA Registers ==
  ASSUME NEW v, RegServer(v), v.status \in Idle, ~v.dirty
  PROVE  RegServer(Register(v)) /\ ~Register(v).dirty
<1>1. v \in Server(Statuses) /\ Live(v) # Slots
  BY Counts, ClientAssumption DEF RegServer, Server, Statuses, Room, Idle
<1> DEFINE u == Send(v, "register")
           w == [u EXCEPT !.session = TRUE, !.status = "REG_PENDING"]
<1>2. u \in Server(Statuses) /\ u.dirty = v.dirty /\ u.sent /\ HasTransaction(u, {"register"})
  BY <1>1, Sends
<1>3. Register(v) = w
  BY DEF Register
<1> HIDE DEF u
<1>4. /\ w \in Server(RegistrationStatuses) /\ w.status = "REG_PENDING" /\ w.tx = u.tx
      /\ w.sent /\ ~w.dirty
  BY <1>2 DEF Server, RegistrationStatuses
<1> HIDE DEF w
<1>5. HasTransaction(w, {"register"})
  BY <1>2, <1>4 DEF HasTransaction
<1> QED BY <1>3, <1>4, <1>5 DEF RegServer

\* lwm2m_close_connection.
LEMMA Closes ==
  ASSUME NEW S, NEW v \in Server(S)
  PROVE  LET w == Close(v) IN
         /\ w \in Server(S) /\ ~w.session /\ Live(w) = Live(v)
         /\ w.status = v.status /\ w.dirty = v.dirty /\ w.overdue = v.overdue /\ w.sent = v.sent
<1> DEFINE w == Close(v)
<1>1. /\ w \in Server(S) /\ ~w.session
      /\ w.status = v.status /\ w.dirty = v.dirty /\ w.overdue = v.overdue /\ w.sent = v.sent
      /\ \A k \in Slots : w.tx[k].op = v.tx[k].op
  BY DEF Close, Server, Transaction
<1> HIDE DEF w
<1>2. Live(w) = Live(v)
  BY <1>1 DEF Live
<1> QED BY <1>1, <1>2 DEF w

\* prv_updateRegistration.
LEMMA Updates ==
  ASSUME NEW v, RegServer(v), Room(v, 2), ~v.dirty, NEW op \in {"update", "full"},
         v.sent \/ op = "full"
  PROVE  RegServer(Update(v, op)) /\ ~Update(v, op).dirty
<1>1. v \in Server(Statuses) /\ Live(v) # Slots
  BY Counts, ClientAssumption DEF RegServer, Server, Statuses, Room
<1> DEFINE u == Send(v, op)
           w == [u EXCEPT !.status = "REG_UPDATE_PENDING"]
<1>2. /\ u \in Server(Statuses) /\ u.dirty = v.dirty /\ u.sent /\ HasTransaction(u, {op})
      /\ Cardinality(Live(u)) = Cardinality(Live(v)) + 1
  BY <1>1, Sends
<1>3. Update(v, op) = w
  BY DEF Update
<1> HIDE DEF u
<1>4. /\ w \in Server(RegistrationStatuses) /\ w.status = "REG_UPDATE_PENDING" /\ w.tx = u.tx
      /\ w.sent /\ ~w.dirty
  BY <1>2 DEF Server, RegistrationStatuses
<1> HIDE DEF w
<1>5. HasTransaction(w, {"update", "full"})
  BY <1>2, <1>4 DEF HasTransaction
<1>6. Room(w, 1)
  <2>1. Live(w) = Live(u)
    BY <1>4 DEF Live
  <2>2. Cardinality(Live(v)) \in Nat /\ MaxTransactions \in Nat
    BY Counts, ClientAssumption
  <2> QED BY <1>2, <2>1, <2>2 DEF Room
<1> QED BY <1>3, <1>4, <1>5, <1>6 DEF RegServer

\* registration_step.
LEMMA RegSteps ==
  ASSUME NEW v, RegServer(v)
  PROVE  LET w == RegistrationStepOf(v) IN
         /\ RegServer(w) /\ w.dirty = v.dirty
         /\ v.status \in Idle => w.status = v.status
<1> DEFINE w == RegistrationStepOf(v)
<1>0. v \in Server(RegistrationStatuses)
  BY DEF RegServer
<1>1. CASE v.status = "REGISTERED" /\ v.overdue
  <2>1. w = Update(v, "update")
    BY <1>1 DEF RegistrationStepOf
  <2>2. Room(v, 2) /\ ~v.dirty /\ v.sent
    BY <1>1, <1>0 DEF RegServer, Idle, Server
  <2>3. RegServer(w) /\ ~w.dirty
    BY <2>1, <2>2, Updates
  <2>4. w.dirty = v.dirty
    BY <1>0, <2>2, <2>3 DEF RegServer, Server
  <2> QED BY <1>1, <2>3, <2>4 DEF Idle
<1>2. CASE v.status = "REG_FULL_UPDATE_NEEDED"
  <2>1. w = Update(v, "full")
    BY <1>2 DEF RegistrationStepOf
  <2>2. Room(v, 2) /\ ~v.dirty
    BY <1>2, <1>0 DEF RegServer, Idle, Server
  <2>3. RegServer(w) /\ ~w.dirty
    BY <2>1, <2>2, Updates
  <2>4. w.dirty = v.dirty
    BY <1>0, <2>2, <2>3 DEF RegServer, Server
  <2> QED BY <1>2, <2>3, <2>4 DEF Idle
<1>3. CASE v.status = "REG_FAILED"
  <2>1. w = Close(v)
    BY <1>3 DEF RegistrationStepOf
  <2>2. /\ w \in Server(RegistrationStatuses) /\ Live(w) = Live(v)
        /\ w.status = v.status /\ w.dirty = v.dirty
    BY <1>0, <2>1, Closes
  <2> HIDE DEF w
  <2>3. RegServer(w)
    BY <1>3, <2>2 DEF RegServer, Room, Idle
  <2> QED BY <1>3, <2>2, <2>3 DEF w
<1>4. CASE w = v
  BY <1>4
<1> QED BY <1>1, <1>2, <1>3, <1>4 DEF RegistrationStepOf

\* prv_deleteServer: its id is free, though its transactions are not over.
LEMMA Deletes ==
  ASSUME NEW v
  PROVE  /\ RegServer(v) /\ v.dirty => RegServer(Delete(v)) /\ Unused(Delete(v))
         /\ BootServer(v) => BootServer(Delete(v)) /\ Unused(Delete(v))
<1> SUFFICES ASSUME v \in Server(Statuses)
             PROVE  /\ RegServer(v) /\ v.dirty => RegServer(Delete(v)) /\ Unused(Delete(v))
                    /\ BootServer(v) => BootServer(Delete(v)) /\ Unused(Delete(v))
  BY DEF RegServer, BootServer, Server, Statuses
<1> DEFINE w == Delete(v)
<1>1. /\ w.status = "DEREGISTERED" /\ w.session = FALSE /\ w.dirty = FALSE
      /\ w \in Server(RegistrationStatuses) /\ w \in Server(BootstrapStatuses)
      /\ \A k \in Slots : w.tx[k].op = v.tx[k].op
  <2> DEFINE t == [k \in Slots |-> [v.tx[k] EXCEPT !.open = FALSE, !.owned = FALSE]]
  <2>1. t \in [Slots -> Transaction] /\ \A k \in Slots : t[k].op = v.tx[k].op
    BY DEF Server, Transaction
  <2> HIDE DEF t
  <2>2. w = [NewServer EXCEPT !.tx = t, !.refused = v.refused]
    BY DEF Delete, t
  <2>3. v.refused \in BOOLEAN
    BY DEF Server
  <2> HIDE DEF w
  <2>4. w = [status |-> "DEREGISTERED", session |-> FALSE, dirty |-> FALSE, overdue |-> FALSE,
             tx |-> t, refused |-> v.refused, sent |-> FALSE]
    BY <2>2 DEF NewServer
  <2> QED BY <2>1, <2>3, <2>4 DEF Server, RegistrationStatuses, BootstrapStatuses
<1> HIDE DEF w
<1>2. Live(w) = Live(v)
  BY <1>1 DEF Live
<1>3. Unused(w)
  BY <1>1 DEF Unused
<1>4. ASSUME RegServer(v), v.dirty PROVE RegServer(w)
  BY <1>1, <1>2, <1>4 DEF RegServer, Room, Idle
<1>5. BootServer(w)
  BY <1>1 DEF BootServer
<1> QED BY <1>3, <1>4, <1>5 DEF w

\* Part of prv_refreshServerList, and of bootstrap_start.
LEMMA Restarts ==
  ASSUME NEW v, BootServer(v), NEW up \in BOOLEAN
  PROVE  LET u == [v EXCEPT !.status = "DEREGISTERED"] IN
         /\ BootServer(u) /\ u.session = v.session /\ u.dirty = v.dirty
         /\ u.status = "DEREGISTERED"
         /\ BootServer(Connect(u, up)) /\ Connect(u, up).dirty = v.dirty
<1> DEFINE u == [v EXCEPT !.status = "DEREGISTERED"]
           w == Connect(u, up)
<1>1. /\ u \in Server(BootstrapStatuses)
      /\ u.session = v.session /\ u.dirty = v.dirty /\ u.status = "DEREGISTERED"
  BY DEF BootServer, Server, BootstrapStatuses
<1> HIDE DEF u
<1>2. w \in Server(BootstrapStatuses) /\ w.dirty = v.dirty /\ w.status = "DEREGISTERED"
  BY <1>1 DEF Connect, Server
<1> HIDE DEF w
<1>3. BootServer(u) /\ BootServer(w)
  BY <1>1, <1>2 DEF BootServer
<1> QED BY <1>1, <1>2, <1>3 DEF u, w

\* bootstrap_step.
LEMMA BootSteps ==
  ASSUME NEW v, BootServer(v), NEW up \in BOOLEAN
  PROVE  LET w == BootstrapStepOf(v, up) IN
         /\ BootServer(w) /\ w.dirty = v.dirty /\ w.status # "DEREGISTERED"
<1> DEFINE w == BootstrapStepOf(v, up)
<1>0. v \in Server(BootstrapStatuses)
  BY DEF BootServer
<1>1. CASE v.status = "DEREGISTERED"
  <2>1. w = [v EXCEPT !.status = "BS_HOLD_OFF", !.overdue = FALSE]
    BY <1>1 DEF BootstrapStepOf
  <2> HIDE DEF w
  <2>2. /\ w \in Server(BootstrapStatuses) /\ w.status = "BS_HOLD_OFF" /\ ~w.overdue
        /\ w.dirty = v.dirty
    BY <1>0, <2>1 DEF Server, BootstrapStatuses
  <2>3. BootServer(w)
    BY <2>2 DEF BootServer
  <2> QED BY <2>2, <2>3 DEF w
<1>2. CASE v.status = "BS_HOLD_OFF" /\ v.overdue
  <2>1. w = RequestBootstrap(v, up)
    BY <1>2 DEF BootstrapStepOf
  <2>2. CASE v.session \/ up
    <3> DEFINE u == Connect(v, up)
               t == Send(u, "bootstrap")
    <3>1. /\ u \in Server(BootstrapStatuses) /\ u \in Server(Statuses)
          /\ u.dirty = v.dirty /\ u.tx = v.tx
      BY <1>0, <2>2 DEF Connect, Server, BootstrapStatuses, Statuses
    <3> HIDE DEF u
    <3>2. Live(u) # Slots
      <4>1. Live(u) = Live(v) /\ Live(v) = {}
        BY <1>2, <3>1 DEF BootServer, Live
      <4> QED BY <4>1, Counts
    <3>3. t \in Server(Statuses) /\ t.dirty = v.dirty /\ HasTransaction(t, {"bootstrap"})
      BY <3>1, <3>2, Sends
    <3>4. w = [t EXCEPT !.status = "BS_INITIATED"]
      BY <2>1, <2>2 DEF RequestBootstrap, u
    <3> HIDE DEF t, w
    <3>5. /\ w \in Server(BootstrapStatuses) /\ w.status = "BS_INITIATED" /\ w.tx = t.tx
          /\ w.dirty = v.dirty
      BY <3>3, <3>4 DEF Server, BootstrapStatuses
    <3>6. BootServer(w)
      BY <3>3, <3>5 DEF BootServer, HasTransaction
    <3> QED BY <3>5, <3>6 DEF w
  <2>3. CASE ~(v.session \/ up)
    <3>1. w = [[v EXCEPT !.refused = TRUE] EXCEPT !.status = "BS_FAILED"]
      BY <2>1, <2>3 DEF RequestBootstrap, Connect
    <3> HIDE DEF w
    <3>2. /\ w \in Server(BootstrapStatuses) /\ w.status = "BS_FAILED" /\ ~w.session
          /\ w.dirty = v.dirty
      BY <1>0, <2>3, <3>1 DEF Server, BootstrapStatuses
    <3>3. BootServer(w)
      BY <3>2 DEF BootServer
    <3> QED BY <3>2, <3>3 DEF w
  <2> QED BY <2>2, <2>3
<1>3. CASE v.status = "BS_PENDING" /\ v.overdue
  <2>1. w = [v EXCEPT !.status = "BS_FAILING"]
    BY <1>3 DEF BootstrapStepOf
  <2> HIDE DEF w
  <2>2. w \in Server(BootstrapStatuses) /\ w.status = "BS_FAILING" /\ w.dirty = v.dirty
    BY <1>0, <2>1 DEF Server, BootstrapStatuses
  <2>3. BootServer(w)
    BY <2>2 DEF BootServer
  <2> QED BY <2>2, <2>3 DEF w
<1>4. CASE v.status \in {"BS_FINISHING", "BS_FAILING"}
  <2> DEFINE u == Close(v)
  <2>1. \E end \in {"BS_FINISHED", "BS_FAILED"} : w = [u EXCEPT !.status = end]
    BY <1>4 DEF BootstrapStepOf
  <2> HIDE DEF w
  <2>2. u \in Server(BootstrapStatuses) /\ ~u.session /\ u.dirty = v.dirty
    BY <1>0, Closes
  <2> HIDE DEF u
  <2>3. /\ w \in Server(BootstrapStatuses) /\ w.status \in {"BS_FINISHED", "BS_FAILED"}
        /\ ~w.session /\ w.dirty = v.dirty
    BY <2>1, <2>2 DEF Server, BootstrapStatuses
  <2>4. BootServer(w)
    BY <2>3 DEF BootServer
  <2> QED BY <2>3, <2>4 DEF w
<1>5. CASE w = v /\ v.status # "DEREGISTERED"
  BY <1>5
<1> QED BY <1>1, <1>2, <1>3, <1>4, <1>5 DEF BootstrapStepOf

------------------------------------------------------------------------------
\* What lwm2m_step does to the context.

\* A loop over servers that leaves each sound.
LEMMA Composed ==
  ASSUME NEW c \in Contexts, NEW f, f = [i \in Ids |-> f[i]],
         \A s \in Servers : RegServer(f[s]),
         \A b \in Bootstraps : BootServer(f[b]),
         \A i \in Ids \ c.listed : Unused(f[i])
  PROVE  LET d == [c EXCEPT !.server = f] IN
         Sound(d) /\ d.state = c.state /\ d.listed = c.listed /\ d.server = f
<1> DEFINE d == [c EXCEPT !.server = f]
<1>1. \A i \in Ids : f[i] \in Server(Statuses)
  BY DEF RegServer, BootServer, Server, Statuses, Ids
<1>2. f \in [Ids -> Server(Statuses)]
  BY <1>1
<1>3. d \in Contexts /\ d.state = c.state /\ d.listed = c.listed /\ d.server = f
  BY <1>2 DEF Contexts
<1> QED BY <1>3 DEF Sound

\* InState.
LEMMA Enters ==
  ASSUME NEW c, Sound(c), NEW state \in States
  PROVE  LET d == InState(c, state) IN
         Sound(d) /\ d.state = state /\ d.listed = c.listed /\ d.server = c.server
<1> DEFINE d == InState(c, state)
<1>1. d \in Contexts /\ d.state = state /\ d.listed = c.listed /\ d.server = c.server
  BY DEF InState, Sound, Contexts
<1> HIDE DEF d
<1>2. Sound(d)
  BY <1>1 DEF Sound
<1> QED BY <1>1, <1>2 DEF d

\* What a server is to the states of the client.
Like(w, v) == w.dirty = v.dirty /\ (v.status \in Idle => w.status \in Idle)

LEMMA TransactionSteps ==
  ASSUME NEW c, Sound(c)
  PROVE  LET d == TransactionStep(c) IN
         /\ Sound(d) /\ d.state = c.state /\ d.listed = c.listed
         /\ \A s \in Servers : Like(d.server[s], c.server[s])
         /\ \A b \in Bootstraps :
              /\ d.server[b].dirty = c.server[b].dirty /\ d.server[b].session = c.server[b].session
              /\ d.server[b].status = "DEREGISTERED" <=> c.server[b].status = "DEREGISTERED"
<1> DEFINE f == [i \in Ids |-> Answer(c.server[i], Late(c.server[i]), FALSE)]
<1>1. TransactionStep(c) = [c EXCEPT !.server = f]
  BY DEF TransactionStep, ForEach
<1>2. \A i \in Ids : f[i] = Answer(c.server[i], Late(c.server[i]), FALSE)
                     /\ Late(c.server[i]) \in SUBSET Slots
  BY DEF Late, Live
<1>3. f = [i \in Ids |-> f[i]]
  OBVIOUS
<1>4. c \in Contexts /\ Ids = Bootstraps \cup Servers
  BY DEF Sound, Ids
<1> HIDE DEF f
<1>5. ASSUME NEW s \in Servers
      PROVE  /\ RegServer(f[s]) /\ f[s].session = c.server[s].session
             /\ f[s].dirty = c.server[s].dirty
             /\ c.server[s].status \in Idle => f[s].status = c.server[s].status
  <2>1. RegServer(c.server[s]) /\ s \in Ids
    BY <1>4 DEF Sound
  <2>2. f[s] = Answer(c.server[s], Late(c.server[s]), FALSE) /\ Late(c.server[s]) \in SUBSET Slots
    BY <1>2, <2>1
  <2> QED BY <2>1, <2>2, RegAnswers, Zenon
<1>6. ASSUME NEW b \in Bootstraps
      PROVE  /\ BootServer(f[b]) /\ f[b].session = c.server[b].session
             /\ f[b].dirty = c.server[b].dirty
             /\ f[b].status = "DEREGISTERED" <=> c.server[b].status = "DEREGISTERED"
  <2>1. BootServer(c.server[b]) /\ b \in Ids
    BY <1>4 DEF Sound
  <2>2. f[b] = Answer(c.server[b], Late(c.server[b]), FALSE) /\ Late(c.server[b]) \in SUBSET Slots
    BY <1>2, <2>1
  <2>3. FALSE \in BOOLEAN
    OBVIOUS
  <2>4. LET w == Answer(c.server[b], Late(c.server[b]), FALSE) IN
        /\ BootServer(w) /\ w.session = c.server[b].session /\ w.dirty = c.server[b].dirty
        /\ w.status = "DEREGISTERED" <=> c.server[b].status = "DEREGISTERED"
    BY <2>1, <2>2, <2>3, BootAnswers, Zenon
  <2> QED BY <2>2, <2>4
<1>7. \A i \in Ids \ c.listed : Unused(f[i])
  BY <1>4, <1>5, <1>6 DEF Sound, Unused, Idle
<1>8. LET d == [c EXCEPT !.server = f] IN
      Sound(d) /\ d.state = c.state /\ d.listed = c.listed /\ d.server = f
  BY <1>3, <1>4, <1>5, <1>6, <1>7, Composed
<1> QED BY <1>1, <1>5, <1>6, <1>8 DEF Like

LEMMA RegistrationSteps ==
  ASSUME NEW c, Sound(c)
  PROVE  LET d == RegistrationStep(c) IN
         /\ Sound(d) /\ d.state = c.state /\ d.listed = c.listed
         /\ \A s \in Servers : Like(d.server[s], c.server[s])
         /\ \A b \in Bootstraps : d.server[b] = c.server[b]
<1> DEFINE S == c.listed \cap Servers
           f == [i \in Ids |-> IF i \in S THEN RegistrationStepOf(c.server[i]) ELSE c.server[i]]
<1>1. RegistrationStep(c) = [c EXCEPT !.server = f]
  BY DEF RegistrationStep, ForEach
<1>2. c \in Contexts /\ Ids = Bootstraps \cup Servers /\ Bootstraps \cap Servers = {}
  BY ClientAssumption DEF Sound, Ids
<1>3. /\ \A i \in S : f[i] = RegistrationStepOf(c.server[i])
      /\ \A i \in Ids \ S : f[i] = c.server[i]
      /\ f = [i \in Ids |-> f[i]]
  BY <1>2
<1> HIDE DEF f
<1>4. ASSUME NEW s \in Servers PROVE RegServer(f[s]) /\ Like(f[s], c.server[s])
  BY <1>2, <1>3, RegSteps DEF Sound, Like
<1>5. \A b \in Bootstraps : f[b] = c.server[b]
  BY <1>2, <1>3
<1>6. \A i \in Ids \ c.listed : Unused(f[i])
  BY <1>3 DEF Sound
<1>7. \A b \in Bootstraps : BootServer(f[b])
  BY <1>5 DEF Sound
<1>8. LET d == [c EXCEPT !.server = f] IN
      Sound(d) /\ d.state = c.state /\ d.listed = c.listed /\ d.server = f
  BY <1>2, <1>3, <1>4, <1>6, <1>7, Composed
<1> QED BY <1>1, <1>4, <1>5, <1>8

\* The end of a step that was not cut short.
LEMMA Completes ==
  ASSUME NEW c, Good(c)
  PROVE  Good(Done(c).ctx) /\ ~Done(c).unavailable
<1> DEFINE d == RegistrationStep(c)
           e == TransactionStep(d)
<1>1. Done(c).ctx = e /\ ~Done(c).unavailable
  BY DEF Done
<1>2. /\ Sound(d) /\ d.state = c.state /\ d.listed = c.listed
      /\ \A s \in Servers : Like(d.server[s], c.server[s])
      /\ \A b \in Bootstraps : d.server[b] = c.server[b]
  BY RegistrationSteps DEF Good
<1> HIDE DEF d
<1>3. /\ Sound(e) /\ e.state = c.state /\ e.listed = c.listed
      /\ \A s \in Servers : Like(e.server[s], d.server[s])
      /\ \A b \in Bootstraps :
           /\ e.server[b].dirty = d.server[b].dirty /\ e.server[b].session = d.server[b].session
           /\ e.server[b].status = "DEREGISTERED" <=> d.server[b].status = "DEREGISTERED"
  BY <1>2, TransactionSteps
<1> HIDE DEF e
<1>4. c.listed \subseteq Bootstraps \cup Servers
  BY DEF Good, Sound, Contexts, Ids
<1>5. Phase(e)
  BY <1>2, <1>3 DEF Good, Phase, Closed, Like
<1>6. Configured(e)
  BY <1>2, <1>3, <1>4 DEF Good, Configured, Like
<1> QED BY <1>1, <1>3, <1>5, <1>6 DEF Good

LEMMA BootstrapStarts ==
  ASSUME NEW c, Sound(c), NEW down
  PROVE  LET d == BootstrapStart(c, down) IN
         /\ Sound(d) /\ d.listed = c.listed
         /\ \A s \in Servers : d.server[s] = c.server[s]
         /\ \A b \in Bootstraps : d.server[b].dirty = c.server[b].dirty
<1> DEFINE S == c.listed \cap Bootstraps
           g(i) == Connect([c.server[i] EXCEPT !.status = "DEREGISTERED"], i \notin down)
           f == [i \in Ids |-> IF i \in S THEN g(i) ELSE c.server[i]]
<1>1. BootstrapStart(c, down) = [c EXCEPT !.server = f]
  BY DEF BootstrapStart, ForEach
<1>2. c \in Contexts /\ Ids = Bootstraps \cup Servers /\ Bootstraps \cap Servers = {}
  BY ClientAssumption DEF Sound, Ids
<1>3. /\ \A i \in S : f[i] = g(i)
      /\ \A i \in Ids \ S : f[i] = c.server[i]
      /\ f = [i \in Ids |-> f[i]]
  BY <1>2
<1> HIDE DEF f
<1>4. ASSUME NEW b \in Bootstraps PROVE BootServer(f[b]) /\ f[b].dirty = c.server[b].dirty
  <2>1. BootServer(c.server[b]) /\ b \in Ids /\ (b \notin down) \in BOOLEAN
    BY <1>2 DEF Sound
  <2>2. BootServer(g(b)) /\ g(b).dirty = c.server[b].dirty
    BY <2>1, Restarts
  <2> QED BY <1>3, <2>1, <2>2
<1>5. \A s \in Servers : f[s] = c.server[s]
  BY <1>2, <1>3
<1>6. \A i \in Ids \ c.listed : Unused(f[i])
  BY <1>3 DEF Sound
<1>7. \A s \in Servers : RegServer(f[s])
  BY <1>5 DEF Sound
<1>8. LET d == [c EXCEPT !.server = f] IN
      Sound(d) /\ d.state = c.state /\ d.listed = c.listed /\ d.server = f
  BY <1>2, <1>3, <1>4, <1>6, <1>7, Composed
<1> QED BY <1>1, <1>4, <1>5, <1>8

LEMMA BootstrapSteps ==
  ASSUME NEW c, Sound(c), NEW down
  PROVE  LET d == BootstrapStep(c, down) IN
         /\ Sound(d) /\ d.state = c.state /\ d.listed = c.listed
         /\ \A s \in Servers : d.server[s] = c.server[s]
         /\ \A b \in Bootstraps : d.server[b].dirty = c.server[b].dirty
         /\ \A b \in c.listed \cap Bootstraps : d.server[b].status # "DEREGISTERED"
<1> DEFINE S == c.listed \cap Bootstraps
           f == [i \in Ids |-> IF i \in S THEN BootstrapStepOf(c.server[i], i \notin down)
                               ELSE c.server[i]]
<1>1. BootstrapStep(c, down) = [c EXCEPT !.server = f]
  BY DEF BootstrapStep, ForEach
<1>2. c \in Contexts /\ Ids = Bootstraps \cup Servers /\ Bootstraps \cap Servers = {}
  BY ClientAssumption DEF Sound, Ids
<1>3. /\ \A i \in S : f[i] = BootstrapStepOf(c.server[i], i \notin down)
      /\ \A i \in Ids \ S : f[i] = c.server[i]
      /\ f = [i \in Ids |-> f[i]]
  BY <1>2
<1> HIDE DEF f
<1>4. ASSUME NEW b \in Bootstraps
      PROVE  /\ BootServer(f[b]) /\ f[b].dirty = c.server[b].dirty
             /\ b \in S => f[b].status # "DEREGISTERED"
  <2>1. BootServer(c.server[b]) /\ b \in Ids /\ (b \notin down) \in BOOLEAN
    BY <1>2 DEF Sound
  <2> QED BY <1>3, <2>1, BootSteps
<1>5. \A s \in Servers : f[s] = c.server[s]
  BY <1>2, <1>3
<1>6. \A i \in Ids \ c.listed : Unused(f[i])
  BY <1>3 DEF Sound
<1>7. \A s \in Servers : RegServer(f[s])
  BY <1>5 DEF Sound
<1>8. LET d == [c EXCEPT !.server = f] IN
      Sound(d) /\ d.state = c.state /\ d.listed = c.listed /\ d.server = f
  BY <1>2, <1>3, <1>4, <1>6, <1>7, Composed
<1> QED BY <1>1, <1>4, <1>5, <1>8

\* The servers that registration_start reaches are registered; to the others it
\* only could not connect.
LEMMA RegistrationStarts ==
  ASSUME NEW c, Sound(c), NEW down, \A i \in c.listed : ~c.server[i].dirty
  PROVE  LET d == RegistrationStart(c, down) IN
         /\ Sound(d) /\ d.listed = c.listed
         /\ \A s \in c.listed \cap Servers : ~d.server[s].dirty
         /\ \A b \in Bootstraps : d.server[b] = c.server[b]
<1> DEFINE S == Unregistered(c)
           U == Unreached(c, down)
           g(i) == IF i \in U THEN [c.server[i] EXCEPT !.refused = TRUE] ELSE Register(c.server[i])
           f == [i \in Ids |-> IF i \in S THEN g(i) ELSE c.server[i]]
<1>1. RegistrationStart(c, down) = [c EXCEPT !.server = f]
  BY DEF RegistrationStart, ForEach
<1>2. /\ c \in Contexts /\ Ids = Bootstraps \cup Servers /\ Bootstraps \cap Servers = {}
      /\ S \subseteq c.listed \cap Servers
      /\ \A s \in S : c.server[s].status \in Idle
  BY ClientAssumption DEF Sound, Ids, Unregistered, Idle
<1>3. /\ \A i \in S : f[i] = g(i)
      /\ \A i \in Ids \ S : f[i] = c.server[i]
      /\ f = [i \in Ids |-> f[i]]
  BY <1>2
<1> HIDE DEF f, S, U
<1>4. ASSUME NEW s \in S PROVE RegServer(g(s)) /\ ~g(s).dirty
  <2>1. RegServer(c.server[s]) /\ ~c.server[s].dirty /\ c.server[s].status \in Idle
    BY <1>2 DEF Sound
  <2>2. CASE s \in U
    <3> DEFINE v == c.server[s]
               w == [v EXCEPT !.refused = TRUE]
    <3>1. /\ w \in Server(RegistrationStatuses) /\ w.status = v.status /\ w.dirty = v.dirty
          /\ w.overdue = v.overdue /\ w.sent = v.sent /\ w.tx = v.tx
      BY <2>1 DEF RegServer, Server
    <3> HIDE DEF w, v
    <3>2. Live(w) = Live(v)
      BY <3>1 DEF Live
    <3>3. RegServer(w) /\ ~w.dirty
      BY <2>1, <3>1, <3>2 DEF RegServer, Room, Idle, v
    <3> QED BY <2>2, <3>3 DEF w, v
  <2>3. CASE s \notin U
    BY <2>1, <2>3, Registers
  <2> QED BY <2>2, <2>3
<1>5. ASSUME NEW s \in Servers
      PROVE  RegServer(f[s]) /\ (s \in c.listed => ~f[s].dirty)
  <2>1. RegServer(c.server[s]) /\ s \in Ids
    BY <1>2 DEF Sound
  <2> QED BY <1>3, <1>4, <2>1
<1>6. \A b \in Bootstraps : f[b] = c.server[b]
  BY <1>2, <1>3
<1>7. \A b \in Bootstraps : BootServer(f[b])
  BY <1>6 DEF Sound
<1>8. \A i \in Ids \ c.listed : Unused(f[i])
  BY <1>2, <1>3 DEF Sound
<1>9. LET d == [c EXCEPT !.server = f] IN
      Sound(d) /\ d.state = c.state /\ d.listed = c.listed /\ d.server = f
  BY <1>2, <1>3, <1>5, <1>7, <1>8, Composed
<1> QED BY <1>1, <1>5, <1>6, <1>9

\* prv_refreshServerList leaves no dirty server.
LEMMA Refreshes ==
  ASSUME NEW c, Sound(c), Closed(c), Configured(c)
  PROVE  LET d == Refresh(c) IN
         /\ Sound(d) /\ Closed(d)
         /\ \A i \in d.listed : ~d.server[i].dirty /\ security[i] \in {"good", "spoilt"}
<1> DEFINE D == {i \in c.listed : c.server[i].dirty}
           S == D \cup Bootstraps
           g(i) == IF i \in D THEN Delete(c.server[i])
                   ELSE [c.server[i] EXCEPT !.status = "DEREGISTERED"]
           f == [i \in Ids |-> IF i \in S THEN g(i) ELSE c.server[i]]
           e == [[c EXCEPT !.server = f] EXCEPT !.listed = @ \ D]
           N == {i \in NewInstances(e) : /\ i \in Bootstraps \cup account
                                         /\ \A j \in Unreadable(e) : i < j}
           d == [e EXCEPT !.listed = @ \cup N]
<1>1. Refresh(c) = d
  BY DEF Refresh, ForEach, GetServers
<1>2. /\ c \in Contexts /\ Ids = Bootstraps \cup Servers /\ Bootstraps \cap Servers = {}
      /\ D \subseteq c.listed /\ c.listed \subseteq Ids /\ \A i \in D : c.server[i].dirty
      /\ \A i \in c.listed \ D : ~c.server[i].dirty
  BY ClientAssumption DEF Sound, Ids, Contexts
<1>3. /\ \A i \in S : f[i] = g(i)
      /\ \A i \in Ids \ S : f[i] = c.server[i]
      /\ f = [i \in Ids |-> f[i]]
  BY <1>2
<1> HIDE DEF f, D
<1>4. ASSUME NEW s \in Servers
      PROVE  RegServer(f[s]) /\ (s \in D => Unused(f[s])) /\ (s \notin D => f[s] = c.server[s])
  <2>1. RegServer(c.server[s]) /\ s \in Ids /\ (s \in S <=> s \in D)
    BY <1>2 DEF Sound
  <2>2. s \in D => RegServer(Delete(c.server[s])) /\ Unused(Delete(c.server[s]))
    BY <1>2, <2>1, Deletes
  <2> QED BY <1>3, <2>1, <2>2
<1>5. ASSUME NEW b \in Bootstraps
      PROVE  /\ BootServer(f[b]) /\ (b \in D \/ b \notin c.listed => Unused(f[b]))
             /\ ~f[b].session /\ (b \notin D => f[b].dirty = c.server[b].dirty)
  <2>1. BootServer(c.server[b]) /\ b \in S /\ ~c.server[b].session
    BY DEF Sound, Closed
  <2>2. b \notin c.listed => Unused(c.server[b])
    BY <1>2 DEF Sound
  <2>3. CASE b \in D
    <3>1. BootServer(Delete(c.server[b])) /\ Unused(Delete(c.server[b]))
      BY <2>1, Deletes
    <3>2. f[b] = Delete(c.server[b])
      BY <1>3, <2>1, <2>3
    <3> QED BY <2>3, <3>1, <3>2 DEF Unused
  <2>4. CASE b \notin D
    <3> DEFINE u == [c.server[b] EXCEPT !.status = "DEREGISTERED"]
    <3>1. /\ BootServer(u) /\ u.session = c.server[b].session /\ u.dirty = c.server[b].dirty
          /\ u.status = "DEREGISTERED"
      BY <2>1, Restarts
    <3>2. f[b] = u
      BY <1>3, <2>1, <2>4
    <3> HIDE DEF u
    <3> QED BY <2>1, <2>2, <2>4, <3>1, <3>2 DEF Unused
  <2> QED BY <2>3, <2>4
<1>6. \A i \in Ids : f[i] \in Server(Statuses)
  BY <1>2, <1>4, <1>5 DEF RegServer, BootServer, Server, Statuses
<1>7. f \in [Ids -> Server(Statuses)]
  BY <1>3, <1>6
<1>8. e \in Contexts /\ e.server = f /\ e.listed = c.listed \ D
  BY <1>2, <1>7 DEF Contexts
<1> HIDE DEF e
<1>9. N \subseteq Ids \ e.listed /\ \A i \in N : security[i] = "good"
  <2>1. ASSUME NEW i \in N, security[i] # "good" PROVE FALSE
    <3>1. i \in Unreadable(e) /\ i \in Nat
      BY <1>2, <2>1, ClientAssumption DEF Unreadable, NewInstances, Ids
    <3>2. i < i
      BY <2>1, <3>1
    <3> QED BY <3>1, <3>2
  <2> QED BY <2>1 DEF NewInstances
<1> HIDE DEF N
<1>10. /\ d \in Contexts /\ d.server = f
       /\ d.listed = (c.listed \ D) \cup N
  BY <1>8, <1>9 DEF Contexts
<1> HIDE DEF d
<1>11. \A i \in Ids \ (c.listed \ D) : Unused(f[i])
  <2>1. ASSUME NEW i \in Ids \ (c.listed \ D) PROVE Unused(f[i])
    <3>1. i \notin c.listed => Unused(c.server[i])
      BY DEF Sound
    <3> QED BY <1>2, <1>4, <1>5, <2>1, <3>1
  <2> QED BY <2>1
<1>12. Sound(d)
  BY <1>4, <1>5, <1>10, <1>11 DEF Sound
<1>13. Closed(d)
  BY <1>5, <1>10 DEF Closed
<1>14. ASSUME NEW i \in d.listed
       PROVE  ~d.server[i].dirty /\ security[i] \in {"good", "spoilt"}
  <2>1. CASE i \in N
    BY <1>8, <1>9, <1>10, <1>11, <2>1 DEF Unused
  <2>2. CASE i \in c.listed \ D
    <3>1. ~c.server[i].dirty /\ security[i] \in {"good", "spoilt"} /\ i \in Bootstraps \cup Servers
      BY <1>2, <2>2 DEF Configured
    <3>2. f[i].dirty = c.server[i].dirty
      BY <1>4, <1>5, <2>2, <3>1
    <3> QED BY <1>10, <3>1, <3>2
  <2> QED BY <1>10, <2>1, <2>2
<1> QED BY <1>1, <1>12, <1>13, <1>14

\* What lwm2m_step leaves, and that no connection to a bootstrap server is left
\* when it reports 503.
Left(r) == Good(r.ctx) /\ (r.unavailable => Closed(r.ctx))

\* Case STATE_BOOTSTRAP_REQUIRED.
LEMMA RequiresBootstrap ==
  ASSUME NEW c, Sound(c), Closed(c), NEW down,
         \A s \in c.listed \cap Servers : c.server[s].status \in Idle,
         \A i \in c.listed : ~c.server[i].dirty => security[i] \in {"good", "spoilt"}
  PROVE  Left(BootstrapRequired(c, down))
<1>1. CASE c.listed \cap Bootstraps = {}
  <2> DEFINE d == InState(c, "BOOTSTRAP_REQUIRED")
  <2>1. BootstrapRequired(c, down) = Unavailable(d)
    BY <1>1 DEF BootstrapRequired
  <2>2. Sound(d) /\ d.state = "BOOTSTRAP_REQUIRED" /\ d.listed = c.listed /\ d.server = c.server
    BY Enters DEF States
  <2> HIDE DEF d
  <2>3. Good(d) /\ Closed(d)
    BY <2>2 DEF Good, Phase, Configured, Closed
  <2> QED BY <2>1, <2>3 DEF Left, Unavailable
<1>2. CASE c.listed \cap Bootstraps # {}
  <2> DEFINE d == BootstrapStart(c, down)
             e == InState(d, "BOOTSTRAPPING")
             f == BootstrapStep(e, down)
  <2>1. BootstrapRequired(c, down) = Done(f)
    BY <1>2 DEF BootstrapRequired
  <2>2. /\ Sound(d) /\ d.listed = c.listed
        /\ \A s \in Servers : d.server[s] = c.server[s]
        /\ \A b \in Bootstraps : d.server[b].dirty = c.server[b].dirty
    BY BootstrapStarts
  <2> HIDE DEF d
  <2>3. Sound(e) /\ e.state = "BOOTSTRAPPING" /\ e.listed = d.listed /\ e.server = d.server
    BY <2>2, Enters DEF States
  <2> HIDE DEF e
  <2>4. /\ Sound(f) /\ f.state = e.state /\ f.listed = e.listed
        /\ \A s \in Servers : f.server[s] = e.server[s]
        /\ \A b \in Bootstraps : f.server[b].dirty = e.server[b].dirty
        /\ \A b \in e.listed \cap Bootstraps : f.server[b].status # "DEREGISTERED"
    BY <2>3, BootstrapSteps
  <2> HIDE DEF f
  <2>5. c.listed \subseteq Bootstraps \cup Servers
    BY DEF Sound, Contexts, Ids
  <2>6. Phase(f)
    BY <2>2, <2>3, <2>4 DEF Phase
  <2>7. Configured(f)
    BY <2>2, <2>3, <2>4, <2>5 DEF Configured
  <2> QED BY <2>1, <2>4, <2>6, <2>7, Completes DEF Left, Good
<1> QED BY <1>1, <1>2

\* Case STATE_REGISTER_REQUIRED.
LEMMA RequiresRegistration ==
  ASSUME NEW c, Sound(c), Closed(c), NEW down,
         \A i \in c.listed : ~c.server[i].dirty /\ security[i] \in {"good", "spoilt"}
  PROVE  Left(RegisterRequired(c, down))
<1> DEFINE d == RegistrationStart(c, down)
<1>1. /\ Sound(d) /\ d.listed = c.listed
      /\ \A s \in c.listed \cap Servers : ~d.server[s].dirty
      /\ \A b \in Bootstraps : d.server[b] = c.server[b]
  BY RegistrationStarts
<1>2. \/ RegisterRequired(c, down) = Unavailable(InState(d, "REGISTER_REQUIRED"))
      \/ RegisterRequired(c, down) = Done(InState(d, "REGISTERING"))
  BY DEF RegisterRequired
<1> HIDE DEF d
<1>3. c.listed \subseteq Bootstraps \cup Servers
  BY DEF Sound, Contexts, Ids
<1>4. ASSUME NEW state \in {"REGISTER_REQUIRED", "REGISTERING"}
      PROVE  Good(InState(d, state)) /\ Closed(InState(d, state))
  <2> DEFINE e == InState(d, state)
  <2>1. Sound(e) /\ e.state = state /\ e.listed = d.listed /\ e.server = d.server
    BY <1>1, Enters DEF States
  <2> HIDE DEF e
  <2>2. Closed(e)
    BY <1>1, <2>1 DEF Closed
  <2>3. Phase(e)
    BY <2>1, <2>2 DEF Phase
  <2>4. Configured(e)
    BY <1>1, <1>3, <2>1 DEF Configured
  <2> QED BY <2>1, <2>2, <2>3, <2>4 DEF Good, e
<1>5. CASE RegisterRequired(c, down) = Unavailable(InState(d, "REGISTER_REQUIRED"))
  BY <1>4, <1>5 DEF Left, Unavailable
<1>6. CASE RegisterRequired(c, down) = Done(InState(d, "REGISTERING"))
  BY <1>4, <1>6, Completes DEF Left
<1> QED BY <1>2, <1>5, <1>6

\* Case STATE_INITIAL.
LEMMA Initials ==
  ASSUME NEW c, Sound(c), Closed(c), Configured(c), NEW down
  PROVE  Left(Initial(c, down))
<1> DEFINE e == Refresh(c)
           d == InState(e, "INITIAL")
<1>1. /\ Sound(e) /\ Closed(e)
      /\ \A i \in e.listed : ~e.server[i].dirty /\ security[i] \in {"good", "spoilt"}
  BY Refreshes
<1> HIDE DEF e
<1>2. Sound(d) /\ d.state = "INITIAL" /\ d.listed = e.listed /\ d.server = e.server
  BY <1>1, Enters DEF States
<1>3. \/ Initial(c, down) = Unavailable(d)
      \/ Initial(c, down) = RegisterRequired(d, down)
      \/ d.listed \cap Servers = {} /\ Initial(c, down) = BootstrapRequired(d, down)
  BY DEF Initial, e
<1> HIDE DEF d
<1>4. /\ Closed(d)
      /\ \A i \in d.listed : ~d.server[i].dirty /\ security[i] \in {"good", "spoilt"}
  BY <1>1, <1>2 DEF Closed
<1>5. CASE Initial(c, down) = Unavailable(d)
  <2>1. Good(d)
    BY <1>2, <1>4 DEF Good, Phase, Configured
  <2> QED BY <1>4, <1>5, <2>1 DEF Left, Unavailable
<1>6. CASE Initial(c, down) = RegisterRequired(d, down)
  BY <1>2, <1>4, <1>6, RequiresRegistration
<1>7. CASE d.listed \cap Servers = {} /\ Initial(c, down) = BootstrapRequired(d, down)
  BY <1>2, <1>4, <1>7, RequiresBootstrap
<1> QED BY <1>3, <1>5, <1>6, <1>7

\* Case STATE_BOOTSTRAPPING.  A bootstrap has ended when no server is left that
\* could still end it.
LEMMA Bootstrapped ==
  ASSUME NEW c, Good(c), c.state = "BOOTSTRAPPING", NEW down
  PROVE  Left(Bootstrapping(c, down))
<1>1. ASSUME BootstrapStatus(c) # "BS_PENDING" PROVE Closed(c)
  <2>1. SUFFICES ASSUME NEW b \in Bootstraps PROVE ~c.server[b].session
    BY DEF Closed
  <2>2. CASE b \in c.listed
    <3>1. c.server[b].status \notin
            {"BS_HOLD_OFF", "BS_INITIATED", "BS_PENDING", "BS_FINISHING", "BS_FAILING"}
      BY <1>1, <2>2 DEF BootstrapStatus
    <3>2. c.server[b].status # "DEREGISTERED" /\ BootServer(c.server[b])
      BY <2>2 DEF Good, Phase, Sound
    <3>3. c.server[b].status \in {"BS_FINISHED", "BS_FAILED"}
      BY <3>1, <3>2 DEF BootServer, Server, BootstrapStatuses
    <3> QED BY <3>2, <3>3 DEF BootServer
  <2>3. CASE b \notin c.listed
    BY <2>3 DEF Good, Sound, Unused, Ids
  <2> QED BY <2>2, <2>3
<1>2. CASE BootstrapStatus(c) = "BS_FINISHED"
  <2>1. Bootstrapping(c, down) = Initial(c, down)
    BY <1>2 DEF Bootstrapping
  <2> QED BY <1>1, <1>2, <2>1, Initials DEF Good
<1>3. CASE BootstrapStatus(c) = "BS_FAILED"
  <2>1. Bootstrapping(c, down) = Unavailable(c)
    BY <1>3 DEF Bootstrapping
  <2> QED BY <1>1, <1>3, <2>1 DEF Left, Unavailable
<1>4. CASE BootstrapStatus(c) = "BS_PENDING"
  <2> DEFINE d == BootstrapStep(c, down)
  <2>1. Bootstrapping(c, down) = Done(d)
    BY <1>4 DEF Bootstrapping
  <2>2. /\ Sound(d) /\ d.state = c.state /\ d.listed = c.listed
        /\ \A s \in Servers : d.server[s] = c.server[s]
        /\ \A b \in Bootstraps : d.server[b].dirty = c.server[b].dirty
        /\ \A b \in c.listed \cap Bootstraps : d.server[b].status # "DEREGISTERED"
    BY BootstrapSteps DEF Good
  <2> HIDE DEF d
  <2>3. Phase(d)
    BY <2>2 DEF Good, Phase
  <2>4. c.listed \subseteq Bootstraps \cup Servers
    BY DEF Good, Sound, Contexts, Ids
  <2>5. Configured(d)
    BY <2>2, <2>4 DEF Good, Configured
  <2> QED BY <2>1, <2>2, <2>3, <2>5, Completes DEF Left, Good
<1> QED BY <1>2, <1>3, <1>4 DEF BootstrapStatus

\* Cases STATE_REGISTERING and STATE_READY.  When all registrations failed, no
\* LWM2M server waits for anything.
LEMMA Registrations ==
  ASSUME NEW c, Good(c), c.state \in {"REGISTERING", "READY"}, NEW down
  PROVE  Left(Registering(c, down)) /\ Left(Ready(c, down))
<1>1. ASSUME RegistrationStatus(c) = "REG_FAILED"
      PROVE  Left(BootstrapRequired(c, down))
  <2>1. ASSUME NEW s \in c.listed \cap Servers PROVE c.server[s].status \in Idle
    <3>1. c.server[s].status \in RegistrationStatuses
      BY DEF Good, Sound, RegServer, Server
    <3>2. c.server[s].status \notin Registered \cup {"REG_PENDING"}
      BY <1>1 DEF RegistrationStatus
    <3> QED BY <3>1, <3>2 DEF RegistrationStatuses, Registered, Idle
  <2>2. /\ Sound(c) /\ Closed(c)
        /\ \A i \in c.listed : ~c.server[i].dirty => security[i] \in {"good", "spoilt"}
    BY DEF Good, Phase, Configured
  <2> QED BY <2>1, <2>2, RequiresBootstrap
<1>2. Left(Done(c))
  BY Completes DEF Left
<1>3. Left(Done(InState(c, "READY")))
  <2> DEFINE d == InState(c, "READY")
  <2>1. Sound(d) /\ d.state = "READY" /\ d.listed = c.listed /\ d.server = c.server
    BY Enters DEF Good, States
  <2> HIDE DEF d
  <2>2. Good(d)
    BY <2>1 DEF Good, Phase, Closed, Configured
  <2> QED BY <2>2, Completes DEF Left, d
<1> QED BY <1>1, <1>2, <1>3 DEF Registering, Ready

\* lwm2m_step.
LEMMA StepsFrom ==
  ASSUME NEW c, Good(c), NEW down
  PROVE  Left(StepFrom(c, down))
<1>1. CASE c.state = "BOOTSTRAPPING"
  BY <1>1, Bootstrapped DEF StepFrom
<1>2. CASE c.state \in {"REGISTERING", "READY"}
  BY <1>2, Registrations DEF StepFrom
<1>3. CASE c.state = "INITIAL"
  BY <1>3, Initials DEF StepFrom, Good, Phase
<1>4. CASE c.state = "BOOTSTRAP_REQUIRED"
  <2>1. StepFrom(c, down) = BootstrapRequired(c, down)
    BY <1>4 DEF StepFrom
  <2> QED BY <1>4, <2>1, RequiresBootstrap DEF Good, Phase, Configured
<1>5. CASE c.state = "REGISTER_REQUIRED"
  <2>1. StepFrom(c, down) = RegisterRequired(c, down)
    BY <1>5 DEF StepFrom
  <2> QED BY <1>5, <2>1, RequiresRegistration DEF Good, Phase, Configured
<1> QED BY <1>1, <1>2, <1>3, <1>4, <1>5 DEF Good, Sound, Contexts, States

------------------------------------------------------------------------------
\* What a packet or the time does to the context.

\* A change of one server that the others and the client do not notice.
LEMMA Alone ==
  ASSUME NEW c, Good(c), NEW i \in Ids, NEW w,
         i \in Servers => RegServer(w) /\ Like(w, c.server[i]),
         i \in Bootstraps =>
           /\ BootServer(w)
           /\ w.dirty = c.server[i].dirty /\ w.session = c.server[i].session
           /\ w.status = "DEREGISTERED" <=> c.server[i].status = "DEREGISTERED",
         i \notin c.listed => Unused(w)
  PROVE  Good([c EXCEPT !.server[i] = w])
<1> DEFINE f == [c.server EXCEPT ![i] = w]
           d == [c EXCEPT !.server = f]
<1>1. /\ c \in Contexts /\ Ids = Bootstraps \cup Servers /\ Bootstraps \cap Servers = {}
      /\ c.listed \subseteq Ids /\ c.server \in [Ids -> Server(Statuses)]
  BY ClientAssumption DEF Good, Sound, Ids, Contexts
<1>2. f = [j \in Ids |-> f[j]] /\ f[i] = w /\ \A j \in Ids \ {i} : f[j] = c.server[j]
  BY <1>1
<1>3. [c EXCEPT !.server[i] = w] = d
  BY <1>1
<1> HIDE DEF f
<1>4. \A s \in Servers : RegServer(f[s]) /\ Like(f[s], c.server[s])
  BY <1>1, <1>2 DEF Good, Sound, Like
<1>5. \A b \in Bootstraps :
        /\ BootServer(f[b])
        /\ f[b].dirty = c.server[b].dirty /\ f[b].session = c.server[b].session
        /\ f[b].status = "DEREGISTERED" <=> c.server[b].status = "DEREGISTERED"
  BY <1>1, <1>2 DEF Good, Sound
<1>6. \A j \in Ids \ c.listed : Unused(f[j])
  BY <1>1, <1>2 DEF Good, Sound
<1>7. Sound(d) /\ d.state = c.state /\ d.listed = c.listed /\ d.server = f
  BY <1>1, <1>2, <1>4, <1>5, <1>6, Composed
<1> HIDE DEF d
<1>8. Phase(d)
  BY <1>4, <1>5, <1>7 DEF Good, Phase, Closed, Like
<1>9. Configured(d)
  BY <1>1, <1>4, <1>5, <1>7 DEF Good, Configured, Like
<1> QED BY <1>3, <1>7, <1>8, <1>9 DEF Good

\* The client bootstraps, and a bootstrap server commands it.
Commanded(c) == Sound(c) /\ Phase(c) /\ c.state = "BOOTSTRAPPING"

\* Only the fields status and overdue of a bootstrap server change.
LEMMA Commands ==
  ASSUME NEW c, Commanded(c), NEW b \in c.listed \cap Bootstraps,
         NEW w \in Server(BootstrapStatuses), w.dirty = c.server[b].dirty,
         w.status = "BS_PENDING" \/ (w.status = c.server[b].status /\ ~w.overdue
                                     /\ c.server[b].status \notin {"BS_INITIATED", "BS_FINISHED",
                                                                  "BS_FAILED"})
  PROVE  LET d == [c EXCEPT !.server[b] = w] IN
         /\ Commanded(d) /\ d.listed = c.listed
         /\ \A i \in Ids : d.server[i].dirty = c.server[i].dirty
<1> DEFINE f == [c.server EXCEPT ![b] = w]
           d == [c EXCEPT !.server = f]
<1>1. /\ c \in Contexts /\ Ids = Bootstraps \cup Servers /\ Bootstraps \cap Servers = {}
      /\ c.listed \subseteq Ids /\ c.server \in [Ids -> Server(Statuses)]
  BY ClientAssumption DEF Commanded, Sound, Ids, Contexts
<1>2. f = [j \in Ids |-> f[j]] /\ f[b] = w /\ \A j \in Ids \ {b} : f[j] = c.server[j]
  BY <1>1
<1>3. [c EXCEPT !.server[b] = w] = d
  BY <1>1
<1> HIDE DEF f
<1>4. c.server[b].status # "DEREGISTERED"
  BY DEF Commanded, Phase
<1>5. BootServer(w) /\ w.status # "DEREGISTERED"
  BY <1>4 DEF BootServer
<1>6. /\ \A s \in Servers : f[s] = c.server[s] /\ RegServer(f[s])
      /\ \A a \in Bootstraps : BootServer(f[a])
      /\ \A j \in Ids \ c.listed : Unused(f[j])
      /\ \A i \in Ids : f[i].dirty = c.server[i].dirty
  BY <1>1, <1>2, <1>5 DEF Commanded, Sound
<1>7. Sound(d) /\ d.state = c.state /\ d.listed = c.listed /\ d.server = f
  BY <1>1, <1>2, <1>6, Composed
<1> HIDE DEF d
<1>8. Phase(d)
  BY <1>1, <1>2, <1>5, <1>6, <1>7 DEF Commanded, Phase
<1> QED BY <1>3, <1>6, <1>7, <1>8 DEF Commanded

\* prv_checkServerStatus.
LEMMA Checks ==
  ASSUME Good(ctx), NEW b, MayCommand(b)
  PROVE  LET d == CheckServerStatus(ctx, b) IN
         /\ Commanded(d) /\ d.listed = ctx.listed /\ b \in d.listed \cap Bootstraps
         /\ \A i \in Ids : d.server[i].dirty = ctx.server[i].dirty
<1> DEFINE v == ctx.server[b]
<1>1. b \in ctx.listed \cap Bootstraps /\ v.session /\ v.status \in Accepted
  BY DEF MayCommand
<1>2. Commanded(ctx)
  BY <1>1 DEF Commanded, Good, Phase, Closed
<1>3. v \in Server(BootstrapStatuses)
  BY <1>1 DEF Good, Sound, BootServer
<1>4. CASE v.status \in {"BS_HOLD_OFF", "BS_INITIATED"}
  <2> DEFINE w == [v EXCEPT !.status = "BS_PENDING"]
  <2>1. CheckServerStatus(ctx, b) = [ctx EXCEPT !.server[b] = w]
    BY <1>4 DEF CheckServerStatus
  <2>2. w \in Server(BootstrapStatuses) /\ w.status = "BS_PENDING" /\ w.dirty = v.dirty
    BY <1>3 DEF Server, BootstrapStatuses
  <2> HIDE DEF w
  <2> QED BY <1>1, <1>2, <2>1, <2>2, Commands
<1>5. CASE v.status \notin {"BS_HOLD_OFF", "BS_INITIATED"}
  <2> DEFINE w == [v EXCEPT !.overdue = FALSE]
  <2>1. CheckServerStatus(ctx, b) = [ctx EXCEPT !.server[b] = w]
    BY <1>5 DEF CheckServerStatus
  <2>2. w \in Server(BootstrapStatuses) /\ w.status = v.status /\ ~w.overdue /\ w.dirty = v.dirty
    BY <1>3 DEF Server
  <2>3. v.status \notin {"BS_INITIATED", "BS_FINISHED", "BS_FAILED"}
    BY <1>1, <1>5 DEF Accepted
  <2> HIDE DEF w
  <2> QED BY <1>1, <1>2, <2>1, <2>2, <2>3, Commands
<1> QED BY <1>4, <1>5

\* The end of bootstrap_handleCommand.
LEMMA Changes ==
  ASSUME NEW c, Commanded(c), NEW b \in c.listed \cap Bootstraps
  PROVE  LET d == Changed(c, b) IN
         /\ Commanded(d) /\ d.listed = c.listed
         /\ \A i \in Ids : d.server[i].dirty = c.server[i].dirty
<1> DEFINE w == [c.server[b] EXCEPT !.status = "BS_PENDING"]
<1>1. c.server[b] \in Server(BootstrapStatuses) /\ c \in Contexts /\ b \in Ids
  BY DEF Commanded, Sound, BootServer, Ids
<1>2. /\ w \in Server(BootstrapStatuses) /\ w.status = "BS_PENDING"
      /\ w.dirty = c.server[b].dirty
  BY <1>1 DEF Server, BootstrapStatuses
<1>3. Changed(c, b) = c \/ Changed(c, b) = [c EXCEPT !.server[b] = w]
  BY <1>1 DEF Changed, Commanded, Contexts
<1> HIDE DEF w
<1>4. CASE Changed(c, b) = c
  BY <1>4
<1>5. CASE Changed(c, b) = [c EXCEPT !.server[b] = w]
  <2> HIDE DEF Changed
  <2>1. LET d == [c EXCEPT !.server[b] = w] IN
        /\ Commanded(d) /\ d.listed = c.listed
        /\ \A i \in Ids : d.server[i].dirty = c.server[i].dirty
    BY <1>2, Commands
  <2> QED BY <1>5, <2>1
<1> QED BY <1>3, <1>4, <1>5

\* prv_tagServer: no server that a bootstrap can change is registered.
LEMMA Tags ==
  ASSUME NEW c, Sound(c), NEW ids,
         \A s \in c.listed \cap Servers \cap ids : c.server[s].status \in Idle
  PROVE  LET d == Dirtied(c, ids) IN
         /\ Sound(d) /\ d.state = c.state /\ d.listed = c.listed
         /\ \A i \in Ids : /\ d.server[i].status = c.server[i].status
                           /\ d.server[i].session = c.server[i].session
                           /\ i \in c.listed => (d.server[i].dirty <=>
                                                   c.server[i].dirty \/ i \in ids)
<1> DEFINE S == c.listed \cap ids
           g(i) == [c.server[i] EXCEPT !.dirty = TRUE]
           f == [i \in Ids |-> IF i \in S THEN g(i) ELSE c.server[i]]
<1>1. Dirtied(c, ids) = [c EXCEPT !.server = f]
  BY DEF Dirtied, ForEach
<1>2. /\ c \in Contexts /\ Ids = Bootstraps \cup Servers /\ Bootstraps \cap Servers = {}
      /\ S \subseteq Ids /\ c.server \in [Ids -> Server(Statuses)]
  BY ClientAssumption DEF Sound, Ids, Contexts
<1>3. /\ \A i \in S : f[i] = g(i)
      /\ \A i \in Ids \ S : f[i] = c.server[i]
      /\ f = [i \in Ids |-> f[i]]
  BY <1>2
<1> HIDE DEF f
<1>4. ASSUME NEW i \in Ids
      PROVE  /\ f[i].status = c.server[i].status /\ f[i].session = c.server[i].session
             /\ f[i].overdue = c.server[i].overdue /\ f[i].sent = c.server[i].sent
             /\ f[i].tx = c.server[i].tx
             /\ f[i].dirty <=> (c.server[i].dirty \/ i \in S)
  <2>1. c.server[i] \in Server(Statuses)
    BY <1>2
  <2> QED BY <1>3, <2>1 DEF Server
<1>5. ASSUME NEW s \in Servers PROVE RegServer(f[s])
  <2>1. RegServer(c.server[s]) /\ s \in Ids
    BY <1>2 DEF Sound
  <2>2. f[s] \in Server(RegistrationStatuses)
    <3>1. c.server[s] \in Server(RegistrationStatuses)
      BY <2>1 DEF RegServer
    <3>2. g(s) \in Server(RegistrationStatuses)
      BY <3>1 DEF Server
    <3> QED BY <1>3, <2>1, <3>1, <3>2
  <2>3. s \in S => c.server[s].status \in Idle
    OBVIOUS
  <2>4. Live(f[s]) = Live(c.server[s])
    BY <1>4, <2>1 DEF Live
  <2> QED BY <1>4, <2>1, <2>2, <2>3, <2>4 DEF RegServer, HasTransaction, Room
<1>6. ASSUME NEW b \in Bootstraps PROVE BootServer(f[b])
  <2>1. BootServer(c.server[b]) /\ b \in Ids
    BY <1>2 DEF Sound
  <2>2. f[b] \in Server(BootstrapStatuses)
    <3>1. c.server[b] \in Server(BootstrapStatuses)
      BY <2>1 DEF BootServer
    <3>2. g(b) \in Server(BootstrapStatuses)
      BY <3>1 DEF Server
    <3> QED BY <1>3, <2>1, <3>1, <3>2
  <2>3. Live(f[b]) = Live(c.server[b])
    BY <1>4, <2>1 DEF Live
  <2> QED BY <1>4, <2>1, <2>2, <2>3 DEF BootServer, HasTransaction
<1>7. \A i \in Ids \ c.listed : Unused(f[i])
  BY <1>3 DEF Sound
<1>8. LET d == [c EXCEPT !.server = f] IN
      Sound(d) /\ d.state = c.state /\ d.listed = c.listed /\ d.server = f
  BY <1>2, <1>3, <1>5, <1>6, <1>7, Composed
<1> QED BY <1>1, <1>4, <1>8

\* The same while the client bootstraps: what is tagged is dirty.
LEMMA CommandTags ==
  ASSUME NEW c, Commanded(c), NEW ids
  PROVE  LET d == Tag(c, ids) IN
         /\ Commanded(d) /\ d.listed = c.listed
         /\ \A i \in c.listed : d.server[i].dirty <=> c.server[i].dirty \/ i \in ids
<1> DEFINE d == Dirtied(c, ids)
<1>1. c.listed \subseteq Ids /\ Ids = Bootstraps \cup Servers
  BY DEF Commanded, Sound, Contexts, Ids
<1>2. /\ Sound(d) /\ d.state = c.state /\ d.listed = c.listed
      /\ \A i \in Ids : /\ d.server[i].status = c.server[i].status
                        /\ d.server[i].session = c.server[i].session
                        /\ i \in c.listed => (d.server[i].dirty <=>
                                                c.server[i].dirty \/ i \in ids)
  BY Tags DEF Commanded, Phase
<1>3. Tag(c, ids) = d
  BY DEF Tag
<1> HIDE DEF d
<1>4. Phase(d)
  BY <1>1, <1>2 DEF Commanded, Phase
<1> QED BY <1>1, <1>2, <1>3, <1>4 DEF Commanded

\* The end of a command: a server is dirty, or the configuration still has it.
LEMMA Obeys ==
  ASSUME Commanded(ctx'), ctx'.listed = ctx.listed,
         \A i \in ctx.listed : ~ctx'.server[i].dirty => security'[i] \in {"good", "spoilt"}
  PROVE  Good(ctx)'
<1>1. Sound(ctx)' /\ Phase(ctx)' /\ ctx'.state = "BOOTSTRAPPING"
  BY DEF Commanded, Sound, Phase, Closed
<1>2. Configured(ctx)'
  BY <1>1 DEF Configured
<1> QED BY <1>1, <1>2 DEF Good

LEMMA Keeps ==
  ASSUME Good(ctx'), UNCHANGED security
  PROVE  Good(ctx)'
BY DEF Good, Sound, Phase, Closed, Configured

\* The loop over the servers that are told of a change.
LEMMA Tells ==
  ASSUME Good(ctx), \A t \in ToTell(ctx) : HasRoom(ctx.server[t])
  PROVE  Good(UpdateRegistration(ctx))
<1> DEFINE S == ToTell(ctx)
           g(i) == [ctx.server[i] EXCEPT !.sent = FALSE, !.status = "REG_FULL_UPDATE_NEEDED"]
           f == [i \in Ids |-> IF i \in S THEN g(i) ELSE ctx.server[i]]
           d == [ctx EXCEPT !.server = f]
<1>1. UpdateRegistration(ctx) = d
  BY DEF UpdateRegistration, ForEach
<1>2. /\ ctx \in Contexts /\ Ids = Bootstraps \cup Servers /\ Bootstraps \cap Servers = {}
      /\ S \subseteq ctx.listed \cap Servers
      /\ \A s \in S : ctx.server[s].status \in Registered /\ HasRoom(ctx.server[s])
      /\ ctx.listed \subseteq Ids
  BY ClientAssumption DEF Good, Sound, Ids, ToTell, Contexts
<1>3. /\ \A i \in S : f[i] = g(i)
      /\ \A i \in Ids \ S : f[i] = ctx.server[i]
      /\ f = [i \in Ids |-> f[i]]
  BY <1>2
<1> HIDE DEF f, S
<1>4. ASSUME NEW s \in S PROVE RegServer(g(s)) /\ ~g(s).dirty /\ ~ctx.server[s].dirty
  <2> DEFINE v == ctx.server[s]
             w == g(s)
  <2>1. RegServer(v) /\ v.status \in Registered /\ HasRoom(v)
    BY <1>2 DEF Good, Sound
  <2>2. ~v.dirty
    BY <2>1 DEF RegServer, Idle, Registered
  <2>3. /\ w \in Server(RegistrationStatuses) /\ w.status = "REG_FULL_UPDATE_NEEDED"
        /\ w.dirty = v.dirty /\ w.tx = v.tx
    BY <2>1 DEF RegServer, Server, RegistrationStatuses
  <2> HIDE DEF w, v
  <2>4. Room(w, 2)
    <3>1. Live(w) = Live(v)
      BY <2>3 DEF Live
    <3>2. Cardinality(Live(v)) \in Nat /\ MaxTransactions \in Nat
      BY Counts, ClientAssumption
    <3> QED BY <2>1, <3>1, <3>2 DEF HasRoom, Room
  <2>5. RegServer(w) /\ ~w.dirty /\ ~v.dirty
    BY <2>2, <2>3, <2>4 DEF RegServer
  <2> QED BY <2>5 DEF w, v
<1>5. ASSUME NEW s \in Servers
      PROVE  RegServer(f[s]) /\ (f[s].dirty <=> ctx.server[s].dirty)
  <2>1. RegServer(ctx.server[s]) /\ s \in Ids
    BY <1>2 DEF Good, Sound
  <2> QED BY <1>3, <1>4, <2>1
<1>6. \A b \in Bootstraps : f[b] = ctx.server[b] /\ BootServer(f[b])
  BY <1>2, <1>3 DEF Good, Sound
<1>7. \A i \in Ids \ ctx.listed : Unused(f[i])
  BY <1>2, <1>3 DEF Good, Sound
<1>8. Sound(d) /\ d.state = ctx.state /\ d.listed = ctx.listed /\ d.server = f
  BY <1>2, <1>3, <1>5, <1>6, <1>7, Composed
<1> HIDE DEF d
<1>9. Phase(d)
  <2>1. ASSUME ctx.state \in {"BOOTSTRAP_REQUIRED", "BOOTSTRAPPING"},
               NEW s \in ctx.listed \cap Servers
        PROVE  f[s].status \in Idle
    <3>1. ctx.server[s].status \in Idle
      BY <2>1 DEF Good, Phase
    <3>2. s \notin S
      BY <1>2, <3>1 DEF Idle, Registered
    <3> QED BY <1>2, <1>3, <3>1, <3>2
  <2> QED BY <1>6, <1>8, <2>1 DEF Good, Phase, Closed
<1>10. Configured(d)
  BY <1>2, <1>5, <1>6, <1>8 DEF Good, Configured
<1> QED BY <1>1, <1>8, <1>9, <1>10 DEF Good

\* The start of a step, and the end of one that was cut short too often.
LEMMA Begins ==
  ASSUME Good(ctx)
  PROVE  Good(ForEach(LAMBDA i, v : [v EXCEPT !.refused = FALSE], ctx, Ids))
<1> DEFINE g(i) == [ctx.server[i] EXCEPT !.refused = FALSE]
           f == [i \in Ids |-> IF i \in Ids THEN g(i) ELSE ctx.server[i]]
           d == [ctx EXCEPT !.server = f]
<1>1. ForEach(LAMBDA i, v : [v EXCEPT !.refused = FALSE], ctx, Ids) = d
  BY DEF ForEach
<1>2. /\ ctx \in Contexts /\ Ids = Bootstraps \cup Servers
      /\ ctx.listed \subseteq Ids /\ ctx.server \in [Ids -> Server(Statuses)]
  BY DEF Good, Sound, Ids, Contexts
<1>3. f = [i \in Ids |-> f[i]] /\ \A i \in Ids : f[i] = g(i)
  OBVIOUS
<1> HIDE DEF f
<1>4. ASSUME NEW i \in Ids
      PROVE  /\ f[i].status = ctx.server[i].status /\ f[i].session = ctx.server[i].session
             /\ f[i].overdue = ctx.server[i].overdue /\ f[i].sent = ctx.server[i].sent
             /\ f[i].tx = ctx.server[i].tx /\ f[i].dirty = ctx.server[i].dirty
             /\ Live(f[i]) = Live(ctx.server[i])
  <2>1. ctx.server[i] \in Server(Statuses)
    BY <1>2
  <2> QED BY <1>3, <2>1 DEF Server, Live
<1>5. ASSUME NEW s \in Servers PROVE RegServer(f[s])
  <2>1. RegServer(ctx.server[s]) /\ s \in Ids
    BY <1>2 DEF Good, Sound
  <2>2. ctx.server[s] \in Server(RegistrationStatuses)
    BY <2>1 DEF RegServer
  <2>3. g(s) \in Server(RegistrationStatuses)
    BY <2>2 DEF Server
  <2>4. f[s] \in Server(RegistrationStatuses)
    BY <1>3, <2>1, <2>3
  <2> QED BY <1>4, <2>1, <2>4 DEF RegServer, HasTransaction, Room
<1>6. ASSUME NEW b \in Bootstraps PROVE BootServer(f[b])
  <2>1. BootServer(ctx.server[b]) /\ b \in Ids
    BY <1>2 DEF Good, Sound
  <2>2. ctx.server[b] \in Server(BootstrapStatuses)
    BY <2>1 DEF BootServer
  <2>3. g(b) \in Server(BootstrapStatuses)
    BY <2>2 DEF Server
  <2>4. f[b] \in Server(BootstrapStatuses)
    BY <1>3, <2>1, <2>3
  <2> QED BY <1>4, <2>1, <2>4 DEF BootServer, HasTransaction
<1>7. \A i \in Ids \ ctx.listed : Unused(f[i])
  BY <1>4 DEF Good, Sound, Unused
<1>8. Sound(d) /\ d.state = ctx.state /\ d.listed = ctx.listed /\ d.server = f
  BY <1>2, <1>3, <1>5, <1>6, <1>7, Composed
<1> HIDE DEF d
<1>9. Phase(d) /\ Configured(d)
  BY <1>2, <1>4, <1>8 DEF Good, Phase, Closed, Configured
<1> QED BY <1>1, <1>8, <1>9 DEF Good

LEMMA StartsOver ==
  ASSUME NEW c, Good(c), Closed(c)
  PROVE  Good(StartOver(c))
<1> DEFINE d == Dirtied(c, Bootstraps)
           e == InState(d, "INITIAL")
<1>1. c.listed \subseteq Ids /\ Ids = Bootstraps \cup Servers /\ Bootstraps \cap Servers = {}
  BY ClientAssumption DEF Good, Sound, Contexts, Ids
<1>2. /\ Sound(d) /\ d.state = c.state /\ d.listed = c.listed
      /\ \A i \in Ids : /\ d.server[i].status = c.server[i].status
                        /\ d.server[i].session = c.server[i].session
                        /\ i \in c.listed => (d.server[i].dirty <=>
                                                c.server[i].dirty \/ i \in Bootstraps)
  BY <1>1, Tags DEF Good
<1> HIDE DEF d
<1>3. Sound(e) /\ e.state = "INITIAL" /\ e.listed = d.listed /\ e.server = d.server
  BY <1>2, Enters DEF States
<1> HIDE DEF e
<1>4. Phase(e)
  BY <1>1, <1>2, <1>3 DEF Phase, Closed
<1>5. Configured(e)
  BY <1>1, <1>2, <1>3 DEF Good, Configured
<1> QED BY <1>3, <1>4, <1>5 DEF Good, StartOver, d, e

------------------------------------------------------------------------------
\* The actions.

LEMMA StepKeeps ==
  ASSUME IInv, NEW down, Step(down)
  PROVE  IInv'
<1> DEFINE c == ForEach(LAMBDA i, v : [v EXCEPT !.refused = FALSE], ctx, Ids)
           r == StepFrom(c, down)
           times == IF failures < MaxFailures THEN failures + 1 ELSE MaxFailures
<1>1. /\ waiting' = TRUE
      /\ failures' = IF r.unavailable THEN times ELSE 0
      /\ ctx' = IF r.unavailable /\ times = MaxFailures THEN StartOver(r.ctx) ELSE r.ctx
      /\ UNCHANGED <<security, account>>
  BY DEF Step
<1>2. Good(c)
  BY Begins DEF IInv
<1> HIDE DEF c
<1>3. Left(r)
  BY <1>2, StepsFrom
<1> HIDE DEF r
<1>4. Good(ctx')
  BY <1>1, <1>3, StartsOver DEF Left
<1>5. OtherTypes'
  BY <1>1, ClientAssumption DEF IInv, OtherTypes
<1> QED BY <1>1, <1>4, <1>5, Keeps DEF IInv

LEMMA ReplyKeeps ==
  ASSUME IInv, NEW i \in Ids, NEW k \in Slots, NEW good \in BOOLEAN, Reply(i, k, good)
  PROVE  IInv'
<1> DEFINE v == ctx.server[i]
           w == Answer(v, {k}, good)
<1>1. /\ waiting' = FALSE /\ UNCHANGED <<failures, security, account>>
      /\ ctx' = [ctx EXCEPT !.server[i] = w]
  BY DEF Reply, Receive
<1>2. {k} \in SUBSET Slots /\ Good(ctx)
  BY DEF IInv
<1>3. ASSUME i \in Servers
      PROVE  /\ RegServer(w) /\ Like(w, v) /\ w.session = v.session
             /\ v.status \in Idle => w.status = v.status
  <2>1. RegServer(v)
    BY <1>2, <1>3 DEF Good, Sound
  <2>2. /\ RegServer(w) /\ w.session = v.session /\ w.dirty = v.dirty
        /\ v.status \in Idle => w.status = v.status
    BY <1>2, <2>1, RegAnswers
  <2> HIDE DEF w, v
  <2> QED BY <2>2 DEF Like
<1>4. ASSUME i \in Bootstraps
      PROVE  /\ BootServer(w) /\ w.session = v.session /\ w.dirty = v.dirty
             /\ w.status = "DEREGISTERED" <=> v.status = "DEREGISTERED"
  <2>1. BootServer(v)
    BY <1>2, <1>4 DEF Good, Sound
  <2> QED BY <1>2, <2>1, BootAnswers
<1> HIDE DEF w
<1>5. i \notin ctx.listed => Unused(w)
  BY <1>2, <1>3, <1>4 DEF Good, Sound, Unused, Ids, Idle, Like
<1>6. Good(ctx')
  BY <1>1, <1>2, <1>3, <1>4, <1>5, Alone
<1>7. OtherTypes'
  BY <1>1 DEF IInv, OtherTypes
<1> QED BY <1>1, <1>6, <1>7, Keeps DEF IInv

LEMMA CommandKeeps ==
  ASSUME IInv, NEW b \in Bootstraps, Command(b)
  PROVE  IInv'
<1> DEFINE c == CheckServerStatus(ctx, b)
<1>1. OtherTypes /\ Good(ctx) /\ ctx.listed \subseteq Ids
  BY DEF IInv, Good, Sound, Contexts
<1>2. ASSUME MayCommand(b)
      PROVE  /\ Commanded(c) /\ c.listed = ctx.listed /\ b \in c.listed \cap Bootstraps
             /\ \A i \in Ids : c.server[i].dirty = ctx.server[i].dirty
  BY <1>1, <1>2, Checks
<1>3. ASSUME NEW ids, MayCommand(b)
      PROVE  /\ Commanded(Tag(c, ids)) /\ Tag(c, ids).listed = ctx.listed
             /\ \A i \in ctx.listed : Tag(c, ids).server[i].dirty <=>
                                        ctx.server[i].dirty \/ i \in ids
  BY <1>1, <1>2, <1>3, CommandTags
<1> HIDE DEF c
<1>4. ASSUME NEW d, Commanded(d), d.listed = ctx.listed, MayCommand(b)
      PROVE  /\ Commanded(Changed(d, b)) /\ Changed(d, b).listed = ctx.listed
             /\ \A i \in ctx.listed : Changed(d, b).server[i].dirty = d.server[i].dirty
  BY <1>1, <1>4, Changes DEF MayCommand
<1>5. \A i \in ctx.listed : ~ctx.server[i].dirty => security[i] \in {"good", "spoilt"}
  BY <1>1 DEF Good, Configured
<1>6. ASSUME NEW i \in Ids, NEW data \in {"good", "bad"}, WriteSecurity(b, i, data)
      PROVE  IInv'
  <2> DEFINE d == IF security[i] = "none" THEN c ELSE Tag(c, {i})
  <2>1. /\ MayCommand(b) /\ ctx' = Changed(d, b)
        /\ security' = [security EXCEPT ![i] = data]
        /\ waiting' = FALSE /\ UNCHANGED <<failures, account>>
    BY <1>6 DEF WriteSecurity, Receive, c
  <2>2. /\ Commanded(d) /\ d.listed = ctx.listed
        /\ \A j \in ctx.listed :
             ~d.server[j].dirty => ~ctx.server[j].dirty /\ (security[i] # "none" => j # i)
    BY <1>1, <1>2, <1>3, <2>1
  <2> HIDE DEF d
  <2>3. /\ Commanded(ctx') /\ ctx'.listed = ctx.listed
        /\ \A j \in ctx.listed : ctx'.server[j].dirty = d.server[j].dirty
    BY <1>4, <2>1, <2>2
  <2>4. OtherTypes'
    BY <1>1, <2>1 DEF OtherTypes
  <2>5. \A j \in ctx.listed : ~ctx'.server[j].dirty => security'[j] \in {"good", "spoilt"}
    BY <1>1, <1>5, <2>1, <2>2, <2>3 DEF OtherTypes
  <2> QED BY <2>3, <2>4, <2>5, Obeys DEF IInv
<1>7. ASSUME NEW ids \in SUBSET Ids, DeleteSecurity(b, ids)
      PROVE  IInv'
  <2> DEFINE d == Tag(c, ids)
  <2>1. /\ MayCommand(b) /\ ctx' = Changed(d, b)
        /\ security' = [i \in Ids |-> IF i \in ids THEN "none" ELSE security[i]]
        /\ waiting' = FALSE /\ UNCHANGED <<failures, account>>
    BY <1>7 DEF DeleteSecurity, Receive, c
  <2>2. /\ Commanded(d) /\ d.listed = ctx.listed
        /\ \A j \in ctx.listed : ~d.server[j].dirty => ~ctx.server[j].dirty /\ j \notin ids
    BY <1>3, <2>1
  <2> HIDE DEF d
  <2>3. /\ Commanded(ctx') /\ ctx'.listed = ctx.listed
        /\ \A j \in ctx.listed : ctx'.server[j].dirty = d.server[j].dirty
    BY <1>4, <2>1, <2>2
  <2>4. OtherTypes'
    BY <1>1, <2>1 DEF OtherTypes
  <2>5. \A j \in ctx.listed : ~ctx'.server[j].dirty => security'[j] \in {"good", "spoilt"}
    BY <1>1, <1>5, <2>1, <2>2, <2>3
  <2> QED BY <2>3, <2>4, <2>5, Obeys DEF IInv
<1>8. ASSUME NEW servers \in SUBSET Servers, SetAccounts(b, servers)
      PROVE  IInv'
  <2>1. /\ MayCommand(b) /\ ctx' = Changed(c, b) /\ account' = servers
        /\ waiting' = FALSE /\ UNCHANGED <<failures, security>>
    BY <1>8 DEF SetAccounts, Receive, c
  <2>2. /\ Commanded(ctx') /\ ctx'.listed = ctx.listed
        /\ \A j \in ctx.listed : ctx'.server[j].dirty = ctx.server[j].dirty
    BY <1>1, <1>2, <1>4, <2>1
  <2>3. OtherTypes'
    BY <1>1, <2>1 DEF OtherTypes
  <2> QED BY <1>5, <2>1, <2>2, <2>3, Obeys DEF IInv
<1>9. ASSUME Refuse(b)
      PROVE  IInv'
  <2>1. /\ MayCommand(b) /\ ctx' = c
        /\ waiting' = FALSE /\ UNCHANGED <<failures, security, account>>
    BY <1>9 DEF Refuse, Receive, c
  <2>2. /\ Commanded(ctx') /\ ctx'.listed = ctx.listed
        /\ \A j \in ctx.listed : ctx'.server[j].dirty = ctx.server[j].dirty
    BY <1>1, <1>2, <2>1
  <2>3. OtherTypes'
    BY <1>1, <2>1 DEF OtherTypes
  <2> QED BY <1>5, <2>1, <2>2, <2>3, Obeys DEF IInv
<1>10. ASSUME NEW i \in Ids, SpoilSecurity(b, i)
       PROVE  IInv'
  <2>1. /\ MayCommand(b) /\ ctx' = c /\ security' = [security EXCEPT ![i] = "spoilt"]
        /\ waiting' = FALSE /\ UNCHANGED <<failures, account>>
    BY <1>10 DEF SpoilSecurity, Receive, c
  <2>2. /\ Commanded(ctx') /\ ctx'.listed = ctx.listed
        /\ \A j \in ctx.listed : ctx'.server[j].dirty = ctx.server[j].dirty
    BY <1>1, <1>2, <2>1
  <2>3. OtherTypes'
    BY <1>1, <2>1 DEF OtherTypes
  <2>4. \A j \in ctx.listed : ~ctx'.server[j].dirty => security'[j] \in {"good", "spoilt"}
    BY <1>1, <1>5, <2>1, <2>2 DEF OtherTypes
  <2> QED BY <2>2, <2>3, <2>4, Obeys DEF IInv
<1>11. ASSUME DeleteAll(b)
       PROVE  IInv'
  <2> DEFINE ids == ctx.listed \ {b}
  <2>1. /\ MayCommand(b) /\ ctx' = Tag(c, ids) /\ account' = {}
        /\ security' = [i \in Ids |-> IF i = b THEN security[i] ELSE "none"]
        /\ waiting' = FALSE /\ UNCHANGED failures
    BY <1>11 DEF DeleteAll, Receive, c
  <2>2. /\ Commanded(ctx') /\ ctx'.listed = ctx.listed
        /\ \A j \in ctx.listed : ctx'.server[j].dirty <=> ctx.server[j].dirty \/ j # b
    BY <1>3, <2>1
  <2>3. OtherTypes'
    BY <1>1, <2>1 DEF OtherTypes
  <2>4. \A j \in ctx.listed : ~ctx'.server[j].dirty => security'[j] \in {"good", "spoilt"}
    BY <1>1, <1>5, <2>1, <2>2
  <2> QED BY <2>2, <2>3, <2>4, Obeys DEF IInv
<1>12. /\ \A i \in Ids : {i} \in SUBSET Ids
       /\ {i \in Ids : security[i] # "none"} \in SUBSET Ids
       /\ {} \in SUBSET Servers
       /\ \A s \in Servers : account \cup {s} \in SUBSET Servers /\ account \ {s} \in SUBSET Servers
  BY <1>1 DEF OtherTypes
<1> QED BY <1>6, <1>7, <1>8, <1>9, <1>10, <1>11, <1>12 DEF Command

LEMMA FinishKeeps ==
  ASSUME IInv, NEW b \in Bootstraps, Finish(b)
  PROVE  IInv'
<1> DEFINE v == ctx.server[b]
           w == [v EXCEPT !.status = "BS_FINISHING"]
<1>1. /\ waiting' = FALSE /\ UNCHANGED <<failures, security, account>>
      /\ b \in ctx.listed /\ v.status = "BS_PENDING"
  BY DEF Finish, Receive
<1>2. Good(ctx) /\ BootServer(v) /\ b \in Ids /\ b \notin Servers
      /\ ctx.server \in [Ids -> Server(Statuses)]
  BY ClientAssumption DEF IInv, Good, Sound, Ids, Contexts
<1>3. ctx' = [ctx EXCEPT !.server[b] = w]
  BY <1>2 DEF Finish, Good, Sound, Contexts
<1>4. /\ w \in Server(BootstrapStatuses) /\ w.status = "BS_FINISHING"
      /\ w.dirty = v.dirty /\ w.session = v.session
  BY <1>2 DEF BootServer, Server, BootstrapStatuses
<1> HIDE DEF w
<1>5. BootServer(w) /\ w.status # "DEREGISTERED" /\ v.status # "DEREGISTERED"
  BY <1>1, <1>4 DEF BootServer
<1>6. Good(ctx')
  BY <1>1, <1>2, <1>3, <1>4, <1>5, Alone
<1>7. OtherTypes'
  BY <1>1 DEF IInv, OtherTypes
<1> QED BY <1>1, <1>6, <1>7, Keeps DEF IInv

LEMMA ManageKeeps ==
  ASSUME IInv, NEW s, NEW servers \in SUBSET Servers, Manage(s, servers)
  PROVE  IInv'
<1>1. /\ waiting' = FALSE /\ account' = servers /\ ctx' = UpdateRegistration(ctx)
      /\ UNCHANGED <<failures, security>>
      /\ \A t \in ToTell(ctx) : HasRoom(ctx.server[t])
  BY DEF Manage, Receive
<1>2. Good(ctx')
  BY <1>1, Tells DEF IInv
<1>3. OtherTypes'
  BY <1>1 DEF IInv, OtherTypes
<1> QED BY <1>1, <1>2, <1>3, Keeps DEF IInv

LEMMA ElapseKeeps ==
  ASSUME IInv, NEW i \in Ids, Elapse(i)
  PROVE  IInv'
<1> DEFINE v == ctx.server[i]
           w == [v EXCEPT !.overdue = TRUE]
<1>1. /\ UNCHANGED <<waiting, failures, security, account>>
      /\ \/ v.status = "REGISTERED" /\ HasRoom(v)
         \/ v.status \in {"BS_HOLD_OFF", "BS_PENDING"} /\ Live(v) = {}
  BY DEF Elapse
<1>2. Good(ctx) /\ ctx \in Contexts /\ v \in Server(Statuses) /\ Ids = Bootstraps \cup Servers
  BY DEF IInv, Good, Sound, Contexts, Ids
<1>3. ctx' = [ctx EXCEPT !.server[i] = w]
  BY <1>2 DEF Elapse, Contexts
<1>4. /\ w.status = v.status /\ w.session = v.session /\ w.dirty = v.dirty
      /\ w.sent = v.sent /\ w.tx = v.tx
      /\ \A S : v \in Server(S) => w \in Server(S)
  BY <1>2 DEF Server
<1> HIDE DEF w
<1>5. Live(w) = Live(v)
  BY <1>4 DEF Live
<1>6. i \in ctx.listed
  BY <1>1, <1>2 DEF Good, Sound, Unused
<1>7. ASSUME i \in Servers PROVE RegServer(w) /\ Like(w, v)
  <2>1. RegServer(v)
    BY <1>2, <1>7 DEF Good, Sound
  <2>2. v.status = "REGISTERED" /\ Room(v, 2)
    <3>1. Cardinality(Live(v)) \in Nat /\ MaxTransactions \in Nat
      BY Counts, ClientAssumption
    <3>2. v.status \notin {"BS_HOLD_OFF", "BS_PENDING"}
      BY <2>1 DEF RegServer, Server, RegistrationStatuses
    <3> QED BY <1>1, <3>1, <3>2 DEF HasRoom, Room
  <2> QED BY <1>4, <1>5, <2>1, <2>2 DEF RegServer, Room, Like
<1>8. ASSUME i \in Bootstraps PROVE BootServer(w)
  <2>1. BootServer(v)
    BY <1>2, <1>8 DEF Good, Sound
  <2>2. Live(v) = {}
    BY <1>1, <2>1 DEF BootServer, Server, BootstrapStatuses
  <2> QED BY <1>4, <1>5, <2>1, <2>2 DEF BootServer, HasTransaction
<1>9. Good(ctx')
  BY <1>2, <1>3, <1>4, <1>6, <1>7, <1>8, Alone
<1>10. OtherTypes'
  BY <1>1 DEF IInv, OtherTypes
<1> QED BY <1>1, <1>9, <1>10, Keeps DEF IInv

LEMMA GetLateKeeps ==
  ASSUME IInv, NEW i \in Ids, NEW k \in Slots, GetLate(i, k)
  PROVE  IInv'
<1> DEFINE v == ctx.server[i]
           w == [v EXCEPT !.tx[k].late = TRUE]
<1>1. UNCHANGED <<waiting, failures, security, account>>
  BY DEF GetLate
<1>2. Good(ctx) /\ ctx \in Contexts /\ v \in Server(Statuses) /\ Ids = Bootstraps \cup Servers
  BY DEF IInv, Good, Sound, Contexts, Ids
<1>3. ctx' = [ctx EXCEPT !.server[i] = w]
  BY <1>2 DEF GetLate, Contexts
<1>4. /\ w.status = v.status /\ w.session = v.session /\ w.dirty = v.dirty
      /\ w.sent = v.sent /\ w.overdue = v.overdue
      /\ \A S : v \in Server(S) => w \in Server(S)
      /\ \A j \in Slots : /\ w.tx[j].op = v.tx[j].op /\ w.tx[j].open = v.tx[j].open
                          /\ w.tx[j].owned = v.tx[j].owned
  BY <1>2 DEF Server, Transaction
<1> HIDE DEF w
<1>5. Live(w) = Live(v) /\ \A ops : HasTransaction(w, ops) <=> HasTransaction(v, ops)
  BY <1>4 DEF Live, HasTransaction
<1>6. ASSUME i \in Servers PROVE RegServer(w) /\ Like(w, v)
  <2>1. RegServer(v)
    BY <1>2, <1>6 DEF Good, Sound
  <2> QED BY <1>4, <1>5, <2>1 DEF RegServer, Room, Like
<1>7. ASSUME i \in Bootstraps PROVE BootServer(w)
  <2>1. BootServer(v)
    BY <1>2, <1>7 DEF Good, Sound
  <2> QED BY <1>4, <1>5, <2>1 DEF BootServer
<1>8. i \notin ctx.listed => Unused(w)
  BY <1>2, <1>4 DEF Good, Sound, Unused
<1>9. Good(ctx')
  BY <1>2, <1>3, <1>4, <1>6, <1>7, <1>8, Alone
<1>10. OtherTypes'
  BY <1>1 DEF IInv, OtherTypes
<1> QED BY <1>1, <1>9, <1>10, Keeps DEF IInv

\* lwm2m_init and lwm2m_configure, the first time or another.
LEMMA FirstIsGood ==
  Good(FirstContext)
<1>1. NewServer \in Server(RegistrationStatuses) /\ NewServer \in Server(BootstrapStatuses)
      /\ NewServer \in Server(Statuses)
  BY DEF NewServer, Server, None, Transaction, RegistrationStatuses, BootstrapStatuses, Statuses
<1>2. Live(NewServer) = {}
  BY DEF Live, NewServer, None
<1>3. Room(NewServer, 1)
  BY <1>2, FS_EmptySet, ClientAssumption DEF Room
<1>4. /\ NewServer.status = "DEREGISTERED" /\ ~NewServer.session /\ ~NewServer.dirty
  BY DEF NewServer
<1>5. RegServer(NewServer) /\ BootServer(NewServer) /\ Unused(NewServer)
  BY <1>1, <1>3, <1>4 DEF RegServer, BootServer, Unused, Idle
<1>6. /\ FirstContext \in Contexts /\ FirstContext.listed = {} /\ FirstContext.state = "INITIAL"
      /\ \A i \in Ids : FirstContext.server[i] = NewServer
  BY <1>1 DEF FirstContext, Contexts, States
<1> QED BY <1>4, <1>5, <1>6 DEF Good, Sound, Phase, Closed, Configured, Ids

LEMMA InitIInv ==
  Init => IInv
<1> SUFFICES ASSUME Init PROVE IInv
  OBVIOUS
<1>1. waiting \in BOOLEAN /\ account \subseteq Servers
  BY DEF Init
<1>2. /\ failures \in 0 .. MaxFailures
      /\ security \in [Ids -> {"none", "good", "bad", "spoilt"}]
  BY ClientAssumption DEF Init
<1> QED BY <1>1, <1>2, FirstIsGood DEF Init, IInv, OtherTypes

LEMMA NextIInv ==
  IInv /\ [Next]_vars => IInv'
<1> SUFFICES ASSUME IInv, [Next]_vars PROVE IInv'
  OBVIOUS
<1>1. CASE \E down \in SUBSET Ids : Step(down)
  BY <1>1, StepKeeps
<1>2. CASE \E i \in Ids, k \in Slots : GetLate(i, k) \/ \E good \in BOOLEAN : Reply(i, k, good)
  BY <1>2, GetLateKeeps, ReplyKeeps
<1>3. CASE \E b \in Bootstraps : Command(b) \/ Finish(b)
  BY <1>3, CommandKeeps, FinishKeeps
<1>4. CASE \E s, t \in Servers : Manage(s, account \cup {t}) \/ Manage(s, account \ {t})
  <2>1. \A t \in Servers : account \cup {t} \in SUBSET Servers /\ account \ {t} \in SUBSET Servers
    BY DEF IInv, OtherTypes
  <2> QED BY <1>4, <2>1, ManageKeeps
<1>5. CASE \E i \in Ids : Elapse(i)
  BY <1>5, ElapseKeeps
<1>6. CASE Wake
  <2>1. ctx' = ctx /\ UNCHANGED <<failures, security, account>> /\ waiting' = FALSE
    BY <1>6 DEF Wake, Receive
  <2> QED BY <2>1, Keeps DEF IInv, OtherTypes
<1>7. CASE Rediscover
  <2>1. /\ ctx' = FirstContext /\ UNCHANGED waiting /\ failures' = 0 /\ account' = {}
        /\ security' = [i \in Ids |-> IF i \in Bootstraps THEN "good" ELSE "none"]
    BY <1>7 DEF Rediscover
  <2>2. Sound(ctx)' /\ Phase(ctx)' /\ ctx'.listed = {}
    BY <2>1, FirstIsGood DEF Good, Sound, Phase, Closed, FirstContext
  <2>3. Configured(ctx)'
    BY <2>2 DEF Configured
  <2>4. OtherTypes'
    BY <2>1, ClientAssumption DEF IInv, OtherTypes
  <2> QED BY <2>2, <2>3, <2>4 DEF IInv, Good
<1>8. CASE UNCHANGED vars
  <2>1. ctx' = ctx /\ UNCHANGED <<failures, security, account, waiting>>
    BY <1>8 DEF vars
  <2> QED BY <2>1, Keeps DEF IInv, OtherTypes
<1> QED BY <1>1, <1>2, <1>3, <1>4, <1>5, <1>6, <1>7, <1>8 DEF Next

LEMMA Invariance ==
  Spec => []IInv
BY InitIInv, NextIInv, PTL DEF Spec

------------------------------------------------------------------------------
\* The variables have the values of the C code's types, whatever arrives.
THEOREM TypeCorrect ==
  Spec => []TypeOK
<1>1. IInv => TypeOK
  BY DEF IInv, OtherTypes, Good, Sound, Contexts, RegServer, BootServer, TypeOK
<1> QED BY <1>1, Invariance, PTL

\* A server of either kind that waits for a reply has a transaction over an open
\* connection, whose end its callback turns into a status: no lost message, no
\* deletion and no early return of lwm2m_step leaves it waiting for good.
THEOREM WaitersHaveTransactions ==
  Spec => []WaitingHasTransaction
<1>1. ASSUME IInv PROVE WaitingHasTransaction
  <2> SUFFICES ASSUME NEW i \in ctx.listed
               PROVE  LET v == ctx.server[i] IN
                      /\ v.status = "BS_INITIATED" => HasTransaction(v, {"bootstrap"})
                      /\ v.status = "REG_PENDING" => HasTransaction(v, {"register"})
                      /\ v.status = "REG_UPDATE_PENDING" => HasTransaction(v, {"update", "full"})
    BY DEF WaitingHasTransaction, HasTransaction
  <2>1. \/ i \in Servers /\ RegServer(ctx.server[i])
        \/ i \in Bootstraps /\ BootServer(ctx.server[i])
    BY <1>1 DEF IInv, Good, Sound, Contexts, Ids
  <2>2. CASE RegServer(ctx.server[i])
    <3>1. ctx.server[i].status # "BS_INITIATED"
      BY <2>2 DEF RegServer, Server, RegistrationStatuses
    <3> QED BY <2>2, <3>1 DEF RegServer
  <2>3. CASE BootServer(ctx.server[i])
    <3>1. ctx.server[i].status \notin {"REG_PENDING", "REG_UPDATE_PENDING"}
      BY <2>3 DEF BootServer, Server, BootstrapStatuses
    <3> QED BY <2>3, <3>1 DEF BootServer
  <2> QED BY <2>1, <2>2, <2>3
<1> QED BY <1>1, Invariance, PTL

\* A bootstrap server is heard only while the client bootstraps: its connection
\* ends with the bootstrap, and lwm2m_step leaves STATE_BOOTSTRAPPING only when
\* each has ended.
THEOREM BootstrapWhenAsked ==
  Spec => []BootstrapOnlyWhenAsked
<1>1. IInv => BootstrapOnlyWhenAsked
  BY DEF IInv, Good, Phase, Closed, BootstrapOnlyWhenAsked
<1> QED BY <1>1, Invariance, PTL

\* A client that registers, or is registered, has no server that a bootstrap
\* deleted or rewrote: it was tagged, and prv_refreshServerList came first.
THEOREM ConfiguredServersOnly ==
  Spec => []ServersAsConfigured
<1>1. IInv => ServersAsConfigured
  BY DEF IInv, Good, Configured, ServersAsConfigured
<1> QED BY <1>1, Invariance, PTL

\* A server that counts as registered, with no full update ahead of it, was sent
\* the objects as they are, whatever updates were on their way when they changed.
THEOREM ChangesKept ==
  Spec => []NoChangeForgotten
<1>1. ASSUME IInv PROVE NoChangeForgotten
  <2> SUFFICES ASSUME NEW s \in ctx.listed,
                      ctx.server[s].status \in {"REGISTERED", "REG_UPDATE_PENDING"}
               PROVE  ctx.server[s].sent
    BY DEF NoChangeForgotten
  <2>1. \/ s \in Servers /\ RegServer(ctx.server[s])
        \/ s \in Bootstraps /\ BootServer(ctx.server[s])
    BY <1>1 DEF IInv, Good, Sound, Contexts, Ids
  <2>2. CASE RegServer(ctx.server[s])
    BY <2>2 DEF RegServer
  <2>3. CASE BootServer(ctx.server[s])
    BY <2>3 DEF BootServer, Server, BootstrapStatuses
  <2> QED BY <2>1, <2>2, <2>3
<1> QED BY <1>1, Invariance, PTL

=============================================================================
