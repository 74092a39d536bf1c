------------------------- MODULE DeckRegistry_proofs -------------------------
(* Theorems of DeckRegistry, for any identities, capacity, callers, number of *)
(* commands and faults.  The callers may send every command at any time; only *)
(* OneIsShown and LeaseIsShown ask that one caller sends the commands and     *)
(* that the others close and exit, as the user's window does.                 *)
EXTENDS DeckRegistry, FiniteSetTheorems, TLAPS

(* Types, with any number for a worker.                                       *)
Tokens == [id : Ids \cup {None}, lease : Nat, gen : Nat, kind : Commands \cup {"none"}]
Leases == [id : Ids \cup {None}, gen : Nat]
States == [warm : [Ids -> Nat], lease : Leases, pin : Tokens, leases : Nat, pins : Nat]
Controllers ==
    [broker : States, sessions : [Ids -> Nat], pending : SUBSET Ids, closing : SUBSET Ids,
     transition : Nat, transitions : Nat, replacing : Ids \cup {None}, starting : Tokens]
Tasks == [at : Places, op : Commands \cup {"none"}, id : Ids \cup {None}, w : Nat, prev : Nat,
          gen : Nat, broker : States, token : Tokens, owns : BOOLEAN]
Watches == [token : Tokens, w : Nat, ended : BOOLEAN]

(* A broker whose pin is that of its lease, and whose lease is of a warm session. *)
Leased(b) ==
    /\ b.pin # NoPin => b.pin.id = b.lease.id /\ b.pin.lease = b.lease.gen
    /\ b.lease.id # None => b.warm[b.lease.id] # 0

(* The controller: broker and sessions agree, and an identity is reserved, then open,  *)
(* then being closed.                                                                 *)
ControllerOK(c, u) ==
    /\ c \in Controllers
    /\ \A id \in Ids : c.broker.warm[id] = IF id \in c.closing THEN 0 ELSE c.sessions[id]
    /\ Leased(c.broker)
    /\ \A id \in c.pending : id \in u /\ c.sessions[id] = 0
    /\ \A id \in c.closing : c.sessions[id] # 0
    /\ \A id \in Ids : c.sessions[id] # 0 => id \in u
    /\ c.transition <= c.transitions

SwitchOps == {"switch", "clear"}
SwitchSteps == {"hide", "show", "restore", "complete", "unshow", "reshow"}
ReplaceSteps == {"preflight", "swap", "restart", "configure", "install", "discard", "settle",
                 "fail"}

(* A command in whose transition the controller is: a replacement keeps its session    *)
(* from being closed, a switch has a broker that misses no session there is now.       *)
InTransition(k, c) ==
    IF k.op = "replace"
      THEN c.replacing = k.id /\ k.id \notin c.closing
      ELSE /\ c.replacing = None /\ k.broker.pin = NoPin /\ Leased(k.broker)
           /\ \A id \in Ids : c.broker.warm[id] \in {0, k.broker.warm[id]}

TaskOK(k, c, u) ==
    /\ k \in Tasks
    /\ k.at \in SwitchSteps => k.op \in SwitchOps
    /\ k.at \in ReplaceSteps => k.op = "replace"
    /\ k.op \in SwitchOps \cup {"replace"} => k.gen # 0
    /\ k.op \in {"replace", "open", "close", "capture", "mp4"} => k.id \in Ids
    /\ k.at \in {"unopen", "stop", "finish"} => k.op \in {"open", "close"}
    /\ k.gen <= c.transitions /\ (k.at = "drain" => k.gen = 0)
    /\ k.at \in {"commit", "install", "configure"} => k.w # 0
    /\ k.at \in {"stop", "finish"} =>
           k.id \in u \ c.pending /\ (k.id \in c.closing \/ c.sessions[k.id] = 0)
    /\ k.gen # 0 /\ k.gen = c.transition => InTransition(k, c)

IInv ==
    /\ ControllerOK(ctl, used) /\ started \in Nat
    /\ task \in [Clients -> Tasks] /\ \A t \in Clients : TaskOK(task[t], ctl, used)
    /\ monitors \subseteq Watches

-----------------------------------------------------------------------------
(* Sessions that end by themselves: what a section finds in c, it finds in d. *)
After(c, d) ==
    /\ d.transition = c.transition /\ d.transitions = c.transitions
    /\ d.replacing = c.replacing /\ d.pending = c.pending
    /\ d.closing \subseteq c.closing
    /\ \A id \in Ids : d.sessions[id] \in {0, c.sessions[id]}
    /\ \A id \in Ids : d.broker.warm[id] \in {0, c.broker.warm[id]}
    /\ \A id \in c.closing : id \in d.closing \/ d.sessions[id] = 0

LEMMA Token == NoPin \in Tokens
  BY DEF NoPin, Tokens

LEMMA Empty == NoBroker \in States /\ Leased(NoBroker)
  BY Token, RegistryAssumption DEF NoBroker, NoLease, NoPin, States, Leases, Leased

LEMMA IdleOK ==
  ASSUME NEW c \in Controllers, NEW u PROVE TaskOK(NoTask, c, u)
<1>1. NoTask \in Tasks
  <2>1. "idle" \in Places
    BY DEF Places
  <2>2. NoPin \in Tokens /\ NoBroker \in States
    BY Empty, Token
  <2> QED
    BY <2>1, <2>2 DEF NoTask, Tasks
<1>2. NoTask.at = "idle" /\ NoTask.op = "none" /\ NoTask.gen = 0
  BY DEF NoTask
<1>3. c.transitions \in Nat
  BY DEF Controllers
<1> QED
  BY <1>1, <1>2, <1>3 DEF TaskOK, SwitchSteps, ReplaceSteps, SwitchOps

LEMMA AfterKeeps ==
  ASSUME NEW c \in Controllers, NEW d \in Controllers, NEW u, NEW k, After(c, d), TaskOK(k, c, u)
  PROVE  TaskOK(k, d, u)
<1>1. k \in Tasks
  BY DEF TaskOK
<1>2. k.gen # 0 /\ k.gen = d.transition => InTransition(k, d)
  BY <1>1 DEF TaskOK, After, InTransition, Controllers, States
<1>3. k.at \in {"stop", "finish"} =>
           k.id \in u \ d.pending /\ (k.id \in d.closing \/ d.sessions[k.id] = 0)
  <2> SUFFICES ASSUME k.at \in {"stop", "finish"}
               PROVE  k.id \in u \ d.pending /\ (k.id \in d.closing \/ d.sessions[k.id] = 0)
    OBVIOUS
  <2>1. k.id \in Ids
    BY DEF TaskOK
  <2> QED
    BY <2>1 DEF TaskOK, After
<1> QED
  BY <1>1, <1>2, <1>3 DEF TaskOK, After

LEMMA AfterTransitive ==
  ASSUME NEW c \in Controllers, NEW d \in Controllers, NEW e \in Controllers,
         After(c, d), After(d, e)
  PROVE  After(c, e)
  BY DEF After, Controllers, States

LEMMA ForgottenOK ==
  ASSUME NEW b \in States, NEW ids \in SUBSET Ids
  PROVE  /\ Forgotten(b, ids) \in States
         /\ Forgotten(b, ids).pin = b.pin
         /\ Forgotten(b, ids).lease = IF b.lease.id \in ids THEN NoLease ELSE b.lease
         /\ \A id \in Ids : Forgotten(b, ids).warm[id] = IF id \in ids THEN 0 ELSE b.warm[id]
  BY DEF Forgotten, States, Leases, NoLease

LEMMA FaultedOK ==
  ASSUME NEW b \in States, NEW ids \in SUBSET Ids, Leased(b)
  PROVE  /\ Faulted(b, ids) \in States /\ Leased(Faulted(b, ids))
         /\ \A id \in Ids : Faulted(b, ids).warm[id] = IF id \in ids THEN 0 ELSE b.warm[id]
<1> DEFINE f == Faulted(b, ids)
<1>1. /\ f \in States
      /\ f.pin = IF b.lease.id \in ids THEN NoPin ELSE b.pin
      /\ f.lease = IF b.lease.id \in ids THEN NoLease ELSE b.lease
      /\ \A id \in Ids : f.warm[id] = IF id \in ids THEN 0 ELSE b.warm[id]
  BY ForgottenOK, Token DEF Faulted, States
<1>2. b.lease \in Leases
  BY DEF States
<1>3. Leased(f)
  BY <1>1, <1>2 DEF Leased, NoLease, Leases
<1> QED
  BY <1>1, <1>3

LEMMA ReleasedOK ==
  ASSUME NEW b \in States, NEW token, Leased(b)
  PROVE  /\ Released(b, token) \in States /\ Leased(Released(b, token))
         /\ Released(b, token).warm = b.warm
  BY Token DEF Released, States, Leased

(* A controller whose broker keeps the sessions it knows stays correct.       *)
LEMMA BrokerOK ==
  ASSUME NEW c, NEW u, ControllerOK(c, u), NEW b \in States, Leased(b), b.warm = c.broker.warm,
         NEW s \in Tokens
  PROVE  LET d == [c EXCEPT !.broker = b, !.starting = s]
         IN  ControllerOK(d, u) /\ After(c, d)
<1> DEFINE d == [c EXCEPT !.broker = b, !.starting = s]
<1>1. c \in Controllers
  BY DEF ControllerOK
<1>2. /\ d \in Controllers /\ d.broker = b /\ d.sessions = c.sessions /\ d.pending = c.pending
      /\ d.closing = c.closing /\ d.transition = c.transition
      /\ d.transitions = c.transitions /\ d.replacing = c.replacing
  BY <1>1 DEF Controllers
<1> HIDE DEF d
<1>3. ControllerOK(d, u) /\ After(c, d)
  BY <1>2 DEF ControllerOK, After
<1> QED
  BY <1>3 DEF d

LEMMA ReapOK ==
  ASSUME NEW c, NEW u, ControllerOK(c, u)
  PROVE  ControllerOK(Reap(c), u) /\ After(c, Reap(c))
<1> DEFINE gone == {id \in Ids \ {c.replacing} : c.sessions[id] \notin up \cup {0}}
           lost == {id \in gone \ c.closing : c.broker.warm[id] = c.sessions[id]}
           b == Faulted(c.broker, lost)
           r == [c EXCEPT !.sessions = [id \in Ids |-> IF id \in gone THEN 0 ELSE @[id]],
                          !.closing = @ \ gone, !.broker = b,
                          !.starting = IF @ = b.pin THEN @ ELSE NoPin]
<1>1. c \in Controllers /\ c.broker \in States /\ Leased(c.broker) /\ c.starting \in Tokens
  BY DEF ControllerOK, Controllers
<1>2. gone \in SUBSET Ids /\ lost \in SUBSET Ids
  OBVIOUS
<1>3. /\ b \in States /\ Leased(b)
      /\ \A id \in Ids : b.warm[id] = IF id \in lost THEN 0 ELSE c.broker.warm[id]
  BY <1>1, <1>2, FaultedOK
<1>4. \A id \in Ids : id \in lost <=> id \in gone /\ id \notin c.closing
  BY DEF ControllerOK
<1> HIDE DEF gone, lost, b
<1>5. /\ r \in Controllers /\ r.broker = b /\ r.pending = c.pending
      /\ r.closing = c.closing \ gone /\ r.transition = c.transition
      /\ r.transitions = c.transitions /\ r.replacing = c.replacing
      /\ \A id \in Ids : r.sessions[id] = IF id \in gone THEN 0 ELSE c.sessions[id]
  BY <1>1, <1>2, <1>3, Token DEF Controllers
<1> HIDE DEF r
<1>6. ControllerOK(r, u)
  <2>1. \A id \in Ids : r.broker.warm[id] = IF id \in r.closing THEN 0 ELSE r.sessions[id]
    BY <1>3, <1>4, <1>5 DEF ControllerOK
  <2>2. \A id \in r.pending : id \in u /\ r.sessions[id] = 0
    BY <1>1, <1>5 DEF ControllerOK, Controllers
  <2>3. \A id \in r.closing : r.sessions[id] # 0
    BY <1>1, <1>5 DEF ControllerOK, Controllers
  <2>4. \A id \in Ids : r.sessions[id] # 0 => id \in u
    BY <1>5 DEF ControllerOK
  <2> QED
    BY <1>3, <1>5, <2>1, <2>2, <2>3, <2>4 DEF ControllerOK
<1>7. After(c, r)
  BY <1>1, <1>3, <1>5 DEF After, Controllers
<1>8. CASE Reap(c) = r
  BY <1>6, <1>7, <1>8
<1>9. CASE Reap(c) = [r EXCEPT !.broker = Released(b, b.pin)]
  <2> DEFINE d == [r EXCEPT !.broker = Released(b, b.pin), !.starting = r.starting]
  <2>1. Released(b, b.pin) \in States /\ Leased(Released(b, b.pin))
        /\ Released(b, b.pin).warm = r.broker.warm
    BY <1>3, <1>5, ReleasedOK
  <2>2. r.starting \in Tokens
    BY <1>5 DEF Controllers
  <2>3. ControllerOK(d, u) /\ After(r, d)
    BY <1>6, <2>1, <2>2, BrokerOK
  <2>4. d = Reap(c)
    BY <1>5, <1>9 DEF Controllers
  <2>5. ControllerOK(Reap(c), u) /\ After(r, Reap(c))
    BY <2>3, <2>4
  <2>6. Reap(c) \in Controllers
    BY <2>5 DEF ControllerOK
  <2> QED
    BY <1>1, <1>5, <1>7, <2>5, <2>6, AfterTransitive
<1> QED
  BY <1>8, <1>9 DEF Reap, r, b, lost, gone

-----------------------------------------------------------------------------
(* The other sections of the controller.                                      *)

LEMMA UnpinOK ==
  ASSUME NEW c, NEW u, ControllerOK(c, u), NEW token
  PROVE  ControllerOK(Unpin(c, token), u) /\ After(c, Unpin(c, token))
<1> DEFINE r == Reap(c)
           b == Released(r.broker, token)
           s == IF r.starting = token THEN NoPin ELSE r.starting
           d == [r EXCEPT !.broker = b, !.starting = s]
<1>1. ControllerOK(r, u) /\ After(c, r)
  BY ReapOK
<1> HIDE DEF r
<1>2. r \in Controllers /\ r.broker \in States /\ Leased(r.broker) /\ s \in Tokens
  BY <1>1, Token DEF ControllerOK, Controllers
<1>3. b \in States /\ Leased(b) /\ b.warm = r.broker.warm
  BY <1>2, ReleasedOK
<1> HIDE DEF b, s
<1>4. ControllerOK(d, u) /\ After(r, d)
  BY <1>1, <1>2, <1>3, BrokerOK
<1>5. d = Unpin(c, token)
  BY <1>2 DEF Unpin, r, b, s, Controllers
<1>6. ControllerOK(Unpin(c, token), u) /\ After(r, Unpin(c, token))
  BY <1>4, <1>5
<1> QED
  BY <1>1, <1>2, <1>6, AfterTransitive DEF ControllerOK

(* A transition begins with a number no command has, and the end of one is no *)
(* concern of a command.                                                      *)
LEMMA TransitOK ==
  ASSUME NEW c, NEW u, ControllerOK(c, u), NEW id \in Ids \cup {None}
  PROVE  /\ ControllerOK(Transit(c, id), u)
         /\ \A k : TaskOK(k, c, u) => TaskOK(k, Transit(c, id), u)
<1> DEFINE d == Transit(c, id)
<1> c \in Controllers
  BY DEF ControllerOK
<1>1. /\ d \in Controllers /\ d.broker = c.broker /\ d.sessions = c.sessions
      /\ d.pending = c.pending /\ d.closing = c.closing /\ d.transition = c.transitions + 1
      /\ d.transitions = c.transitions + 1 /\ d.replacing = id /\ c.transitions \in Nat
  <2>1. c.transitions \in Nat /\ c.transitions + 1 \in Nat
    BY DEF Controllers
  <2> QED
    BY <2>1 DEF Transit, Controllers
<1> HIDE DEF d
<1>2. ControllerOK(d, u)
  BY <1>1 DEF ControllerOK
<1>3. \A k : TaskOK(k, c, u) => TaskOK(k, d, u)
  <2> TAKE k
  <2> HAVE TaskOK(k, c, u)
  <2>1. k.gen \in Nat /\ k.gen <= c.transitions
    BY DEF TaskOK, Tasks
  <2> QED
    BY <1>1, <2>1 DEF TaskOK
<1> QED
  BY <1>2, <1>3 DEF d

LEMMA IdledOK ==
  ASSUME NEW c, NEW u, ControllerOK(c, u)
  PROVE  ControllerOK(Idled(c), u) /\ \A k : TaskOK(k, c, u) => TaskOK(k, Idled(c), u)
<1> DEFINE d == Idled(c)
<1>1. /\ d \in Controllers /\ d.broker = c.broker /\ d.sessions = c.sessions
      /\ d.pending = c.pending /\ d.closing = c.closing /\ d.transition = 0
      /\ d.transitions = c.transitions /\ c.transitions \in Nat
  BY DEF Idled, ControllerOK, Controllers
<1> HIDE DEF d
<1>2. ControllerOK(d, u)
  BY <1>1 DEF ControllerOK
<1>3. \A k : TaskOK(k, c, u) => TaskOK(k, d, u)
  BY <1>1 DEF TaskOK
<1> QED
  BY <1>2, <1>3 DEF d

LEMMA AbortedOK ==
  ASSUME NEW c, NEW u, ControllerOK(c, u), NEW g
  PROVE  /\ ControllerOK(Aborted(c, g), u)
         /\ \A k : TaskOK(k, c, u) => TaskOK(k, Aborted(c, g), u)
  BY IdledOK DEF Aborted

LEMMA ClosingOK ==
  ASSUME NEW c, NEW u, ControllerOK(c, u), NEW id \in Ids, MayClose(c, id)
  PROVE  /\ ControllerOK(Closing(c, id), u)
         /\ \A k : TaskOK(k, c, u) => TaskOK(k, Closing(c, id), u)
         /\ Closing(c, id).closing = c.closing \cup {id}
         /\ id \in u \ Closing(c, id).pending
<1> DEFINE d == Closing(c, id)
           b == Closed(c.broker, id)
<1>1. c \in Controllers /\ c.broker \in States /\ Leased(c.broker) /\ c.transition = 0
  BY DEF ControllerOK, Controllers, MayClose, LifecycleIdle
<1>2. c.sessions[id] # 0 /\ id \notin c.closing /\ c.broker.pin.id # id
  BY DEF MayClose, Tracked, Closable
<1>3. /\ b \in States /\ b.pin = c.broker.pin
      /\ b.lease = IF c.broker.lease.id \in {id} THEN NoLease ELSE c.broker.lease
      /\ \A i \in Ids : b.warm[i] = IF i \in {id} THEN 0 ELSE c.broker.warm[i]
  BY <1>1, ForgottenOK DEF Closed
<1>4. Leased(b)
  <2>1. c.broker.lease \in Leases
    BY <1>1 DEF States
  <2> QED
    BY <1>1, <1>2, <1>3, <2>1 DEF Leased, NoLease, Leases
<1> HIDE DEF b
<1>5. /\ d \in Controllers /\ d.broker = b /\ d.sessions = c.sessions
      /\ d.pending = c.pending /\ d.closing = c.closing \cup {id} /\ d.transition = 0
      /\ d.transitions = c.transitions /\ c.transitions \in Nat
  BY <1>1, <1>3 DEF Closing, Controllers, b
<1> HIDE DEF d
<1>6. id \in u \ d.pending
  BY <1>2, <1>5 DEF ControllerOK
<1>7. ControllerOK(d, u)
  <2>1. \A i \in Ids : d.broker.warm[i] = IF i \in d.closing THEN 0 ELSE d.sessions[i]
    BY <1>3, <1>5 DEF ControllerOK
  <2>2. \A i \in d.closing : d.sessions[i] # 0
    BY <1>2, <1>5 DEF ControllerOK
  <2> QED
    BY <1>4, <1>5, <2>1, <2>2 DEF ControllerOK
<1>8. \A k : TaskOK(k, c, u) => TaskOK(k, d, u)
  BY <1>5 DEF TaskOK
<1> QED
  BY <1>5, <1>6, <1>7, <1>8 DEF d

(* A session gets a worker: one that is reserved, or one that is replaced.   *)
LEMMA BoundOK ==
  ASSUME NEW c, NEW u, ControllerOK(c, u), NEW id \in Ids, NEW w \in Nat \ {0},
         id \notin c.closing, id \in u,
         NEW d \in Controllers, d.broker = Bound(c.broker, id, w),
         d.sessions = [c.sessions EXCEPT ![id] = w], d.pending = c.pending \ {id},
         d.closing = c.closing, d.transition = 0, d.transitions = c.transitions
  PROVE  /\ ControllerOK(d, u)
         /\ \A k : TaskOK(k, c, u) /\ k.at \notin {"stop", "finish"} => TaskOK(k, d, u)
         /\ \A k : TaskOK(k, c, u) /\ k.id # id => TaskOK(k, d, u)
<1>1. c \in Controllers /\ c.broker \in States /\ Leased(c.broker)
  BY DEF ControllerOK, Controllers
<1>2. /\ d.broker.pin = c.broker.pin /\ d.broker.lease = c.broker.lease
      /\ \A i \in Ids : d.broker.warm[i] = IF i = id THEN w ELSE c.broker.warm[i]
      /\ \A i \in Ids : d.sessions[i] = IF i = id THEN w ELSE c.sessions[i]
      /\ c.transitions \in Nat /\ c.pending \in SUBSET Ids /\ c.closing \in SUBSET Ids
  BY <1>1 DEF Bound, Controllers, States
<1>3. c.broker.lease.id \in Ids \cup {None}
  BY <1>1 DEF States, Leases
<1>4. Leased(d.broker)
  BY <1>1, <1>2, <1>3 DEF Leased
<1>5. ControllerOK(d, u)
  <2>1. \A i \in Ids : d.broker.warm[i] = IF i \in d.closing THEN 0 ELSE d.sessions[i]
    BY <1>2 DEF ControllerOK
  <2>2. \A i \in d.pending : i \in u /\ d.sessions[i] = 0
    BY <1>2 DEF ControllerOK
  <2>3. \A i \in d.closing : d.sessions[i] # 0
    BY <1>2 DEF ControllerOK
  <2> QED
    BY <1>2, <1>4, <2>1, <2>2, <2>3 DEF ControllerOK
<1>6. \A k : TaskOK(k, c, u) /\ k.at \notin {"stop", "finish"} => TaskOK(k, d, u)
  BY DEF TaskOK
<1>7. \A k : TaskOK(k, c, u) /\ k.id # id => TaskOK(k, d, u)
  <2> TAKE k
  <2> HAVE TaskOK(k, c, u) /\ k.id # id
  <2>1. k.at \in {"stop", "finish"} => k.id \in Ids /\ d.sessions[k.id] = c.sessions[k.id]
    BY <1>2 DEF TaskOK
  <2> QED
    BY <2>1 DEF TaskOK
<1> QED
  BY <1>5, <1>6, <1>7

(* A session is taken out, by its close or by the failure of its replacement. *)
LEMMA TakenOutOK ==
  ASSUME NEW c, NEW u, ControllerOK(c, u), NEW id \in Ids,
         NEW d \in Controllers, d.broker \in States, Leased(d.broker),
         \A i \in Ids : d.broker.warm[i] = IF i = id THEN 0 ELSE c.broker.warm[i],
         d.sessions = [c.sessions EXCEPT ![id] = 0], d.pending = c.pending,
         d.closing = c.closing \ {id}, d.transition \in {0, c.transition},
         d.transitions = c.transitions, d.transition # 0 => d.replacing = c.replacing
  PROVE  /\ ControllerOK(d, u)
         /\ \A k : TaskOK(k, c, u) => TaskOK(k, d, u)
<1>1. c \in Controllers /\ c.broker \in States
  BY DEF ControllerOK, Controllers
<1>2. /\ \A i \in Ids : d.sessions[i] = IF i = id THEN 0 ELSE c.sessions[i]
      /\ c.transitions \in Nat /\ c.transition \in Nat
      /\ c.pending \in SUBSET Ids /\ c.closing \in SUBSET Ids
  BY <1>1 DEF Controllers
<1>3. ControllerOK(d, u)
  <2>1. \A i \in Ids : d.broker.warm[i] = IF i \in d.closing THEN 0 ELSE d.sessions[i]
    BY <1>2 DEF ControllerOK
  <2>2. \A i \in d.pending : i \in u /\ d.sessions[i] = 0
    BY <1>2 DEF ControllerOK
  <2>3. \A i \in d.closing : d.sessions[i] # 0
    BY <1>2 DEF ControllerOK
  <2>4. \A i \in Ids : d.sessions[i] # 0 => i \in u
    BY <1>2 DEF ControllerOK
  <2> QED
    BY <1>2, <2>1, <2>2, <2>3, <2>4 DEF ControllerOK
<1>4. \A k : TaskOK(k, c, u) => TaskOK(k, d, u)
  <2> TAKE k
  <2> HAVE TaskOK(k, c, u)
  <2>1. k.at \in {"stop", "finish"} =>
           k.id \in u \ d.pending /\ (k.id \in d.closing \/ d.sessions[k.id] = 0)
    <3>1. k.at \in {"stop", "finish"} => k.id \in Ids
      BY DEF TaskOK
    <3> QED
      BY <1>2, <3>1 DEF TaskOK
  <2>2. k.gen # 0 /\ k.gen = d.transition => InTransition(k, d)
    BY DEF TaskOK, InTransition
  <2> QED
    BY <2>1, <2>2 DEF TaskOK
<1> QED
  BY <1>3, <1>4

(* The broker a switch prepared is installed over the sessions it was prepared for. *)
LEMMA InstalledOK ==
  ASSUME NEW c, NEW u, ControllerOK(c, u), NEW k, TaskOK(k, c, u), k.op \in SwitchOps,
         k.gen = c.transition, Warm(c.broker) = Warm(k.broker)
  PROVE  LET d == [Idled(c) EXCEPT !.broker = k.broker]
         IN  ControllerOK(d, u) /\ \A l : TaskOK(l, c, u) => TaskOK(l, d, u)
<1> DEFINE d == [Idled(c) EXCEPT !.broker = k.broker]
<1>1. /\ c \in Controllers /\ c.broker \in States /\ k \in Tasks /\ k.broker \in States
  BY DEF ControllerOK, Controllers, TaskOK, Tasks
<1>2. InTransition(k, c) /\ k.op # "replace"
  BY DEF TaskOK, SwitchOps
<1>3. \A i \in Ids : c.broker.warm[i] = k.broker.warm[i]
  <2> TAKE i \in Ids
  <2>1. c.broker.warm[i] # 0 <=> k.broker.warm[i] # 0
    BY DEF Warm
  <2> QED
    BY <1>2, <2>1 DEF InTransition
<1>4. /\ d \in Controllers /\ d.broker = k.broker /\ d.sessions = c.sessions
      /\ d.pending = c.pending /\ d.closing = c.closing /\ d.transition = 0
      /\ d.transitions = c.transitions /\ c.transitions \in Nat
  BY <1>1 DEF Idled, Controllers
<1>5. Leased(k.broker)
  BY <1>2 DEF InTransition
<1> HIDE DEF d
<1>6. ControllerOK(d, u)
  BY <1>3, <1>4, <1>5 DEF ControllerOK
<1>7. \A l : TaskOK(l, c, u) => TaskOK(l, d, u)
  BY <1>4 DEF TaskOK
<1> QED
  BY <1>6, <1>7 DEF d

-----------------------------------------------------------------------------
(* A step of one command, with the controller as it leaves it.               *)
Kept(c, u, d, v) == \A k : TaskOK(k, c, u) => TaskOK(k, d, v)

LEMMA StepOK ==
  ASSUME IInv, NEW t \in Clients, ControllerOK(ctl', used'), Kept(ctl, used, ctl', used'),
         NEW k, TaskOK(k, ctl', used'), task' = [task EXCEPT ![t] = k],
         started' \in Nat, monitors' \subseteq Watches
  PROVE  IInv'
<1>1. k \in Tasks
  BY DEF TaskOK
<1>2. task' \in [Clients -> Tasks]
  BY <1>1 DEF IInv
<1>3. \A x \in Clients : TaskOK(task'[x], ctl', used')
  BY DEF IInv, Kept
<1> QED
  BY <1>2, <1>3 DEF IInv

(* A command goes on: what its next place asks for is what is left to show.  *)
LEMMA GotoOK ==
  ASSUME NEW k, NEW c, NEW u, TaskOK(k, c, u), NEW at \in Places \ {"drain"},
         at \in SwitchSteps => k.op \in SwitchOps,
         at \in ReplaceSteps => k.op = "replace",
         at \in {"unopen", "stop", "finish"} => k.op \in {"open", "close"},
         at \in {"commit", "install", "configure"} => k.w # 0,
         at \in {"stop", "finish"} =>
             k.id \in u \ c.pending /\ (k.id \in c.closing \/ c.sessions[k.id] = 0)
  PROVE  TaskOK([k EXCEPT !.at = at], c, u)
<1> DEFINE l == [k EXCEPT !.at = at]
<1>1. /\ l \in Tasks /\ l.at = at /\ l.op = k.op /\ l.id = k.id /\ l.gen = k.gen
      /\ l.broker = k.broker /\ l.w = k.w
  BY DEF TaskOK, Tasks
<1> HIDE DEF l
<1>2. l.gen # 0 /\ l.gen = c.transition => InTransition(l, c)
  BY <1>1 DEF TaskOK, InTransition
<1>3. TaskOK(l, c, u)
  BY <1>1, <1>2 DEF TaskOK
<1> QED
  BY <1>3 DEF l

(* A step that leaves the controller alone and goes on or ends.              *)
LEMMA PlainOK ==
  ASSUME IInv, NEW t \in Clients, UNCHANGED <<ctl, used, monitors>>, started' \in Nat,
         NEW at \in Places \ {"stop", "drain"}, Goto(t, at),
         at \in SwitchSteps => task[t].op \in SwitchOps,
         at \in ReplaceSteps => task[t].op = "replace",
         at = "unopen" => task[t].op = "open",
         at \in {"commit", "install", "configure"} => task[t].w # 0,
         at = "finish" => task[t].at = "stop"
  PROVE  IInv'
<1>1. TaskOK(task[t], ctl, used) /\ ControllerOK(ctl, used) /\ ctl \in Controllers
  BY DEF IInv, ControllerOK
<1> DEFINE k == IF at = "idle" THEN NoTask ELSE [task[t] EXCEPT !.at = at]
<1>2. TaskOK(k, ctl, used)
  <2>1. CASE at = "idle"
    BY <1>1, <2>1, IdleOK
  <2>2. CASE at # "idle"
    <3>1. /\ at \in {"unopen", "stop", "finish"} => task[t].op \in {"open", "close"}
          /\ at \in {"stop", "finish"} =>
              /\ task[t].id \in used \ ctl.pending
              /\ task[t].id \in ctl.closing \/ ctl.sessions[task[t].id] = 0
      BY <1>1 DEF TaskOK
    <3>2. TaskOK([task[t] EXCEPT !.at = at], ctl, used)
      BY <1>1, <3>1, GotoOK
    <3> QED
      BY <2>2, <3>2
  <2> QED
    BY <2>1, <2>2
<1>3. task' = [task EXCEPT ![t] = k]
  BY DEF Goto, IInv
<1>4. monitors' \subseteq Watches
  BY DEF IInv
<1> HIDE DEF k
<1> QED
  BY <1>1, <1>2, <1>3, <1>4, StepOK DEF Kept

LEMMA AsksFrame ==
  ASSUME NEW t, NEW w, NEW what, NEW answered, NEW failed, Asks(t, w, what, answered, failed)
  PROVE  (Goto(t, answered) \/ Goto(t, failed)) /\ started' = started
  BY DEF Asks, actors, Serves, Served, Leaves, GivesUp

LEMMA ActorSteps ==
  ASSUME IInv, NEW t \in Clients,
         \/ OpenAbandon(t) \/ Viewport(t) \/ CloseStop(t) \/ Hide(t) \/ Show(t) \/ Restore(t)
         \/ Unshow(t) \/ Reshow(t) \/ Preflight(t) \/ Swap(t) \/ Configure(t) \/ Discard(t)
         \/ Settle(t) \/ Unshown(t) \/ WorkStart(t)
  PROVE  IInv'
<1> USE DEF At, OnlyActors, Later, Places, SwitchSteps, ReplaceSteps
<1>1. /\ started \in Nat
      /\ task[t].at \in SwitchSteps => task[t].op \in SwitchOps
      /\ task[t].at \in ReplaceSteps => task[t].op = "replace"
      /\ task[t].at = "configure" => task[t].w # 0
  BY DEF IInv, TaskOK
<1>2. CASE OpenAbandon(t) \/ CloseStop(t) \/ Discard(t) \/ Unshown(t)
  BY <1>1, <1>2, PlainOK DEF OpenAbandon, CloseStop, Discard, Unshown, ShutsDown, Stop, Ended, Overdue, Served
<1>3. CASE Viewport(t)
  BY <1>1, <1>3, PlainOK, AsksFrame DEF Viewport
<1>4. CASE Hide(t)
  BY <1>1, <1>4, PlainOK, AsksFrame DEF Hide
<1>5. CASE Show(t)
  BY <1>1, <1>5, PlainOK, AsksFrame DEF Show
<1>6. CASE Restore(t)
  BY <1>1, <1>6, PlainOK, AsksFrame DEF Restore
<1>7. CASE Unshow(t)
  BY <1>1, <1>7, PlainOK, AsksFrame DEF Unshow
<1>8. CASE Reshow(t)
  BY <1>1, <1>8, PlainOK, AsksFrame DEF Reshow
<1>9. CASE Preflight(t)
  BY <1>1, <1>9, PlainOK, AsksFrame DEF Preflight, actors
<1>10. CASE Swap(t)
  BY <1>1, <1>10, PlainOK DEF Swap, Ended, Overdue, Served, actors
<1>11. CASE Configure(t)
  BY <1>1, <1>11, PlainOK, AsksFrame DEF Configure
<1>12. CASE Settle(t)
  BY <1>1, <1>12, PlainOK DEF Settle
<1>13. CASE WorkStart(t)
  BY <1>1, <1>13, PlainOK, AsksFrame DEF WorkStart
<1> QED
  BY <1>2, <1>3, <1>4, <1>5, <1>6, <1>7, <1>8, <1>9, <1>10, <1>11, <1>12, <1>13

LEMMA ReapKept ==
  ASSUME NEW c, NEW u, ControllerOK(c, u)
  PROVE  ControllerOK(Reap(c), u) /\ Kept(c, u, Reap(c), u)
<1>1. ControllerOK(Reap(c), u) /\ After(c, Reap(c))
  BY ReapOK
<1>2. c \in Controllers /\ Reap(c) \in Controllers
  BY <1>1 DEF ControllerOK
<1> QED
  BY <1>1, <1>2, AfterKeeps DEF Kept

LEMMA UnpinKept ==
  ASSUME NEW c, NEW u, ControllerOK(c, u), NEW token
  PROVE  ControllerOK(Unpin(c, token), u) /\ Kept(c, u, Unpin(c, token), u)
<1>1. ControllerOK(Unpin(c, token), u) /\ After(c, Unpin(c, token))
  BY UnpinOK
<1>2. c \in Controllers /\ Unpin(c, token) \in Controllers
  BY <1>1 DEF ControllerOK
<1> QED
  BY <1>1, <1>2, AfterKeeps DEF Kept

(* A command's last step.                                                    *)
LEMMA EndOK ==
  ASSUME IInv, NEW t \in Clients, ControllerOK(ctl', used'), Kept(ctl, used, ctl', used'),
         Goto(t, "idle"), started' \in Nat, monitors' \subseteq Watches
  PROVE  IInv'
<1>1. ctl' \in Controllers
  BY DEF ControllerOK
<1>2. TaskOK(NoTask, ctl', used')
  BY <1>1, IdleOK
<1>3. task' = [task EXCEPT ![t] = NoTask]
  BY DEF Goto
<1> QED
  BY <1>2, <1>3, StepOK

(* A step that goes on after a change of the controller.                     *)
LEMMA OnOK ==
  ASSUME IInv, NEW t \in Clients, ControllerOK(ctl', used'), Kept(ctl, used, ctl', used'),
         NEW at \in Places \ ({"idle", "unopen", "commit", "install", "configure", "stop", "finish",
                               "drain"}
                              \cup ReplaceSteps),
         Goto(t, at), at \in SwitchSteps => task[t].op \in SwitchOps,
         started' \in Nat, monitors' \subseteq Watches
  PROVE  IInv'
<1>1. TaskOK(task[t], ctl', used')
  BY DEF IInv, Kept
<1>2. TaskOK([task[t] EXCEPT !.at = at], ctl', used')
  BY <1>1, GotoOK
<1>3. task' = [task EXCEPT ![t] = [task[t] EXCEPT !.at = at]]
  BY DEF Goto, IInv
<1> QED
  BY <1>2, <1>3, StepOK

(* A worker is started for an open or a replacement.                         *)
LEMMA StartSteps ==
  ASSUME IInv, NEW t \in Clients, OpenStart(t) \/ Restart(t)
  PROVE  IInv'
<1> USE DEF At, OnlyActors, Later
<1>1. /\ started \in Nat /\ TaskOK(task[t], ctl, used) /\ ControllerOK(ctl, used)
      /\ task[t].at = "restart" => task[t].op = "replace"
  BY DEF IInv, TaskOK, ReplaceSteps
<1>2. CASE UNCHANGED actors
  BY <1>1, <1>2, PlainOK DEF OpenStart, Restart, Started, actors, Places, SwitchSteps, ReplaceSteps
<1>3. ASSUME NEW at \in {"commit", "configure"}, at = "configure" => task[t].op = "replace",
             started' = started + 1,
             task' = [task EXCEPT ![t].at = at, ![t].w = started + 1],
             UNCHANGED <<ctl, monitors, used>>
      PROVE  IInv'
  <2> DEFINE j == [task[t] EXCEPT !.w = started + 1]
             k == [j EXCEPT !.at = at]
  <2>1. /\ j \in Tasks /\ j.at = task[t].at /\ j.op = task[t].op /\ j.id = task[t].id
        /\ j.gen = task[t].gen /\ j.broker = task[t].broker /\ j.w = started + 1
    BY <1>1 DEF TaskOK, Tasks
  <2> HIDE DEF j
  <2>2. j.w # 0
    BY <1>1, <2>1
  <2>3. j.gen # 0 /\ j.gen = ctl.transition => InTransition(j, ctl)
    BY <1>1, <2>1 DEF TaskOK, InTransition
  <2>4. TaskOK(j, ctl, used)
    BY <1>1, <2>1, <2>2, <2>3 DEF TaskOK
  <2>5. TaskOK(k, ctl, used)
    BY <1>3, <2>1, <2>2, <2>4, GotoOK DEF Places, SwitchSteps, ReplaceSteps
  <2>6. task' = [task EXCEPT ![t] = k]
    BY <1>3, <1>1 DEF j, IInv, TaskOK, Tasks
  <2>7. started' \in Nat /\ monitors' \subseteq Watches
    BY <1>1, <1>3 DEF IInv
  <2> HIDE DEF k
  <2> QED
    BY <1>1, <1>3, <2>5, <2>6, <2>7, StepOK DEF Kept
<1>4. CASE OpenStart(t) /\ Started(task[t].id)
  <2>1. CASE task' = [task EXCEPT ![t].at = "commit", ![t].w = started + 1]
    BY <1>3, <1>4, <2>1 DEF OpenStart, Started
  <2>2. CASE UNCHANGED actors
    BY <1>2, <2>2
  <2> QED
    BY <1>4, <2>1, <2>2 DEF OpenStart
<1>5. CASE Restart(t) /\ Started(task[t].id)
  <2>1. CASE task' = [task EXCEPT ![t].at = "configure", ![t].w = started + 1]
    BY <1>1, <1>3, <1>5, <2>1 DEF Restart, Started
  <2>2. CASE UNCHANGED actors
    BY <1>2, <2>2
  <2> QED
    BY <1>5, <2>1, <2>2 DEF Restart
<1> QED
  BY <1>2, <1>4, <1>5 DEF OpenStart, Restart

(* Sections that reap, abort or unpin, after which a command ends or goes on. *)
LEMMA SectionSteps ==
  ASSUME IInv, NEW t \in Clients,
         \/ OpenCancel(t) \/ Seen(t) \/ Abort(t) \/ WorkUnpin(t) \/ WorkStarted(t)
         \/ Unopen(t) \/ CloseFinish(t)
  PROVE  IInv'
<1> USE DEF At, OnlyController, Later, actors
<1>1. /\ ControllerOK(ctl, used) /\ ctl \in Controllers /\ started \in Nat
      /\ TaskOK(task[t], ctl, used) /\ monitors \subseteq Watches
  BY DEF IInv, ControllerOK
<1>2. CASE OpenCancel(t)
  <2>1. /\ ctl' \in Controllers /\ ctl'.broker = ctl.broker /\ ctl'.sessions = ctl.sessions
        /\ ctl'.closing = ctl.closing /\ ctl'.pending \subseteq ctl.pending
        /\ ctl'.transition = ctl.transition /\ ctl'.transitions = ctl.transitions
        /\ ctl'.replacing = ctl.replacing
    BY <1>1, <1>2 DEF OpenCancel, Controllers
  <2>2. ControllerOK(ctl', used)
    BY <1>1, <2>1 DEF ControllerOK
  <2>3. Kept(ctl, used, ctl', used)
    BY <2>1 DEF Kept, TaskOK, InTransition
  <2> QED
    BY <1>1, <1>2, <2>2, <2>3, EndOK DEF OpenCancel
<1>3. CASE Seen(t)
  BY <1>1, <1>3, ReapKept, EndOK DEF Seen
<1>4. CASE Abort(t)
  BY <1>1, <1>4, AbortedOK, EndOK DEF Abort, Kept
<1>5. CASE WorkUnpin(t)
  BY <1>1, <1>5, UnpinKept, EndOK DEF WorkUnpin
<1>6. CASE WorkStarted(t)
  <2> DEFINE s == IF ctl.starting = task[t].token THEN NoPin ELSE ctl.starting
             d == [ctl EXCEPT !.broker = ctl.broker, !.starting = s]
  <2>1. ctl.broker \in States /\ Leased(ctl.broker) /\ s \in Tokens
    BY <1>1, Token DEF ControllerOK, Controllers
  <2>2. ctl' = d
    BY <1>1, <1>6 DEF WorkStarted, Controllers
  <2> HIDE DEF s
  <2>3. ControllerOK(d, used) /\ After(ctl, d)
    BY <1>1, <2>1, BrokerOK
  <2>4. Kept(ctl, used, d, used)
    BY <1>1, <2>3, AfterKeeps DEF Kept, ControllerOK
  <2>5. [token |-> task[t].token, w |-> task[t].w, ended |-> FALSE] \in Watches
    BY <1>1 DEF TaskOK, Tasks, Watches
  <2> HIDE DEF d
  <2> QED
    BY <1>1, <1>6, <2>2, <2>3, <2>4, <2>5, EndOK DEF WorkStarted
<1>7. CASE Unopen(t)
  <2> DEFINE r == Reap(ctl)
             id == task[t].id
  <2>1. ControllerOK(r, used) /\ Kept(ctl, used, r, used) /\ id \in Ids
    BY <1>1, <1>7, ReapKept DEF Unopen, TaskOK
  <2>2. CASE MayClose(r, id)
    <3> DEFINE d == Closing(r, id)
               j == [task[t] EXCEPT !.w = r.sessions[id]]
               k == [j EXCEPT !.at = "stop"]
    <3>1. ctl' = d /\ task' = [task EXCEPT ![t].at = "stop", ![t].w = r.sessions[id]]
      BY <1>7, <2>2 DEF Unopen
    <3> HIDE DEF r
    <3>2. ControllerOK(d, used) /\ Kept(r, used, d, used) /\ d.closing = r.closing \cup {id}
          /\ id \in used \ d.pending
      BY <2>1, <2>2, ClosingOK DEF Kept
    <3> HIDE DEF d
    <3>3. TaskOK(task[t], d, used)
      BY <1>1, <2>1, <3>2 DEF Kept
    <3>4. r.sessions[id] \in Nat
      BY <2>1 DEF ControllerOK, Controllers
    <3>5. /\ j \in Tasks /\ j.at = task[t].at /\ j.op = task[t].op /\ j.id = task[t].id
          /\ j.gen = task[t].gen /\ j.broker = task[t].broker
      BY <3>3, <3>4 DEF TaskOK, Tasks
    <3> HIDE DEF j
    <3>6. j.gen # 0 /\ j.gen = d.transition => InTransition(j, d)
      BY <3>3, <3>5 DEF TaskOK, InTransition
    <3>7. TaskOK(j, d, used) /\ j.op \in {"open", "close"}
      BY <1>7, <3>3, <3>5, <3>6 DEF TaskOK, Unopen
    <3>8. TaskOK(k, d, used)
      BY <3>2, <3>5, <3>7, GotoOK DEF Places, SwitchSteps, ReplaceSteps
    <3>9. task' = [task EXCEPT ![t] = k]
      BY <3>1, <1>1 DEF IInv, j, TaskOK, Tasks
    <3> HIDE DEF k
    <3> QED
      BY <1>1, <1>7, <2>1, <3>1, <3>2, <3>8, <3>9, StepOK DEF Unopen, Kept
  <2>3. CASE ~MayClose(r, id)
    BY <1>1, <1>7, <2>1, <2>3, EndOK DEF Unopen
  <2> QED
    BY <2>2, <2>3
<1>8. CASE CloseFinish(t)
  <2> DEFINE id == task[t].id
  <2>1. id \in Ids /\ (id \in ctl.closing \/ ctl.sessions[id] = 0)
    BY <1>1, <1>8 DEF CloseFinish, TaskOK
  <2>2. ctl.broker.warm[id] = 0
    BY <1>1, <2>1 DEF ControllerOK
  <2>3. /\ ctl' \in Controllers /\ ctl'.broker = ctl.broker
        /\ ctl'.sessions = [ctl.sessions EXCEPT ![id] = 0] /\ ctl'.pending = ctl.pending
        /\ ctl'.closing = ctl.closing \ {id} /\ ctl'.transition = ctl.transition
        /\ ctl'.transitions = ctl.transitions /\ ctl'.replacing = ctl.replacing
    BY <1>1, <1>8 DEF CloseFinish, Controllers
  <2>4. ctl.broker \in States /\ Leased(ctl.broker)
    BY <1>1 DEF ControllerOK, Controllers
  <2>5. ControllerOK(ctl', used) /\ Kept(ctl, used, ctl', used)
    BY <1>1, <2>1, <2>2, <2>3, <2>4, TakenOutOK DEF Kept
  <2> QED
    BY <1>1, <1>8, <2>5, EndOK DEF CloseFinish
<1> QED
  BY <1>2, <1>3, <1>4, <1>5, <1>6, <1>7, <1>8

(* A reserved identity gets its session, a replaced one its new worker.      *)
LEMMA CommitStep == ASSUME IInv, NEW t \in Clients, OpenCommit(t) PROVE IInv'
<1> USE DEF At, OnlyController, Later, actors
<1> DEFINE id == task[t].id
           w == task[t].w
<1>1. /\ ControllerOK(ctl, used) /\ ctl \in Controllers /\ started \in Nat
      /\ TaskOK(task[t], ctl, used) /\ w \in Nat \ {0} /\ task[t].at = "commit"
      /\ monitors \subseteq Watches
  BY DEF IInv, ControllerOK, TaskOK, Tasks, OpenCommit
<1>2. CASE ctl.transition = 0 /\ id \in ctl.pending
  <2>1. ctl' = [ctl EXCEPT !.pending = @ \ {id}, !.sessions[id] = w, !.broker = Bound(@, id, w)]
        /\ Goto(t, "viewport")
    BY <1>2 DEF OpenCommit, LifecycleIdle
  <2>2. id \in Ids /\ id \in used /\ id \notin ctl.closing
    BY <1>1, <1>2 DEF ControllerOK, Controllers
  <2>3. Bound(ctl.broker, id, w) \in States
    BY <1>1, <2>2 DEF Bound, States, Controllers
  <2>4. /\ ctl' \in Controllers /\ ctl'.broker = Bound(ctl.broker, id, w)
        /\ ctl'.sessions = [ctl.sessions EXCEPT ![id] = w] /\ ctl'.pending = ctl.pending \ {id}
        /\ ctl'.closing = ctl.closing /\ ctl'.transition = 0
        /\ ctl'.transitions = ctl.transitions
    BY <1>1, <1>2, <2>1, <2>2, <2>3 DEF Controllers
  <2>5. /\ ControllerOK(ctl', used)
        /\ \A k : TaskOK(k, ctl, used) /\ k.at \notin {"stop", "finish"} => TaskOK(k, ctl', used)
        /\ \A k : TaskOK(k, ctl, used) /\ k.id # id => TaskOK(k, ctl', used)
    BY <1>1, <2>2, <2>4, BoundOK
  <2>6. Kept(ctl, used, ctl', used)
    BY <1>2, <2>5 DEF Kept, TaskOK
  <2> QED
    BY <1>1, <2>1, <2>5, <2>6, OnOK DEF OpenCommit, Places, SwitchSteps, ReplaceSteps
<1>3. CASE ~(ctl.transition = 0 /\ id \in ctl.pending)
  BY <1>1, <1>3, OnOK DEF OpenCommit, LifecycleIdle, Kept, Places, SwitchSteps, ReplaceSteps
<1> QED
  BY <1>2, <1>3

LEMMA InstallStep == ASSUME IInv, NEW t \in Clients, Install(t) PROVE IInv'
<1> USE DEF At, OnlyController, Later, actors
<1> DEFINE id == task[t].id
           w == task[t].w
           fits == /\ ctl.transition = task[t].gen /\ ctl.sessions[id] = task[t].prev
                   /\ id \in Warm(ctl.broker)
<1>1. /\ ControllerOK(ctl, used) /\ ctl \in Controllers /\ started \in Nat
      /\ TaskOK(task[t], ctl, used) /\ w \in Nat \ {0}
      /\ task[t].at = "install" /\ task[t].op = "replace"
      /\ monitors \subseteq Watches
  BY DEF IInv, ControllerOK, TaskOK, Tasks, Install, ReplaceSteps
<1>2. CASE fits
  <2>1. ctl' = [Idled(ctl) EXCEPT !.sessions[id] = w, !.broker = Bound(@, id, w)]
        /\ Goto(t, "viewport")
    BY <1>2 DEF Install
  <2>2. id \in Ids /\ ctl.broker.warm[id] # 0
    BY <1>2 DEF Warm
  <2>3. id \notin ctl.closing /\ ctl.sessions[id] # 0
    BY <1>1, <2>2 DEF ControllerOK
  <2>4. id \in used /\ id \notin ctl.pending
    BY <1>1, <2>2, <2>3 DEF ControllerOK
  <2>5. Bound(ctl.broker, id, w) \in States
    BY <1>1, <2>2 DEF Bound, States, Controllers
  <2>6. /\ ctl' \in Controllers /\ ctl'.broker = Bound(ctl.broker, id, w)
        /\ ctl'.sessions = [ctl.sessions EXCEPT ![id] = w] /\ ctl'.pending = ctl.pending
        /\ ctl'.closing = ctl.closing /\ ctl'.transition = 0
        /\ ctl'.transitions = ctl.transitions
    BY <1>1, <2>1, <2>2, <2>5 DEF Controllers, Idled
  <2>7. ctl'.pending = ctl.pending \ {id}
    BY <2>4, <2>6
  <2>8. /\ ControllerOK(ctl', used)
        /\ \A k : TaskOK(k, ctl, used) /\ k.at \notin {"stop", "finish"} => TaskOK(k, ctl', used)
        /\ \A k : TaskOK(k, ctl, used) /\ k.id # id => TaskOK(k, ctl', used)
    BY <1>1, <2>2, <2>3, <2>4, <2>6, <2>7, BoundOK
  <2>9. Kept(ctl, used, ctl', used)
    BY <2>3, <2>8 DEF Kept, TaskOK
  <2> QED
    BY <1>1, <2>1, <2>8, <2>9, OnOK DEF Install, Places, SwitchSteps, ReplaceSteps
<1>3. CASE ~fits
  BY <1>1, <1>3, PlainOK DEF Install, Places, SwitchSteps, ReplaceSteps
<1> QED
  BY <1>2, <1>3

(* A replacement that failed takes its session out, unless it is another by now. *)
LEMMA FailStep == ASSUME IInv, NEW t \in Clients, Fail(t) PROVE IInv'
<1> USE DEF At, OnlyController, Later, actors
<1> DEFINE id == task[t].id
           c == Idled(ctl)
<1>1. /\ ControllerOK(ctl, used) /\ ctl \in Controllers /\ started \in Nat
      /\ TaskOK(task[t], ctl, used) /\ task[t].op = "replace" /\ id \in Ids /\ task[t].gen # 0
      /\ monitors \subseteq Watches
  BY DEF IInv, ControllerOK, TaskOK, Fail, ReplaceSteps
<1>2. CASE ctl.transition # task[t].gen
  <2>1. ctl' = ctl
    BY <1>2 DEF Fail
  <2> QED
    BY <1>1, <2>1, EndOK DEF Fail, Kept
<1>3. CASE ctl.transition = task[t].gen /\ ctl.sessions[id] # task[t].prev
  BY <1>1, <1>3, IdledOK, EndOK DEF Fail, Kept
<1>4. CASE ctl.transition = task[t].gen /\ ctl.sessions[id] = task[t].prev
  <2> DEFINE b == Faulted(ctl.broker, {id})
  <2>1. ctl' = [c EXCEPT !.sessions[id] = 0, !.broker = Faulted(@, {id}),
                         !.starting = IF @.id = id THEN NoPin ELSE @]
    BY <1>4 DEF Fail
  <2>2. id \notin ctl.closing
    BY <1>1, <1>4 DEF TaskOK, InTransition
  <2>3. ctl.broker \in States /\ Leased(ctl.broker) /\ {id} \in SUBSET Ids
    BY <1>1 DEF ControllerOK, Controllers
  <2>4. /\ b \in States /\ Leased(b)
        /\ \A i \in Ids : b.warm[i] = IF i \in {id} THEN 0 ELSE ctl.broker.warm[i]
    BY <2>3, FaultedOK
  <2> HIDE DEF b
  <2>5. /\ ctl' \in Controllers /\ ctl'.broker = b
        /\ ctl'.sessions = [ctl.sessions EXCEPT ![id] = 0] /\ ctl'.pending = ctl.pending
        /\ ctl'.closing = ctl.closing \ {id} /\ ctl'.transition = 0
        /\ ctl'.transitions = ctl.transitions
    BY <1>1, <2>1, <2>2, <2>4, Token DEF Controllers, Idled, b
  <2>6. ControllerOK(ctl', used) /\ Kept(ctl, used, ctl', used)
    BY <1>1, <2>4, <2>5, TakenOutOK DEF Kept
  <2> QED
    BY <1>1, <2>6, EndOK DEF Fail
<1> QED
  BY <1>2, <1>3, <1>4

LEMMA CompleteStep == ASSUME IInv, NEW t \in Clients, Complete(t) PROVE IInv'
<1> USE DEF At, OnlyController, Later, actors
<1>1. /\ ControllerOK(ctl, used) /\ started \in Nat
      /\ TaskOK(task[t], ctl, used) /\ task[t].op \in SwitchOps
      /\ monitors \subseteq Watches
  BY DEF IInv, TaskOK, Complete, SwitchSteps
<1>2. CASE ctl.transition = task[t].gen /\ Warm(ctl.broker) = Warm(task[t].broker)
  <2> DEFINE d == [Idled(ctl) EXCEPT !.broker = task[t].broker]
  <2>1. ctl' = Reap(d) /\ Goto(t, "idle")
    BY <1>2 DEF Complete
  <2>2. ControllerOK(d, used) /\ Kept(ctl, used, d, used)
    BY <1>1, <1>2, InstalledOK DEF Kept
  <2> HIDE DEF d
  <2>3. ControllerOK(ctl', used) /\ Kept(ctl, used, ctl', used)
    BY <2>1, <2>2, ReapKept DEF Kept
  <2> QED
    BY <1>1, <2>1, <2>3, EndOK DEF Complete
<1>3. CASE ~(ctl.transition = task[t].gen /\ Warm(ctl.broker) = Warm(task[t].broker))
  BY <1>1, <1>3, AbortedOK, OnOK DEF Complete, Kept, Places, SwitchSteps, ReplaceSteps
<1> QED
  BY <1>2, <1>3

(* A pin is that of the lease it is taken for.                                *)
LEMMA PinStep == ASSUME IInv, NEW t \in Clients, WorkPin(t) PROVE IInv'
<1> USE DEF At, OnlyController, Later, actors
<1> DEFINE r == Reap(ctl)
           b == Pinned(r.broker, task[t].op)
<1>1. /\ ControllerOK(ctl, used) /\ started \in Nat /\ TaskOK(task[t], ctl, used)
      /\ monitors \subseteq Watches
      /\ ControllerOK(r, used) /\ Kept(ctl, used, r, used)
  BY ReapKept DEF IInv
<1>2. CASE ctl' = r /\ Goto(t, "idle")
  BY <1>1, <1>2, EndOK DEF WorkPin
<1>3. CASE /\ ctl' = [r EXCEPT !.broker = b, !.starting = b.pin]
           /\ task' = [task EXCEPT ![t].at = "work", ![t].token = b.pin]
  <2> HIDE DEF r
  <2>1. r \in Controllers /\ r.broker \in States /\ Leased(r.broker)
        /\ task[t].op \in Commands \cup {"none"}
    BY <1>1 DEF ControllerOK, Controllers, TaskOK, Tasks
  <2>2. /\ b \in States /\ b.pin \in Tokens /\ b.warm = r.broker.warm /\ b.lease = r.broker.lease
        /\ b.pin.id = b.lease.id /\ b.pin.lease = b.lease.gen
    <3> DEFINE token == TokenOf(r.broker, task[t].op)
    <3>1. r.broker.lease \in Leases /\ r.broker.pins \in Nat /\ r.broker.pins + 1 \in Nat
      BY <2>1 DEF States
    <3>2. /\ token \in Tokens
          /\ token.id = r.broker.lease.id /\ token.lease = r.broker.lease.gen
      BY <2>1, <3>1 DEF TokenOf, Leases, Tokens
    <3> HIDE DEF token
    <3>3. b = [r.broker EXCEPT !.pins = @ + 1, !.pin = token]
      BY DEF Pinned, token
    <3> QED
      BY <2>1, <3>1, <3>2, <3>3 DEF States
  <2>3. Leased(b)
    BY <2>1, <2>2 DEF Leased
  <2> HIDE DEF b
  <2>4. ControllerOK(ctl', used) /\ After(r, ctl')
    BY <1>1, <1>3, <2>2, <2>3, BrokerOK
  <2>5. Kept(ctl, used, ctl', used)
    BY <1>1, <2>1, <2>4, AfterKeeps DEF Kept, ControllerOK
  <2> DEFINE j == [task[t] EXCEPT !.token = b.pin]
             k == [j EXCEPT !.at = "work"]
  <2>6. TaskOK(task[t], ctl', used)
    BY <1>1, <2>5 DEF Kept
  <2>7. /\ j \in Tasks /\ j.at = task[t].at /\ j.op = task[t].op /\ j.id = task[t].id
        /\ j.gen = task[t].gen /\ j.broker = task[t].broker /\ j.w = task[t].w
    BY <2>2, <2>6 DEF TaskOK, Tasks
  <2> HIDE DEF j
  <2>8. j.gen # 0 /\ j.gen = ctl'.transition => InTransition(j, ctl')
    BY <2>6, <2>7 DEF TaskOK, InTransition
  <2>9. TaskOK(j, ctl', used)
    BY <2>6, <2>7, <2>8 DEF TaskOK
  <2>10. TaskOK(k, ctl', used)
    BY <2>9, GotoOK DEF Places, SwitchSteps, ReplaceSteps
  <2>11. task' = [task EXCEPT ![t] = k]
    BY <1>1, <1>3 DEF IInv, j, TaskOK, Tasks
  <2> HIDE DEF k
  <2> QED
    BY <1>1, <2>4, <2>5, <2>10, <2>11, StepOK DEF WorkPin
<1> QED
  BY <1>2, <1>3 DEF WorkPin

(* An exit keeps the sessions it has detached.                               *)
LEMMA DrainStep == ASSUME IInv, NEW t \in Clients, Drain(t) PROVE IInv'
<1> USE DEF At, OnlyActors, Later, actors
<1>1. /\ ControllerOK(ctl, used) /\ started \in Nat /\ TaskOK(task[t], ctl, used)
      /\ task[t].at = "drain" /\ monitors \subseteq Watches
  BY DEF IInv, Drain
<1>2. CASE Goto(t, "idle") /\ UNCHANGED actors
  BY <1>1, <1>2, EndOK DEF Drain, Kept
<1>3. ASSUME NEW id \in Ids, UNCHANGED <<ctl, used, monitors>>,
             ShutsDown(task[t].broker.warm[id]),
             task' = [task EXCEPT ![t].broker.warm[id] = 0]
      PROVE  IInv'
  <2> DEFINE k == [task[t] EXCEPT !.broker.warm[id] = 0]
  <2>1. task[t] \in Tasks /\ task[t].broker \in States
    BY <1>1 DEF TaskOK, Tasks
  <2>2. [task[t].broker EXCEPT !.warm[id] = 0] \in States
    BY <2>1 DEF States
  <2>3. /\ k \in Tasks /\ k.at = task[t].at /\ k.op = task[t].op /\ k.id = task[t].id
        /\ k.gen = task[t].gen
    BY <2>1, <2>2 DEF Tasks
  <2>4. task' = [task EXCEPT ![t] = k]
    BY <1>1, <1>3, <2>1 DEF IInv
  <2> HIDE DEF k
  <2>5. TaskOK(k, ctl, used)
    BY <1>1, <2>3 DEF TaskOK, SwitchSteps, ReplaceSteps
  <2> QED
    BY <1>1, <1>3, <2>4, <2>5, StepOK DEF ShutsDown, Stop, Ended, Overdue, Served, Kept
<1> QED
  BY <1>2, <1>3 DEF Drain, Warm

-----------------------------------------------------------------------------
(* The commands of the callers.                                              *)
LEMMA ReserveStep == ASSUME IInv, NEW t \in Clients, NEW id \in Ids, OpenReserve(t, id) PROVE IInv'
<1> DEFINE r == Reap(ctl)
           k == [NoTask EXCEPT !.at = "start", !.op = "open", !.id = id]
<1>1. /\ started \in Nat /\ monitors \subseteq Watches
      /\ ControllerOK(r, used) /\ Kept(ctl, used, r, used)
  BY ReapKept DEF IInv
<1>2. /\ ctl' = [r EXCEPT !.pending = @ \cup {id}] /\ used' = used \cup {id} /\ id \notin used
      /\ task' = [task EXCEPT ![t] = k] /\ UNCHANGED <<monitors, started>>
  BY DEF OpenReserve, Begin, actors
<1> HIDE DEF r
<1>3. r \in Controllers
  BY <1>1 DEF ControllerOK
<1>4. /\ ctl' \in Controllers /\ ctl'.broker = r.broker /\ ctl'.sessions = r.sessions
      /\ ctl'.pending = r.pending \cup {id} /\ ctl'.closing = r.closing
      /\ ctl'.transition = r.transition /\ ctl'.transitions = r.transitions
      /\ ctl'.replacing = r.replacing /\ r.transitions \in Nat
  BY <1>2, <1>3 DEF Controllers
<1>5. ControllerOK(ctl', used')
  BY <1>1, <1>2, <1>4 DEF ControllerOK
<1>6. Kept(ctl, used, ctl', used')
  <2> SUFFICES ASSUME NEW l, TaskOK(l, r, used) PROVE TaskOK(l, ctl', used')
    BY <1>1 DEF Kept
  <2>1. l.gen # 0 /\ l.gen = ctl'.transition => InTransition(l, ctl')
    BY <1>4 DEF TaskOK, InTransition
  <2> QED
    BY <1>2, <1>4, <2>1 DEF TaskOK
<1>7. k \in Tasks /\ k.at = "start" /\ k.op = "open" /\ k.id = id /\ k.gen = 0
  BY Empty, Token DEF NoTask, Tasks, Places, Commands
<1> HIDE DEF k
<1>8. TaskOK(k, ctl', used')
  BY <1>4, <1>7 DEF TaskOK, SwitchOps, SwitchSteps, ReplaceSteps
<1> QED
  BY <1>1, <1>2, <1>5, <1>6, <1>8, StepOK

LEMMA CloseStep == ASSUME IInv, NEW t \in Clients, NEW id \in Ids, ClosePrepare(t, id) PROVE IInv'
<1> DEFINE r == Reap(ctl)
           k == [NoTask EXCEPT !.at = "stop", !.op = "close", !.id = id, !.w = r.sessions[id]]
<1>1. /\ started \in Nat /\ monitors \subseteq Watches
      /\ ControllerOK(r, used) /\ Kept(ctl, used, r, used)
  BY ReapKept DEF IInv
<1>2. /\ ctl' = Closing(r, id) /\ MayClose(r, id)
      /\ task' = [task EXCEPT ![t] = k] /\ UNCHANGED <<monitors, started, used>>
  BY DEF ClosePrepare, Begin, actors
<1> HIDE DEF r
<1>3. /\ ControllerOK(ctl', used) /\ Kept(r, used, ctl', used)
      /\ ctl'.closing = r.closing \cup {id} /\ id \in used \ ctl'.pending
  BY <1>1, <1>2, ClosingOK DEF Kept
<1>4. r.sessions[id] \in Nat /\ ctl'.transitions \in Nat
  BY <1>1, <1>3 DEF ControllerOK, Controllers
<1>5. k \in Tasks /\ k.at = "stop" /\ k.op = "close" /\ k.id = id /\ k.gen = 0
  BY <1>4, Empty, Token DEF NoTask, Tasks, Places, Commands
<1> HIDE DEF k
<1>6. TaskOK(k, ctl', used)
  BY <1>3, <1>4, <1>5 DEF TaskOK, SwitchOps, SwitchSteps, ReplaceSteps
<1>7. Kept(ctl, used, ctl', used)
  BY <1>1, <1>3 DEF Kept
<1> QED
  BY <1>1, <1>2, <1>3, <1>6, <1>7, StepOK

(* A switch prepares the broker it will install, from the sessions there are. *)
LEMMA ForegroundStep ==
  ASSUME IInv, NEW t \in Clients, NEW op \in SwitchOps, NEW w \in Nat, NEW b \in States,
         Leased(b), b.pin = Reap(ctl).broker.pin, b.warm = Reap(ctl).broker.warm,
         Foreground(t, op, Reap(ctl), w, b), used' = used
  PROVE  IInv'
<1> DEFINE r == Reap(ctl)
           d == Transit(r, None)
           prev == IF r.broker.lease.id = None THEN 0 ELSE r.sessions[r.broker.lease.id]
           k == [NoTask EXCEPT !.at = IF prev = 0 THEN "show" ELSE "hide",
                               !.op = op, !.w = w, !.prev = prev, !.broker = b,
                               !.gen = r.transitions + 1]
<1>1. /\ started \in Nat /\ monitors \subseteq Watches
      /\ ControllerOK(r, used) /\ Kept(ctl, used, r, used)
  BY ReapKept DEF IInv
<1>2. /\ ctl' = d /\ r.broker.pin = NoPin
      /\ task' = [task EXCEPT ![t] = k] /\ UNCHANGED <<monitors, started>>
  BY DEF Foreground, Begin, Unpinned, actors
<1>3. b.pin = r.broker.pin /\ b.warm = r.broker.warm
  OBVIOUS
<1> HIDE DEF r
<1>4. r \in Controllers /\ r.transitions \in Nat /\ r.transitions + 1 \in Nat /\ r.broker \in States
      /\ r.sessions \in [Ids -> Nat]
  BY <1>1 DEF ControllerOK, Controllers
<1>5. ControllerOK(d, used) /\ Kept(r, used, d, used)
  BY <1>1, TransitOK DEF Kept
<1>6. d.broker = r.broker /\ d.transition = r.transitions + 1
      /\ d.transitions = r.transitions + 1 /\ d.replacing = None
  BY <1>4 DEF Transit, Controllers
<1> HIDE DEF d
<1>7. prev \in Nat
  BY <1>4 DEF States, Leases
<1> HIDE DEF prev
<1>8. /\ k \in Tasks /\ k.at \in {"show", "hide"} /\ k.op = op /\ k.gen = r.transitions + 1
      /\ k.broker = b
  BY <1>4, <1>7, Empty, Token DEF NoTask, Tasks, Places, Commands, SwitchOps
<1> HIDE DEF k
<1>9. InTransition(k, d)
  BY <1>2, <1>3, <1>6, <1>8 DEF InTransition, SwitchOps
<1>10. TaskOK(k, d, used)
  BY <1>4, <1>6, <1>8, <1>9 DEF TaskOK, SwitchOps, SwitchSteps, ReplaceSteps
<1>11. Kept(ctl, used, d, used)
  BY <1>1, <1>5 DEF Kept
<1> QED
  BY <1>1, <1>2, <1>5, <1>10, <1>11, StepOK

LEMMA SwitchStep == ASSUME IInv, NEW t \in Clients, NEW id \in Ids, SwitchPrepare(t, id) PROVE IInv'
<1> DEFINE r == Reap(ctl)
           b == Switched(r.broker, id)
<1>1. ControllerOK(r, used)
  BY ReapKept DEF IInv
<1>2. /\ Tracked(r, id) /\ Foreground(t, "switch", r, r.sessions[id], b)
  BY DEF SwitchPrepare
<1>3. Unpinned(r.broker) /\ used' = used
  BY <1>2 DEF Foreground
<1>4. r.broker \in States /\ Leased(r.broker) /\ r.broker.warm[id] # 0 /\ r.sessions[id] \in Nat
  BY <1>1, <1>2 DEF ControllerOK, Controllers, Tracked
<1>5. b \in States /\ b.pin = r.broker.pin /\ b.warm = r.broker.warm /\ b.lease.id = id
  <2>1. r.broker.leases \in Nat /\ r.broker.leases + 1 \in Nat
    BY <1>4 DEF States
  <2> DEFINE lease == [id |-> id, gen |-> r.broker.leases + 1]
  <2>2. lease \in Leases /\ lease.id = id
    BY <2>1 DEF Leases
  <2> HIDE DEF lease, r
  <2>3. b = [r.broker EXCEPT !.leases = @ + 1, !.lease = lease]
    BY DEF Switched, lease
  <2> QED
    BY <1>4, <2>1, <2>2, <2>3 DEF States
<1>6. Leased(b)
  BY <1>3, <1>4, <1>5 DEF Leased, Unpinned
<1> HIDE DEF b
<1> QED
  BY <1>2, <1>3, <1>4, <1>5, <1>6, ForegroundStep DEF SwitchOps

LEMMA ClearStep == ASSUME IInv, NEW t \in Clients, ClearPrepare(t) PROVE IInv'
<1> DEFINE r == Reap(ctl)
           b == Cleared(r.broker)
<1>1. ControllerOK(r, used)
  BY ReapKept DEF IInv
<1>2. Foreground(t, "clear", r, 0, b)
  BY DEF ClearPrepare
<1>3. Unpinned(r.broker) /\ used' = used
  BY <1>2 DEF Foreground
<1>4. r.broker \in States
  BY <1>1 DEF ControllerOK, Controllers
<1>5. b \in States /\ b.pin = r.broker.pin /\ b.warm = r.broker.warm /\ b.lease = NoLease
  BY <1>4 DEF Cleared, States, Leases, NoLease
<1>6. Leased(b)
  BY <1>3, <1>5 DEF Leased, Unpinned, NoLease
<1> HIDE DEF b
<1> QED
  BY <1>2, <1>3, <1>5, <1>6, ForegroundStep DEF SwitchOps

LEMMA ReplaceStep == ASSUME IInv, NEW t \in Clients, NEW id \in Ids, ReplaceBegin(t, id) PROVE IInv'
<1> DEFINE r == Reap(ctl)
           d == Transit(r, id)
           owns == r.broker.lease.id = id
           k == [NoTask EXCEPT !.at = "preflight", !.op = "replace", !.id = id,
                     !.prev = r.sessions[id], !.gen = r.transitions + 1, !.owns = owns]
<1>1. /\ started \in Nat /\ monitors \subseteq Watches
      /\ ControllerOK(r, used) /\ Kept(ctl, used, r, used)
  BY ReapKept DEF IInv
<1>2. /\ ctl' = d /\ Tracked(r, id)
      /\ task' = [task EXCEPT ![t] = k] /\ UNCHANGED <<monitors, started, used>>
  BY DEF ReplaceBegin, Begin, actors
<1> HIDE DEF r
<1>3. r \in Controllers /\ r.transitions \in Nat /\ r.transitions + 1 \in Nat
      /\ r.sessions[id] \in Nat /\ owns \in BOOLEAN
  BY <1>1 DEF ControllerOK, Controllers
<1>4. ControllerOK(d, used) /\ Kept(r, used, d, used)
  BY <1>1, TransitOK DEF Kept
<1>5. d.closing = r.closing /\ d.transition = r.transitions + 1
      /\ d.transitions = r.transitions + 1 /\ d.replacing = id
  BY <1>3 DEF Transit, Controllers
<1> HIDE DEF d, owns
<1>6. k \in Tasks /\ k.at = "preflight" /\ k.op = "replace" /\ k.id = id
      /\ k.gen = r.transitions + 1
  BY <1>3, Empty, Token DEF NoTask, Tasks, Places, Commands
<1> HIDE DEF k
<1>7. InTransition(k, d)
  BY <1>2, <1>5, <1>6 DEF InTransition, Tracked
<1>8. TaskOK(k, d, used)
  BY <1>3, <1>5, <1>6, <1>7 DEF TaskOK, SwitchOps, SwitchSteps, ReplaceSteps
<1>9. Kept(ctl, used, d, used)
  BY <1>1, <1>4 DEF Kept
<1> QED
  BY <1>1, <1>2, <1>4, <1>8, <1>9, StepOK

LEMMA WorkStep ==
  ASSUME IInv, NEW t \in Clients, NEW id \in Ids, NEW op \in {"capture", "mp4"},
         WorkRuntime(t, op, id)
  PROVE  IInv'
<1> DEFINE r == Reap(ctl)
           k == [NoTask EXCEPT !.at = "pin", !.op = op, !.id = id, !.w = r.sessions[id]]
<1>1. /\ started \in Nat /\ monitors \subseteq Watches
      /\ ControllerOK(r, used) /\ Kept(ctl, used, r, used)
  BY ReapKept DEF IInv
<1>2. ctl' = r /\ task' = [task EXCEPT ![t] = k] /\ UNCHANGED <<monitors, started, used>>
  BY DEF WorkRuntime, Begin, actors
<1> HIDE DEF r
<1>3. r.sessions[id] \in Nat /\ r.transitions \in Nat
  BY <1>1 DEF ControllerOK, Controllers
<1>4. k \in Tasks /\ k.at = "pin" /\ k.op = op /\ k.id = id /\ k.gen = 0
  BY <1>3, Empty, Token DEF NoTask, Tasks, Places, Commands
<1> HIDE DEF k
<1>5. TaskOK(k, r, used)
  BY <1>3, <1>4 DEF TaskOK, SwitchOps, SwitchSteps, ReplaceSteps
<1> QED
  BY <1>1, <1>2, <1>5, StepOK

LEMMA ExitStep == ASSUME IInv, NEW t \in Clients, Exit(t) PROVE IInv'
<1> DEFINE k == [NoTask EXCEPT !.at = "drain", !.op = "exit", !.broker.warm = ctl.sessions]
<1>1. /\ started \in Nat /\ monitors \subseteq Watches
      /\ ControllerOK(ctl, used) /\ ctl \in Controllers
  BY DEF IInv, ControllerOK
<1>2. /\ ctl' = [Idled(ctl) EXCEPT !.broker = NoBroker, !.sessions = [id \in Ids |-> 0],
                                   !.pending = {}, !.closing = {}, !.starting = NoPin]
      /\ task' = [task EXCEPT ![t] = k] /\ UNCHANGED <<monitors, started, used>>
  BY DEF Exit, Begin, actors
<1>3. /\ ctl' \in Controllers /\ ctl'.broker = NoBroker /\ ctl'.sessions = [id \in Ids |-> 0]
      /\ ctl'.pending = {} /\ ctl'.closing = {} /\ ctl'.transition = 0
      /\ ctl'.transitions = ctl.transitions /\ ctl.transitions \in Nat
  BY <1>1, <1>2, Empty, Token DEF Controllers, Idled
<1>4. ControllerOK(ctl', used)
  <2>1. \A id \in Ids : NoBroker.warm[id] = 0
    BY DEF NoBroker
  <2> QED
    BY <1>3, <2>1, Empty DEF ControllerOK
<1>5. Kept(ctl, used, ctl', used)
  <2> SUFFICES ASSUME NEW l, TaskOK(l, ctl, used) PROVE TaskOK(l, ctl', used)
    BY DEF Kept
  <2>1. l.at \in {"stop", "finish"} => ctl'.sessions[l.id] = 0 /\ l.id \in used
    BY <1>3 DEF TaskOK
  <2> QED
    BY <1>3, <2>1 DEF TaskOK
<1>6. [NoBroker EXCEPT !.warm = ctl.sessions] \in States
  BY <1>1, Empty DEF States, Controllers
<1>7. k \in Tasks /\ k.at = "drain" /\ k.op = "exit" /\ k.gen = 0
  BY <1>6, Token DEF NoTask, Tasks, Places, Commands
<1> HIDE DEF k
<1>8. TaskOK(k, ctl', used)
  BY <1>3, <1>7 DEF TaskOK, SwitchOps, SwitchSteps, ReplaceSteps
<1> QED
  BY <1>1, <1>2, <1>4, <1>5, <1>8, StepOK

-----------------------------------------------------------------------------
(* The actors by themselves, the monitors and the polls.                     *)
LEMMA OtherStep ==
  ASSUME IInv, UNCHANGED <<task, used, started>>,
         ControllerOK(ctl', used), Kept(ctl, used, ctl', used),
         monitors' \subseteq Watches
  PROVE  IInv'
  BY DEF IInv, Kept

LEMMA ActorStep ==
  ASSUME IInv, NEW w, WorkerFault(w) \/ ActorEnds(w) \/ WorkEnds(w) \/ LateAnswer(w)
  PROVE  IInv'
<1> USE DEF OnlyActors, Later
<1>1. ControllerOK(ctl, used) /\ monitors \subseteq Watches
  BY DEF IInv
<1>2. UNCHANGED <<ctl, task, used, started, monitors>>
  BY DEF WorkerFault, ActorEnds, WorkEnds, LateAnswer, Served, Serves, Stop, Ended
<1> QED
  BY <1>1, <1>2, OtherStep DEF Kept

LEMMA MonitorStep == ASSUME IInv, Monitor PROVE IInv'
<1> USE DEF Later, actors
<1>1. ControllerOK(ctl, used) /\ monitors \subseteq Watches
  BY DEF IInv
<1>2. PICK m \in monitors : MonitorSees(m) \/ MonitorReleases(m)
  BY DEF Monitor
<1>3. CASE MonitorSees(m)
  <2>1. UNCHANGED <<ctl, task, used, started>>
        /\ monitors' = (monitors \ {m}) \cup {[m EXCEPT !.ended = TRUE]}
    BY <1>3 DEF MonitorSees, Served, GivesUp, actors
  <2>2. [m EXCEPT !.ended = TRUE] \in Watches
    BY <1>1 DEF Watches
  <2> QED
    BY <1>1, <2>1, <2>2, OtherStep DEF Kept
<1>4. CASE MonitorReleases(m)
  <2> DEFINE r == Reap(ctl)
  <2>1. ControllerOK(r, used) /\ Kept(ctl, used, r, used)
    BY <1>1, ReapKept
  <2>2. ControllerOK(Unpin(r, m.token), used) /\ Kept(r, used, Unpin(r, m.token), used)
    BY <2>1, UnpinKept
  <2>3. ControllerOK(ctl', used) /\ Kept(ctl, used, ctl', used)
    BY <1>4, <2>1, <2>2 DEF MonitorReleases, Kept
  <2>4. UNCHANGED <<task, used, started>> /\ monitors' \subseteq monitors
    BY <1>4 DEF MonitorReleases
  <2> QED
    BY <1>1, <2>3, <2>4, OtherStep
<1> QED
  BY <1>2, <1>3, <1>4

LEMMA PollStep == ASSUME IInv, Poll PROVE IInv'
<1>1. ControllerOK(ctl, used) /\ monitors \subseteq Watches
  BY DEF IInv
<1>2. ControllerOK(ctl', used) /\ Kept(ctl, used, ctl', used)
  BY <1>1, ReapKept DEF Poll
<1> QED
  BY <1>1, <1>2, OtherStep DEF Poll, OnlyController, Later, actors

-----------------------------------------------------------------------------
LEMMA InitOK == Init => IInv
<1> SUFFICES ASSUME Init PROVE IInv
  OBVIOUS
<1>1. /\ ctl \in Controllers /\ ctl.broker = NoBroker /\ ctl.sessions = [id \in Ids |-> 0]
      /\ ctl.pending = {} /\ ctl.closing = {} /\ ctl.transition = 0 /\ ctl.transitions = 0
  BY Empty, Token DEF Init, Controllers
<1>2. \A id \in Ids : NoBroker.warm[id] = 0
  BY DEF NoBroker
<1>3. ControllerOK(ctl, used)
  BY <1>1, <1>2, Empty DEF ControllerOK
<1>4. TaskOK(NoTask, ctl, used)
  BY <1>1, IdleOK
<1>5. NoTask \in Tasks
  BY <1>4 DEF TaskOK
<1> QED
  BY <1>3, <1>4, <1>5 DEF Init, IInv

LEMMA Inductive == IInv /\ [Next]_vars => IInv'
<1> SUFFICES ASSUME IInv, [Next]_vars PROVE IInv'
  OBVIOUS
<1>1. ASSUME NEW t \in Clients, Command(t) PROVE IInv'
  BY <1>1, ReserveStep, CloseStep, SwitchStep, ReplaceStep, WorkStep, ClearStep, ExitStep
     DEF Command
<1>2. ASSUME NEW t \in Clients, Continue(t) PROVE IInv'
  BY <1>2, StartSteps, CommitStep, ActorSteps, SectionSteps, CompleteStep, InstallStep, FailStep,
     PinStep, DrainStep DEF Continue
<1>3. ASSUME NEW w \in 1 .. started,
             WorkerFault(w) \/ ActorEnds(w) \/ WorkEnds(w) \/ LateAnswer(w)
      PROVE  IInv'
  BY <1>3, ActorStep
<1>4. CASE Monitor \/ Poll
  BY <1>4, MonitorStep, PollStep
<1>5. CASE UNCHANGED vars
  BY <1>5 DEF vars, actors, IInv
<1> QED
  BY <1>1, <1>2, <1>3, <1>4, <1>5 DEF Next

(* The broker knows exactly the sessions the controller has and does not close,     *)
(* whatever commands cross each other: a broker that a switch prepared while        *)
(* sessions opened, ended or were replaced is installed only if it still fits       *)
(* (complete_foreground_transition).                                                *)
THEOREM SessionsKnown == Spec => []BrokerKnowsSessions
<1>1. IInv => BrokerKnowsSessions
  BY DEF IInv, ControllerOK, BrokerKnowsSessions
<1> QED
  BY <1>1, InitOK, Inductive, PTL DEF Spec

(* The output pin is always that of the lease that is held, and the lease is that   *)
(* of a warm session: no close, fault, switch or failed replacement leaves a pin    *)
(* without its lease or a lease without its session (broker.rs).                    *)
LeaseOfSession == ctl.broker.lease.id # None => ctl.broker.lease.id \in Warm(ctl.broker)

THEOREM PinHeld == Spec => [](PinOwnsLease /\ LeaseOfSession)
<1>1. IInv => PinOwnsLease /\ LeaseOfSession
  <2> SUFFICES ASSUME IInv PROVE PinOwnsLease /\ LeaseOfSession
    OBVIOUS
  <2>1. Leased(ctl.broker) /\ ctl.broker.lease.id \in Ids \cup {None}
    BY DEF IInv, ControllerOK, Controllers, States, Leases
  <2> QED
    BY <2>1 DEF Leased, PinOwnsLease, LeaseOfSession, Unpinned, Warm
<1> QED
  BY <1>1, InitOK, Inductive, PTL DEF Spec

-----------------------------------------------------------------------------
(* Who is behind each entry.  The places of a command in its code, by what it owes    *)
(* there: a reservation, a transition, a session to close, the pin of work it starts, *)
(* or a worker the controller does not know yet.                                      *)
OpenPlaces == {"start", "commit", "abandon", "cancel"}
TransitPlaces == {"hide", "show", "restore", "abort", "complete"} \cup ReplaceSteps
StopPlaces == {"stop", "finish"}
PinPlaces == {"work", "started", "unpin"}
NewPlaces == {"commit", "abandon", "configure", "install", "discard"}
EarlyPlaces == {"start", "preflight", "swap", "restart"}

(* The workers that may serve the session a command opens or replaces.                *)
Makes(k) == k.at \in OpenPlaces \cup ReplaceSteps
Own(k) == IF k.at \in NewPlaces THEN {k.w}
          ELSE IF k.at \in {"preflight", "swap"} THEN {k.prev} ELSE {}

(* A command knows worker w of session id, which the controller does not.             *)
Holds(k, w, id) ==
    \/ k.at \in NewPlaces /\ k.w = w /\ k.id = id
    \/ k.at = "drain" /\ k.broker.warm[id] = w

(* What a command finds in the controller c when it goes on.                          *)
Placed(k, c) ==
    /\ k.at \in TransitPlaces /\ ~exited => k.gen = c.transition /\ k.gen # 0
    /\ k.at \in OpenPlaces /\ ~exited => k.id \in c.pending
    /\ k.at \in StopPlaces => c.sessions[k.id] \in {0, k.w}
    /\ k.at \in ReplaceSteps /\ ~exited => c.sessions[k.id] = k.prev /\ c.replacing = k.id
    /\ k.at = "drain" => exited

(* What it finds among the workers it may still count on.                             *)
Crew == up \cup overdue
Hired(k) ==
    /\ k.w <= started /\ k.prev <= started
    /\ k.at \in NewPlaces => k.w # 0 /\ serves[k.w] = k.id
    /\ k.at = "finish" => k.w \notin Attended
    /\ k.at \in ReplaceSteps => k.prev # 0 /\ serves[k.prev] = k.id
    /\ k.at \in OpenPlaces => k.id \in used
    /\ k.at = "pin" => k.id \in Ids
    /\ Makes(k) => \A w \in Attended : serves[w] = k.id => w \in Own(k)

Detached(c) ==
    /\ \A id \in Ids : c.sessions[id] = 0
    /\ c.pending = {} /\ c.closing = {} /\ c.transition = 0 /\ c.starting = NoPin

(* Nothing in the controller c is without the command that will settle it, and every  *)
(* worker has its entry or its command.                                               *)
Fits(c) ==
    /\ exited => Detached(c)
    /\ c.transition = 0 => c.replacing = None
    /\ c.transition # 0 => \E t \in Clients : task[t].at \in TransitPlaces
    /\ \A id \in c.pending : \E t \in Clients : task[t].at \in OpenPlaces /\ task[t].id = id
    /\ \A id \in c.closing : \E t \in Clients : task[t].at \in StopPlaces /\ task[t].id = id
    /\ c.starting # NoPin =>
           \E t \in Clients : task[t].at \in PinPlaces /\ task[t].token = c.starting
    /\ \A id \in Ids : c.sessions[id] # 0 =>
           c.sessions[id] \in 1 .. started /\ serves[c.sessions[id]] = id
    /\ \A w \in Attended : \/ c.sessions[serves[w]] = w
                     \/ \E t \in Clients : Holds(task[t], w, serves[w])
    /\ \A t \in Clients : Placed(task[t], c)

(* Each session has one worker, and each session is opened or replaced by one command. *)
Staff ==
    /\ Crew \subseteq 1 .. started /\ serves \in [Workers -> Ids \cup {None}]
    /\ used \subseteq Ids /\ \A w \in 1 .. started : serves[w] \in used
    /\ \A v, w \in Attended : serves[v] = serves[w] => v = w
    /\ \A t \in Clients : Hired(task[t])
    /\ \A s, t \in Clients :
        s # t => /\ ~(task[s].at \in TransitPlaces /\ task[t].at \in TransitPlaces)
                 /\ Makes(task[s]) /\ Makes(task[t]) => task[s].id # task[t].id
    /\ \A id \in recording :
        \/ \E w \in up : serves[w] = id
        \/ \E t \in Clients : task[t].at \in {"restart", "settle"} /\ task[t].id = id

LEMMA AttendedCrew == Attended \subseteq Crew
  BY DEF Attended, Crew

(* A command is behind every worker started, or to be started yet.                    *)
Early == {t \in Clients : task[t].at \in EarlyPlaces}
Budget ==
    /\ IsFiniteSet(Early) /\ left \in Nat /\ started \in Nat
    /\ started + Cardinality(Early) + left <= Requests

Inventory == Fits(ctl) /\ Staff

(* A command goes on at another place.                                        *)
Others(t) == \A s \in Clients : s # t => task'[s] = task[s]
Carries(k, l) ==
    /\ l.op = k.op /\ l.id = k.id /\ l.w = k.w /\ l.prev = k.prev /\ l.gen = k.gen
    /\ l.token = k.token /\ l.broker = k.broker

LEMMA GotoIs ==
  ASSUME IInv, NEW t \in Clients, NEW at \in Places, Goto(t, at)
  PROVE  /\ Others(t) /\ task'[t].at = at
         /\ at # "idle" => Carries(task[t], task'[t])
         /\ at = "idle" => task'[t] = NoTask
<1>1. task[t] \in Tasks /\ task \in [Clients -> Tasks]
  BY DEF IInv
<1>2. CASE at = "idle"
  BY <1>1, <1>2 DEF Goto, Others, NoTask
<1>3. CASE at # "idle"
  <2>1. task' = [task EXCEPT ![t] = [task[t] EXCEPT !.at = at]]
    BY <1>1, <1>3 DEF Goto
  <2> QED
    BY <1>1, <1>3, <2>1 DEF Others, Carries, Tasks
<1> QED
  BY <1>2, <1>3

(* A place where a command owes nothing.                                      *)
NoDuty(k) ==
    /\ k.at \notin OpenPlaces \cup TransitPlaces \cup StopPlaces \cup PinPlaces \cup NewPlaces
    /\ k.at # "drain" /\ k.w <= started /\ k.prev <= started

(* A step in which a command keeps its duties, if it has any.                 *)
Goes(k, l) ==
    /\ l.at \in OpenPlaces <=> k.at \in OpenPlaces
    /\ l.at \in TransitPlaces <=> k.at \in TransitPlaces
    /\ l.at \in StopPlaces <=> k.at \in StopPlaces
    /\ l.at \in PinPlaces <=> k.at \in PinPlaces
    /\ l.at \in ReplaceSteps => k.at \in ReplaceSteps
    /\ l.at \in NewPlaces => k.at \in NewPlaces
    /\ l.at = "drain" => k.at = "drain"
    /\ \/ l.id = k.id /\ l.w = k.w /\ l.prev = k.prev /\ l.gen = k.gen /\ l.token = k.token
       \/ NoDuty(l)
    /\ Makes(l) => Own(k) \cap Attended' \subseteq Own(l)
    /\ l.at = "finish" => l.w \notin Attended'
    /\ l.at = "pin" => l.id \in Ids
    /\ \A w \in Attended' : Holds(k, w, serves[w]) => Holds(l, w, serves[w])

Recorded ==
    \A id \in recording :
        \/ \E w \in up : serves[w] = id
        \/ \E t \in Clients : task[t].at \in {"restart", "settle"} /\ task[t].id = id

LEMMA IdlePlace ==
  /\ NoTask.at = "idle" /\ NoTask.w = 0 /\ NoTask.prev = 0
  /\ NoTask.at \notin OpenPlaces /\ NoTask.at \notin TransitPlaces /\ NoTask.at \notin StopPlaces
  /\ NoTask.at \notin PinPlaces /\ NoTask.at \notin NewPlaces /\ NoTask.at \notin ReplaceSteps
  /\ NoTask.at \notin {"drain", "finish", "restart", "settle"} /\ ~Makes(NoTask)
  BY DEF NoTask, OpenPlaces, TransitPlaces, StopPlaces, PinPlaces, NewPlaces, ReplaceSteps, Makes

LEMMA IdleFree == ASSUME IInv PROVE NoDuty(NoTask)
<1>1. started \in Nat
  BY DEF IInv
<1> QED
  BY <1>1, IdlePlace DEF NoDuty

LEMMA FreePlace ==
  ASSUME NEW k, NoDuty(k)
  PROVE  /\ k.at \notin OpenPlaces /\ k.at \notin TransitPlaces /\ k.at \notin StopPlaces
         /\ k.at \notin PinPlaces /\ k.at \notin NewPlaces /\ k.at \notin ReplaceSteps
         /\ k.at \notin {"drain", "finish", "restart", "settle"} /\ ~Makes(k)
  BY DEF NoDuty, StopPlaces, TransitPlaces, ReplaceSteps, Makes

LEMMA GoesOn ==
  ASSUME IInv, NEW d, Fits(d), Staff, ctl' = d,
         UNCHANGED <<exited, started, serves>>, used \subseteq used', used' \subseteq Ids,
         Attended' \subseteq Attended, Crew' \subseteq Crew, \A s \in Clients : Goes(task[s], task'[s]), Recorded'
  PROVE  Inventory'
<1> DEFINE Keeps(k, l) ==
            /\ l.at \in OpenPlaces <=> k.at \in OpenPlaces
            /\ l.at \in TransitPlaces <=> k.at \in TransitPlaces
            /\ l.at \in StopPlaces <=> k.at \in StopPlaces
            /\ l.at \in PinPlaces <=> k.at \in PinPlaces
            /\ l.at \in ReplaceSteps => k.at \in ReplaceSteps
            /\ Makes(l) => Makes(k)
            /\ l.at = "drain" => k.at = "drain"
            /\ \/ l.id = k.id /\ l.w = k.w /\ l.prev = k.prev /\ l.gen = k.gen /\ l.token = k.token
               \/ NoDuty(l)
<1>2. \A s \in Clients : Keeps(task[s], task'[s])
  BY DEF Goes, Makes
<1>3. \A s \in Clients : Placed(task[s], ctl)'
  <2> SUFFICES ASSUME NEW s \in Clients PROVE Placed(task[s], ctl)'
    OBVIOUS
  <2>1. Placed(task[s], d)
    BY DEF Fits
  <2> QED
    BY <1>2, <2>1, FreePlace DEF Placed
<1>4. \A s \in Clients : Hired(task[s])'
  <2> SUFFICES ASSUME NEW s \in Clients PROVE Hired(task[s])'
    OBVIOUS
  <2>1. Hired(task[s]) /\ Goes(task[s], task'[s])
    BY DEF Staff
  <2>2. CASE NoDuty(task'[s])
    BY <2>1, <2>2, FreePlace DEF Hired, NoDuty, Goes
  <2>3. CASE ~NoDuty(task'[s])
    <3>1. task'[s].id = task[s].id /\ task'[s].w = task[s].w /\ task'[s].prev = task[s].prev
      BY <2>1, <2>3 DEF Goes
    <3>2. Makes(task'[s]) => Makes(task[s]) /\ Own(task[s]) \cap Attended' \subseteq Own(task'[s])
      BY <1>2, <2>1 DEF Goes
    <3> QED
      BY <2>1, <3>1, <3>2 DEF Hired, Goes
  <2> QED
    BY <2>2, <2>3
<1>5. Fits(ctl)'
  <2>1. \A id \in d.pending : \E s \in Clients : task'[s].at \in OpenPlaces /\ task'[s].id = id
    BY <1>2, FreePlace DEF Fits
  <2>2. \A id \in d.closing : \E s \in Clients : task'[s].at \in StopPlaces /\ task'[s].id = id
    BY <1>2, FreePlace DEF Fits
  <2>3. d.starting # NoPin =>
           \E s \in Clients : task'[s].at \in PinPlaces /\ task'[s].token = d.starting
    BY <1>2, FreePlace DEF Fits
  <2>4. d.transition # 0 => \E s \in Clients : task'[s].at \in TransitPlaces
    BY <1>2 DEF Fits
  <2>5. \A w \in Attended' : \/ d.sessions[serves[w]] = w
                       \/ \E s \in Clients : Holds(task'[s], w, serves[w])
    BY DEF Fits, Goes
  <2> QED
    BY <1>3, <2>1, <2>2, <2>3, <2>4, <2>5 DEF Fits, Detached
<1>6. Staff'
  <2>1. \A s, t \in Clients :
            s # t => /\ ~(task'[s].at \in TransitPlaces /\ task'[t].at \in TransitPlaces)
                     /\ Makes(task'[s]) /\ Makes(task'[t]) => task'[s].id # task'[t].id
    <3> SUFFICES ASSUME NEW s \in Clients, NEW t \in Clients, s # t
                 PROVE  /\ ~(task'[s].at \in TransitPlaces /\ task'[t].at \in TransitPlaces)
                        /\ Makes(task'[s]) /\ Makes(task'[t]) => task'[s].id # task'[t].id
      OBVIOUS
    <3> QED
      BY <1>2, FreePlace DEF Staff
  <2> QED
    BY <1>4, <2>1 DEF Staff, Recorded
<1> QED
  BY <1>5, <1>6 DEF Inventory

LEMMA OneGoesOn ==
  ASSUME IInv, NEW d, Fits(d), Staff, ctl' = d, NEW t \in Clients, Others(t),
         UNCHANGED <<exited, started, serves>>, used \subseteq used', used' \subseteq Ids,
         Attended' \subseteq Attended, Crew' \subseteq Crew, Goes(task[t], task'[t]), Recorded'
  PROVE  Inventory'
<1>1. ASSUME NEW s \in Clients, s # t PROVE Goes(task[s], task'[s])
  <2>1. task'[s] = task[s] /\ Hired(task[s])
    BY <1>1 DEF Others, Staff
  <2> QED
    BY <2>1 DEF Goes, Hired
<1> QED
  BY <1>1, GoesOn

(* The recordings go on with the workers, except while a worker is replaced.  *)
LEMMA StillRecorded ==
  ASSUME Staff, UNCHANGED serves, NEW t \in Clients, Others(t),
         \A id \in recording' : id \in recording \/ \E w \in up' : serves[w] = id,
         \A w \in up \ up' : serves[w] \notin recording' \/ \E v \in up' : serves[v] = serves[w],
         task[t].at \notin {"restart", "settle"}
  PROVE  Recorded'
<1> SUFFICES ASSUME NEW id \in recording'
             PROVE  \/ \E w \in up' : serves[w] = id
                    \/ \E s \in Clients : task'[s].at \in {"restart", "settle"} /\ task'[s].id = id
  BY DEF Recorded
<1>1. \/ \E w \in up : serves[w] = id
      \/ \E w \in up' : serves[w] = id
      \/ \E s \in Clients : task[s].at \in {"restart", "settle"} /\ task[s].id = id
  BY DEF Staff
<1>2. ASSUME NEW s \in Clients, task[s].at \in {"restart", "settle"} PROVE task'[s] = task[s]
  BY <1>2 DEF Others
<1> QED
  BY <1>1, <1>2

(* A request to an actor, after which the command keeps its duties.           *)
Along(p, q) ==
    /\ q \in Places
    /\ q \in OpenPlaces <=> p \in OpenPlaces
    /\ q \in TransitPlaces <=> p \in TransitPlaces
    /\ q \in StopPlaces <=> p \in StopPlaces
    /\ q \in PinPlaces <=> p \in PinPlaces
    /\ q \in NewPlaces <=> p \in NewPlaces
    /\ q \in ReplaceSteps => p \in ReplaceSteps
    /\ q \in ReplaceSteps /\ p \in {"preflight", "swap"} => q \in {"preflight", "swap"}
    /\ p \notin {"drain", "restart", "settle"} /\ q \notin {"drain", "finish", "pin"}

LEMMA PlainOn ==
  ASSUME IInv, Inventory, NEW t \in Clients, NEW at, Along(task[t].at, at), Goto(t, at),
         UNCHANGED <<started, serves, up, Crew, Attended, ctl, exited, used>>,
         \A id \in recording' : id \in recording \/ \E v \in up : serves[v] = id
  PROVE  Inventory'
<1>1. /\ Others(t) /\ task'[t].at = at
      /\ at # "idle" => Carries(task[t], task'[t])
      /\ at = "idle" => task'[t] = NoTask
  BY GotoIs DEF Along
<1>2. Goes(task[t], task'[t])
  <2>1. Makes(task'[t]) => Own(task[t]) \subseteq Own(task'[t])
    BY <1>1, IdlePlace DEF Along, Own, Makes, Carries, OpenPlaces, NewPlaces, ReplaceSteps
  <2>2. \A v \in Attended' : Holds(task[t], v, serves[v]) => Holds(task'[t], v, serves[v])
    BY <1>1 DEF Along, Holds, Carries, NewPlaces
  <2> QED
    BY <1>1, <2>1, <2>2, IdleFree DEF Along, Goes, Carries
<1>3. Recorded'
  BY <1>1, StillRecorded DEF Along, Inventory
<1> QED
  BY <1>1, <1>2, <1>3, OneGoesOn DEF Inventory, Staff

LEMMA AsksOn ==
  ASSUME IInv, Inventory, NEW t \in Clients, OnlyActors,
         NEW a, Along(task[t].at, a), NEW f, Along(task[t].at, f),
         NEW w, NEW what, Asks(t, w, what, a, f)
  PROVE  Inventory'
<1>1. /\ Goto(t, a) \/ Goto(t, f)
      /\ UNCHANGED <<started, serves, up, Crew, Attended, ctl, exited, used>>
      /\ \A id \in recording' : id \in recording \/ \E v \in up : serves[v] = id
  BY DEF Asks, GivesUp, Attended, Crew, actors, Serves, Served, Leaves, OnlyActors, Later
<1> QED
  BY <1>1, PlainOn

LEMMA AlongPlaces ==
  /\ \A q \in {"seen", "unopen", "idle", "unshown"} : Along("viewport", q)
  /\ \A p, q \in {"hide", "show", "restore", "complete", "abort"} : Along(p, q)
  /\ \A p, q \in {"unshow", "reshow", "idle"} : Along(p, q)
  /\ Along("preflight", "swap") /\ Along("preflight", "abort")
  /\ Along("configure", "install") /\ Along("configure", "discard")
  /\ Along("work", "started") /\ Along("work", "unpin")
  BY DEF Along, Places, OpenPlaces, TransitPlaces, StopPlaces, PinPlaces, NewPlaces, ReplaceSteps

LEMMA AskSteps ==
  ASSUME IInv, Inventory, NEW t \in Clients,
         \/ Viewport(t) \/ Hide(t) \/ Show(t) \/ Restore(t) \/ Unshow(t) \/ Reshow(t)
         \/ Preflight(t) \/ Configure(t) \/ WorkStart(t)
  PROVE  Inventory'
<1> USE DEF At
<1>1. CASE Viewport(t)
  BY <1>1, AsksOn, AlongPlaces DEF Viewport
<1>2. CASE Hide(t)
  <2> DEFINE a == IF task[t].w = 0 THEN "complete" ELSE "show"
  <2>1. Asks(t, task[t].prev, "hide", a, "abort") /\ OnlyActors
    BY <1>2 DEF Hide
  <2>2. Along(task[t].at, a) /\ Along(task[t].at, "abort")
    BY <1>2, AlongPlaces DEF Hide
  <2> HIDE DEF a
  <2> QED
    BY <2>1, <2>2, AsksOn
<1>3. CASE Show(t)
  BY <1>3, AsksOn, AlongPlaces DEF Show
<1>4. CASE Restore(t)
  BY <1>4, AsksOn, AlongPlaces DEF Restore
<1>5. CASE Unshow(t)
  BY <1>5, AsksOn, AlongPlaces DEF Unshow
<1>6. CASE Reshow(t)
  BY <1>6, AsksOn, AlongPlaces DEF Reshow
<1>7. CASE Preflight(t)
  BY <1>7, AsksOn, PlainOn, AlongPlaces DEF Preflight, actors, Attended, Crew, OnlyActors, Later
<1>8. CASE Configure(t)
  BY <1>8, AsksOn, AlongPlaces DEF Configure
<1>9. CASE WorkStart(t)
  BY <1>9, AsksOn, AlongPlaces DEF WorkStart
<1> QED
  BY <1>1, <1>2, <1>3, <1>4, <1>5, <1>6, <1>7, <1>8, <1>9

(* The steps in which a worker ends.                                          *)
LEMMA StopIs ==
  ASSUME NEW w, ShutsDown(w)
  PROVE  /\ Attended' = Attended \ {w} /\ Crew' \subseteq Crew /\ UNCHANGED <<started, serves>>
         /\ \A id \in recording' : id \in recording /\ (w \in up \ up' => id # serves[w])
         /\ up \ {w} \subseteq up' /\ up' \subseteq up
  BY DEF ShutsDown, Overdue, Stop, Ended, Attended, Crew

LEMMA StopSteps ==
  ASSUME IInv, Inventory, NEW t \in Clients,
         OpenAbandon(t) \/ CloseStop(t) \/ Unshown(t) \/ Discard(t)
  PROVE  Inventory'
<1> DEFINE k == task[t]
           w == k.w
<1>1. PICK at \in {"cancel", "finish", "seen", "settle"} :
          /\ Goto(t, at)
          /\ at = "cancel" => k.at = "abandon"
          /\ at = "finish" => k.at = "stop"
          /\ at = "seen" => k.at = "unshown"
          /\ at = "settle" => k.at = "discard"
  BY DEF OpenAbandon, CloseStop, Unshown, Discard, At
<1>2. ShutsDown(w) /\ OnlyActors
  BY DEF OpenAbandon, CloseStop, Unshown, Discard
<1>3. /\ Attended' = Attended \ {w} /\ Crew' \subseteq Crew
      /\ UNCHANGED <<started, serves, ctl, exited, used>>
      /\ \A id \in recording' : id \in recording /\ (w \in up \ up' => id # serves[w])
      /\ up \ {w} \subseteq up' /\ up' \subseteq up
  BY <1>2, StopIs DEF Inventory, OnlyActors, Later
<1>4. Others(t) /\ task'[t].at = at /\ Carries(k, task'[t])
  <2>1. at \in Places /\ at # "idle"
    BY DEF Places
  <2> QED
    BY <1>1, <2>1, GotoIs
<1>5. Goes(k, task'[t])
  <2>1. \A v \in Attended' : Holds(k, v, serves[v]) => Holds(task'[t], v, serves[v])
    BY <1>1, <1>3, <1>4 DEF Holds, Carries, NewPlaces
  <2>2. Own(k) \cap Attended' = {}
    BY <1>1, <1>3 DEF Own, NewPlaces
  <2> HIDE DEF k
  <2> QED
    BY <1>1, <1>3, <1>4, <2>1, <2>2
       DEF Goes, Carries, OpenPlaces, TransitPlaces, StopPlaces, PinPlaces, NewPlaces, ReplaceSteps
<1>6. Recorded'
  BY <1>1, <1>3, <1>4, StillRecorded DEF Inventory
<1> QED
  BY <1>3, <1>4, <1>5, <1>6, OneGoesOn DEF Inventory, Staff

LEMMA SwapStep == ASSUME IInv, Inventory, NEW t \in Clients, Swap(t) PROVE Inventory'
<1> DEFINE k == task[t]
           old == k.prev
<1>1. /\ k.at = "swap" /\ UNCHANGED <<started, serves, ctl, exited, used>>
      /\ recording' = recording /\ Attended' = Attended \ {old} /\ Crew' \subseteq Crew
      /\ up \ {old} \subseteq up'
  BY DEF Swap, At, Ended, Overdue, OnlyActors, Later, actors, Attended, Crew
<1>2. PICK at \in {"restart", "settle"} : Goto(t, at)
  BY DEF Swap
<1>3. Others(t) /\ task'[t].at = at /\ Carries(k, task'[t])
  <2>1. at \in Places /\ at # "idle"
    BY DEF Places
  <2> QED
    BY <1>2, <2>1, GotoIs
<1>4. serves[old] = k.id
  BY <1>1 DEF Inventory, Staff, Hired, ReplaceSteps
<1>5. Goes(k, task'[t])
  <2>1. Own(k) \cap Attended' = {} /\ \A v \in Attended' : ~Holds(k, v, serves[v])
    BY <1>1 DEF Own, Holds, NewPlaces
  <2> HIDE DEF k
  <2> QED
    BY <1>1, <1>3, <2>1
       DEF Goes, Carries, OpenPlaces, TransitPlaces, StopPlaces, PinPlaces, NewPlaces, ReplaceSteps
<1>6. Recorded'
  <2> SUFFICES ASSUME NEW id \in recording, id # k.id
               PROVE  \/ \E w \in up' : serves[w] = id
                      \/ \E s \in Clients : /\ task'[s].at \in {"restart", "settle"}
                                            /\ task'[s].id = id
    BY <1>1, <1>3 DEF Recorded, Carries
  <2>1. \/ \E w \in up : serves[w] = id
        \/ \E s \in Clients : task[s].at \in {"restart", "settle"} /\ task[s].id = id
    BY DEF Inventory, Staff
  <2>2. ASSUME NEW s \in Clients, task[s].at \in {"restart", "settle"} PROVE task'[s] = task[s]
    BY <1>1, <1>3, <2>2 DEF Others
  <2> QED
    BY <1>1, <1>4, <2>1, <2>2
<1> QED
  BY <1>1, <1>3, <1>5, <1>6, OneGoesOn DEF Inventory, Staff

LEMMA SettleStep == ASSUME IInv, Inventory, NEW t \in Clients, Settle(t) PROVE Inventory'
<1> DEFINE k == task[t]
<1>1. /\ k.at = "settle" /\ UNCHANGED <<started, serves, up, Crew, Attended, ctl, exited, used>>
      /\ recording' = recording \ {k.id} /\ Goto(t, "fail")
  BY DEF Settle, At, OnlyActors, Later, Attended, Crew
<1>2. Others(t) /\ task'[t].at = "fail" /\ Carries(k, task'[t])
  BY <1>1, GotoIs DEF Places
<1>3. Goes(k, task'[t])
  <2>1. Own(k) = {} /\ \A v \in Attended' : ~Holds(k, v, serves[v])
    BY <1>1 DEF Own, Holds, NewPlaces
  <2> HIDE DEF k
  <2> QED
    BY <1>1, <1>2, <2>1
       DEF Goes, Carries, OpenPlaces, TransitPlaces, StopPlaces, PinPlaces, NewPlaces, ReplaceSteps
<1>4. Recorded'
  BY <1>1, <1>2 DEF Recorded, Others, Inventory, Staff
<1> QED
  BY <1>1, <1>2, <1>3, <1>4, OneGoesOn DEF Inventory, Staff

LEMMA DrainOn == ASSUME IInv, Inventory, NEW t \in Clients, Drain(t) PROVE Inventory'
<1> DEFINE k == task[t]
           rest == Warm(k.broker)
<1>1. /\ k.at = "drain" /\ UNCHANGED <<ctl, exited, used>> /\ k \in Tasks
      /\ task \in [Clients -> Tasks]
  BY DEF Drain, At, OnlyActors, Later, IInv
<1>2. CASE rest = {} /\ UNCHANGED actors /\ Goto(t, "idle")
  <2>1. Others(t) /\ task'[t] = NoTask /\ UNCHANGED <<started, serves, up, Crew, Attended, recording>>
    BY <1>2, GotoIs DEF Places, actors, Attended, Crew
  <2>2. \A v \in Attended : ~Holds(k, v, serves[v])
    <3> SUFFICES ASSUME NEW v \in Attended PROVE ~Holds(k, v, serves[v])
      OBVIOUS
    <3>1. v # 0 /\ serves[v] \in Ids
      BY AttendedCrew DEF Inventory, Staff, IInv
    <3> QED
      BY <1>1, <1>2, <3>1 DEF Holds, NewPlaces, Warm
  <2>3. Goes(k, task'[t])
    BY <1>1, <2>1, <2>2, IdlePlace, IdleFree
       DEF Goes, OpenPlaces, TransitPlaces, StopPlaces, PinPlaces, NewPlaces, ReplaceSteps
  <2>4. Recorded'
    BY <1>1, <2>1, StillRecorded DEF Inventory
  <2> QED
    BY <1>1, <2>1, <2>3, <2>4, OneGoesOn DEF Inventory, Staff
<1>3. CASE \E id \in rest : /\ ShutsDown(k.broker.warm[id])
                            /\ task' = [task EXCEPT ![t].broker.warm[id] = 0]
  <2>1. PICK id \in rest : /\ ShutsDown(k.broker.warm[id])
                           /\ task' = [task EXCEPT ![t].broker.warm[id] = 0]
    BY <1>3
  <2> DEFINE w == k.broker.warm[id]
  <2>2. /\ Attended' = Attended \ {w} /\ Crew' \subseteq Crew /\ UNCHANGED <<started, serves>>
        /\ \A i \in recording' : i \in recording /\ (w \in up \ up' => i # serves[w])
        /\ up \ {w} \subseteq up' /\ up' \subseteq up
    BY <2>1, StopIs DEF Inventory
  <2>3. /\ Others(t) /\ task'[t].at = "drain" /\ task'[t].id = k.id /\ task'[t].w = k.w
        /\ task'[t].prev = k.prev /\ task'[t].gen = k.gen /\ task'[t].token = k.token
        /\ \A i \in Ids : task'[t].broker.warm[i] = IF i = id THEN 0 ELSE k.broker.warm[i]
    BY <1>1, <2>1 DEF Others, Tasks, States, Warm
  <2>4. \A v \in Attended' : Holds(k, v, serves[v]) => Holds(task'[t], v, serves[v])
    BY <1>1, <2>2, <2>3, AttendedCrew DEF Holds, NewPlaces, Inventory, Staff
  <2>5. Goes(k, task'[t])
    BY <1>1, <2>3, <2>4
       DEF Goes, Makes, OpenPlaces, TransitPlaces, StopPlaces, PinPlaces, NewPlaces, ReplaceSteps
  <2>6. Recorded'
    BY <1>1, <2>2, <2>3, StillRecorded DEF Inventory
  <2> QED
    BY <1>1, <2>2, <2>3, <2>5, <2>6, OneGoesOn DEF Inventory, Staff
<1> QED
  BY <1>2, <1>3 DEF Drain

(* The steps of the actors by themselves.                                     *)
LEMMA ActorsOn ==
  ASSUME IInv, Inventory, NEW w \in 1 .. started,
         WorkerFault(w) \/ ActorEnds(w) \/ WorkEnds(w) \/ LateAnswer(w)
  PROVE  Inventory'
<1>1. /\ UNCHANGED <<started, serves, ctl, exited, used, task>>
      /\ Attended' \subseteq Attended /\ Crew' \subseteq Crew
      /\ \A v \in up \ up' : \/ serves[v] \notin recording'
                           \/ \E s \in Clients : task[s].at = "settle" /\ task[s].prev = v
      /\ \A id \in recording' : id \in recording \/ \E v \in up' : serves[v] = id
  BY DEF WorkerFault, ActorEnds, WorkEnds, LateAnswer, Served, Serves, Stop, Ended, OnlyActors,
         Later, At, Attended, Crew
<1>2. \A s \in Clients : Goes(task[s], task'[s])
  BY <1>1 DEF Goes, Inventory, Staff, Hired
<1>3. Recorded'
  <2>1. ASSUME NEW s \in Clients, task[s].at = "settle" PROVE serves[task[s].prev] = task[s].id
    BY <2>1 DEF Inventory, Staff, Hired, ReplaceSteps
  <2> QED
    BY <1>1, <2>1 DEF Recorded, Inventory, Staff
<1> QED
  BY <1>1, <1>2, <1>3, GoesOn DEF Inventory, Staff

(* A worker is started.                                                       *)
LEMMA StartedOn ==
  ASSUME IInv, Inventory, NEW t \in Clients, started + 1 \in Workers,
         task[t].at \in {"start", "restart"}, OnlyActors, Started(task[t].id), Others(t),
         task'[t].at = IF task[t].at = "start" THEN "commit" ELSE "configure",
         task'[t].w = started + 1, task'[t].id = task[t].id, task'[t].prev = task[t].prev,
         task'[t].gen = task[t].gen, task'[t].token = task[t].token
  PROVE  Inventory'
<1> DEFINE k == task[t]
           n == started + 1
<1>1. /\ UNCHANGED <<ctl, exited, used, recording>> /\ started \in Nat
      /\ started' = n /\ serves' = [serves EXCEPT ![n] = k.id]
      /\ up' = up \cup {n} /\ Attended' = Attended \cup {n} /\ Crew' = Crew \cup {n}
  <2>1. n \notin Crew
    BY DEF IInv, Inventory, Staff
  <2> QED
    BY <2>1 DEF OnlyActors, Later, Started, IInv, Attended, Crew
<1>2. /\ Crew \subseteq 1 .. started /\ serves \in [Workers -> Ids \cup {None}]
      /\ used \subseteq Ids /\ \A w \in 1 .. started : serves[w] \in used
      /\ \A s \in Clients : Hired(task[s]) /\ Placed(task[s], ctl)
      /\ Attended \subseteq 1 .. started /\ up \subseteq 1 .. started
  BY DEF Inventory, Staff, Fits, Attended, Crew
<1>3. k.id \in used
  <2>1. Hired(k) /\ k.prev \in Nat
    BY <1>2 DEF IInv, Tasks
  <2>2. CASE k.at = "start"
    BY <2>1, <2>2 DEF Hired, OpenPlaces
  <2>3. CASE k.at = "restart"
    <3>1. k.prev # 0 /\ k.prev <= started /\ serves[k.prev] = k.id
      BY <2>1, <2>3 DEF Hired, ReplaceSteps
    <3>2. k.prev \in 1 .. started
      BY <1>1, <2>1, <3>1
    <3> QED
      BY <1>2, <3>1, <3>2
  <2> QED
    BY <2>2, <2>3
<1>4. /\ \A w \in 1 .. started : serves'[w] = serves[w] /\ w # n
      /\ serves'[n] = k.id /\ n \in Attended' /\ n # 0 /\ serves' \in [Workers -> Ids \cup {None}]
  <2>1. \A w \in 1 .. started : w # n /\ w \in Workers
    BY <1>1, RegistryAssumption DEF Workers
  <2> QED
    BY <1>1, <1>2, <1>3, <2>1
<1>5. \A v \in Attended : serves[v] # k.id
  BY <1>2 DEF Hired, Makes, Own, OpenPlaces, ReplaceSteps, NewPlaces
<1>6. /\ task'[t].at \in OpenPlaces <=> k.at \in OpenPlaces
      /\ task'[t].at \in TransitPlaces <=> k.at \in TransitPlaces
      /\ task'[t].at \in ReplaceSteps <=> k.at \in ReplaceSteps
      /\ task'[t].at \notin StopPlaces \cup PinPlaces \cup {"drain", "finish"}
      /\ k.at \notin StopPlaces \cup PinPlaces \cup NewPlaces \cup {"drain"}
      /\ task'[t].at \in NewPlaces /\ Makes(task'[t]) /\ Makes(k) /\ Own(task'[t]) = {n}
  BY DEF OpenPlaces, TransitPlaces, ReplaceSteps, StopPlaces, PinPlaces, NewPlaces, Makes, Own
<1>7. \A s \in Clients : Placed(task[s], ctl)'
  <2> SUFFICES ASSUME NEW s \in Clients PROVE Placed(task[s], ctl)'
    OBVIOUS
  <2>1. CASE s = t
    BY <1>1, <1>2, <1>6, <2>1 DEF Placed
  <2>2. CASE s # t
    BY <1>1, <1>2, <2>2 DEF Placed, Others
  <2> QED
    BY <2>1, <2>2
<1>8. \A s \in Clients : Hired(task[s])'
  <2> SUFFICES ASSUME NEW s \in Clients PROVE Hired(task[s])'
    OBVIOUS
  <2>1. Hired(task[s]) /\ task[s].w \in Nat /\ task[s].prev \in Nat
    BY <1>2 DEF IInv, Tasks
  <2>2. CASE s = t
    <3>1. k.prev # 0 => serves'[k.prev] = serves[k.prev]
      BY <1>1, <1>4, <2>1, <2>2 DEF Hired
    <3>2. \A v \in Attended' : serves'[v] = k.id => v = n
      BY <1>1, <1>2, <1>4, <1>5
    <3> QED
      BY <1>1, <1>4, <1>6, <2>1, <2>2, <3>1, <3>2 DEF Hired
  <2>3. CASE s # t
    <3>1. task'[s] = task[s] /\ Hired(task[s])
      BY <2>1, <2>3 DEF Others
    <3>2. Makes(task[s]) => task[s].id # k.id
      BY <1>6, <2>3 DEF Inventory, Staff
    <3>3. /\ task[s].prev # 0 => serves'[task[s].prev] = serves[task[s].prev]
          /\ task[s].w # 0 => serves'[task[s].w] = serves[task[s].w]
          /\ task[s].w # n /\ task[s].w <= n /\ task[s].prev <= n
      BY <1>1, <1>4, <2>1 DEF Hired
    <3> QED
      BY <1>1, <1>2, <1>4, <3>1, <3>2, <3>3 DEF Hired
  <2> QED
    BY <2>2, <2>3
<1>9. Fits(ctl)'
  <2>1. Fits(ctl)
    BY DEF Inventory
  <2>2. \A w \in Attended' : \/ ctl.sessions[serves'[w]] = w
                       \/ \E s \in Clients : Holds(task'[s], w, serves'[w])
    <3> SUFFICES ASSUME NEW w \in Attended'
                 PROVE  \/ ctl.sessions[serves'[w]] = w
                        \/ \E s \in Clients : Holds(task'[s], w, serves'[w])
      OBVIOUS
    <3>1. CASE w = n
      BY <1>4, <1>6, <3>1 DEF Holds
    <3>2. CASE w \in Attended
      <4>1. serves'[w] = serves[w]
        BY <1>2, <1>4, <3>2
      <4>2. CASE ctl.sessions[serves[w]] = w
        BY <4>1, <4>2
      <4>3. ASSUME NEW s \in Clients, Holds(task[s], w, serves[w])
            PROVE  Holds(task'[s], w, serves'[w])
        BY <1>6, <4>1, <4>3 DEF Holds, Others
      <4> QED
        BY <2>1, <3>2, <4>2, <4>3 DEF Fits
    <3> QED
      BY <1>1, <3>1, <3>2
  <2>3. \A id \in ctl.pending : \E s \in Clients : task'[s].at \in OpenPlaces /\ task'[s].id = id
    BY <1>6, <2>1 DEF Fits, Others
  <2>4. \A id \in ctl.closing : \E s \in Clients : task'[s].at \in StopPlaces /\ task'[s].id = id
    BY <1>6, <2>1 DEF Fits, Others
  <2>5. ctl.starting # NoPin =>
           \E s \in Clients : task'[s].at \in PinPlaces /\ task'[s].token = ctl.starting
    BY <1>6, <2>1 DEF Fits, Others
  <2>6. ctl.transition # 0 => \E s \in Clients : task'[s].at \in TransitPlaces
    BY <1>6, <2>1 DEF Fits, Others
  <2>7. \A id \in Ids : ctl.sessions[id] # 0 =>
           ctl.sessions[id] \in 1 .. n /\ serves'[ctl.sessions[id]] = id
    <3> SUFFICES ASSUME NEW id \in Ids, ctl.sessions[id] # 0
                 PROVE  ctl.sessions[id] \in 1 .. n /\ serves'[ctl.sessions[id]] = id
      OBVIOUS
    <3>1. ctl.sessions[id] \in 1 .. started /\ serves[ctl.sessions[id]] = id
      BY <2>1 DEF Fits
    <3> QED
      BY <1>1, <1>4, <3>1
  <2> QED
    BY <1>1, <1>7, <2>1, <2>2, <2>3, <2>4, <2>5, <2>6, <2>7 DEF Fits, Detached
<1>10. Staff'
  <2>1. Crew' \subseteq 1 .. started' /\ \A w \in 1 .. started' : serves'[w] \in used
    <3>1. \A w \in 1 .. n : w \in 1 .. started \/ w = n
      BY <1>1
    <3>2. 1 .. started \subseteq 1 .. n /\ n \in 1 .. n
      BY <1>1
    <3> QED
      BY <1>1, <1>2, <1>3, <1>4, <3>1, <3>2
  <2>2. \A v, w \in Attended' : serves'[v] = serves'[w] => v = w
    BY <1>1, <1>2, <1>4, <1>5 DEF Inventory, Staff
  <2>3. \A x, y \in Clients :
            x # y => /\ ~(task'[x].at \in TransitPlaces /\ task'[y].at \in TransitPlaces)
                     /\ Makes(task'[x]) /\ Makes(task'[y]) => task'[x].id # task'[y].id
    BY <1>6 DEF Inventory, Staff, Others
  <2>4. Recorded'
    <3> SUFFICES ASSUME NEW id \in recording
                 PROVE  \/ \E w \in up' : serves'[w] = id
                        \/ \E s \in Clients : /\ task'[s].at \in {"restart", "settle"}
                                              /\ task'[s].id = id
      BY <1>1 DEF Recorded
    <3>1. \/ \E w \in up : serves[w] = id
          \/ \E s \in Clients : task[s].at \in {"restart", "settle"} /\ task[s].id = id
      BY DEF Inventory, Staff
    <3>2. CASE \E w \in up : serves[w] = id
      BY <1>1, <1>2, <1>4, <3>2
    <3>3. ASSUME NEW s \in Clients, task[s].at \in {"restart", "settle"}, task[s].id = id
          PROVE  \/ id = k.id
                 \/ task'[s].at \in {"restart", "settle"} /\ task'[s].id = id
      BY <3>3 DEF Others
    <3> QED
      BY <1>1, <1>4, <3>1, <3>2, <3>3
  <2> QED
    BY <1>1, <1>2, <1>4, <1>8, <2>1, <2>2, <2>3, <2>4 DEF Staff, Recorded
<1> QED
  BY <1>9, <1>10 DEF Inventory

LEMMA StartsOn ==
  ASSUME IInv, Inventory, NEW t \in Clients, OpenStart(t) \/ Restart(t), started + 1 \in Workers
  PROVE  Inventory'
<1> DEFINE k == task[t]
<1>1. k \in Tasks /\ task \in [Clients -> Tasks] /\ started \in Nat
  BY DEF IInv
<1>2. CASE Started(k.id) /\ k.at = "start" /\ OnlyActors
           /\ task' = [task EXCEPT ![t].at = "commit", ![t].w = started + 1]
  BY <1>1, <1>2, StartedOn DEF Others, Tasks
<1>3. CASE Started(k.id) /\ k.at = "restart" /\ OnlyActors
           /\ task' = [task EXCEPT ![t].at = "configure", ![t].w = started + 1]
  BY <1>1, <1>3, StartedOn DEF Others, Tasks
<1>4. CASE k.at = "start" /\ UNCHANGED actors /\ Goto(t, "cancel") /\ OnlyActors
  <2>1. Along(k.at, "cancel")
    BY <1>4 DEF Along, Places, OpenPlaces, TransitPlaces, StopPlaces, PinPlaces, NewPlaces,
                ReplaceSteps
  <2> QED
    BY <1>4, <2>1, PlainOn DEF actors, Attended, Crew, OnlyActors, Later
<1>5. CASE k.at = "restart" /\ UNCHANGED actors /\ Goto(t, "settle") /\ OnlyActors
  <2>1. Others(t) /\ task'[t].at = "settle" /\ Carries(k, task'[t])
    BY <1>5, GotoIs DEF Places
  <2>2. Goes(k, task'[t])
    <3>1. Own(k) = {} /\ \A v \in Attended' : ~Holds(k, v, serves[v])
      BY <1>5 DEF Own, Holds, NewPlaces
    <3> HIDE DEF k
    <3> QED
      BY <1>5, <2>1, <3>1
         DEF Goes, Carries, OpenPlaces, TransitPlaces, StopPlaces, PinPlaces, NewPlaces, ReplaceSteps
  <2>3. Recorded'
    BY <1>5, <2>1 DEF Recorded, Others, Carries, Inventory, Staff, actors
  <2> QED
    BY <1>5, <2>1, <2>2, <2>3, OneGoesOn DEF Inventory, Staff, Attended, Crew, actors, OnlyActors, Later
<1> QED
  BY <1>2, <1>3, <1>4, <1>5 DEF OpenStart, Restart, At

-----------------------------------------------------------------------------
(* What a section that reaps finds gone: entries of workers that have ended.  *)
Reaped(c, d) ==
    /\ d.pending = c.pending /\ d.transition = c.transition /\ d.replacing = c.replacing
    /\ d.closing \subseteq c.closing /\ d.starting \in {NoPin, c.starting}
    /\ \A id \in Ids : \/ d.sessions[id] = c.sessions[id]
                       \/ d.sessions[id] = 0 /\ c.sessions[id] \notin Attended /\ id # c.replacing

LEMMA ReapReaps ==
  ASSUME NEW c \in Controllers
  PROVE  Reaped(c, Reap(c))
<1> DEFINE gone == {id \in Ids \ {c.replacing} : c.sessions[id] \notin up \cup {0}}
           lost == {id \in gone \ c.closing : c.broker.warm[id] = c.sessions[id]}
           b == Faulted(c.broker, lost)
           s == IF c.starting = b.pin THEN c.starting ELSE NoPin
           r == [c EXCEPT !.sessions = [id \in Ids |-> IF id \in gone THEN 0 ELSE @[id]],
                          !.closing = @ \ gone, !.broker = b, !.starting = s]
           q == [r EXCEPT !.broker = Released(b, b.pin)]
<1> HIDE DEF lost, b, s
<1>1. /\ r.pending = c.pending /\ r.transition = c.transition /\ r.replacing = c.replacing
      /\ r.closing = c.closing \ gone /\ r.starting = s
      /\ \A id \in Ids : r.sessions[id] = IF id \in gone THEN 0 ELSE c.sessions[id]
  BY DEF Controllers
<1>2. /\ q.pending = c.pending /\ q.transition = c.transition /\ q.replacing = c.replacing
      /\ q.closing = c.closing \ gone /\ q.starting = s
      /\ \A id \in Ids : q.sessions[id] = IF id \in gone THEN 0 ELSE c.sessions[id]
  BY DEF Controllers
<1>3. Reaped(c, r) /\ Reaped(c, q)
  BY <1>1, <1>2 DEF Reaped, Attended, s
<1>4. Reap(c) \in {r, q}
  BY DEF Reap, r, q, b, s, lost, gone
<1> QED
  BY <1>3, <1>4

LEMMA FitsReaped ==
  ASSUME IInv, Staff, NEW c, NEW d, Fits(c), Reaped(c, d)
  PROVE  Fits(d)
<1>1. \A t \in Clients : Placed(task[t], d)
  <2> SUFFICES ASSUME NEW t \in Clients PROVE Placed(task[t], d)
    OBVIOUS
  <2>1. /\ Placed(task[t], c)
        /\ task[t].at \in StopPlaces \cup ReplaceSteps => task[t].id \in Ids
    BY DEF Fits, IInv, TaskOK, StopPlaces, ReplaceSteps
  <2> QED
    BY <2>1 DEF Placed, Reaped
<1>2. \A w \in Attended : \/ d.sessions[serves[w]] = w
                    \/ \E t \in Clients : Holds(task[t], w, serves[w])
  <2> SUFFICES ASSUME NEW w \in Attended, c.sessions[serves[w]] = w PROVE d.sessions[serves[w]] = w
    BY DEF Fits
  <2>1. serves[w] \in Ids
    BY AttendedCrew DEF Staff
  <2> QED
    BY <2>1 DEF Reaped
<1>3. exited => Detached(d)
  BY DEF Fits, Detached, Reaped
<1> QED
  BY <1>1, <1>2, <1>3 DEF Fits, Reaped

Calm == UNCHANGED <<started, serves, up, Crew, Attended, recording, exited>>

LEMMA ControllerCalm == OnlyController => Calm /\ UNCHANGED used
  BY DEF OnlyController, actors, Later, Calm, Attended, Crew

LEMMA StaffOn ==
  ASSUME IInv, Staff, Calm, NEW t \in Clients, Others(t), used \subseteq used', used' \subseteq Ids,
         Hired(task[t])', task[t].at \notin {"restart", "settle"},
         task'[t].at \in TransitPlaces =>
             \A s \in Clients \ {t} : task[s].at \notin TransitPlaces,
         Makes(task'[t]) =>
             \A s \in Clients \ {t} : Makes(task[s]) => task[s].id # task'[t].id
  PROVE  Staff'
<1>1. \A s \in Clients : Hired(task[s])'
  <2> SUFFICES ASSUME NEW s \in Clients, s # t PROVE Hired(task[s])'
    OBVIOUS
  <2>1. task'[s] = task[s] /\ Hired(task[s])
    BY DEF Others, Staff
  <2> QED
    BY <2>1 DEF Hired, Calm
<1>2. Recorded'
  BY StillRecorded DEF Calm
<1>3. \A x, y \in Clients :
        x # y => /\ ~(task'[x].at \in TransitPlaces /\ task'[y].at \in TransitPlaces)
                 /\ Makes(task'[x]) /\ Makes(task'[y]) => task'[x].id # task'[y].id
  <2> SUFFICES ASSUME NEW x \in Clients, NEW y \in Clients, x # y
               PROVE  /\ ~(task'[x].at \in TransitPlaces /\ task'[y].at \in TransitPlaces)
                      /\ Makes(task'[x]) /\ Makes(task'[y]) => task'[x].id # task'[y].id
    OBVIOUS
  <2>1. CASE x = t
    BY <2>1 DEF Others
  <2>2. CASE y = t
    BY <2>2 DEF Others
  <2>3. CASE x # t /\ y # t
    BY <2>3 DEF Others, Staff
  <2> QED
    BY <2>1, <2>2, <2>3
<1> QED
  BY <1>1, <1>2, <1>3 DEF Staff, Recorded, Calm

(* A lease transition or a replacement ends.                                  *)
LEMMA TransitEnds ==
  ASSUME IInv, Inventory, Calm, used' = used, NEW t \in Clients, Others(t),
         task[t].at \in TransitPlaces \ {"restart", "settle"},
         task'[t].at \in {"idle", "unshow", "reshow", "viewport"},
         task'[t].w \in {0, task[t].w}, task'[t].prev \in {0, task[t].prev},
         ctl'.transition = 0, ctl'.replacing = None, ctl'.pending = ctl.pending,
         ctl'.closing \subseteq ctl.closing, ctl'.starting \in {NoPin, ctl.starting},
         \A id \in Ids :
            \/ ctl'.sessions[id] = ctl.sessions[id]
            \/ ctl'.sessions[id] = 0 /\ ctl.sessions[id] \notin Attended
            \/ /\ task[t].at = "install" /\ id = task[t].id /\ ctl'.sessions[id] = task[t].w
               /\ ~exited,
         task[t].at \in NewPlaces => ctl'.sessions[task[t].id] = task[t].w
  PROVE  Inventory'
<1> DEFINE k == task[t]
           l == task'[t]
<1>1. /\ l.at \notin TransitPlaces \cup OpenPlaces \cup StopPlaces \cup PinPlaces \cup NewPlaces
      /\ l.at \notin ReplaceSteps /\ l.at \notin {"drain", "finish"} /\ ~Makes(l)
  BY DEF TransitPlaces, OpenPlaces, StopPlaces, PinPlaces, NewPlaces, ReplaceSteps, Makes
<1>2. k.at \notin OpenPlaces \cup StopPlaces \cup PinPlaces \cup {"drain"}
  BY DEF TransitPlaces, OpenPlaces, StopPlaces, PinPlaces, ReplaceSteps
<1>3. /\ \A s \in Clients : Placed(task[s], ctl) /\ Hired(task[s])
      /\ Fits(ctl) /\ Staff /\ k.w \in Nat /\ k.prev \in Nat /\ started \in Nat
      /\ \A s \in Clients : TaskOK(task[s], ctl, used)
  BY DEF Inventory, Fits, Staff, IInv, Tasks
<1>4. k.at = "install" => /\ ~exited => ctl.sessions[k.id] = k.prev /\ ctl.transition = k.gen
                          /\ k.id \in Ids /\ k.prev # 0 /\ k.gen # 0
                          /\ k.w # 0 /\ k.w <= started /\ serves[k.w] = k.id
                          /\ \A v \in Attended : serves[v] = k.id => v = k.w
  BY <1>3 DEF Placed, Hired, TransitPlaces, ReplaceSteps, NewPlaces, Makes, Own, TaskOK
<1>5. k.at = "install" /\ ~exited => k.id \notin ctl.closing
  BY <1>3, <1>4 DEF TaskOK, InTransition, ReplaceSteps
<1>6. \A s \in Clients : Placed(task[s], ctl)'
  <2> SUFFICES ASSUME NEW s \in Clients PROVE Placed(task[s], ctl)'
    OBVIOUS
  <2>1. CASE s = t
    BY <1>1, <2>1 DEF Placed
  <2>2. CASE s # t
    <3>1. task'[s] = task[s] /\ task[s].at \notin TransitPlaces
      BY <1>3, <2>2 DEF Others, Staff
    <3>2. task[s].at \notin ReplaceSteps
      BY <3>1 DEF TransitPlaces
    <3>3. task[s].at \in StopPlaces =>
              /\ task[s].id \in Ids
              /\ task[s].id \in ctl.closing \/ ctl.sessions[task[s].id] = 0
      BY <1>3 DEF TaskOK, StopPlaces
    <3>4. task[s].at \in StopPlaces => ctl'.sessions[task[s].id] \in {0, task[s].w}
      BY <1>3, <1>4, <1>5, <3>3 DEF Placed
    <3> QED
      BY <1>3, <3>1, <3>2, <3>4 DEF Placed, Calm
  <2> QED
    BY <2>1, <2>2
<1>7. Fits(ctl)'
  <2>1. \A id \in ctl'.pending : \E s \in Clients : task'[s].at \in OpenPlaces /\ task'[s].id = id
    BY <1>2, <1>3 DEF Fits, Others
  <2>2. \A id \in ctl'.closing : \E s \in Clients : task'[s].at \in StopPlaces /\ task'[s].id = id
    BY <1>2, <1>3 DEF Fits, Others
  <2>3. ctl'.starting # NoPin =>
           \E s \in Clients : task'[s].at \in PinPlaces /\ task'[s].token = ctl'.starting
    BY <1>2, <1>3 DEF Fits, Others
  <2>4. \A id \in Ids : ctl'.sessions[id] # 0 =>
           ctl'.sessions[id] \in 1 .. started /\ serves[ctl'.sessions[id]] = id
    BY <1>3, <1>4 DEF Fits
  <2>5. \A w \in Attended : \/ ctl'.sessions[serves[w]] = w
                      \/ \E s \in Clients : Holds(task'[s], w, serves[w])
    <3> SUFFICES ASSUME NEW w \in Attended
                 PROVE  \/ ctl'.sessions[serves[w]] = w
                        \/ \E s \in Clients : Holds(task'[s], w, serves[w])
      OBVIOUS
    <3>1. serves[w] \in Ids
      BY <1>3, AttendedCrew DEF Staff
    <3>2. CASE ctl.sessions[serves[w]] = w
      BY <1>4, <3>1, <3>2
    <3>3. ASSUME NEW s \in Clients, Holds(task[s], w, serves[w])
          PROVE  ctl'.sessions[serves[w]] = w \/ Holds(task'[s], w, serves[w])
      BY <1>2, <3>3 DEF Holds, Others
    <3> QED
      BY <1>3, <3>2, <3>3 DEF Fits
  <2>6. exited => Detached(ctl')
    BY <1>3, <1>4 DEF Fits, Detached
  <2> QED
    BY <1>6, <2>1, <2>2, <2>3, <2>4, <2>5, <2>6 DEF Fits, Detached, Calm
<1>8. Hired(task[t])'
  BY <1>1, <1>3 DEF Hired, Calm
<1> QED
  BY <1>1, <1>3, <1>7, <1>8, StaffOn DEF Inventory, Staff

LEMMA TransitPlacesAre ==
  /\ {"abort", "complete", "fail", "install"} \subseteq TransitPlaces \ {"restart", "settle"}
  /\ {"abort", "complete", "fail"} \cap NewPlaces = {} /\ "install" \in NewPlaces \cap ReplaceSteps
  /\ "fail" \in ReplaceSteps \ {"preflight", "swap"}
  BY DEF TransitPlaces, NewPlaces, ReplaceSteps

(* The controller a command in transition ends the transition of.             *)
LEMMA EndsOwn ==
  ASSUME IInv, Inventory, NEW t \in Clients, task[t].at \in TransitPlaces
  PROVE  /\ ctl.transition = task[t].gen \/ (ctl.transition = 0 /\ ctl.replacing = None)
         /\ task[t].gen # 0 \/ exited
<1>1. /\ Placed(task[t], ctl) /\ (exited => Detached(ctl))
      /\ ctl.transition = 0 => ctl.replacing = None
  BY DEF Inventory, Fits
<1> QED
  BY <1>1 DEF Placed, Detached

LEMMA GoneTask ==
  ASSUME IInv, NEW t \in Clients, NEW at \in {"idle", "unshow", "reshow", "viewport"}, Goto(t, at)
  PROVE  /\ Others(t) /\ task'[t].at = at
         /\ task'[t].w \in {0, task[t].w} /\ task'[t].prev \in {0, task[t].prev}
<1>1. at \in Places
  BY DEF Places
<1> QED
  BY <1>1, GotoIs, IdlePlace DEF Carries

LEMMA AbortOn == ASSUME IInv, Inventory, NEW t \in Clients, Abort(t) PROVE Inventory'
<1>1. /\ task[t].at = "abort" /\ Goto(t, "idle") /\ Calm /\ UNCHANGED used
      /\ ctl' = Aborted(ctl, task[t].gen) /\ ctl \in Controllers
  BY ControllerCalm DEF Abort, At, IInv, ControllerOK
<1>2. ctl.transition = task[t].gen \/ (ctl.transition = 0 /\ ctl.replacing = None)
  BY <1>1, EndsOwn, TransitPlacesAre
<1>3. /\ ctl'.transition = 0 /\ ctl'.replacing = None /\ ctl'.pending = ctl.pending
      /\ ctl'.closing = ctl.closing /\ ctl'.starting = ctl.starting
      /\ ctl'.sessions = ctl.sessions
  BY <1>1, <1>2 DEF Aborted, Idled, Controllers
<1> QED
  BY <1>1, <1>3, GoneTask, TransitEnds, TransitPlacesAre

LEMMA CompleteOn == ASSUME IInv, Inventory, NEW t \in Clients, Complete(t) PROVE Inventory'
<1> DEFINE k == task[t]
<1>1. k.at = "complete" /\ Calm /\ UNCHANGED used /\ ctl \in Controllers /\ k.broker \in States
  BY ControllerCalm DEF Complete, At, IInv, ControllerOK, Tasks
<1>2. ctl.transition = k.gen \/ (ctl.transition = 0 /\ ctl.replacing = None)
  BY <1>1, EndsOwn, TransitPlacesAre
<1>3. PICK at \in {"idle", "unshow", "reshow"} : Goto(t, at)
  BY DEF Complete
<1>4. /\ ctl'.transition = 0 /\ ctl'.replacing = None /\ ctl'.pending = ctl.pending
      /\ ctl'.closing \subseteq ctl.closing /\ ctl'.starting \in {NoPin, ctl.starting}
      /\ \A id \in Ids : \/ ctl'.sessions[id] = ctl.sessions[id]
                         \/ ctl'.sessions[id] = 0 /\ ctl.sessions[id] \notin Attended
  <2>1. CASE ctl' = Aborted(ctl, k.gen)
    BY <1>1, <1>2, <2>1 DEF Aborted, Idled, Controllers
  <2> DEFINE c == [Idled(ctl) EXCEPT !.broker = k.broker]
  <2>2. CASE ctl' = Reap(c)
    <3>1. /\ c \in Controllers /\ c.transition = 0 /\ c.replacing = None
          /\ c.pending = ctl.pending /\ c.closing = ctl.closing /\ c.starting = ctl.starting
          /\ c.sessions = ctl.sessions
      BY <1>1 DEF Idled, Controllers
    <3> HIDE DEF c
    <3>2. Reaped(c, Reap(c))
      BY <3>1, ReapReaps
    <3> QED
      BY <2>2, <3>1, <3>2 DEF Reaped
  <2> QED
    BY <2>1, <2>2 DEF Complete
<1> QED
  BY <1>1, <1>3, <1>4, GoneTask, TransitEnds, TransitPlacesAre

LEMMA InstallOn == ASSUME IInv, Inventory, NEW t \in Clients, Install(t) PROVE Inventory'
<1> DEFINE k == task[t]
           id == k.id
<1>1. /\ k.at = "install" /\ Calm /\ UNCHANGED used /\ ctl \in Controllers /\ id \in Ids
      /\ k.w \in Nat
  BY ControllerCalm DEF Install, At, IInv, ControllerOK, Tasks, TaskOK, ReplaceSteps
<1>2. CASE UNCHANGED ctl /\ Goto(t, "discard")
  <2>1. Along(k.at, "discard")
    BY <1>1 DEF Along, Places, OpenPlaces, TransitPlaces, StopPlaces, PinPlaces, NewPlaces,
                ReplaceSteps
  <2> QED
    BY <1>1, <1>2, <2>1, PlainOn DEF Calm
<1>3. CASE /\ ctl.transition = k.gen /\ ctl.sessions[id] = k.prev
           /\ ctl' = [Idled(ctl) EXCEPT !.sessions[id] = k.w, !.broker = Bound(@, id, k.w)]
           /\ Goto(t, "viewport")
  <2>1. /\ ctl'.transition = 0 /\ ctl'.replacing = None /\ ctl'.pending = ctl.pending
        /\ ctl'.closing = ctl.closing /\ ctl'.starting = ctl.starting
        /\ ctl'.sessions = [ctl.sessions EXCEPT ![id] = k.w]
    BY <1>1, <1>3 DEF Idled, Controllers
  <2>2. \A i \in Ids : ctl'.sessions[i] = IF i = id THEN k.w ELSE ctl.sessions[i]
    BY <1>1, <2>1 DEF Controllers
  <2>3. ~exited
    <3>1. task[t].gen # 0 \/ exited
      BY <1>1, EndsOwn, TransitPlacesAre
    <3>2. k.prev # 0
      BY <1>1, TransitPlacesAre DEF Inventory, Staff, Hired
    <3> QED
      BY <1>1, <1>3, <3>2 DEF Inventory, Fits, Detached
  <2> QED
    BY <1>1, <1>3, <2>1, <2>2, <2>3, GoneTask, TransitEnds, TransitPlacesAre
<1> QED
  BY <1>2, <1>3 DEF Install

LEMMA FailOn == ASSUME IInv, Inventory, NEW t \in Clients, Fail(t) PROVE Inventory'
<1> DEFINE k == task[t]
           id == k.id
<1>1. /\ k.at = "fail" /\ Calm /\ UNCHANGED used /\ ctl \in Controllers /\ id \in Ids
      /\ Goto(t, "idle")
  BY ControllerCalm DEF Fail, At, IInv, ControllerOK, TaskOK, ReplaceSteps
<1>2. ctl.transition = k.gen \/ (ctl.transition = 0 /\ ctl.replacing = None)
  BY <1>1, EndsOwn, TransitPlacesAre
<1>3. k.prev \notin Attended
  <2>1. serves[k.prev] = id /\ Makes(k) /\ Own(k) = {}
    BY <1>1 DEF Inventory, Staff, Hired, Makes, Own, ReplaceSteps, NewPlaces
  <2> QED
    BY <2>1 DEF Inventory, Staff, Hired
<1>4. /\ ctl'.transition = 0 /\ ctl'.replacing = None /\ ctl'.pending = ctl.pending
      /\ ctl'.closing = ctl.closing /\ ctl'.starting \in {NoPin, ctl.starting}
      /\ \A i \in Ids : \/ ctl'.sessions[i] = ctl.sessions[i]
                        \/ ctl'.sessions[i] = 0 /\ ctl.sessions[i] \notin Attended
  <2>1. CASE ctl' \in {ctl, Idled(ctl)} /\ (ctl' = ctl => ctl.transition # k.gen)
    BY <1>1, <1>2, <2>1 DEF Idled, Controllers
  <2> DEFINE c == Idled(ctl)
             b == Faulted(c.broker, {id})
             s == IF c.starting.id = id THEN NoPin ELSE c.starting
             d == [c EXCEPT !.sessions[id] = 0, !.broker = b, !.starting = s]
  <2>2. CASE ctl.sessions[id] = k.prev /\ ctl' = d
    <3>1. /\ c \in Controllers /\ c.transition = 0 /\ c.replacing = None
          /\ c.pending = ctl.pending /\ c.closing = ctl.closing /\ c.starting = ctl.starting
          /\ c.sessions = ctl.sessions
      BY <1>1 DEF Idled, Controllers
    <3> HIDE DEF c, b
    <3>2. /\ d.transition = 0 /\ d.replacing = None /\ d.pending = c.pending
          /\ d.closing = c.closing /\ d.starting = s
          /\ d.sessions = [c.sessions EXCEPT ![id] = 0]
      BY <3>1 DEF Controllers
    <3> HIDE DEF d
    <3>3. \A i \in Ids : d.sessions[i] = IF i = id THEN 0 ELSE ctl.sessions[i]
      BY <1>1, <3>1, <3>2 DEF Controllers
    <3> QED
      BY <1>3, <2>2, <3>1, <3>2, <3>3
  <2> QED
    BY <2>1, <2>2 DEF Fail, Idled
<1> QED
  BY <1>1, <1>4, GoneTask, TransitEnds, TransitPlacesAre

(* An open: the reservation becomes a session, or is given back.              *)
LEMMA OpenEnds ==
  ASSUME IInv, Inventory, Calm, used' = used, NEW t \in Clients, Others(t),
         task[t].at \in {"commit", "cancel"}, task'[t].at \in {"viewport", "idle"},
         task'[t].w \in {0, task[t].w}, task'[t].prev \in {0, task[t].prev},
         ctl'.transition = ctl.transition, ctl'.replacing = ctl.replacing,
         ctl'.pending = ctl.pending \ {task[t].id}, ctl'.closing = ctl.closing,
         ctl'.starting = ctl.starting,
         \/ task[t].at = "cancel" /\ ctl'.sessions = ctl.sessions
         \/ /\ task[t].at = "commit" /\ task[t].id \in ctl.pending
            /\ \A i \in Ids : ctl'.sessions[i] = IF i = task[t].id THEN task[t].w ELSE ctl.sessions[i]
  PROVE  Inventory'
<1> DEFINE k == task[t]
           l == task'[t]
           id == k.id
<1>1. /\ l.at \notin TransitPlaces \cup OpenPlaces \cup StopPlaces \cup PinPlaces \cup NewPlaces
      /\ l.at \notin ReplaceSteps /\ l.at \notin {"drain", "finish"} /\ ~Makes(l)
  BY DEF TransitPlaces, OpenPlaces, StopPlaces, PinPlaces, NewPlaces, ReplaceSteps, Makes
<1>2. /\ k.at \notin TransitPlaces \cup StopPlaces \cup PinPlaces \cup ReplaceSteps \cup {"drain"}
      /\ k.at \in OpenPlaces /\ Makes(k) /\ (k.at \in NewPlaces <=> k.at = "commit")
  BY DEF TransitPlaces, OpenPlaces, StopPlaces, PinPlaces, ReplaceSteps, NewPlaces, Makes
<1>3. /\ \A s \in Clients : Placed(task[s], ctl) /\ Hired(task[s])
      /\ Fits(ctl) /\ Staff /\ k.w \in Nat /\ k.prev \in Nat /\ started \in Nat
      /\ \A s \in Clients : TaskOK(task[s], ctl, used) /\ task[s].id \in Ids \cup {None}
      /\ \A i \in ctl.pending : i \in Ids /\ ctl.sessions[i] = 0
  BY DEF Inventory, Fits, Staff, IInv, Tasks, ControllerOK, Controllers
<1>4. k.at = "commit" => /\ k.w # 0 /\ k.w <= started /\ serves[k.w] = id
                         /\ id \in Ids /\ ctl.sessions[id] = 0 /\ ~exited
  BY <1>2, <1>3 DEF Hired, Fits, Detached
<1>5. \A s \in Clients : Placed(task[s], ctl)'
  <2> SUFFICES ASSUME NEW s \in Clients PROVE Placed(task[s], ctl)'
    OBVIOUS
  <2>1. CASE s = t
    BY <1>1, <2>1 DEF Placed
  <2>2. CASE s # t
    <3>1. task'[s] = task[s] /\ (Makes(task[s]) => task[s].id # id)
      BY <1>2, <1>3, <2>2 DEF Others, Staff
    <3>2. task[s].at \in StopPlaces => task[s].id \in Ids /\ task[s].id \notin ctl.pending
      BY <1>3 DEF TaskOK, StopPlaces
    <3>3. task[s].at \in StopPlaces => ctl'.sessions[task[s].id] \in {0, task[s].w}
      BY <1>3, <3>2 DEF Placed
    <3>4. task[s].at \in ReplaceSteps => task[s].id \in Ids
      BY <1>3 DEF TaskOK, ReplaceSteps
    <3> QED
      BY <1>3, <3>1, <3>3, <3>4 DEF Placed, Calm, Makes
  <2> QED
    BY <2>1, <2>2
<1>6. Fits(ctl)'
  <2>1. \A i \in ctl'.pending : \E s \in Clients : task'[s].at \in OpenPlaces /\ task'[s].id = i
    BY <1>3 DEF Fits, Others
  <2>2. \A i \in ctl'.closing : \E s \in Clients : task'[s].at \in StopPlaces /\ task'[s].id = i
    BY <1>2, <1>3 DEF Fits, Others
  <2>3. ctl'.starting # NoPin =>
           \E s \in Clients : task'[s].at \in PinPlaces /\ task'[s].token = ctl'.starting
    BY <1>2, <1>3 DEF Fits, Others
  <2>4. ctl'.transition # 0 => \E s \in Clients : task'[s].at \in TransitPlaces
    BY <1>2, <1>3 DEF Fits, Others
  <2>5. \A i \in Ids : ctl'.sessions[i] # 0 =>
           ctl'.sessions[i] \in 1 .. started /\ serves[ctl'.sessions[i]] = i
    BY <1>3, <1>4 DEF Fits
  <2>6. \A w \in Attended : \/ ctl'.sessions[serves[w]] = w
                      \/ \E s \in Clients : Holds(task'[s], w, serves[w])
    <3> SUFFICES ASSUME NEW w \in Attended
                 PROVE  \/ ctl'.sessions[serves[w]] = w
                        \/ \E s \in Clients : Holds(task'[s], w, serves[w])
      OBVIOUS
    <3>1. serves[w] \in Ids /\ w # 0
      BY <1>3, AttendedCrew DEF Staff
    <3>2. CASE ctl.sessions[serves[w]] = w
      BY <1>4, <3>1, <3>2
    <3>3. ASSUME NEW s \in Clients, Holds(task[s], w, serves[w])
          PROVE  ctl'.sessions[serves[w]] = w \/ Holds(task'[s], w, serves[w])
      BY <1>2, <1>4, <3>3 DEF Holds, Others
    <3> QED
      BY <1>3, <3>2, <3>3 DEF Fits
  <2>7. exited => Detached(ctl')
    BY <1>3, <1>4 DEF Fits, Detached
  <2> QED
    BY <1>3, <1>5, <2>1, <2>2, <2>3, <2>4, <2>5, <2>6, <2>7 DEF Fits, Detached, Calm
<1>7. Hired(task[t])'
  BY <1>1, <1>3 DEF Hired, Calm
<1> QED
  BY <1>1, <1>3, <1>6, <1>7, StaffOn DEF Inventory, Staff

LEMMA OpenSteps ==
  ASSUME IInv, Inventory, NEW t \in Clients, OpenCommit(t) \/ OpenCancel(t) PROVE Inventory'
<1> DEFINE k == task[t]
           id == k.id
<1>1. /\ Calm /\ UNCHANGED used /\ ctl \in Controllers
      /\ \A i \in ctl.pending : i \in Ids
  BY ControllerCalm DEF OpenCommit, OpenCancel, IInv, ControllerOK, Controllers
<1>2. CASE k.at = "commit" /\ UNCHANGED ctl /\ Goto(t, "abandon")
  <2>1. Along(k.at, "abandon")
    BY <1>2 DEF Along, Places, OpenPlaces, TransitPlaces, StopPlaces, PinPlaces, NewPlaces,
                ReplaceSteps
  <2> QED
    BY <1>1, <1>2, <2>1, PlainOn DEF Calm
<1>3. CASE /\ k.at = "commit" /\ id \in ctl.pending /\ Goto(t, "viewport")
           /\ ctl' = [ctl EXCEPT !.pending = @ \ {id}, !.sessions[id] = k.w,
                                 !.broker = Bound(@, id, k.w)]
  <2>1. /\ ctl'.transition = ctl.transition /\ ctl'.replacing = ctl.replacing
        /\ ctl'.pending = ctl.pending \ {id}
        /\ ctl'.closing = ctl.closing /\ ctl'.starting = ctl.starting
        /\ ctl'.sessions = [ctl.sessions EXCEPT ![id] = k.w]
    BY <1>1, <1>3 DEF Controllers
  <2>2. \A i \in Ids : ctl'.sessions[i] = IF i = id THEN k.w ELSE ctl.sessions[i]
    BY <1>1, <2>1 DEF Controllers
  <2> QED
    BY <1>1, <1>3, <2>1, <2>2, GoneTask, OpenEnds
<1>4. CASE /\ k.at = "cancel" /\ Goto(t, "idle") /\ ctl' = [ctl EXCEPT !.pending = @ \ {id}]
  <2>1. /\ ctl'.transition = ctl.transition /\ ctl'.replacing = ctl.replacing
        /\ ctl'.pending = ctl.pending \ {id}
        /\ ctl'.closing = ctl.closing /\ ctl'.starting = ctl.starting
        /\ ctl'.sessions = ctl.sessions
    BY <1>1, <1>4 DEF Controllers
  <2> QED
    BY <1>1, <1>4, <2>1, GoneTask, OpenEnds
<1> QED
  BY <1>2, <1>3, <1>4 DEF OpenCommit, OpenCancel, At

(* What a section finds after it has reaped.                                  *)
LEMMA FoundOK ==
  ASSUME IInv, Inventory
  PROVE  /\ Fits(Reap(ctl)) /\ ControllerOK(Reap(ctl), used) /\ Reap(ctl) \in Controllers
         /\ \A s \in Clients : TaskOK(task[s], Reap(ctl), used)
<1>1. ctl \in Controllers /\ ControllerOK(ctl, used)
  BY DEF IInv, ControllerOK
<1>2. Fits(Reap(ctl))
  BY <1>1, ReapReaps, FitsReaped DEF Inventory
<1>3. ControllerOK(Reap(ctl), used) /\ Kept(ctl, used, Reap(ctl), used)
  BY <1>1, ReapKept
<1>4. \A s \in Clients : TaskOK(task[s], ctl, used)
  BY DEF IInv
<1> QED
  BY <1>2, <1>3, <1>4 DEF Kept, ControllerOK

(* A session begins to be closed.                                             *)
LEMMA CloseBegins ==
  ASSUME IInv, Inventory, Calm, used' = used, NEW t \in Clients, Others(t),
         NEW r, r = Reap(ctl), NEW id \in Ids, MayClose(r, id), ctl' = Closing(r, id),
         task[t].at \in {"idle", "unopen"}, task'[t].at = "stop", task'[t].id = id,
         task'[t].w = r.sessions[id], task'[t].prev \in {0, task[t].prev}
  PROVE  Inventory'
<1> DEFINE k == task[t]
           l == task'[t]
<1>1. /\ l.at \notin TransitPlaces \cup OpenPlaces \cup PinPlaces \cup NewPlaces
      /\ l.at \notin ReplaceSteps /\ l.at \notin {"drain", "finish"} /\ ~Makes(l)
      /\ l.at \in StopPlaces
  BY DEF TransitPlaces, OpenPlaces, StopPlaces, PinPlaces, NewPlaces, ReplaceSteps, Makes
<1>2. k.at \notin TransitPlaces \cup StopPlaces \cup PinPlaces \cup NewPlaces \cup OpenPlaces
                  \cup {"drain"}
  BY DEF TransitPlaces, OpenPlaces, StopPlaces, PinPlaces, ReplaceSteps, NewPlaces
<1>3. /\ \A s \in Clients : Placed(task[s], r) /\ Hired(task[s])
      /\ Fits(r) /\ Staff /\ k.prev \in Nat /\ started \in Nat /\ r \in Controllers
      /\ \A s \in Clients : TaskOK(task[s], r, used)
  BY FoundOK DEF Inventory, Fits, Staff, IInv, Tasks
<1>4. /\ r.sessions[id] # 0 /\ r.transition = 0
      /\ ctl'.pending = r.pending /\ ctl'.transition = 0 /\ ctl'.replacing = r.replacing
      /\ ctl'.closing = r.closing \cup {id} /\ ctl'.starting = r.starting
      /\ ctl'.sessions = r.sessions
  BY <1>3 DEF MayClose, Tracked, LifecycleIdle, Closing, Controllers
<1>5. ~exited /\ r.sessions[id] \in 1 .. started
  BY <1>3, <1>4 DEF Fits, Detached
<1>6. \A s \in Clients : Placed(task[s], ctl)'
  <2> SUFFICES ASSUME NEW s \in Clients PROVE Placed(task[s], ctl)'
    OBVIOUS
  <2>1. CASE s = t
    BY <1>1, <1>4, <2>1 DEF Placed
  <2>2. CASE s # t
    BY <1>3, <1>4, <2>2 DEF Placed, Calm, Others
  <2> QED
    BY <2>1, <2>2
<1>7. Fits(ctl)'
  <2>1. \A i \in r.pending : \E s \in Clients : task'[s].at \in OpenPlaces /\ task'[s].id = i
    BY <1>2, <1>3 DEF Fits, Others
  <2>2. \A i \in ctl'.closing : \E s \in Clients : task'[s].at \in StopPlaces /\ task'[s].id = i
    BY <1>1, <1>2, <1>3, <1>4 DEF Fits, Others
  <2>3. r.starting # NoPin =>
           \E s \in Clients : task'[s].at \in PinPlaces /\ task'[s].token = r.starting
    BY <1>2, <1>3 DEF Fits, Others
  <2>4. \A w \in Attended : \/ r.sessions[serves[w]] = w
                      \/ \E s \in Clients : Holds(task'[s], w, serves[w])
    BY <1>2, <1>3 DEF Fits, Others, Holds
  <2> QED
    BY <1>3, <1>4, <1>5, <1>6, <2>1, <2>2, <2>3, <2>4 DEF Fits, Calm
<1>8. Hired(task[t])'
  BY <1>1, <1>3, <1>5 DEF Hired, Calm
<1> QED
  BY <1>1, <1>2, <1>3, <1>7, <1>8, StaffOn DEF Inventory, Staff, TransitPlaces

LEMMA CloseFinishOn == ASSUME IInv, Inventory, NEW t \in Clients, CloseFinish(t) PROVE Inventory'
<1> DEFINE k == task[t]
           id == k.id
<1>1. /\ k.at = "finish" /\ Calm /\ UNCHANGED used /\ ctl \in Controllers /\ id \in Ids
      /\ Goto(t, "idle") /\ ctl' = [ctl EXCEPT !.sessions[id] = 0, !.closing = @ \ {id}]
      /\ id \in ctl.closing \/ ctl.sessions[id] = 0
  BY ControllerCalm DEF CloseFinish, At, IInv, ControllerOK, TaskOK
<1>2. Others(t) /\ task'[t] = NoTask
  BY <1>1, GotoIs DEF Places
<1>3. k.at \notin TransitPlaces \cup OpenPlaces \cup PinPlaces \cup NewPlaces \cup ReplaceSteps
                  \cup {"drain"} /\ k.at \in StopPlaces
  BY <1>1 DEF TransitPlaces, OpenPlaces, StopPlaces, PinPlaces, ReplaceSteps, NewPlaces
<1>4. /\ \A s \in Clients : Placed(task[s], ctl) /\ Hired(task[s])
      /\ Fits(ctl) /\ Staff /\ started \in Nat
      /\ \A s \in Clients : TaskOK(task[s], ctl, used)
  BY DEF Inventory, Fits, Staff, IInv
<1>5. /\ ctl'.pending = ctl.pending /\ ctl'.transition = ctl.transition
      /\ ctl'.replacing = ctl.replacing /\ ctl'.closing = ctl.closing \ {id}
      /\ ctl'.starting = ctl.starting /\ ctl'.sessions = [ctl.sessions EXCEPT ![id] = 0]
  BY <1>1 DEF Controllers
<1>6. \A i \in Ids : ctl'.sessions[i] = IF i = id THEN 0 ELSE ctl.sessions[i]
  BY <1>1, <1>5 DEF Controllers
<1>7. \A s \in Clients : Placed(task[s], ctl)'
  <2> SUFFICES ASSUME NEW s \in Clients PROVE Placed(task[s], ctl)'
    OBVIOUS
  <2>1. CASE s = t
    BY <1>2, <2>1, IdlePlace DEF Placed
  <2>2. CASE s # t
    <3>1. task'[s] = task[s]
      BY <1>2, <2>2 DEF Others
    <3>2. task[s].at \in StopPlaces => task[s].id \in Ids
      BY <1>4 DEF TaskOK, StopPlaces
    <3>3. ASSUME task[s].at \in ReplaceSteps, ~exited PROVE task[s].id \in Ids \ {id}
      <4>1. task[s].op = "replace" /\ task[s].gen # 0 /\ task[s].gen = ctl.transition
        BY <1>4, <3>3 DEF TaskOK, Placed, TransitPlaces
      <4>2. task[s].id \notin ctl.closing /\ task[s].id \in Ids
        BY <1>4, <4>1 DEF TaskOK, InTransition
      <4>3. ctl.sessions[task[s].id] = task[s].prev /\ task[s].prev # 0
        BY <1>4, <3>3 DEF Placed, Hired
      <4> QED
        BY <1>1, <4>2, <4>3
    <3>4. Placed(task[s], ctl) /\ exited' = exited
      BY <1>1, <1>4 DEF Calm
    <3>5. task[s].at \in StopPlaces => ctl'.sessions[task[s].id] \in {0, task[s].w}
      BY <1>6, <3>2, <3>4 DEF Placed
    <3>6. task[s].at \in ReplaceSteps /\ ~exited =>
              ctl'.sessions[task[s].id] = ctl.sessions[task[s].id]
      BY <1>6, <3>3
    <3> QED
      BY <1>5, <3>1, <3>4, <3>5, <3>6 DEF Placed
  <2> QED
    BY <2>1, <2>2
<1>8. Fits(ctl)'
  <2>1. \A i \in ctl'.pending : \E s \in Clients : task'[s].at \in OpenPlaces /\ task'[s].id = i
    BY <1>2, <1>3, <1>4, <1>5 DEF Fits, Others
  <2>2. \A i \in ctl'.closing : \E s \in Clients : task'[s].at \in StopPlaces /\ task'[s].id = i
    BY <1>2, <1>4, <1>5 DEF Fits, Others
  <2>3. ctl.starting # NoPin =>
           \E s \in Clients : task'[s].at \in PinPlaces /\ task'[s].token = ctl.starting
    BY <1>2, <1>3, <1>4 DEF Fits, Others
  <2>4. ctl.transition # 0 => \E s \in Clients : task'[s].at \in TransitPlaces
    BY <1>2, <1>3, <1>4 DEF Fits, Others
  <2>5. \A w \in Attended : \/ ctl'.sessions[serves[w]] = w
                      \/ \E s \in Clients : Holds(task'[s], w, serves[w])
    <3> SUFFICES ASSUME NEW w \in Attended
                 PROVE  \/ ctl'.sessions[serves[w]] = w
                        \/ \E s \in Clients : Holds(task'[s], w, serves[w])
      OBVIOUS
    <3>1. serves[w] \in Ids /\ w # 0
      BY <1>4, AttendedCrew DEF Staff
    <3>2. k.w \notin Attended /\ ctl.sessions[id] \in {0, k.w}
      BY <1>1, <1>3, <1>4 DEF Hired, Placed
    <3>3. CASE ctl.sessions[serves[w]] = w
      BY <1>6, <3>1, <3>2, <3>3
    <3>4. ASSUME NEW s \in Clients, Holds(task[s], w, serves[w])
          PROVE  Holds(task'[s], w, serves[w])
      BY <1>2, <1>3, <3>4 DEF Holds, Others
    <3> QED
      BY <1>4, <3>3, <3>4 DEF Fits
  <2>6. exited => Detached(ctl')
    BY <1>4, <1>5, <1>6 DEF Fits, Detached
  <2> QED
    BY <1>1, <1>4, <1>5, <1>6, <1>7, <2>1, <2>2, <2>3, <2>4, <2>5, <2>6 DEF Fits, Calm, Detached
<1>9. Hired(task[t])'
  BY <1>1, <1>2, <1>4, IdlePlace DEF Hired, Calm
<1>10. k.at \notin {"restart", "settle"} /\ used \subseteq Ids
  BY <1>1, <1>4 DEF Staff
<1> QED
  BY <1>1, <1>2, <1>4, <1>8, <1>9, <1>10, IdlePlace, StaffOn DEF Inventory

(* A lease transition or a replacement begins.                                *)
LEMMA TransitBegins ==
  ASSUME IInv, Inventory, Calm, used' = used, NEW t \in Clients, Others(t),
         NEW r, r = Reap(ctl), NEW x \in Ids \cup {None}, LifecycleIdle(r), ~exited,
         ctl' = Transit(r, x), task[t].at = "idle", task'[t].at \in {"hide", "show", "preflight"},
         task'[t].gen = r.transitions + 1, task'[t].w <= started, task'[t].prev <= started,
         task'[t].at = "preflight" =>
             /\ task'[t].id = x /\ x \in Ids
             /\ task'[t].prev = r.sessions[x] /\ r.sessions[x] # 0
  PROVE  Inventory'
<1> DEFINE k == task[t]
           l == task'[t]
<1>1. /\ l.at \notin StopPlaces \cup OpenPlaces \cup PinPlaces \cup NewPlaces \cup {"drain", "finish"}
      /\ l.at \in TransitPlaces /\ (l.at \in ReplaceSteps <=> l.at = "preflight")
      /\ Makes(l) => l.at = "preflight"
  BY DEF TransitPlaces, OpenPlaces, StopPlaces, PinPlaces, NewPlaces, ReplaceSteps, Makes
<1>2. k.at \notin TransitPlaces \cup StopPlaces \cup PinPlaces \cup NewPlaces \cup OpenPlaces
                  \cup {"drain"}
  BY DEF TransitPlaces, OpenPlaces, StopPlaces, PinPlaces, ReplaceSteps, NewPlaces
<1>3. /\ \A s \in Clients : Placed(task[s], r) /\ Hired(task[s])
      /\ Fits(r) /\ Staff /\ started \in Nat /\ r \in Controllers
      /\ r.transition = 0 /\ r.transitions \in Nat
      /\ \A s \in Clients : TaskOK(task[s], r, used)
      /\ \A i \in r.pending : r.sessions[i] = 0
  BY FoundOK DEF Inventory, Fits, Staff, IInv, LifecycleIdle, ControllerOK, Controllers
<1>4. /\ ctl'.pending = r.pending /\ ctl'.transition = r.transitions + 1 /\ ctl'.replacing = x
      /\ ctl'.closing = r.closing /\ ctl'.starting = r.starting
      /\ ctl'.sessions = r.sessions /\ ctl'.transition # 0
  BY <1>3 DEF Transit, Controllers
<1>5. \A s \in Clients : task[s].at \notin TransitPlaces
  BY <1>3 DEF Placed
<1>6. l.at = "preflight" =>
          /\ l.prev \in 1 .. started /\ serves[l.prev] = x
          /\ \A w \in Attended : serves[w] = x => w = l.prev
  <2> SUFFICES ASSUME l.at = "preflight"
               PROVE  /\ l.prev \in 1 .. started /\ serves[l.prev] = x
                      /\ \A w \in Attended : serves[w] = x => w = l.prev
    OBVIOUS
  <2>1. l.prev \in 1 .. started /\ serves[l.prev] = x
    BY <1>3 DEF Fits
  <2>2. ASSUME NEW w \in Attended, serves[w] = x PROVE w = l.prev
    <3>1. CASE r.sessions[x] = w
      BY <3>1
    <3>2. ASSUME NEW s \in Clients, Holds(task[s], w, x) PROVE FALSE
      <4>1. task[s].at \notin TransitPlaces
        BY <1>5
      <4>2. task[s].at \in {"commit", "abandon"} \/ task[s].at = "drain"
        BY <3>2, <4>1 DEF Holds, NewPlaces, TransitPlaces, ReplaceSteps
      <4>3. CASE task[s].at \in {"commit", "abandon"}
        <5>1. task[s].id = x /\ x \in r.pending
          BY <1>3, <3>2, <4>3 DEF Holds, Placed, OpenPlaces
        <5> QED
          BY <1>3, <5>1
      <4>4. CASE task[s].at = "drain"
        BY <1>3, <4>4 DEF Placed
      <4> QED
        BY <4>2, <4>3, <4>4
    <3> QED
      BY <1>3, <2>2, <3>1, <3>2 DEF Fits
  <2> QED
    BY <2>1, <2>2
<1>7. \A s \in Clients : Placed(task[s], ctl)'
  <2> SUFFICES ASSUME NEW s \in Clients PROVE Placed(task[s], ctl)'
    OBVIOUS
  <2>1. CASE s = t
    BY <1>1, <1>3, <1>4, <2>1 DEF Placed
  <2>2. CASE s # t
    <3>1. task'[s] = task[s] /\ task[s].at \notin TransitPlaces /\ task[s].at \notin ReplaceSteps
      BY <1>5, <2>2 DEF Others, TransitPlaces
    <3> QED
      BY <1>3, <1>4, <3>1 DEF Placed, Calm
  <2> QED
    BY <2>1, <2>2
<1>8. Fits(ctl)'
  <2>1. \A i \in r.pending : \E s \in Clients : task'[s].at \in OpenPlaces /\ task'[s].id = i
    BY <1>2, <1>3 DEF Fits, Others
  <2>2. \A i \in r.closing : \E s \in Clients : task'[s].at \in StopPlaces /\ task'[s].id = i
    BY <1>2, <1>3 DEF Fits, Others
  <2>3. r.starting # NoPin =>
           \E s \in Clients : task'[s].at \in PinPlaces /\ task'[s].token = r.starting
    BY <1>2, <1>3 DEF Fits, Others
  <2>4. \A w \in Attended : \/ r.sessions[serves[w]] = w
                      \/ \E s \in Clients : Holds(task'[s], w, serves[w])
    BY <1>2, <1>3 DEF Fits, Others, Holds
  <2>5. \E s \in Clients : task'[s].at \in TransitPlaces
    BY <1>1
  <2> QED
    BY <1>3, <1>4, <1>7, <2>1, <2>2, <2>3, <2>4, <2>5 DEF Fits, Calm
<1>9. Hired(task[t])'
  <2>1. l.at = "preflight" => Own(l) = {l.prev} /\ l.prev # 0
    BY <1>6 DEF Own, NewPlaces
  <2> QED
    BY <1>1, <1>3, <1>6, <2>1 DEF Hired, Calm
<1>10. Makes(l) => \A s \in Clients \ {t} : Makes(task[s]) => task[s].id # l.id
  <2> SUFFICES ASSUME Makes(l), NEW s \in Clients \ {t}, Makes(task[s]) PROVE task[s].id # l.id
    OBVIOUS
  <2>1. task[s].at \in OpenPlaces
    BY <1>5 DEF Makes, TransitPlaces
  <2>2. task[s].id \in r.pending
    BY <1>3, <2>1 DEF Placed
  <2> QED
    BY <1>1, <1>3, <2>2
<1> QED
  BY <1>3, <1>5, <1>8, <1>9, <1>10, StaffOn DEF Inventory, Staff

(* A session is reserved.                                                     *)
LEMMA ReserveOn ==
  ASSUME IInv, Inventory, Calm, NEW t \in Clients, Others(t), NEW id \in Ids \ used,
         NEW r, r = Reap(ctl), ctl' = [r EXCEPT !.pending = @ \cup {id}], used' = used \cup {id},
         ~exited, task[t].at = "idle", task'[t].at = "start", task'[t].id = id,
         task'[t].w = 0, task'[t].prev = 0
  PROVE  Inventory'
<1> DEFINE k == task[t]
           l == task'[t]
<1>1. /\ l.at \notin StopPlaces \cup TransitPlaces \cup PinPlaces \cup NewPlaces \cup ReplaceSteps
      /\ l.at \notin {"drain", "finish"} /\ l.at \in OpenPlaces /\ Own(l) = {}
  BY DEF TransitPlaces, OpenPlaces, StopPlaces, PinPlaces, NewPlaces, ReplaceSteps, Own
<1>2. k.at \notin TransitPlaces \cup StopPlaces \cup PinPlaces \cup NewPlaces \cup OpenPlaces
                  \cup {"drain"}
  BY DEF TransitPlaces, OpenPlaces, StopPlaces, PinPlaces, ReplaceSteps, NewPlaces
<1>3. /\ \A s \in Clients : Placed(task[s], r) /\ Hired(task[s])
      /\ Fits(r) /\ Staff /\ started \in Nat /\ r \in Controllers
      /\ \A s \in Clients : task[s].prev \in Nat
  BY FoundOK DEF Inventory, Fits, Staff, IInv, Tasks
<1>4. /\ ctl'.pending = r.pending \cup {id} /\ ctl'.transition = r.transition
      /\ ctl'.replacing = r.replacing /\ ctl'.closing = r.closing /\ ctl'.starting = r.starting
      /\ ctl'.sessions = r.sessions
  BY <1>3 DEF Controllers
<1>5. \A s \in Clients : Placed(task[s], ctl)'
  BY <1>1, <1>3, <1>4 DEF Placed, Calm, Others
<1>6. Fits(ctl)'
  <2>1. \A i \in r.pending \cup {id} :
            \E s \in Clients : task'[s].at \in OpenPlaces /\ task'[s].id = i
    BY <1>1, <1>2, <1>3 DEF Fits, Others
  <2>2. \A i \in r.closing : \E s \in Clients : task'[s].at \in StopPlaces /\ task'[s].id = i
    BY <1>2, <1>3 DEF Fits, Others
  <2>3. r.starting # NoPin =>
           \E s \in Clients : task'[s].at \in PinPlaces /\ task'[s].token = r.starting
    BY <1>2, <1>3 DEF Fits, Others
  <2>4. \A w \in Attended : \/ r.sessions[serves[w]] = w
                      \/ \E s \in Clients : Holds(task'[s], w, serves[w])
    BY <1>2, <1>3 DEF Fits, Others, Holds
  <2>5. r.transition # 0 => \E s \in Clients : task'[s].at \in TransitPlaces
    BY <1>2, <1>3 DEF Fits, Others
  <2>6. Attended' = Attended /\ serves' = serves /\ started' = started /\ ~exited'
    BY DEF Calm
  <2>7. \A i \in Ids : r.sessions[i] # 0 =>
            r.sessions[i] \in 1 .. started /\ serves[r.sessions[i]] = i
    BY <1>3 DEF Fits
  <2>8. r.transition = 0 => r.replacing = None
    BY <1>3 DEF Fits
  <2> QED
    BY <1>4, <1>5, <2>1, <2>2, <2>3, <2>4, <2>5, <2>6, <2>7, <2>8 DEF Fits
<1>7. Hired(task[t])'
  <2>1. \A w \in Attended : serves[w] # id
    BY <1>3, AttendedCrew DEF Staff
  <2>2. Attended' = Attended /\ serves' = serves /\ started' = started
    BY DEF Calm
  <2> QED
    BY <1>1, <1>3, <2>1, <2>2 DEF Hired
<1>8. \A s \in Clients : Makes(task[s]) => task[s].id \in used
  <2> SUFFICES ASSUME NEW s \in Clients, task[s].at \in ReplaceSteps PROVE task[s].id \in used
    BY <1>3 DEF Makes, Hired
  <2>1. task[s].prev \in 1 .. started /\ serves[task[s].prev] = task[s].id
    BY <1>3 DEF Hired
  <2> QED
    BY <1>3, <2>1 DEF Staff
<1> QED
  BY <1>1, <1>3, <1>6, <1>7, <1>8, StaffOn DEF Inventory, Staff

(* The pin of work that is being started.                                     *)
LEMMA PinChanges ==
  ASSUME IInv, Inventory, Calm, used' = used, NEW t \in Clients, Others(t),
         NEW d, Fits(d), ctl'.pending = d.pending, ctl'.transition = d.transition,
         ctl'.replacing = d.replacing, ctl'.closing = d.closing, ctl'.sessions = d.sessions,
         \/ /\ task[t].at = "pin" /\ task'[t].at = "work"
            /\ ctl'.starting = task'[t].token /\ ~exited
         \/ /\ task[t].at \in {"unpin", "started"} /\ task'[t].at = "idle"
            /\ ctl'.starting \in {NoPin, d.starting}
            /\ ctl'.starting # NoPin => ctl'.starting # task[t].token,
         task'[t].w \in {0, task[t].w}, task'[t].prev \in {0, task[t].prev}
  PROVE  Inventory'
<1> DEFINE k == task[t]
           l == task'[t]
<1>1. /\ l.at \notin StopPlaces \cup TransitPlaces \cup OpenPlaces \cup NewPlaces \cup ReplaceSteps
      /\ l.at \notin {"drain", "finish"} /\ ~Makes(l) /\ (l.at = "work" => l.at \in PinPlaces)
  BY DEF TransitPlaces, OpenPlaces, StopPlaces, PinPlaces, NewPlaces, ReplaceSteps, Makes
<1>2. k.at \notin TransitPlaces \cup StopPlaces \cup NewPlaces \cup OpenPlaces
                  \cup {"drain", "restart", "settle"}
  BY DEF TransitPlaces, OpenPlaces, StopPlaces, ReplaceSteps, NewPlaces
<1>3. /\ \A s \in Clients : Placed(task[s], d) /\ Hired(task[s])
      /\ Fits(d) /\ Staff /\ started \in Nat
      /\ \A s \in Clients : task[s].prev \in Nat /\ task[s].w \in Nat
  BY DEF Inventory, Fits, Staff, IInv, Tasks
<1>4. UNCHANGED <<started, serves, up, Crew, Attended, exited>>
  BY DEF Calm
<1>5. \A s \in Clients : Placed(task[s], ctl)'
  <2> SUFFICES ASSUME NEW s \in Clients PROVE Placed(task[s], ctl)'
    OBVIOUS
  <2>1. CASE s = t
    BY <1>1, <2>1 DEF Placed
  <2>2. CASE s # t
    BY <1>3, <1>4, <2>2 DEF Placed, Others
  <2> QED
    BY <2>1, <2>2
<1>6. Fits(ctl)'
  <2>1. \A i \in d.pending : \E s \in Clients : task'[s].at \in OpenPlaces /\ task'[s].id = i
    BY <1>2, <1>3 DEF Fits, Others
  <2>2. \A i \in d.closing : \E s \in Clients : task'[s].at \in StopPlaces /\ task'[s].id = i
    BY <1>2, <1>3 DEF Fits, Others
  <2>3. ctl'.starting # NoPin =>
           \E s \in Clients : task'[s].at \in PinPlaces /\ task'[s].token = ctl'.starting
    BY <1>1, <1>3 DEF Fits, Others
  <2>4. \A w \in Attended : \/ d.sessions[serves[w]] = w
                      \/ \E s \in Clients : Holds(task'[s], w, serves[w])
    BY <1>2, <1>3 DEF Fits, Others, Holds
  <2>5. d.transition # 0 => \E s \in Clients : task'[s].at \in TransitPlaces
    BY <1>2, <1>3 DEF Fits, Others
  <2>6. exited => Detached(ctl)'
    BY <1>3 DEF Fits, Detached
  <2>7. /\ \A i \in Ids : d.sessions[i] # 0 =>
              d.sessions[i] \in 1 .. started /\ serves[d.sessions[i]] = i
        /\ d.transition = 0 => d.replacing = None
    BY <1>3 DEF Fits
  <2> QED
    BY <1>4, <1>5, <2>1, <2>2, <2>3, <2>4, <2>5, <2>6, <2>7 DEF Fits
<1>7. Hired(task[t])'
  BY <1>1, <1>3, <1>4 DEF Hired
<1> QED
  BY <1>1, <1>2, <1>3, <1>6, <1>7, StaffOn DEF Inventory, Staff

(* The exit: what was the controller's is the command's.                      *)
LEMMA ExitOn == ASSUME IInv, Inventory, NEW t \in Clients, Exit(t) PROVE Inventory'
<1> DEFINE k == [NoTask EXCEPT !.at = "drain", !.op = "exit", !.broker.warm = ctl.sessions]
<1>1. /\ task \in [Clients -> Tasks] /\ ctl \in Controllers /\ started \in Nat
      /\ task[t].at = "idle" /\ task' = [task EXCEPT ![t] = k] /\ exited'
      /\ UNCHANGED <<started, serves, up, Crew, Attended, recording, used>>
  BY DEF IInv, ControllerOK, Exit, Begin, At, actors, Attended, Crew
<1>2. /\ k.at = "drain" /\ k.w = 0 /\ k.prev = 0 /\ k.broker.warm = ctl.sessions
  BY DEF NoTask, NoBroker
<1> HIDE DEF k
<1>3. Others(t) /\ task'[t] = k
  BY <1>1 DEF Others
<1>4. Detached(ctl)' /\ ctl'.replacing = None
  BY <1>1 DEF Exit, Detached, Idled, Controllers
<1>5. Fits(ctl)'
  <2>1. \A s \in Clients : Placed(task[s], ctl)'
    <3> SUFFICES ASSUME NEW s \in Clients PROVE Placed(task[s], ctl)'
      OBVIOUS
    <3>1. task'[s].at \in StopPlaces => task'[s].id \in Ids
      BY <1>2, <1>3 DEF Others, StopPlaces, IInv, TaskOK
    <3> QED
      BY <1>1, <1>4, <3>1 DEF Placed, Detached
  <2>2. \A w \in Attended : \E s \in Clients : Holds(task'[s], w, serves[w])
    <3> SUFFICES ASSUME NEW w \in Attended PROVE \E s \in Clients : Holds(task'[s], w, serves[w])
      OBVIOUS
    <3>1. CASE ctl.sessions[serves[w]] = w
      BY <1>2, <1>3, <3>1 DEF Holds
    <3>2. ASSUME NEW s \in Clients, Holds(task[s], w, serves[w])
          PROVE  Holds(task'[s], w, serves[w])
      BY <1>1, <1>3, <3>2 DEF Holds, Others, NewPlaces
    <3> QED
      BY <3>1, <3>2 DEF Inventory, Fits
  <2> QED
    BY <1>1, <1>4, <2>1, <2>2 DEF Fits, Detached
<1>6. Staff'
  <2>1. \A s \in Clients : Hired(task[s])'
    BY <1>1, <1>2, <1>3 DEF Hired, Others, Inventory, Staff, Makes, NewPlaces, OpenPlaces,
                            ReplaceSteps
  <2>2. Recorded'
    BY <1>1, <1>3 DEF Inventory, Staff, Recorded, Others
  <2>3. k.at \notin TransitPlaces /\ ~Makes(k)
    BY <1>2 DEF TransitPlaces, Makes, OpenPlaces, ReplaceSteps
  <2>4. \A x, y \in Clients :
            x # y => /\ ~(task'[x].at \in TransitPlaces /\ task'[y].at \in TransitPlaces)
                     /\ Makes(task'[x]) /\ Makes(task'[y]) => task'[x].id # task'[y].id
    BY <1>3, <2>3 DEF Inventory, Staff, Others
  <2> QED
    BY <1>1, <2>1, <2>2, <2>4 DEF Inventory, Staff, Recorded
<1> QED
  BY <1>5, <1>6 DEF Inventory

-----------------------------------------------------------------------------
(* A command is accepted.                                                     *)
LEMMA BeginIs ==
  ASSUME IInv, NEW t \in Clients, NEW op, NEW k, Begin(t, op, k)
  PROVE  /\ Others(t) /\ task'[t] = k /\ task[t].at = "idle" /\ ~exited
         /\ UNCHANGED <<started, serves, up, Crew, Attended, recording>>
         /\ left > 0 /\ left' = left - 1
  BY DEF IInv, Begin, At, Others, actors, Attended, Crew

LEMMA CommandBegins == ASSUME NEW t \in Clients, Command(t) PROVE \E op, k : Begin(t, op, k)
  BY DEF Command, OpenReserve, ClosePrepare, SwitchPrepare, ClearPrepare, ReplaceBegin, WorkRuntime,
         Foreground, Exit

LEMMA CommandSteps ==
  ASSUME IInv, Inventory, NEW t \in Clients, Command(t) PROVE Inventory'
<1> DEFINE r == Reap(ctl)
<1>1. /\ Fits(r) /\ r \in Controllers /\ ControllerOK(r, used) /\ Staff /\ started \in Nat
      /\ NoTask.w = 0 /\ NoTask.prev = 0
      /\ \A id \in Ids : r.sessions[id] # 0 => r.sessions[id] \in 1 .. started
  BY FoundOK, IdlePlace DEF Inventory, IInv, Fits
<1>2. ASSUME NEW id \in Ids, OpenReserve(t, id) PROVE Inventory'
  <2> DEFINE k == [NoTask EXCEPT !.at = "start", !.op = "open", !.id = id]
  <2>1. Begin(t, "open", k) /\ ctl' = [r EXCEPT !.pending = @ \cup {id}] /\ id \notin used
        /\ used' = used \cup {id} /\ exited' = exited
    BY <1>2 DEF OpenReserve
  <2>2. k.at = "start" /\ k.id = id /\ k.w = 0 /\ k.prev = 0
    BY DEF NoTask
  <2> HIDE DEF k, r
  <2> QED
    BY <2>1, <2>2, BeginIs, ReserveOn DEF Calm, r
<1>3. ASSUME NEW id \in Ids, ClosePrepare(t, id) PROVE Inventory'
  <2> DEFINE k == [NoTask EXCEPT !.at = "stop", !.op = "close", !.id = id, !.w = r.sessions[id]]
  <2>1. Begin(t, "close", k) /\ ctl' = Closing(r, id) /\ MayClose(r, id)
        /\ used' = used /\ exited' = exited
    BY <1>3 DEF ClosePrepare
  <2>2. k.at = "stop" /\ k.id = id /\ k.w = r.sessions[id] /\ k.prev = 0
    BY DEF NoTask
  <2> HIDE DEF k
  <2> QED
    BY <2>1, <2>2, BeginIs, CloseBegins DEF Calm
<1>4. ASSUME NEW op, NEW w \in {0} \cup 1 .. started, NEW b, Foreground(t, op, r, w, b)
      PROVE  Inventory'
  <2> DEFINE prev == IF r.broker.lease.id = None THEN 0 ELSE r.sessions[r.broker.lease.id]
             k == [NoTask EXCEPT !.at = IF prev = 0 THEN "show" ELSE "hide",
                                 !.op = op, !.w = w, !.prev = prev, !.broker = b,
                                 !.gen = r.transitions + 1]
  <2>1. Begin(t, op, k) /\ ctl' = Transit(r, None) /\ LifecycleIdle(r)
        /\ used' = used /\ exited' = exited
    BY <1>4 DEF Foreground
  <2>2. prev \in {0} \cup 1 .. started
    BY <1>1 DEF Controllers, States, Leases
  <2> HIDE DEF prev
  <2>3. k.at \in {"hide", "show"} /\ k.w = w /\ k.prev = prev /\ k.gen = r.transitions + 1
    BY DEF NoTask
  <2>4. k.w <= started /\ k.prev <= started
    BY <1>1, <2>2, <2>3
  <2> HIDE DEF k
  <2> QED
    BY <2>1, <2>3, <2>4, BeginIs, TransitBegins DEF Calm
<1>5. ASSUME NEW id \in Ids, SwitchPrepare(t, id) PROVE Inventory'
  BY <1>1, <1>4, <1>5 DEF SwitchPrepare, Tracked
<1>6. CASE ClearPrepare(t)
  BY <1>4, <1>6 DEF ClearPrepare
<1>7. ASSUME NEW id \in Ids, ReplaceBegin(t, id) PROVE Inventory'
  <2> DEFINE k == [NoTask EXCEPT !.at = "preflight", !.op = "replace", !.id = id,
                       !.prev = r.sessions[id], !.gen = r.transitions + 1,
                       !.owns = r.broker.lease.id = id]
  <2>1. Begin(t, "replace", k) /\ ctl' = Transit(r, id) /\ LifecycleIdle(r) /\ Tracked(r, id)
        /\ used' = used /\ exited' = exited
    BY <1>7 DEF ReplaceBegin
  <2>2. k.at = "preflight" /\ k.id = id /\ k.w = 0 /\ k.prev = r.sessions[id]
        /\ k.gen = r.transitions + 1
    BY DEF NoTask
  <2>3. k.w <= started /\ k.prev <= started /\ r.sessions[id] # 0
    BY <1>1, <2>1, <2>2 DEF Tracked
  <2> HIDE DEF k
  <2> QED
    BY <2>1, <2>2, <2>3, BeginIs, TransitBegins DEF Calm
<1>8. ASSUME NEW id \in Ids, NEW op, WorkRuntime(t, op, id) PROVE Inventory'
  <2> DEFINE k == [NoTask EXCEPT !.at = "pin", !.op = op, !.id = id, !.w = r.sessions[id]]
  <2>1. Begin(t, op, k) /\ ctl' = r /\ Tracked(r, id) /\ used' = used /\ exited' = exited
    BY <1>8 DEF WorkRuntime
  <2>2. k.at = "pin" /\ k.w = r.sessions[id] /\ k.prev = 0 /\ k.id = id
    BY DEF NoTask
  <2>3. k.w <= started /\ k.prev <= started
    BY <1>1, <2>1, <2>2 DEF Tracked
  <2> HIDE DEF k
  <2>4. NoDuty(k)
    BY <2>2, <2>3
       DEF NoDuty, OpenPlaces, TransitPlaces, ReplaceSteps, StopPlaces, PinPlaces, NewPlaces
  <2>5. Goes(task[t], task'[t]) /\ task[t].at = "idle"
    <3>1. Others(t) /\ task'[t] = k /\ task[t].at = "idle"
      BY <2>1, BeginIs
    <3> QED
      BY <2>2, <2>4, <3>1, FreePlace
         DEF Goes, Holds, OpenPlaces, TransitPlaces, ReplaceSteps, StopPlaces, PinPlaces, NewPlaces
  <2>6. Others(t) /\ UNCHANGED <<started, serves, up, Crew, Attended, recording, exited, used>>
    BY <2>1, BeginIs
  <2>7. Recorded'
    BY <1>1, <2>5, <2>6, StillRecorded
  <2> HIDE DEF r
  <2> QED
    BY <1>1, <2>1, <2>5, <2>6, <2>7, OneGoesOn DEF Staff
<1>9. CASE Exit(t)
  BY <1>9, ExitOn
<1> QED
  BY <1>2, <1>3, <1>5, <1>6, <1>7, <1>8, <1>9 DEF Command

(* The sections of commands that reap.                                        *)
LEMMA ReapSteps ==
  ASSUME IInv, Inventory, NEW t \in Clients,
         Seen(t) \/ Unopen(t) \/ WorkPin(t) \/ WorkUnpin(t) \/ WorkStarted(t)
  PROVE  Inventory'
<1> DEFINE r == Reap(ctl)
           k == task[t]
<1>1. /\ Fits(r) /\ r \in Controllers /\ ControllerOK(r, used) /\ Staff /\ started \in Nat
      /\ ctl \in Controllers /\ k \in Tasks /\ task \in [Clients -> Tasks] /\ Fits(ctl)
      /\ TaskOK(k, ctl, used)
  BY FoundOK DEF Inventory, IInv, ControllerOK
<1>2. Calm /\ UNCHANGED used
  BY ControllerCalm DEF Seen, Unopen, WorkPin, WorkUnpin, WorkStarted, Calm, Later, actors, Attended, Crew
<1>3. CASE k.at \in {"seen", "unopen", "pin"} /\ ctl' = r /\ Goto(t, "idle")
  <2>1. Others(t) /\ task'[t] = NoTask
    BY <1>3, GotoIs DEF Places
  <2>2. Goes(k, task'[t])
    BY <1>3, <2>1, IdleFree, IdlePlace, FreePlace
       DEF Goes, Holds, OpenPlaces, TransitPlaces, ReplaceSteps, StopPlaces, PinPlaces, NewPlaces
  <2>3. Recorded'
    BY <1>1, <1>2, <1>3, <2>1, StillRecorded DEF Calm
  <2> HIDE DEF r
  <2> QED
    BY <1>1, <1>2, <1>3, <2>1, <2>2, <2>3, OneGoesOn DEF Calm, Staff
<1>4. CASE /\ k.at = "unopen" /\ MayClose(r, k.id) /\ ctl' = Closing(r, k.id)
           /\ task' = [task EXCEPT ![t].at = "stop", ![t].w = r.sessions[k.id]]
  <2>1. k.id \in Ids
    BY <1>1, <1>4 DEF TaskOK
  <2> HIDE DEF r
  <2>2. /\ Others(t) /\ task'[t].at = "stop" /\ task'[t].id = k.id
        /\ task'[t].w = r.sessions[k.id] /\ task'[t].prev = k.prev
    BY <1>1, <1>4 DEF Others, Tasks
  <2> QED
    BY <1>2, <1>4, <2>1, <2>2, CloseBegins DEF r
<1>5. CASE /\ k.at = "pin" /\ r.broker.lease.id = k.id
           /\ ctl' = [r EXCEPT !.broker = Pinned(r.broker, k.op),
                               !.starting = Pinned(r.broker, k.op).pin]
           /\ task' = [task EXCEPT ![t].at = "work", ![t].token = Pinned(r.broker, k.op).pin]
           /\ k.id \in Ids
  <2> DEFINE b == Pinned(r.broker, k.op)
  <2>1. ~exited
    <3>1. r.broker.warm[k.id] # 0
      BY <1>1, <1>5, RegistryAssumption DEF ControllerOK, Leased
    <3>2. r.sessions[k.id] # 0
      BY <1>1, <1>5, <3>1 DEF ControllerOK
    <3> QED
      BY <1>1, <1>5, <3>2 DEF Fits, Detached
  <2> HIDE DEF b, r
  <2>2. /\ Others(t) /\ task'[t].at = "work" /\ task'[t].token = b.pin
        /\ task'[t].w = k.w /\ task'[t].prev = k.prev
    BY <1>1, <1>5 DEF Others, Tasks, b
  <2>3. /\ ctl'.pending = r.pending /\ ctl'.transition = r.transition
        /\ ctl'.replacing = r.replacing /\ ctl'.closing = r.closing /\ ctl'.sessions = r.sessions
        /\ ctl'.starting = b.pin
    BY <1>1, <1>5 DEF Controllers, b
  <2> QED
    BY <1>1, <1>2, <1>5, <2>1, <2>2, <2>3, PinChanges
<1>6. CASE k.at = "unpin" /\ ctl' = Unpin(ctl, k.token) /\ Goto(t, "idle")
  <2>1. Others(t) /\ task'[t] = NoTask
    BY <1>6, GotoIs DEF Places
  <2> HIDE DEF r
  <2>2. /\ ctl'.pending = r.pending /\ ctl'.transition = r.transition
        /\ ctl'.replacing = r.replacing /\ ctl'.closing = r.closing /\ ctl'.sessions = r.sessions
        /\ ctl'.starting = IF r.starting = k.token THEN NoPin ELSE r.starting
    BY <1>1, <1>6 DEF Controllers, Unpin, r
  <2>3. NoTask.w = 0 /\ NoTask.prev = 0 /\ NoTask.at = "idle"
    BY IdlePlace
  <2> HIDE DEF k
  <2> QED
    BY <1>1, <1>2, <1>6, <2>1, <2>2, <2>3, PinChanges DEF k
<1>7. CASE /\ k.at = "started" /\ Goto(t, "idle")
           /\ ctl' = [ctl EXCEPT !.starting = IF @ = k.token THEN NoPin ELSE @]
  <2>1. Others(t) /\ task'[t] = NoTask
    BY <1>7, GotoIs DEF Places
  <2>2. /\ ctl'.pending = ctl.pending /\ ctl'.transition = ctl.transition
        /\ ctl'.replacing = ctl.replacing /\ ctl'.closing = ctl.closing
        /\ ctl'.sessions = ctl.sessions
        /\ ctl'.starting = IF ctl.starting = k.token THEN NoPin ELSE ctl.starting
    BY <1>1, <1>7 DEF Controllers
  <2>3. NoTask.w = 0 /\ NoTask.prev = 0 /\ NoTask.at = "idle"
    BY IdlePlace
  <2> HIDE DEF k
  <2> QED
    BY <1>1, <1>2, <1>7, <2>1, <2>2, <2>3, PinChanges DEF k
<1>8. k.at = "pin" => k.id \in Ids
  BY <1>1 DEF Staff, Hired
<1> QED
  BY <1>3, <1>4, <1>5, <1>6, <1>7, <1>8 DEF Seen, Unopen, WorkPin, WorkUnpin, WorkStarted, At

LEMMA OtherSteps == ASSUME IInv, Inventory, Monitor \/ Poll PROVE Inventory'
<1> DEFINE r == Reap(ctl)
<1>1. /\ Fits(r) /\ r \in Controllers /\ Staff /\ Fits(ctl)
      /\ \A s \in Clients : Hired(task[s])
  BY FoundOK DEF Inventory, Staff
<1>2. ASSUME NEW d, Fits(d), ctl' = d,
             UNCHANGED <<started, serves, up, Crew, Attended, recording, exited, used, task>>
      PROVE  Inventory'
  <2>1. \A s \in Clients : Goes(task[s], task'[s])
    BY <1>1, <1>2 DEF Goes, Hired
  <2>2. Recorded'
    BY <1>1, <1>2 DEF Recorded, Staff
  <2> QED
    BY <1>1, <1>2, <2>1, <2>2, GoesOn DEF Staff
<1>3. ASSUME NEW m \in monitors, MonitorSees(m) PROVE Inventory'
  <2>1. UNCHANGED <<ctl, started, serves, up, Crew, Attended, recording, exited, used, task>>
    BY <1>3 DEF MonitorSees, Served, GivesUp, Later, actors, Attended, Crew
  <2> QED
    BY <1>1, <1>2, <2>1
<1>4. ASSUME NEW m \in monitors, MonitorReleases(m) PROVE Inventory'
  <2>1. UNCHANGED <<started, serves, up, Crew, Attended, recording, exited, used, task>>
    BY <1>4 DEF MonitorReleases, Later, actors, Attended, Crew
  <2>2. CASE ctl' = r
    BY <1>1, <1>2, <2>1, <2>2
  <2>3. CASE ctl' = Unpin(r, m.token)
    <3> DEFINE q == Reap(r)
               d == Unpin(r, m.token)
    <3>1. Reaped(r, q) /\ q \in Controllers
      <4>1. ControllerOK(r, used)
        BY FoundOK
      <4>2. ControllerOK(q, used)
        BY <4>1, ReapOK
      <4> QED
        BY <1>1, <4>2, ReapReaps DEF ControllerOK
    <3> HIDE DEF q
    <3>2. /\ d.pending = q.pending /\ d.transition = q.transition
          /\ d.replacing = q.replacing /\ d.closing = q.closing /\ d.sessions = q.sessions
          /\ d.starting = IF q.starting = m.token THEN NoPin ELSE q.starting
      BY <3>1 DEF Unpin, Controllers, q
    <3> HIDE DEF d, r
    <3>3. Reaped(r, d)
      BY <3>1, <3>2 DEF Reaped
    <3>4. Fits(d)
      BY <1>1, <3>3, FitsReaped
    <3> QED
      BY <1>2, <2>1, <2>3, <3>4 DEF d
  <2> QED
    BY <1>4, <2>2, <2>3 DEF MonitorReleases
<1>5. CASE Poll
  <2>1. UNCHANGED <<started, serves, up, Crew, Attended, recording, exited, used, task>> /\ ctl' = r
    BY <1>5 DEF Poll, OnlyController, Later, actors, Attended, Crew
  <2> QED
    BY <1>1, <1>2, <2>1
<1> QED
  BY <1>3, <1>4, <1>5 DEF Monitor

-----------------------------------------------------------------------------
(* The commands still to come and the workers still to start are bounded.     *)
LEMMA BudgetKept ==
  ASSUME Budget, Early' \subseteq Early, left' = left, started' = started
  PROVE  Budget'
<1>1. IsFiniteSet(Early') /\ Cardinality(Early') <= Cardinality(Early)
  BY FS_Subset DEF Budget
<1>2. Cardinality(Early') \in Nat /\ Cardinality(Early) \in Nat
  BY <1>1, FS_CardinalityType DEF Budget
<1> QED
  BY <1>1, <1>2, RegistryAssumption DEF Budget

LEMMA BudgetStarts ==
  ASSUME Budget, NEW t \in Early
  PROVE  /\ started + 1 \in Workers
         /\ Early' \subseteq Early \ {t} /\ left' = left /\ started' = started + 1 => Budget'
<1> DEFINE rest == Early \ {t}
<1>1. IsFiniteSet(Early) /\ Cardinality(Early) \in Nat
  BY FS_CardinalityType DEF Budget
<1>2. IsFiniteSet(rest) /\ Cardinality(rest) = Cardinality(Early) - 1
  BY <1>1, FS_RemoveElement
<1>3. Cardinality(rest) \in Nat
  BY <1>2, FS_CardinalityType
<1>4. started + 1 \in Workers
  BY <1>1, <1>2, <1>3, RegistryAssumption DEF Budget, Workers
<1>5. ASSUME Early' \subseteq rest, left' = left, started' = started + 1 PROVE Budget'
  <2>1. IsFiniteSet(Early') /\ Cardinality(Early') <= Cardinality(rest)
    BY <1>2, <1>5, FS_Subset
  <2>2. Cardinality(Early') \in Nat
    BY <2>1, FS_CardinalityType
  <2> QED
    BY <1>1, <1>2, <1>3, <1>5, <2>1, <2>2, RegistryAssumption DEF Budget
<1> QED
  BY <1>4, <1>5

LEMMA BudgetBegins ==
  ASSUME Budget, NEW t, Early' \subseteq Early \cup {t}, left > 0, left' = left - 1,
         started' = started
  PROVE  Budget'
<1> DEFINE more == Early \cup {t}
<1>1. IsFiniteSet(Early) /\ Cardinality(Early) \in Nat
  BY FS_CardinalityType DEF Budget
<1>2. IsFiniteSet(more) /\ Cardinality(more) <= Cardinality(Early) + 1
  BY <1>1, FS_AddElement
<1>3. IsFiniteSet(Early') /\ Cardinality(Early') <= Cardinality(more)
  BY <1>2, FS_Subset
<1>4. Cardinality(Early') \in Nat /\ Cardinality(more) \in Nat
  BY <1>2, <1>3, FS_CardinalityType
<1> QED
  BY <1>1, <1>2, <1>3, <1>4, RegistryAssumption DEF Budget

(* A command that goes on takes up no new session, and starts one worker at most. *)
Moves(t) ==
    LET k == task[t]  l == task'[t]
    IN  /\ Others(t) /\ (l.at \in EarlyPlaces => k.at \in EarlyPlaces)
        /\ Makes(l) => Makes(k) /\ l.id = k.id
        /\ l.at = "drain" =>
               k.at = "drain" /\ \A id \in Ids : l.broker.warm[id] \in {0, k.broker.warm[id]}
        /\ left' = left
        /\ \/ started' = started
           \/ started' = started + 1 /\ k.at \in EarlyPlaces /\ l.at \notin EarlyPlaces

Onward(p, q) ==
    /\ q \in Places \ {"drain"} /\ (q \in EarlyPlaces => p \in EarlyPlaces)
    /\ q \in OpenPlaces \cup ReplaceSteps => p \in OpenPlaces \cup ReplaceSteps

LEMMA GotoMoves ==
  ASSUME IInv, NEW t \in Clients, NEW at, Onward(task[t].at, at), Goto(t, at), left' = left,
         started' = started
  PROVE  Moves(t)
<1>1. /\ Others(t) /\ task'[t].at = at
      /\ at # "idle" => Carries(task[t], task'[t])
      /\ at = "idle" => task'[t] = NoTask
  BY GotoIs DEF Onward
<1> QED
  BY <1>1, IdlePlace DEF Onward, Moves, Carries, Makes

LEMMA OnwardPlaces ==
  /\ \A q \in {"seen", "unopen", "idle", "unshown"} : Onward("viewport", q)
  /\ \A p, q \in {"hide", "show", "restore", "complete", "abort"} : Onward(p, q)
  /\ \A p, q \in {"unshow", "reshow", "idle"} : Onward(p, q)
  /\ Onward("preflight", "swap") /\ Onward("preflight", "abort")
  /\ Onward("configure", "install") /\ Onward("configure", "discard")
  /\ Onward("work", "started") /\ Onward("work", "unpin")
  /\ Onward("abandon", "cancel") /\ Onward("stop", "finish") /\ Onward("unshown", "seen")
  /\ Onward("discard", "settle") /\ Onward("settle", "fail") /\ Onward("swap", "restart")
  /\ Onward("swap", "settle") /\ Onward("commit", "viewport") /\ Onward("commit", "abandon")
  /\ Onward("complete", "unshow") /\ Onward("complete", "reshow")
  /\ Onward("install", "viewport") /\ Onward("install", "discard")
  /\ Onward("start", "cancel") /\ Onward("restart", "settle")
  /\ \A p \in Places : Onward(p, "idle")
  BY DEF Onward, Places, EarlyPlaces, OpenPlaces, ReplaceSteps

LEMMA AsksMove ==
  ASSUME IInv, NEW t \in Clients, OnlyActors, NEW a, Onward(task[t].at, a),
         NEW f, Onward(task[t].at, f), NEW w, NEW what, Asks(t, w, what, a, f)
  PROVE  Moves(t)
<1>1. (Goto(t, a) \/ Goto(t, f)) /\ started' = started /\ left' = left
  BY AsksFrame DEF OnlyActors, Later
<1> QED
  BY <1>1, GotoMoves

LEMMA ContinueMoves == ASSUME IInv, NEW t \in Clients, Continue(t) PROVE Moves(t)
<1> USE DEF At
<1>1. /\ task \in [Clients -> Tasks] /\ task[t] \in Tasks /\ started \in Nat
      /\ task[t].at \in Places
  BY DEF IInv, Tasks
<1>2. CASE Viewport(t) \/ Configure(t) \/ WorkStart(t)
  BY <1>2, AsksMove, OnwardPlaces DEF Viewport, Configure, WorkStart
<1>3. CASE Hide(t)
  BY <1>3, AsksMove, OnwardPlaces DEF Hide
<1>4. CASE Show(t)
  BY <1>4, AsksMove, OnwardPlaces DEF Show
<1>5. CASE Restore(t) \/ Reshow(t)
  BY <1>5, AsksMove, OnwardPlaces DEF Restore, Reshow
<1>6. CASE Unshow(t)
  BY <1>6, AsksMove, OnwardPlaces DEF Unshow
<1>7. CASE Preflight(t)
  BY <1>7, AsksMove, GotoMoves, OnwardPlaces DEF Preflight, actors, OnlyActors, Later
<1>8. CASE OpenAbandon(t) \/ CloseStop(t) \/ Unshown(t) \/ Discard(t) \/ Settle(t) \/ Swap(t)
  BY <1>8, GotoMoves, OnwardPlaces
     DEF OpenAbandon, CloseStop, Unshown, Discard, Settle, Swap, ShutsDown, Overdue, Stop, Ended, OnlyActors, Later, actors
<1>9. CASE OpenCommit(t) \/ OpenCancel(t) \/ Seen(t) \/ CloseFinish(t) \/ Abort(t)
  BY <1>1, <1>9, GotoMoves, OnwardPlaces
     DEF OpenCommit, OpenCancel, Seen, CloseFinish, Abort, OnlyController, Later, actors
<1>10. CASE Complete(t) \/ Install(t) \/ Fail(t) \/ WorkUnpin(t) \/ WorkStarted(t)
  BY <1>1, <1>10, GotoMoves, OnwardPlaces
     DEF Complete, Install, Fail, WorkUnpin, WorkStarted, OnlyController, Later, actors
<1>11. CASE Unopen(t)
  <2>1. left' = left /\ started' = started
    BY <1>11 DEF Unopen, OnlyController, Later, actors
  <2>2. CASE Goto(t, "idle")
    BY <1>1, <2>1, <2>2, GotoMoves, OnwardPlaces
  <2>3. CASE task' = [task EXCEPT ![t].at = "stop", ![t].w = Reap(ctl).sessions[task[t].id]]
    BY <1>1, <2>1, <2>3
       DEF Moves, Others, Tasks, Makes, OpenPlaces, ReplaceSteps, EarlyPlaces
  <2> QED
    BY <1>11, <2>2, <2>3 DEF Unopen
<1>12. CASE WorkPin(t)
  <2> DEFINE token == Pinned(Reap(ctl).broker, task[t].op).pin
  <2>1. left' = left /\ started' = started
    BY <1>12 DEF WorkPin, OnlyController, Later, actors
  <2>2. CASE Goto(t, "idle")
    BY <1>1, <2>1, <2>2, GotoMoves, OnwardPlaces
  <2>3. CASE task' = [task EXCEPT ![t].at = "work", ![t].token = token]
    BY <1>1, <2>1, <2>3
       DEF Moves, Others, Tasks, Makes, OpenPlaces, ReplaceSteps, EarlyPlaces
  <2> QED
    BY <1>12, <2>2, <2>3 DEF WorkPin
<1>13. CASE Drain(t)
  <2>1. left' = left /\ started' = started /\ task[t].at = "drain"
    BY <1>13 DEF Drain, ShutsDown, Overdue, Stop, Ended, OnlyActors, Later, actors
  <2>2. CASE Goto(t, "idle")
    BY <1>1, <2>1, <2>2, GotoMoves, OnwardPlaces
  <2>3. ASSUME NEW id \in Ids, task' = [task EXCEPT ![t].broker.warm[id] = 0] PROVE Moves(t)
    BY <1>1, <2>1, <2>3
       DEF Moves, Others, Tasks, States, Makes, OpenPlaces, ReplaceSteps, EarlyPlaces
  <2> QED
    BY <1>13, <2>2, <2>3 DEF Drain, Warm
<1>14. CASE OpenStart(t) \/ Restart(t)
  <2>1. left' = left /\ task[t].at \in {"start", "restart"}
    BY <1>14 DEF OpenStart, Restart, OnlyActors, Later
  <2>2. CASE started' = started /\ (Goto(t, "cancel") \/ Goto(t, "settle"))
    BY <1>14, <2>1, <2>2, GotoMoves, OnwardPlaces DEF OpenStart, Restart, Goto
  <2>3. ASSUME started' = started + 1, NEW at \in {"commit", "configure"},
               task' = [task EXCEPT ![t].at = at, ![t].w = started + 1]
        PROVE  Moves(t)
    BY <1>1, <2>1, <2>3
       DEF Moves, Others, Tasks, Makes, OpenPlaces, ReplaceSteps, EarlyPlaces
  <2> QED
    BY <1>14, <2>2, <2>3 DEF OpenStart, Restart, Started, actors
<1> QED
  BY <1>2, <1>3, <1>4, <1>5, <1>6, <1>7, <1>8, <1>9, <1>10, <1>11, <1>12, <1>13, <1>14
     DEF Continue

LEMMA BudgetContinues == ASSUME IInv, Budget, NEW t \in Clients, Continue(t) PROVE Budget'
<1>1. Moves(t)
  BY ContinueMoves
<1>2. CASE started' = started
  BY <1>1, <1>2, BudgetKept DEF Moves, Early, Others
<1>3. CASE started' = started + 1 /\ task[t].at \in EarlyPlaces /\ task'[t].at \notin EarlyPlaces
  <2>1. t \in Early /\ Early' \subseteq Early \ {t}
    BY <1>1, <1>3 DEF Moves, Early, Others
  <2> QED
    BY <1>1, <1>3, <2>1, BudgetStarts DEF Moves
<1> QED
  BY <1>1, <1>2, <1>3 DEF Moves

LEMMA BudgetCommands == ASSUME IInv, Budget, NEW t \in Clients, Command(t) PROVE Budget'
<1>1. \E op, k : Begin(t, op, k)
  BY CommandBegins
<1>2. Others(t) /\ left > 0 /\ left' = left - 1 /\ started' = started
  BY <1>1, BeginIs
<1>3. Early' \subseteq Early \cup {t}
  BY <1>2 DEF Early, Others
<1> QED
  BY <1>2, <1>3, BudgetBegins

LEMMA StockInductive == IInv /\ Budget /\ Inventory /\ [Next]_vars => (Budget /\ Inventory)'
<1> SUFFICES ASSUME IInv, Budget, Inventory, [Next]_vars PROVE Budget' /\ Inventory'
  OBVIOUS
<1>1. ASSUME NEW t \in Clients, Command(t) PROVE Budget' /\ Inventory'
  BY <1>1, BudgetCommands, CommandSteps
<1>2. ASSUME NEW t \in Clients, Continue(t) PROVE Budget' /\ Inventory'
  <2>1. Budget'
    BY <1>2, BudgetContinues
  <2>2. CASE OpenStart(t) \/ Restart(t)
    <3>1. t \in Early
      BY <2>2 DEF OpenStart, Restart, At, Early, EarlyPlaces
    <3> QED
      BY <2>1, <2>2, <3>1, BudgetStarts, StartsOn
  <2>3. CASE ~(OpenStart(t) \/ Restart(t))
    BY <1>2, <2>1, <2>3, AskSteps, StopSteps, SwapStep, SettleStep, DrainOn, AbortOn, CompleteOn,
       InstallOn, FailOn, OpenSteps, CloseFinishOn, ReapSteps DEF Continue
  <2> QED
    BY <2>2, <2>3
<1>3. ASSUME NEW w \in 1 .. started,
             WorkerFault(w) \/ ActorEnds(w) \/ WorkEnds(w) \/ LateAnswer(w)
      PROVE  Budget' /\ Inventory'
  <2>1. UNCHANGED <<task, left, started>>
    BY <1>3 DEF WorkerFault, ActorEnds, WorkEnds, LateAnswer, Served, Serves, Stop, Ended, OnlyActors,
                Later
  <2>2. Budget'
    BY <2>1 DEF Budget, Early
  <2> QED
    BY <1>3, <2>2, ActorsOn
<1>4. CASE Monitor \/ Poll
  <2>1. UNCHANGED <<task, left, started>>
    BY <1>4 DEF Monitor, MonitorSees, GivesUp, MonitorReleases, Served, Poll, OnlyController, Later, actors
  <2>2. Budget'
    BY <2>1 DEF Budget, Early
  <2> QED
    BY <1>4, <2>2, OtherSteps
<1>5. CASE UNCHANGED vars
  <2>1. Budget'
    BY <1>5 DEF vars, actors, Budget, Early
  <2>2. Inventory'
    BY <1>5 DEF vars, Attended, Crew, actors, Inventory, Fits, Staff, Placed, Hired, Holds, Detached
  <2> QED
    BY <2>1, <2>2
<1> QED
  BY <1>1, <1>2, <1>3, <1>4, <1>5 DEF Next

LEMMA StockInit == Init => Budget /\ Inventory
<1> SUFFICES ASSUME Init PROVE Budget /\ Inventory
  OBVIOUS
<1>1. \A t \in Clients : task[t] = NoTask
  BY DEF Init
<1>2. Early = {}
  BY <1>1, IdlePlace DEF Early, EarlyPlaces
<1>3. Budget
  BY <1>2, FS_EmptySet, RegistryAssumption DEF Budget, Init
<1>4. \A t \in Clients : NoDuty(task[t])
  BY <1>1, IdlePlace DEF NoDuty, Init
<1>5. \A t \in Clients : Placed(task[t], ctl)
  BY <1>4, FreePlace DEF Placed
<1>6. \A t \in Clients : Hired(task[t])
  BY <1>1, <1>4, FreePlace, IdlePlace DEF Hired, NoDuty
<1>7. Fits(ctl)
  BY <1>5 DEF Init, Fits, Detached, Attended
<1>8. Staff
  BY <1>4, <1>6, FreePlace, RegistryAssumption DEF Init, Staff, Attended, Crew, Workers
<1> QED
  BY <1>3, <1>7, <1>8 DEF Inventory

(* Whatever failed, crossed or came late on the way, no command that has ended has left *)
(* anything behind: no reservation, no closing session, no transition, and, unless its  *)
(* shutdown was given up, no worker without its session and no recording of one         *)
(* (generic_deck_state.rs).                                                             *)
THEOREM LeavesNothing == Spec => []NothingLeft
<1>1. IInv /\ Inventory => NothingLeft
  <2> SUFFICES ASSUME IInv, Inventory, \A t \in Clients : Idle(t)
               PROVE  /\ ctl.pending = {} /\ ctl.closing = {} /\ ctl.transition = 0
                      /\ ctl.replacing = None /\ ctl.starting = NoPin
                      /\ \A w \in Attended : ctl.sessions[serves[w]] = w /\ ~exited
                      /\ \A id \in recording \ {serves[w] : w \in overdue} : ctl.sessions[id] # 0
    BY DEF NothingLeft
  <2>1. \A t \in Clients :
            /\ task[t].at \notin TransitPlaces /\ task[t].at \notin OpenPlaces
            /\ task[t].at \notin StopPlaces /\ task[t].at \notin PinPlaces
            /\ task[t].at \notin {"restart", "settle"}
            /\ \A w, id : ~Holds(task[t], w, id)
    BY DEF Idle, At, Holds, TransitPlaces, OpenPlaces, StopPlaces, PinPlaces, ReplaceSteps, NewPlaces
  <2>2. /\ ctl.pending \subseteq Ids /\ ctl.closing \subseteq Ids /\ started \in Nat
    BY DEF IInv, ControllerOK, Controllers
  <2>3. \A w \in Attended : ctl.sessions[serves[w]] = w /\ w # 0 /\ serves[w] \in Ids
    <3>1. \A w \in Attended : w \in 1 .. started /\ serves[w] \in Ids
      BY AttendedCrew DEF Inventory, Staff
    <3>2. \A w \in Attended : \/ ctl.sessions[serves[w]] = w
                            \/ \E t \in Clients : Holds(task[t], w, serves[w])
      BY DEF Inventory, Fits
    <3>3. \A w \in 1 .. started : w # 0
      BY <2>2
    <3> QED
      BY <2>1, <3>1, <3>2, <3>3
  <2>4. ASSUME NEW id \in recording \ {serves[w] : w \in overdue} PROVE ctl.sessions[id] # 0
    <3>1. PICK w \in up : serves[w] = id
      BY <2>1 DEF Inventory, Staff
    <3> QED
      BY <2>3, <3>1 DEF Attended
  <2> QED
    BY <2>1, <2>2, <2>3, <2>4 DEF Inventory, Fits, Detached
<1> QED
  BY <1>1, InitOK, StockInit, Inductive, StockInductive, PTL DEF Spec

-----------------------------------------------------------------------------
(* The sessions that have a worker or may get one: those of the controller, those a      *)
(* command opens or replaces, and those an exit has still to stop.                       *)
Live(c) == {id \in Ids : c.sessions[id] # 0 \/ id \in c.pending}
Rooms ==
    Live(ctl) \cup {id \in Ids :
        \/ \E t \in Clients : Makes(task[t]) /\ task[t].id = id
        \/ \E t \in Clients : task[t].at = "drain" /\ task[t].broker.warm[id] # 0}
RoomLeft == Cardinality(Rooms) <= MaxWarm

LEMMA RoomsFinite ==
  ASSUME NEW S \in SUBSET Ids
  PROVE  /\ IsFiniteSet(S) /\ Cardinality(S) \in Nat
         /\ \A T \in SUBSET S : Cardinality(T) <= Cardinality(S)
<1>1. IsFiniteSet(S)
  BY RegistryAssumption, FS_Subset
<1> QED
  BY <1>1, FS_Subset, FS_CardinalityType

LEMMA RoomsUnion ==
  ASSUME NEW S \in SUBSET Ids, NEW T \in SUBSET Ids
  PROVE  Cardinality(S \cup T) <= Cardinality(S) + Cardinality(T)
<1>1. IsFiniteSet(S) /\ IsFiniteSet(T) /\ S \cap T \in SUBSET Ids
  BY RoomsFinite
<1>2. Cardinality(S \cup T) = Cardinality(S) + Cardinality(T) - Cardinality(S \cap T)
  BY <1>1, FS_Union
<1>3. Cardinality(S \cap T) \in Nat /\ Cardinality(S) \in Nat /\ Cardinality(T) \in Nat
  BY <1>1, RoomsFinite
<1> QED
  BY <1>2, <1>3

LEMMA RoomsFewer == ASSUME RoomLeft, Rooms' \subseteq Rooms PROVE RoomLeft'
<1>1. Rooms \in SUBSET Ids /\ Rooms' \in SUBSET Ids
  BY DEF Rooms, Live
<1>2. Cardinality(Rooms) \in Nat /\ Cardinality(Rooms') \in Nat
      /\ Cardinality(Rooms') <= Cardinality(Rooms)
  BY <1>1, RoomsFinite
<1> QED
  BY <1>2, RegistryAssumption DEF RoomLeft

(* Until the exit, the sessions of the controller are all there are.                     *)
LEMMA RoomsOpen == IInv /\ Inventory /\ ~exited => Rooms = Live(ctl)
<1> SUFFICES ASSUME IInv, Inventory, ~exited PROVE Rooms = Live(ctl)
  OBVIOUS
<1>1. ASSUME NEW t \in Clients
      PROVE  /\ task[t].at # "drain"
             /\ Makes(task[t]) => task[t].id \in Live(ctl)
  <2>1. /\ Placed(task[t], ctl) /\ Hired(task[t]) /\ TaskOK(task[t], ctl, used)
        /\ ctl.pending \subseteq Ids
    BY DEF Inventory, Fits, Staff, IInv, ControllerOK, Controllers
  <2>2. CASE task[t].at \in OpenPlaces
    BY <2>1, <2>2 DEF Placed, Live
  <2>3. CASE task[t].at \in ReplaceSteps
    BY <2>1, <2>3 DEF Placed, Hired, Live, TaskOK, ReplaceSteps
  <2> QED
    BY <2>1, <2>2, <2>3 DEF Makes, Placed
<1> QED
  BY <1>1 DEF Rooms

(* Only a reservation takes up room in the controller.                                   *)
Frees(c, d) ==
    \A id \in Ids : d.sessions[id] # 0 \/ id \in d.pending => c.sessions[id] # 0 \/ id \in c.pending

LEMMA ReapFrees == ASSUME NEW c \in Controllers PROVE Frees(c, Reap(c))
  BY ReapReaps DEF Reaped, Frees

LEMMA ContinueFrees == ASSUME IInv, Inventory, NEW t \in Clients, Continue(t) PROVE Frees(ctl, ctl')
<1> DEFINE k == task[t]
           r == Reap(ctl)
<1>1. /\ ctl \in Controllers /\ r \in Controllers /\ Frees(ctl, r) /\ TaskOK(k, ctl, used)
      /\ Hired(k)
  BY FoundOK, ReapFrees DEF IInv, ControllerOK, Inventory, Staff
<1>2. CASE UNCHANGED ctl
  BY <1>2 DEF Frees
<1>3. CASE OpenCommit(t)
  <2>1. CASE /\ k.id \in ctl.pending
             /\ ctl' = [ctl EXCEPT !.pending = @ \ {k.id}, !.sessions[k.id] = k.w,
                                   !.broker = Bound(@, k.id, k.w)]
    <3>1. /\ ctl'.sessions = [ctl.sessions EXCEPT ![k.id] = k.w]
          /\ ctl'.pending = ctl.pending \ {k.id}
      BY <1>1, <2>1 DEF Controllers
    <3> QED
      BY <1>1, <2>1, <3>1 DEF Frees, Controllers
  <2> QED
    BY <1>2, <1>3, <2>1 DEF OpenCommit
<1>4. CASE OpenCancel(t) \/ CloseFinish(t) \/ WorkStarted(t)
  BY <1>1, <1>4 DEF OpenCancel, CloseFinish, WorkStarted, Frees, Controllers
<1>5. CASE ctl' = r
  BY <1>1, <1>5
<1>6. ASSUME NEW id, ctl' = Closing(r, id) PROVE Frees(ctl, ctl')
  <2> HIDE DEF r
  <2>1. ctl'.sessions = r.sessions /\ ctl'.pending = r.pending
    BY <1>1, <1>6 DEF Closing, Controllers
  <2> QED
    BY <1>1, <2>1 DEF Frees
<1>7. ASSUME NEW b \in States, ctl' = Reap([Idled(ctl) EXCEPT !.broker = b]) PROVE Frees(ctl, ctl')
  <2> DEFINE c == [Idled(ctl) EXCEPT !.broker = b]
  <2>1. c \in Controllers /\ c.sessions = ctl.sessions /\ c.pending = ctl.pending
    BY <1>1, <1>7 DEF Idled, Controllers
  <2> HIDE DEF c
  <2>2. Frees(c, Reap(c))
    BY <2>1, ReapFrees
  <2> QED
    BY <1>7, <2>1, <2>2 DEF Frees, c
<1>8. ASSUME NEW gen, ctl' = Aborted(ctl, gen) PROVE Frees(ctl, ctl')
  <2>1. ctl'.sessions = ctl.sessions /\ ctl'.pending = ctl.pending
    BY <1>1, <1>8 DEF Aborted, Idled, Controllers
  <2> QED
    BY <2>1 DEF Frees
<1>9. CASE Install(t)
  <2>1. CASE /\ ctl' = [Idled(ctl) EXCEPT !.sessions[k.id] = k.w, !.broker = Bound(@, k.id, k.w)]
             /\ ctl.sessions[k.id] = k.prev
    <3>1. k.prev # 0
      BY <1>1, <1>9 DEF Install, At, Hired, ReplaceSteps
    <3>2. ctl'.sessions = [ctl.sessions EXCEPT ![k.id] = k.w] /\ ctl'.pending = ctl.pending
      BY <1>1, <2>1 DEF Idled, Controllers
    <3> QED
      BY <1>1, <2>1, <3>1, <3>2 DEF Frees, Controllers
  <2> QED
    BY <1>2, <1>9, <2>1 DEF Install
<1>10. CASE Fail(t)
  <2>1. /\ ctl'.pending = ctl.pending
        /\ \/ ctl'.sessions = ctl.sessions
           \/ ctl'.sessions = [ctl.sessions EXCEPT ![k.id] = 0]
    BY <1>1, <1>10 DEF Fail, Idled, Controllers
  <2> QED
    BY <1>1, <2>1 DEF Frees, Controllers
<1>11. CASE WorkPin(t) \/ WorkUnpin(t)
  <2>1. CASE ctl' = [r EXCEPT !.broker = Pinned(r.broker, k.op),
                              !.starting = Pinned(r.broker, k.op).pin]
    <3> HIDE DEF r
    <3>1. ctl'.sessions = r.sessions /\ ctl'.pending = r.pending
      BY <1>1, <2>1 DEF Controllers
    <3> QED
      BY <1>1, <3>1 DEF Frees
  <2>2. CASE ctl' = Unpin(ctl, k.token)
    <3>1. ctl'.sessions = r.sessions /\ ctl'.pending = r.pending
      BY <1>1, <2>2 DEF Unpin, Controllers
    <3> HIDE DEF r
    <3> QED
      BY <1>1, <3>1 DEF Frees
  <2> QED
    BY <1>5, <1>11, <2>1, <2>2 DEF WorkPin, WorkUnpin
<1>12. CASE Unopen(t) \/ Seen(t)
  BY <1>5, <1>6, <1>12 DEF Unopen, Seen
<1>13. CASE Complete(t)
  <2>1. k.broker \in States
    BY <1>1 DEF TaskOK, Tasks
  <2> QED
    BY <1>7, <1>8, <1>13, <2>1 DEF Complete
<1>14. CASE Abort(t)
  BY <1>8, <1>14 DEF Abort
<1>15. CASE OpenStart(t) \/ OpenAbandon(t) \/ Viewport(t) \/ CloseStop(t) \/ Hide(t) \/ Show(t)
            \/ Restore(t) \/ Unshow(t) \/ Reshow(t) \/ Preflight(t) \/ Swap(t) \/ Restart(t)
            \/ Configure(t) \/ Discard(t) \/ Settle(t) \/ Unshown(t) \/ WorkStart(t) \/ Drain(t)
  BY <1>2, <1>15 DEF OpenStart, OpenAbandon, Viewport, CloseStop, Hide, Show, Restore, Unshow,
     Reshow, Preflight, Swap, Restart, Configure, Discard, Settle, Unshown, WorkStart, Drain,
     OnlyActors
<1> QED
  BY <1>3, <1>4, <1>9, <1>10, <1>11, <1>12, <1>13, <1>14, <1>15 DEF Continue

LEMMA CommandFrees ==
  ASSUME IInv, Inventory, NEW t \in Clients, Command(t), ~exited',
         \A id \in Ids : ~OpenReserve(t, id)
  PROVE  Frees(ctl, ctl')
<1> DEFINE r == Reap(ctl)
<1>1. ctl \in Controllers /\ r \in Controllers /\ Frees(ctl, r)
  BY FoundOK, ReapFrees DEF IInv, ControllerOK
<1>2. \/ ctl' = r
      \/ \E id \in Ids : ctl' = Closing(r, id)
      \/ \E x \in Ids \cup {None} : ctl' = Transit(r, x)
  BY DEF Command, ClosePrepare, SwitchPrepare, ClearPrepare, Foreground, ReplaceBegin, WorkRuntime,
         Exit
<1> HIDE DEF r
<1>3. ctl'.sessions = r.sessions /\ ctl'.pending = r.pending
  BY <1>1, <1>2 DEF Closing, Transit, Controllers
<1> QED
  BY <1>1, <1>3 DEF Frees

LEMMA OtherFrees == ASSUME IInv, Inventory, Monitor \/ Poll PROVE Frees(ctl, ctl')
<1> DEFINE r == Reap(ctl)
<1>1. ctl \in Controllers /\ r \in Controllers /\ Frees(ctl, r) /\ Frees(r, Reap(r))
      /\ Reap(r) \in Controllers
  <2>1. ctl \in Controllers /\ r \in Controllers /\ ControllerOK(r, used)
    BY FoundOK DEF IInv, ControllerOK
  <2>2. Reap(r) \in Controllers
    BY <2>1, ReapOK DEF ControllerOK
  <2> QED
    BY <2>1, <2>2, ReapFrees
<1>2. ASSUME NEW m, ctl' = Unpin(r, m) PROVE Frees(ctl, ctl')
  <2> DEFINE q == Reap(r)
  <2>1. ctl'.sessions = q.sessions /\ ctl'.pending = q.pending
    BY <1>1, <1>2 DEF Unpin, Controllers
  <2> HIDE DEF q
  <2> HIDE DEF r
  <2> QED
    BY <1>1, <2>1 DEF Frees, q
<1>3. ctl' = ctl \/ ctl' = r \/ \E m : ctl' = Unpin(r, m)
  BY DEF Monitor, MonitorSees, MonitorReleases, Poll
<1>4. Frees(ctl, ctl)
  BY DEF Frees
<1> QED
  BY <1>1, <1>2, <1>3, <1>4

(* The sections that open: the room of what is being closed counts until it is closed.   *)
LEMMA ReserveRoom ==
  ASSUME IInv, Inventory, RoomLeft, NEW t \in Clients, NEW id \in Ids, OpenReserve(t, id), ~exited
  PROVE  Cardinality(Live(ctl)') <= MaxWarm
<1> DEFINE r == Reap(ctl)
           held == Warm(r.broker) \cup (r.pending \cup r.closing)
<1>1. r \in Controllers /\ ControllerOK(r, used)
  BY FoundOK
<1>2. /\ ctl' = [r EXCEPT !.pending = @ \cup {id}]
      /\ Cardinality(Warm(r.broker)) + Cardinality(r.pending) + Cardinality(r.closing) < MaxWarm
  BY DEF OpenReserve
<1> HIDE DEF r
<1>3. ctl'.sessions = r.sessions /\ ctl'.pending = r.pending \cup {id}
  BY <1>1, <1>2 DEF Controllers
<1>4. /\ Warm(r.broker) \in SUBSET Ids /\ r.pending \in SUBSET Ids /\ r.closing \in SUBSET Ids
  BY <1>1 DEF Warm, Controllers
<1>5. Live(ctl)' \in SUBSET (held \cup {id})
  BY <1>1, <1>3 DEF Live, Warm, ControllerOK
<1>6. Cardinality(r.pending \cup r.closing) <= Cardinality(r.pending) + Cardinality(r.closing)
  BY <1>4, RoomsUnion
<1>7. /\ Cardinality(held) <= Cardinality(Warm(r.broker)) + Cardinality(r.pending \cup r.closing)
  BY <1>4, RoomsUnion
<1>8. /\ held \cup {id} \in SUBSET Ids /\ held \in SUBSET Ids
      /\ r.pending \cup r.closing \in SUBSET Ids
  BY <1>4
<1> HIDE DEF held
<1>9. Cardinality(held \cup {id}) <= Cardinality(held) + 1
  BY <1>8, RoomsFinite, FS_AddElement
<1>10. Cardinality(Live(ctl)') <= Cardinality(held \cup {id}) /\ Live(ctl)' \in SUBSET Ids
  BY <1>5, <1>8, RoomsFinite
<1>11. /\ Cardinality(Warm(r.broker)) \in Nat /\ Cardinality(r.pending) \in Nat
       /\ Cardinality(r.closing) \in Nat /\ Cardinality(held) \in Nat
       /\ Cardinality(r.pending \cup r.closing) \in Nat /\ Cardinality(held \cup {id}) \in Nat
       /\ Cardinality(Live(ctl)') \in Nat
  BY <1>4, <1>8, <1>10, RoomsFinite
<1>12. Cardinality(held \cup {id}) <= MaxWarm
  BY <1>2, <1>6, <1>7, <1>9, <1>11, RegistryAssumption
<1> QED
  BY <1>10, <1>11, <1>12, RegistryAssumption

(* The exit takes over what there is.                                                    *)
LEMMA ExitRoom ==
  ASSUME IInv, Inventory, Inventory', NEW t \in Clients, Exit(t)
  PROVE  Rooms' \subseteq Rooms
<1> DEFINE k == [NoTask EXCEPT !.at = "drain", !.op = "exit", !.broker.warm = ctl.sessions]
<1>1. /\ task \in [Clients -> Tasks] /\ task' = [task EXCEPT ![t] = k] /\ ~exited /\ exited'
  BY DEF IInv, Exit, Begin
<1>2. k.at = "drain" /\ k.broker.warm = ctl.sessions
  BY DEF NoTask, NoBroker
<1> HIDE DEF k
<1>3. Others(t) /\ task'[t] = k /\ ~Makes(k)
  BY <1>1, <1>2 DEF Others, Makes, OpenPlaces, ReplaceSteps
<1>4. \A s \in Clients : task[s].at # "drain"
  BY <1>1 DEF Inventory, Fits, Placed
<1>5. Live(ctl)' = {}
  BY <1>1 DEF Inventory, Fits, Detached, Live
<1> QED
  BY <1>2, <1>3, <1>4, <1>5 DEF Rooms, Others, Live

LEMMA ExitedKept == ASSUME NEW t \in Clients, Continue(t) PROVE exited' = exited
  BY DEF Continue, OpenStart, OpenAbandon, Viewport, CloseStop, Hide, Show, Restore, Unshow,
     Reshow, Preflight, Swap, Restart, Configure, Discard, Settle, Unshown, WorkStart, Drain,
     OpenCommit, OpenCancel, Unopen, Seen, CloseFinish, Abort, Complete, Install, Fail, WorkPin,
     WorkUnpin, WorkStarted, OnlyActors, OnlyController, Later

LEMMA RoomsStillOpen == (IInv /\ Inventory /\ ~exited => Rooms = Live(ctl))'
  BY RoomsOpen, PTL

LEMMA RoomsInductive ==
  IInv /\ Budget /\ Inventory /\ RoomLeft /\ [Next]_vars => RoomLeft'
<1> SUFFICES ASSUME IInv, Budget, Inventory, RoomLeft, [Next]_vars PROVE RoomLeft'
  OBVIOUS
<1>1. IInv' /\ Inventory'
  BY Inductive, StockInductive
<1>2. ASSUME ~exited, ~exited', Frees(ctl, ctl') PROVE RoomLeft'
  <2>1. Rooms = Live(ctl) /\ Rooms' = Live(ctl)'
    BY <1>1, <1>2, RoomsOpen, RoomsStillOpen
  <2> QED
    BY <1>2, <2>1, RoomsFewer DEF Live, Frees
<1>3. ASSUME exited', UNCHANGED task PROVE RoomLeft'
  BY <1>1, <1>3, RoomsFewer DEF Inventory, Fits, Detached, Live, Rooms
<1>4. ASSUME NEW t \in Clients, Command(t) PROVE RoomLeft'
  <2>1. ~exited
    BY <1>4 DEF Command, OpenReserve, ClosePrepare, SwitchPrepare, ClearPrepare, ReplaceBegin,
                WorkRuntime, Foreground, Exit, Begin
  <2>2. ASSUME NEW id \in Ids, OpenReserve(t, id) PROVE RoomLeft'
    <3>1. ~exited'
      BY <2>1, <2>2 DEF OpenReserve
    <3>2. Rooms' = Live(ctl)'
      BY <1>1, <3>1, RoomsStillOpen
    <3> QED
      BY <2>1, <2>2, <3>2, ReserveRoom DEF RoomLeft
  <2>3. CASE Exit(t)
    BY <1>1, <2>3, ExitRoom, RoomsFewer
  <2>4. CASE ~Exit(t) /\ \A id \in Ids : ~OpenReserve(t, id)
    <3>1. ~exited'
      BY <1>4, <2>1, <2>4 DEF Command, ClosePrepare, SwitchPrepare, ClearPrepare, ReplaceBegin,
                              WorkRuntime, Foreground
    <3> QED
      BY <1>2, <1>4, <2>1, <2>4, <3>1, CommandFrees
  <2> QED
    BY <2>2, <2>3, <2>4
<1>5. ASSUME NEW t \in Clients, Continue(t) PROVE RoomLeft'
  <2>1. Moves(t) /\ Frees(ctl, ctl')
    BY <1>5, ContinueMoves, ContinueFrees
  <2>2. exited' = exited
    BY <1>5, ExitedKept
  <2>3. CASE exited
    <3>1. Live(ctl)' = {}
      BY <1>1, <2>2, <2>3 DEF Inventory, Fits, Detached, Live
    <3> QED
      BY <2>1, <3>1, RoomsFewer DEF Rooms, Moves, Others
  <2> QED
    BY <1>2, <2>1, <2>2, <2>3
<1>6. ASSUME NEW w \in 1 .. started,
             WorkerFault(w) \/ ActorEnds(w) \/ WorkEnds(w) \/ LateAnswer(w)
      PROVE  RoomLeft'
  <2>1. UNCHANGED <<task, ctl, exited>>
    BY <1>6 DEF WorkerFault, ActorEnds, WorkEnds, LateAnswer, OnlyActors, Later
  <2> QED
    BY <2>1 DEF RoomLeft, Rooms, Live
<1>7. CASE Monitor \/ Poll
  <2>1. UNCHANGED <<task, exited>>
    BY <1>7 DEF Monitor, MonitorSees, MonitorReleases, Poll, OnlyController, Later
  <2> QED
    BY <1>2, <1>3, <1>7, <2>1, OtherFrees
<1>8. CASE UNCHANGED vars
  BY <1>8 DEF vars, RoomLeft, Rooms, Live
<1> QED
  BY <1>4, <1>5, <1>6, <1>7, <1>8 DEF Next

(* No more workers run than there are warm sessions allowed (MAX_WARM_SESSIONS), those    *)
(* that are opened, replaced, abandoned, closed or left to an exit included, those whose  *)
(* shutdown was given up left aside.                                                      *)
THEOREM CapacityHeld == Spec => []Capacity
<1>1. Init => RoomLeft
  <2> SUFFICES ASSUME Init PROVE RoomLeft
    OBVIOUS
  <2>1. Rooms = {}
    BY IdlePlace DEF Init, Rooms, Live
  <2> QED
    BY <2>1, FS_EmptySet, RegistryAssumption DEF RoomLeft
<1>2. IInv /\ Inventory /\ RoomLeft => Capacity
  <2> SUFFICES ASSUME IInv, Inventory, RoomLeft PROVE Capacity
    OBVIOUS
  <2> DEFINE f == [w \in Attended |-> serves[w]]
  <2>1. ASSUME NEW w \in Attended PROVE serves[w] \in Rooms
    <3>1. w # 0 /\ serves[w] \in Ids
      BY AttendedCrew DEF Inventory, Staff
    <3>2. \/ ctl.sessions[serves[w]] = w
          \/ \E t \in Clients : Holds(task[t], w, serves[w])
      BY DEF Inventory, Fits
    <3>3. NewPlaces \subseteq OpenPlaces \cup ReplaceSteps
      BY DEF NewPlaces, OpenPlaces, ReplaceSteps
    <3> QED
      BY <3>1, <3>2, <3>3 DEF Rooms, Live, Holds, Makes
  <2>2. f \in [Attended -> Rooms] /\ \A v, w \in Attended : f[v] = f[w] => v = w
    BY <2>1 DEF Inventory, Staff
  <2>3. Rooms \in SUBSET Ids
    BY DEF Rooms, Live
  <2>4. IsFiniteSet(Rooms) /\ Cardinality(Rooms) \in Nat
    BY <2>3, RoomsFinite
  <2>5. f \in Injection(Attended, Rooms)
    BY <2>2 DEF Injection, IsInjective
  <2>6. IsFiniteSet(Attended) /\ Cardinality(Attended) <= Cardinality(Rooms)
    BY <2>4, <2>5, FS_Injection
  <2>7. Cardinality(Attended) \in Nat
    BY <2>6, FS_CardinalityType
  <2> QED
    BY <2>4, <2>6, <2>7, RegistryAssumption DEF Capacity, RoomLeft
<1> QED
  BY <1>1, <1>2, InitOK, StockInit, Inductive, StockInductive, RoomsInductive, PTL DEF Spec

-----------------------------------------------------------------------------
(* What the actors show.  One caller sends the commands, the others close and exit.       *)
OneCaller == \E u \in Clients : \A t \in Clients \ {u} : May[t] \subseteq {"close", "exit"}

Asked == {"none", "view", "show", "hide"} \cup Commands
Cast ==
    /\ showing \subseteq up /\ ending \cup overdue \subseteq up /\ up \subseteq Workers
    /\ late \in [Workers -> Asked] /\ \A w \in overdue : Doomed(w)

LEMMA AsksCast ==
  ASSUME Cast, NEW t, NEW w, NEW what \in Asked, NEW a, NEW f, Asks(t, w, what, a, f)
  PROVE  Cast'
<1>1. CASE UNCHANGED actors
  BY <1>1 DEF Cast, actors, Doomed
<1>2. CASE GivesUp(w, what)
  BY <1>2 DEF Cast, GivesUp, Doomed
<1>3. CASE w \in up /\ (Serves(w, what) \/ Served) /\ (UNCHANGED ending \/ Leaves(w)) /\ UNCHANGED late
  BY <1>3 DEF Cast, Serves, Served, Leaves, Doomed
<1> QED
  BY <1>1, <1>2, <1>3 DEF Asks

LEMMA EndedCast == ASSUME Cast, NEW w, NEW rec, Ended(w, rec) PROVE Cast'
  BY DEF Cast, Ended, Asked, Doomed

LEMMA OverdueCast == ASSUME Cast, NEW w, Overdue(w) PROVE Cast'
  BY DEF Cast, Overdue, Doomed

LEMMA CastInductive == IInv /\ Budget /\ Cast /\ [Next]_vars => Cast'
<1> SUFFICES ASSUME IInv, Budget, Cast, [Next]_vars PROVE Cast'
  OBVIOUS
<1>1. CASE UNCHANGED actors
  BY <1>1 DEF actors, Cast, Doomed
<1>2. ASSUME NEW t \in Clients, Continue(t) PROVE Cast'
  <2>1. {"view", "show", "hide", task[t].op} \subseteq Asked
    BY DEF IInv, Tasks, Asked
  <2>2. CASE Viewport(t) \/ Hide(t) \/ Show(t) \/ Restore(t) \/ Unshow(t) \/ Reshow(t)
             \/ Preflight(t) \/ Configure(t) \/ WorkStart(t)
    BY <1>1, <2>1, <2>2, AsksCast
       DEF Viewport, Hide, Show, Restore, Unshow, Reshow, Preflight, Configure, WorkStart
  <2>3. CASE OpenAbandon(t) \/ CloseStop(t) \/ Discard(t) \/ Unshown(t) \/ Swap(t) \/ Drain(t)
    BY <1>1, <2>3, EndedCast, OverdueCast
       DEF OpenAbandon, CloseStop, Discard, Unshown, Swap, Drain, ShutsDown, Stop
  <2>4. CASE OpenStart(t) \/ Restart(t)
    <3>1. started + 1 \in Workers
      BY <2>4, BudgetStarts DEF OpenStart, Restart, At, Early, EarlyPlaces
    <3> QED
      BY <1>1, <2>4, <3>1 DEF OpenStart, Restart, Started, Cast, Doomed
  <2>5. CASE Settle(t)
    BY <2>5 DEF Settle, Cast, Doomed
  <2>6. CASE \/ OpenCommit(t) \/ OpenCancel(t) \/ Unopen(t) \/ Seen(t) \/ CloseFinish(t) \/ Abort(t)
             \/ Complete(t) \/ Install(t) \/ Fail(t) \/ WorkPin(t) \/ WorkUnpin(t) \/ WorkStarted(t)
    BY <1>1, <2>6 DEF OpenCommit, OpenCancel, Unopen, Seen, CloseFinish, Abort, Complete, Install, Fail,
       WorkPin, WorkUnpin, WorkStarted, OnlyController
  <2> QED
    BY <1>2, <2>2, <2>3, <2>4, <2>5, <2>6 DEF Continue
<1>3. ASSUME NEW t \in Clients, Command(t) PROVE Cast'
  BY <1>1, <1>3, CommandBegins DEF Begin
<1>4. ASSUME NEW w \in 1 .. started, WorkerFault(w) \/ ActorEnds(w) \/ WorkEnds(w) \/ LateAnswer(w)
      PROVE  Cast'
  <2>1. CASE ActorEnds(w)
    BY <2>1, EndedCast DEF ActorEnds, Stop
  <2>2. CASE WorkerFault(w) \/ WorkEnds(w)
    BY <2>2 DEF WorkerFault, WorkEnds, Served, Leaves, Cast, Doomed
  <2>3. CASE LateAnswer(w)
    BY <2>3 DEF LateAnswer, Served, Serves, Leaves, Cast, Asked, Doomed
  <2> QED
    BY <1>4, <2>1, <2>2, <2>3
<1>5. CASE Monitor \/ Poll
  <2>1. ASSUME NEW w, GivesUp(w, "view") PROVE Cast'
    BY <2>1 DEF GivesUp, Cast, Asked, Doomed
  <2> QED
    BY <1>1, <1>5, <2>1 DEF Monitor, MonitorSees, MonitorReleases, Poll, OnlyController
<1>6. CASE UNCHANGED vars
  BY <1>1, <1>6 DEF vars
<1> QED
  BY <1>2, <1>3, <1>4, <1>5, <1>6 DEF Next

-----------------------------------------------------------------------------
(* The workers that still answer, and those with the foreground that are not being closed. *)
Awake == {w \in up : ~Doomed(w)}
Bright(c) == {w \in showing \cap Awake : serves[w] \notin c.closing}

LEMMA AwakeAttended == Cast => Awake \subseteq Attended /\ Attended \subseteq up /\ Awake \subseteq Workers
  BY DEF Awake, Attended, Cast

(* A switch has hidden what it found and has not shown the target yet.                    *)
Dark == {"show", "restore", "reshow"}
Ahead == {"complete", "unshow"}
Swapped == ReplaceSteps \ {"preflight", "swap"}

(* Who has the foreground, for the controller c and the command k of the one caller: the  *)
(* session of the lease, nobody in the dark of a switch, or the target ahead of the lease; *)
(* and the session of the lease has it when no switch or replacement is at work on it.    *)
Holder(c, k) ==
    \A w \in Bright(c) :
        /\ k.at \notin Dark
        /\ k.at \in Ahead => w = k.w
        /\ k.at \notin Ahead => serves[w] = c.broker.lease.id
Switcher(c, k) ==
    /\ k.at \in SwitchSteps =>
        /\ c.broker.lease.id # None => c.sessions[c.broker.lease.id] = k.prev
        /\ k.prev \in Awake => serves[k.prev] = c.broker.lease.id \/ serves[k.prev] \in c.closing
    /\ k.at \in {"hide", "show", "complete"} =>
        /\ k.w = 0 => k.broker.lease.id = None
        /\ k.w # 0 => /\ k.broker.lease.id \in Ids /\ serves[k.w] = k.broker.lease.id
                      /\ c.sessions[k.broker.lease.id] \in {0, k.w}
    /\ k.at \in ReplaceSteps => (k.owns <=> c.broker.lease.id = k.id)
Lit(c, k) ==
    /\ /\ c.broker.lease.id # None /\ c.sessions[c.broker.lease.id] \in Awake
       /\ k.at \notin Dark \cup Ahead /\ ~(k.at \in Swapped /\ c.broker.lease.id = k.id)
       => c.sessions[c.broker.lease.id] \in showing
    /\ k.at = "complete" \/ (k.at = "install" /\ k.owns) => (k.w \in Awake => k.w \in showing)
Screen(c, k) == Holder(c, k) /\ Switcher(c, k) /\ Lit(c, k)

(* Actors that end, give up the foreground or are given up, with no other change.         *)
Fades ==
    /\ UNCHANGED serves /\ Awake' \subseteq Awake
    /\ Awake' \cap showing' = Awake' \cap showing

LEMMA FadesKeep ==
  ASSUME NEW c, NEW k, Screen(c, k), Fades, NEW u, ctl' = c, task'[u] = k
  PROVE  Screen(ctl, task[u])'
<1>1. \A w \in showing' \cap Awake' : serves[w] \notin c.closing => w \in Bright(c)
  BY DEF Fades, Bright
<1>2. Holder(ctl, task[u])'
  BY <1>1 DEF Screen, Holder, Bright, Fades
<1>3. Switcher(ctl, task[u])'
  BY DEF Screen, Switcher, Fades
<1>4. Lit(ctl, task[u])'
  BY DEF Screen, Lit, Fades
<1> QED
  BY <1>2, <1>3, <1>4 DEF Screen

LEMMA StillFades == ASSUME UNCHANGED actors PROVE Fades
  BY DEF Fades, actors, Awake, Doomed

LEMMA EndedFades == ASSUME Cast, NEW w, NEW rec, Ended(w, rec) PROVE Fades
  BY DEF Fades, Ended, Awake, Cast, Doomed

LEMMA OverdueFades == ASSUME Cast, NEW w, Overdue(w) PROVE Fades
  BY DEF Fades, Overdue, Awake, Cast, Doomed

LEMMA ShutsDownFades == ASSUME Cast, NEW w, ShutsDown(w) PROVE Fades
  BY EndedFades, OverdueFades DEF ShutsDown, Stop

LEMMA GivenUpFades ==
  ASSUME Cast, NEW w, NEW what \in Asked, GivesUp(w, what)
  PROVE  Fades /\ showing' = showing /\ (what # "none" => w \notin Awake')
  BY DEF GivesUp, Fades, Awake, Doomed, Cast

LEMMA AsksFades ==
  ASSUME Cast, NEW t, NEW w, NEW what \in Asked, NEW a, NEW f, Asks(t, w, what, a, f)
  PROVE  \/ Goto(t, a) /\ w \in Awake /\ Serves(w, what) /\ UNCHANGED <<ending, late>>
         \/ /\ Goto(t, f) /\ Fades
            /\ what \in {"show", "hide"} => w \notin Awake' /\ showing' = showing
<1>1. CASE w \notin up /\ UNCHANGED actors /\ Goto(t, f)
  BY <1>1, StillFades DEF Awake, Doomed, actors, Cast
<1>2. CASE w \in up \ ending /\ late[w] = "none" /\ Serves(w, what) /\ UNCHANGED <<ending, late>>
           /\ Goto(t, a)
  BY <1>2 DEF Awake, Doomed
<1>3. CASE what \in {"capture", "mp4"} /\ UNCHANGED actors /\ Goto(t, f)
  BY <1>3, StillFades
<1>4. CASE w \in up \ ending /\ Leaves(w) /\ Served /\ UNCHANGED late /\ Goto(t, f)
  BY <1>4 DEF Leaves, Served, Fades, Awake, Doomed
<1>5. CASE GivesUp(w, what) /\ Goto(t, f)
  BY <1>5, GivenUpFades
<1> QED
  BY <1>1, <1>2, <1>3, <1>4, <1>5 DEF Asks

-----------------------------------------------------------------------------
(* A running worker is the one of its session, or the one that replaces it.               *)
Entered(c) ==
    \A w \in Awake : serves[w] \in Ids /\ (c.sessions[serves[w]] \in {0, w} \/ serves[w] = c.replacing)

LEMMA EnteredNow == ASSUME IInv, Inventory, Cast, ~exited PROVE Entered(ctl)
<1> SUFFICES ASSUME NEW w \in Awake
             PROVE  /\ serves[w] \in Ids
                    /\ ctl.sessions[serves[w]] \in {0, w} \/ serves[w] = ctl.replacing
  BY DEF Entered
<1>1. serves[w] \in Ids /\ w \in Attended
  BY AwakeAttended, AttendedCrew DEF Inventory, Staff
<1>2. ASSUME NEW t \in Clients, Holds(task[t], w, serves[w])
      PROVE  ctl.sessions[serves[w]] \in {0, w} \/ serves[w] = ctl.replacing
  <2>1. Placed(task[t], ctl) /\ \A i \in ctl.pending : ctl.sessions[i] = 0
    BY DEF Inventory, Fits, IInv, ControllerOK
  <2>2. task[t].at \in OpenPlaces \cup ReplaceSteps \cup {"drain"}
        /\ (task[t].at # "drain" => task[t].id = serves[w])
    BY <1>2 DEF Holds, NewPlaces, OpenPlaces, ReplaceSteps
  <2> QED
    BY <2>1, <2>2 DEF Placed
<1> QED
  BY <1>1, <1>2 DEF Inventory, Fits

LEMMA ReapLease ==
  ASSUME NEW c \in Controllers
  PROVE  /\ Reap(c).broker.lease.id \in {None, c.broker.lease.id}
         /\ \A id \in Ids : c.sessions[id] \in up \cup {0} \/ id = c.replacing =>
                /\ id \in Reap(c).closing <=> id \in c.closing
                /\ c.broker.lease.id = id => Reap(c).broker.lease.id = id
<1> DEFINE gone == {id \in Ids \ {c.replacing} : c.sessions[id] \notin up \cup {0}}
           lost == {id \in gone \ c.closing : c.broker.warm[id] = c.sessions[id]}
           b == Faulted(c.broker, lost)
           s == IF c.starting = b.pin THEN c.starting ELSE NoPin
           r == [c EXCEPT !.sessions = [id \in Ids |-> IF id \in gone THEN 0 ELSE @[id]],
                          !.closing = @ \ gone, !.broker = b, !.starting = s]
           q == [r EXCEPT !.broker = Released(b, b.pin)]
           lease == IF c.broker.lease.id \in lost THEN NoLease ELSE c.broker.lease
<1>1. b.lease = lease /\ Released(b, b.pin).lease = lease
  <2>1. c.broker \in States
    BY DEF Controllers
  <2> HIDE DEF lost
  <2> QED
    BY <2>1 DEF Faulted, Forgotten, Released, States
<1> HIDE DEF lost, b, s
<1>2. r.broker = b /\ r.closing = c.closing \ gone
  BY DEF Controllers
<1>3. q.broker = Released(b, b.pin) /\ q.closing = c.closing \ gone
  BY DEF Controllers
<1>4. Reap(c) \in {r, q}
  BY DEF Reap, r, q, b, s, lost, gone
<1>5. Reap(c).broker.lease = lease /\ Reap(c).closing = c.closing \ gone
  BY <1>1, <1>2, <1>3, <1>4
<1> HIDE DEF r, q
<1>6. lost \subseteq gone
  BY DEF lost
<1> QED
  BY <1>5, <1>6, RegistryAssumption DEF NoLease

LEMMA ReapScreen ==
  ASSUME Cast, NEW c \in Controllers, NEW v, ControllerOK(Reap(c), v), Entered(c),
         NEW k, Screen(c, k), k.at \in ReplaceSteps => k.id \in Ids /\ k.id = c.replacing
  PROVE  Screen(Reap(c), k)
<1> DEFINE r == Reap(c)
<1>1. /\ r.broker.lease.id \in {None, c.broker.lease.id}
      /\ \A id \in Ids : c.sessions[id] \in up \cup {0} \/ id = c.replacing =>
                /\ id \in r.closing <=> id \in c.closing
                /\ c.broker.lease.id = id => r.broker.lease.id = id
      /\ \A id \in Ids : r.sessions[id] \in {0, c.sessions[id]}
  BY ReapLease, ReapReaps DEF Reaped
<1>2. r.broker.lease.id # None =>
          /\ r.broker.lease.id = c.broker.lease.id
          /\ r.sessions[r.broker.lease.id] = c.sessions[r.broker.lease.id]
  <2>1. r.broker.lease.id # None => r.broker.lease.id \in Ids /\ r.sessions[r.broker.lease.id] # 0
    BY DEF ControllerOK, Leased, Controllers, States, Leases
  <2> QED
    BY <1>1, <2>1
<1> HIDE DEF r
<1>3. \A w \in Awake : /\ serves[w] \in Ids
                       /\ serves[w] \in r.closing <=> serves[w] \in c.closing
                       /\ c.broker.lease.id = serves[w] => r.broker.lease.id = serves[w]
  BY <1>1 DEF Entered, Awake
<1>4. Bright(r) = Bright(c) /\ Bright(c) \subseteq Awake
  BY <1>3 DEF Bright
<1>5. Holder(r, k)
  BY <1>3, <1>4 DEF Screen, Holder
<1>6. Switcher(r, k)
  <2>1. k.at \in ReplaceSteps => (c.broker.lease.id = k.id <=> r.broker.lease.id = k.id)
    BY <1>1, RegistryAssumption
  <2> QED
    BY <1>1, <1>2, <1>3, <2>1 DEF Screen, Switcher
<1>7. Lit(r, k)
  BY <1>2 DEF Screen, Lit
<1> QED
  BY <1>5, <1>6, <1>7 DEF Screen, r

-----------------------------------------------------------------------------
(* The places a command goes through.                                                     *)
Plain(p) == p \notin SwitchSteps \cup ReplaceSteps

LEMMA PlainScreen ==
  ASSUME NEW c, NEW k, NEW l, Screen(c, k), k.at \notin Dark \cup Ahead \cup Swapped, Plain(l.at)
  PROVE  Screen(c, l)
  BY DEF Screen, Holder, Switcher, Lit, Plain, Dark, Ahead, Swapped, SwitchSteps, ReplaceSteps

LEMMA ReplaceScreen ==
  ASSUME NEW c, NEW k, NEW l, Screen(c, k), k.at \in ReplaceSteps,
         l.at \in ReplaceSteps \ {"install"}, k.at \in Swapped => l.at \in Swapped,
         l.id = k.id, l.owns = k.owns
  PROVE  Screen(c, l)
  BY DEF Screen, Holder, Switcher, Lit, Dark, Ahead, Swapped, SwitchSteps, ReplaceSteps

LEMMA SameScreen ==
  ASSUME NEW c, NEW d, NEW k, Screen(c, k), d.closing = c.closing, d.sessions = c.sessions,
         d.broker.lease = c.broker.lease
  PROVE  Screen(d, k)
  BY DEF Screen, Holder, Switcher, Lit, Bright

LEMMA GotoAll ==
  ASSUME IInv, NEW t \in Clients, NEW at \in Places, Goto(t, at)
  PROVE  /\ Others(t) /\ task'[t].at = at
         /\ at # "idle" => Carries(task[t], task'[t]) /\ task'[t].owns = task[t].owns
<1>1. task[t] \in Tasks /\ task \in [Clients -> Tasks]
  BY DEF IInv
<1>2. CASE at # "idle"
  <2>1. task' = [task EXCEPT ![t] = [task[t] EXCEPT !.at = at]]
    BY <1>1, <1>2 DEF Goto
  <2> QED
    BY <1>1, <1>2, <2>1, GotoIs DEF Tasks
<1> QED
  BY <1>2, GotoIs

(* What the one caller does while nobody else commands.                                   *)
LEMMA FadesOn ==
  ASSUME NEW u, NEW c, NEW l, Screen(c, l), Fades, ctl' = c, task'[u] = l
  PROVE  Screen(ctl, task[u])'
  BY FadesKeep

LEMMA OneWorker ==
  ASSUME Inventory, NEW c, Fits(c), c.broker.lease.id \in Ids, c.sessions[c.broker.lease.id] # 0,
         NEW w \in Attended, serves[w] = c.broker.lease.id, c.sessions[c.broker.lease.id] \in Attended
  PROVE  w = c.sessions[c.broker.lease.id]
  BY DEF Inventory, Fits, Staff

LEMMA HideScreen ==
  ASSUME IInv, Inventory, Cast, NEW u \in Clients, Screen(ctl, task[u]), Hide(u)
  PROVE  Screen(ctl, task[u])'
<1> DEFINE k == task[u]
           a == IF k.w = 0 THEN "complete" ELSE "show"
<1>1. k.at = "hide" /\ ctl' = ctl /\ Asks(u, k.prev, "hide", a, "abort")
  BY DEF Hide, At, OnlyActors
<1>2. {"complete", "show", "abort"} \subseteq Places /\ "hide" \in Asked
  BY DEF Places, Asked
<1>3. CASE Goto(u, "abort") /\ Fades
  <2>1. task'[u].at = "abort"
    BY <1>2, <1>3, GotoAll
  <2>2. Screen(ctl, task'[u])
    BY <1>1, <2>1, PlainScreen
       DEF Plain, Dark, Ahead, Swapped, SwitchSteps, ReplaceSteps
  <2> QED
    BY <1>1, <1>3, <2>2, FadesOn
<1>4. CASE Goto(u, a) /\ k.prev \in Awake /\ Serves(k.prev, "hide") /\ UNCHANGED <<ending, late>>
  <2>1. /\ task'[u].at = a /\ task'[u].w = k.w /\ task'[u].prev = k.prev
        /\ task'[u].broker = k.broker
    BY <1>2, <1>4, GotoAll DEF Carries
  <2>2. /\ showing' = showing \ {k.prev} /\ UNCHANGED <<Awake, serves>>
    BY <1>4 DEF Serves, Awake, Doomed
  <2>3. ASSUME NEW w \in Bright(ctl) PROVE w = k.prev
    <3>1. w \in Attended /\ serves[w] = ctl.broker.lease.id /\ serves[w] \in Ids
      BY <1>1, AwakeAttended, AttendedCrew DEF Screen, Holder, Ahead, Bright, Inventory, Staff
    <3>2. ctl.sessions[ctl.broker.lease.id] = k.prev /\ k.prev \in Attended /\ k.prev # 0
      BY <1>1, <1>4, <3>1, AwakeAttended, RegistryAssumption DEF Screen, Switcher, SwitchSteps, Workers
    <3> QED
      BY <3>1, <3>2, OneWorker DEF Inventory
  <2>4. Holder(ctl, task[u])'
    BY <1>1, <2>1, <2>2, <2>3 DEF Holder, Bright
  <2>5. Switcher(ctl, task[u])'
    BY <1>1, <2>1, <2>2 DEF Screen, Switcher, SwitchSteps, ReplaceSteps
  <2>6. Lit(ctl, task[u])'
    <3>1. 0 \notin Awake
      BY AwakeAttended DEF Workers
    <3> QED
      BY <1>1, <2>1, <2>2, <3>1 DEF Lit, Dark, Ahead
  <2> QED
    BY <2>4, <2>5, <2>6 DEF Screen
<1> QED
  BY <1>1, <1>2, <1>3, <1>4, AsksFades

LEMMA ShowScreen ==
  ASSUME IInv, Inventory, Cast, NEW u \in Clients, Screen(ctl, task[u]), Show(u)
  PROVE  Screen(ctl, task[u])'
<1> DEFINE k == task[u]
           f == IF k.prev = 0 THEN "abort" ELSE "restore"
<1>1. k.at = "show" /\ ctl' = ctl /\ Asks(u, k.w, "show", "complete", f)
  BY DEF Show, At, OnlyActors
<1>2. {"complete", "restore", "abort"} \subseteq Places /\ "show" \in Asked
  BY DEF Places, Asked
<1>3. Bright(ctl) = {}
  BY <1>1 DEF Screen, Holder, Dark
<1>4. CASE Goto(u, f) /\ Fades
  <2>1. /\ task'[u].at = f /\ task'[u].w = k.w /\ task'[u].prev = k.prev
    BY <1>2, <1>4, GotoAll DEF Carries
  <2>2. CASE k.prev = 0
    <3>1. ctl.sessions[ctl.broker.lease.id] \notin Awake \/ ctl.broker.lease.id = None
      BY <1>1, <2>2, AwakeAttended DEF Screen, Switcher, SwitchSteps, Workers
    <3>2. Screen(ctl, task'[u])
      BY <1>3, <2>1, <2>2, <3>1
         DEF Screen, Holder, Switcher, Lit, SwitchSteps, ReplaceSteps
    <3> QED
      BY <1>1, <1>4, <3>2, FadesOn
  <2>3. CASE k.prev # 0
    <3>1. Screen(ctl, task'[u])
      BY <1>1, <1>3, <2>1, <2>3
         DEF Screen, Holder, Switcher, Lit, SwitchSteps, ReplaceSteps, Dark
    <3> QED
      BY <1>1, <1>4, <3>1, FadesOn
  <2> QED
    BY <2>2, <2>3
<1>5. CASE Goto(u, "complete") /\ k.w \in Awake /\ Serves(k.w, "show") /\ UNCHANGED <<ending, late>>
  <2>1. /\ task'[u].at = "complete" /\ task'[u].w = k.w /\ task'[u].prev = k.prev
        /\ task'[u].broker = k.broker
    BY <1>2, <1>5, GotoAll DEF Carries
  <2>2. /\ showing' = showing \cup {k.w} /\ UNCHANGED <<Awake, serves>>
    BY <1>5 DEF Serves, Awake, Doomed
  <2>3. Holder(ctl, task[u])'
    BY <1>1, <1>3, <2>1, <2>2 DEF Holder, Bright, Dark, Ahead
  <2>4. Switcher(ctl, task[u])'
    BY <1>1, <2>1, <2>2 DEF Screen, Switcher, SwitchSteps, ReplaceSteps
  <2>5. Lit(ctl, task[u])'
    BY <1>1, <2>1, <2>2 DEF Lit, Dark, Ahead
  <2> QED
    BY <2>3, <2>4, <2>5 DEF Screen
<1> QED
  BY <1>1, <1>2, <1>4, <1>5, AsksFades

(* The previous session is shown again, if it can be.                                     *)
LEMMA ReshowScreen ==
  ASSUME IInv, Inventory, Cast, NEW u \in Clients, Screen(ctl, task[u]), Restore(u) \/ Reshow(u)
  PROVE  Screen(ctl, task[u])'
<1> DEFINE k == task[u]
<1>1. k.at \in {"restore", "reshow"} /\ ctl' = ctl
      /\ \E a \in {"abort", "idle"} : Asks(u, k.prev, "show", a, a)
  BY DEF Restore, Reshow, At, OnlyActors
<1>2. {"idle", "abort"} \subseteq Places /\ "show" \in Asked
  BY DEF Places, Asked
<1>3. Bright(ctl) = {}
  BY <1>1 DEF Screen, Holder, Dark
<1>4. /\ ctl.broker.lease.id # None => ctl.sessions[ctl.broker.lease.id] = k.prev
      /\ k.prev \in Awake => serves[k.prev] = ctl.broker.lease.id \/ serves[k.prev] \in ctl.closing
  BY <1>1 DEF Screen, Switcher, SwitchSteps
<1>5. PICK a \in {"abort", "idle"} :
        /\ Goto(u, a)
        /\ \/ k.prev \in Awake /\ Serves(k.prev, "show") /\ UNCHANGED <<ending, late>>
           \/ Fades /\ k.prev \notin Awake' /\ showing' = showing
  BY <1>1, <1>2, AsksFades
<1>6. task'[u].at \in {"abort", "idle"}
  BY <1>2, <1>5, GotoAll
<1>7. Switcher(ctl, task[u])'
  BY <1>6 DEF Switcher, SwitchSteps, ReplaceSteps
<1>8. CASE k.prev \in Awake /\ Serves(k.prev, "show") /\ UNCHANGED <<ending, late>>
  <2>1. /\ showing' = showing \cup {k.prev} /\ UNCHANGED <<Awake, serves>>
    BY <1>8 DEF Serves, Awake, Doomed
  <2>2. Holder(ctl, task[u])'
    BY <1>1, <1>3, <1>4, <1>6, <1>8, <2>1 DEF Holder, Bright, Dark, Ahead
  <2>3. Lit(ctl, task[u])'
    BY <1>1, <1>4, <1>6, <2>1 DEF Lit
  <2> QED
    BY <1>7, <2>2, <2>3 DEF Screen
<1>9. CASE Fades /\ k.prev \notin Awake'
  <2>1. Holder(ctl, task[u])'
    BY <1>1, <1>3, <1>9 DEF Holder, Bright, Fades
  <2>2. Lit(ctl, task[u])'
    BY <1>1, <1>4, <1>6, <1>9 DEF Lit
  <2> QED
    BY <1>7, <2>1, <2>2 DEF Screen
<1> QED
  BY <1>5, <1>8, <1>9

LEMMA UnshowScreen ==
  ASSUME IInv, Inventory, Cast, NEW u \in Clients, Screen(ctl, task[u]), Unshow(u)
  PROVE  Screen(ctl, task[u])'
<1> DEFINE k == task[u]
           a == IF k.prev = 0 THEN "idle" ELSE "reshow"
<1>1. k.at = "unshow" /\ ctl' = ctl /\ Asks(u, k.w, "hide", a, a)
  BY DEF Unshow, At, OnlyActors
<1>2. {"idle", "reshow"} \subseteq Places /\ "hide" \in Asked
  BY DEF Places, Asked
<1>3. \A w \in Bright(ctl) : w = k.w
  BY <1>1 DEF Screen, Holder, Ahead
<1>4. /\ ctl.broker.lease.id # None => ctl.sessions[ctl.broker.lease.id] = k.prev
      /\ k.prev \in Awake => serves[k.prev] = ctl.broker.lease.id \/ serves[k.prev] \in ctl.closing
  BY <1>1 DEF Screen, Switcher, SwitchSteps
<1>5. /\ Goto(u, a) /\ serves' = serves /\ Awake' \subseteq Awake
      /\ \/ showing' = showing \ {k.w} /\ Awake' = Awake
         \/ Fades /\ k.w \notin Awake'
  <2>1. CASE Serves(k.w, "hide") /\ UNCHANGED <<ending, late>> /\ Goto(u, a)
    BY <2>1 DEF Serves, Awake, Doomed
  <2> QED
    BY <1>1, <1>2, <2>1, AsksFades DEF Fades
<1>6. task'[u].at = a /\ (a # "idle" => task'[u].prev = k.prev)
  BY <1>2, <1>5, GotoAll DEF Carries
<1>7. Bright(ctl)' = {}
  BY <1>1, <1>3, <1>5 DEF Bright, Fades
<1>8. Holder(ctl, task[u])'
  BY <1>7 DEF Holder
<1>9. Switcher(ctl, task[u])'
  BY <1>1, <1>4, <1>5, <1>6 DEF Switcher, SwitchSteps, ReplaceSteps
<1>10. Lit(ctl, task[u])'
  <2>1. k.prev = 0 => k.prev \notin Awake'
    BY <1>5, AwakeAttended DEF Workers
  <2> QED
    BY <1>1, <1>4, <1>6, <2>1 DEF Lit, Dark
<1> QED
  BY <1>8, <1>9, <1>10 DEF Screen

LEMMA ConfigureScreen ==
  ASSUME IInv, Inventory, Cast, NEW u \in Clients, Screen(ctl, task[u]), Configure(u)
  PROVE  Screen(ctl, task[u])'
<1> DEFINE k == task[u]
           what == IF k.owns THEN "show" ELSE "hide"
<1>1. k.at = "configure" /\ ctl' = ctl /\ Asks(u, k.w, what, "install", "discard")
  BY DEF Configure, At, OnlyActors
<1>2. {"install", "discard"} \subseteq Places /\ what \in Asked
  BY DEF Places, Asked
<1>3. serves[k.w] = k.id /\ (k.owns <=> ctl.broker.lease.id = k.id)
  BY <1>1 DEF Inventory, Staff, Hired, NewPlaces, Screen, Switcher, ReplaceSteps
<1>4. CASE Goto(u, "discard") /\ Fades
  <2>1. task'[u].at = "discard" /\ task'[u].id = k.id /\ task'[u].owns = k.owns
    BY <1>2, <1>4, GotoAll DEF Carries
  <2>2. Screen(ctl, task'[u])
    BY <1>1, <2>1, ReplaceScreen DEF ReplaceSteps, Swapped
  <2> QED
    BY <1>1, <1>4, <2>2, FadesOn
<1>5. CASE Goto(u, "install") /\ k.w \in Awake /\ Serves(k.w, what) /\ UNCHANGED <<ending, late>>
  <2>1. /\ task'[u].at = "install" /\ task'[u].id = k.id /\ task'[u].owns = k.owns
        /\ task'[u].w = k.w
    BY <1>2, <1>5, GotoAll DEF Carries
  <2>2. UNCHANGED <<Awake, serves>>
    BY <1>5 DEF Serves, Awake, Doomed
  <2>3. showing' = IF k.owns THEN showing \cup {k.w} ELSE showing \ {k.w}
    BY <1>5 DEF Serves
  <2>4. \A w \in Bright(ctl) : serves[w] = ctl.broker.lease.id
    BY <1>1 DEF Screen, Holder, Ahead
  <2>5. Holder(ctl, task[u])'
    BY <1>1, <1>3, <2>1, <2>2, <2>3, <2>4 DEF Holder, Bright, Dark, Ahead
  <2>6. Switcher(ctl, task[u])'
    BY <1>1, <1>3, <2>1, <2>2 DEF Switcher, SwitchSteps, ReplaceSteps
  <2>7. Lit(ctl, task[u])'
    <3>1. task'[u].at \in Swapped /\ (task'[u].owns => task'[u].w \in showing')
      BY <2>1, <2>3 DEF Swapped, ReplaceSteps
    <3>2. ASSUME ctl.broker.lease.id # None, ctl.sessions[ctl.broker.lease.id] \in Awake,
                 ctl.broker.lease.id # k.id
          PROVE  ctl.sessions[ctl.broker.lease.id] \in showing'
      <4>1. ctl.sessions[ctl.broker.lease.id] \in showing
        BY <1>1, <3>2 DEF Screen, Lit, Dark, Ahead
      <4>2. ctl.broker.lease.id \in Ids /\ ctl.sessions[ctl.broker.lease.id] # 0
        BY <3>2, AwakeAttended DEF IInv, ControllerOK, Controllers, States, Leases, Workers
      <4>3. serves[ctl.sessions[ctl.broker.lease.id]] = ctl.broker.lease.id
        BY <4>2 DEF Inventory, Fits
      <4> QED
        BY <1>3, <2>3, <3>2, <4>1, <4>3
    <3> QED
      BY <1>1, <2>1, <2>2, <3>1, <3>2 DEF Lit
  <2> QED
    BY <2>5, <2>6, <2>7 DEF Screen
<1> QED
  BY <1>1, <1>2, <1>4, <1>5, AsksFades

(* The other requests and the ends of actors.                                             *)
LEMMA PlainAsk ==
  ASSUME IInv, Cast, NEW u \in Clients, NEW w, NEW what \in Asked \ {"show", "hide"},
         NEW a \in Places, NEW f \in Places, Asks(u, w, what, a, f)
  PROVE  Fades /\ (Goto(u, a) \/ Goto(u, f))
<1>1. CASE Serves(w, what) /\ UNCHANGED <<ending, late>>
  <2>1. UNCHANGED <<serves, up, showing, ending, late>>
    BY <1>1 DEF Serves
  <2>2. Fades
    BY <2>1 DEF Fades, Awake, Doomed
  <2> QED
    BY <2>2, AsksFades DEF Asks
<1> QED
  BY <1>1, AsksFades

LEMMA AskScreen ==
  ASSUME IInv, Cast, NEW u \in Clients, Screen(ctl, task[u]),
         Viewport(u) \/ WorkStart(u) \/ Preflight(u)
  PROVE  Screen(ctl, task[u])'
<1> DEFINE k == task[u]
<1>1. /\ {"seen", "unopen", "idle", "unshown", "started", "unpin", "swap", "abort"} \subseteq Places
      /\ {"view", k.op} \subseteq Asked \ {"show", "hide"}
  BY DEF Places, Asked, Commands, IInv, Tasks
<1>2. /\ ctl' = ctl /\ k.at \in {"viewport", "work", "preflight"} /\ Fades
      /\ \/ k.at # "preflight"
            /\ \E q \in {"seen", "unopen", "idle", "unshown", "started", "unpin"} : Goto(u, q)
         \/ k.at = "preflight" /\ (Goto(u, "swap") \/ Goto(u, "abort"))
  <2>1. CASE Viewport(u)
    BY <1>1, <2>1, PlainAsk DEF Viewport, OnlyActors, At
  <2>2. CASE WorkStart(u)
    BY <1>1, <2>2, PlainAsk DEF WorkStart, OnlyActors, At
  <2>3. CASE Preflight(u)
    BY <1>1, <2>3, PlainAsk, StillFades DEF Preflight, OnlyActors, At
  <2> QED
    BY <2>1, <2>2, <2>3
<1>3. Screen(ctl, task'[u])
  <2>1. CASE Goto(u, "swap") /\ k.at = "preflight"
    BY <1>1, <2>1, GotoAll, ReplaceScreen DEF Carries, ReplaceSteps, Swapped
  <2>2. ASSUME NEW q \in {"seen", "unopen", "idle", "unshown", "started", "unpin", "abort"},
               Goto(u, q)
        PROVE  Screen(ctl, task'[u])
    <3>1. task'[u].at = q /\ Plain(q)
      BY <1>1, <2>2, GotoAll DEF Plain, SwitchSteps, ReplaceSteps
    <3> QED
      BY <1>2, <3>1, PlainScreen DEF Dark, Ahead, Swapped, ReplaceSteps
  <2> QED
    BY <1>2, <2>1, <2>2
<1> QED
  BY <1>2, <1>3, FadesOn

LEMMA EndScreen ==
  ASSUME IInv, Cast, NEW u \in Clients, Screen(ctl, task[u]),
         OpenAbandon(u) \/ CloseStop(u) \/ Discard(u) \/ Unshown(u) \/ Swap(u) \/ Settle(u)
  PROVE  Screen(ctl, task[u])'
<1> DEFINE k == task[u]
<1>1. {"cancel", "finish", "settle", "seen", "restart", "fail"} \subseteq Places
  BY DEF Places
<1>2. ctl' = ctl /\ Fades
  <2>1. CASE OpenAbandon(u) \/ CloseStop(u) \/ Discard(u) \/ Unshown(u)
    BY <2>1, ShutsDownFades DEF OpenAbandon, CloseStop, Discard, Unshown, OnlyActors
  <2>2. CASE Swap(u)
    BY <2>2, EndedFades, OverdueFades, StillFades DEF Swap, OnlyActors
  <2>3. CASE Settle(u)
    BY <2>3 DEF Settle, OnlyActors, Fades, Awake, Doomed
  <2> QED
    BY <2>1, <2>2, <2>3
<1>3. \/ k.at \in {"abandon", "stop", "unshown"}
         /\ \E q \in {"cancel", "finish", "seen"} : Goto(u, q)
      \/ k.at \in {"discard", "swap", "settle"}
         /\ \E q \in {"settle", "restart", "fail"} : Goto(u, q)
  BY DEF OpenAbandon, CloseStop, Discard, Unshown, Swap, Settle, At
<1>4. Screen(ctl, task'[u])
  <2>1. ASSUME k.at \in {"abandon", "stop", "unshown"},
               NEW q \in {"cancel", "finish", "seen"}, Goto(u, q)
        PROVE  Screen(ctl, task'[u])
    <3>1. task'[u].at = q /\ Plain(q)
      BY <1>1, <2>1, GotoAll DEF Plain, SwitchSteps, ReplaceSteps
    <3> QED
      BY <2>1, <3>1, PlainScreen DEF Dark, Ahead, Swapped, ReplaceSteps
  <2>2. ASSUME k.at \in {"discard", "swap", "settle"},
               NEW q \in {"settle", "restart", "fail"}, Goto(u, q)
        PROVE  Screen(ctl, task'[u])
    <3>1. task'[u].at = q /\ task'[u].id = k.id /\ task'[u].owns = k.owns
      BY <1>1, <2>2, GotoAll DEF Carries
    <3> QED
      BY <2>2, <3>1, ReplaceScreen DEF ReplaceSteps, Swapped
  <2> QED
    BY <1>3, <2>1, <2>2
<1> QED
  BY <1>2, <1>4, FadesOn

(* A worker starts in the dark.                                                           *)
LEMMA StartScreen ==
  ASSUME IInv, Inventory, Cast, NEW u \in Clients, Screen(ctl, task[u]), OpenStart(u) \/ Restart(u)
  PROVE  Screen(ctl, task[u])'
<1> DEFINE k == task[u]
<1>1. /\ {"cancel", "settle"} \subseteq Places /\ started \in Nat
      /\ task \in [Clients -> Tasks] /\ k.at \in {"start", "restart"} /\ ctl' = ctl
      /\ serves \in [Workers -> Ids \cup {None}] /\ Awake \subseteq 1 .. started
  BY AwakeAttended, AttendedCrew
     DEF Places, IInv, OpenStart, Restart, At, OnlyActors, Inventory, Staff
<1>2. CASE UNCHANGED actors /\ (Goto(u, "cancel") \/ Goto(u, "settle"))
  <2>1. Screen(ctl, task'[u])
    <3>1. CASE k.at = "start" /\ Goto(u, "cancel")
      <4>1. task'[u].at = "cancel"
        BY <1>1, <3>1, GotoAll
      <4> QED
        BY <3>1, <4>1, PlainScreen DEF Plain, Dark, Ahead, Swapped, SwitchSteps, ReplaceSteps
    <3>2. CASE k.at = "restart" /\ Goto(u, "settle")
      BY <1>1, <3>2, GotoAll, ReplaceScreen DEF Carries, ReplaceSteps, Swapped
    <3> QED
      BY <1>2, <3>1, <3>2 DEF OpenStart, Restart, At, Goto, Started, actors
  <2> QED
    BY <1>1, <1>2, <2>1, StillFades, FadesOn
<1>3. CASE Started(k.id) /\ \E q \in {"commit", "configure"} :
              /\ task' = [task EXCEPT ![u].at = q, ![u].w = started + 1]
              /\ q = "commit" <=> k.at = "start"
  <2>1. PICK q \in {"commit", "configure"} :
          /\ task'[u].at = q /\ task'[u].id = k.id /\ task'[u].owns = k.owns
          /\ q = "commit" <=> k.at = "start"
    BY <1>1, <1>3 DEF Tasks
  <2>2. /\ showing' = showing /\ Awake' \subseteq Awake \cup {started + 1}
        /\ Awake \subseteq Awake' /\ \A w \in Awake : serves'[w] = serves[w]
        /\ started + 1 \notin showing /\ started + 1 \notin Awake
    <3>1. started + 1 \notin up
      BY <1>1 DEF Inventory, Staff, Crew
    <3> QED
      BY <1>1, <1>3, <3>1 DEF Started, Awake, Doomed, Cast
  <2>3. Screen(ctl, task'[u])
    <3>1. CASE q = "commit"
      BY <1>1, <2>1, <3>1, PlainScreen DEF Plain, Dark, Ahead, Swapped, SwitchSteps, ReplaceSteps
    <3>2. CASE q = "configure"
      BY <1>1, <2>1, <3>2, ReplaceScreen DEF ReplaceSteps, Swapped
    <3> QED
      BY <3>1, <3>2
  <2>4. Holder(ctl, task[u])'
    BY <1>1, <2>2, <2>3 DEF Screen, Holder, Bright
  <2>5. Switcher(ctl, task[u])'
    BY <1>1, <2>1, <2>3 DEF Screen, Switcher, SwitchSteps, ReplaceSteps
  <2>6. Lit(ctl, task[u])'
    <3>1. ctl.broker.lease.id # None => ctl.sessions[ctl.broker.lease.id] \in 1 .. started
      <4>1. ctl.broker.lease.id # None =>
                ctl.broker.lease.id \in Ids /\ ctl.sessions[ctl.broker.lease.id] # 0
        BY DEF IInv, ControllerOK, Controllers, States, Leases, Leased
      <4> QED
        BY <4>1 DEF Inventory, Fits
    <3>2. task'[u].at \notin {"complete", "install"}
      BY <2>1
    <3> QED
      BY <1>1, <2>2, <2>3, <3>1, <3>2 DEF Screen, Lit
  <2> QED
    BY <2>4, <2>5, <2>6 DEF Screen
<1> QED
  BY <1>2, <1>3 DEF OpenStart, Restart, At

-----------------------------------------------------------------------------
(* The sections of the controller.                                                        *)
LEMMA FoundScreen ==
  ASSUME IInv, Inventory, Cast, ~exited, NEW u \in Clients, Screen(ctl, task[u])
  PROVE  /\ Screen(Reap(ctl), task[u])
         /\ task[u].at \in ReplaceSteps => task[u].id \in Ids /\ task[u].id = ctl.replacing
<1>1. task[u].at \in ReplaceSteps => task[u].id \in Ids /\ task[u].id = ctl.replacing
  BY DEF Inventory, Fits, Placed, IInv, TaskOK
<1> QED
  BY <1>1, ReapScreen, EnteredNow, FoundOK DEF IInv, ControllerOK

LEMMA CarryScreen ==
  ASSUME NEW c, NEW d, NEW k, NEW u, Screen(c, k), k.at \notin Dark \cup Ahead \cup Swapped,
         ctl' = d, UNCHANGED actors, Plain(task'[u].at),
         d.closing = c.closing, d.sessions = c.sessions, d.broker.lease = c.broker.lease
  PROVE  Screen(ctl, task[u])'
  BY SameScreen, PlainScreen, FadesOn, StillFades

LEMMA QuietPlaces ==
  \A p \in {"idle", "cancel", "seen", "pin", "unpin", "started", "work", "abort", "stop",
            "unopen", "commit", "viewport", "abandon", "start"} :
      p \in Places /\ Plain(p) /\ p \notin Dark \cup Ahead \cup Swapped
  BY DEF Places, Plain, Dark, Ahead, Swapped, SwitchSteps, ReplaceSteps

LEMMA QuietSection ==
  ASSUME IInv, Inventory, Cast, ~exited, NEW u \in Clients, Screen(ctl, task[u]),
         OpenCancel(u) \/ Seen(u) \/ Abort(u) \/ WorkPin(u) \/ WorkUnpin(u) \/ WorkStarted(u)
  PROVE  Screen(ctl, task[u])'
<1> DEFINE k == task[u]
           r == Reap(ctl)
<1>1. /\ ctl \in Controllers /\ r \in Controllers /\ Screen(r, k) /\ task \in [Clients -> Tasks]
      /\ k.at \in {"cancel", "seen", "abort", "pin", "unpin", "started"}
      /\ k.at \notin Dark \cup Ahead \cup Swapped
  BY FoundScreen, FoundOK, QuietPlaces
     DEF IInv, ControllerOK, OpenCancel, Seen, Abort, WorkPin, WorkUnpin, WorkStarted, At
<1>2. UNCHANGED actors
  BY DEF OpenCancel, Seen, Abort, WorkPin, WorkUnpin, WorkStarted, OnlyController
<1>3. task'[u].at \in {"idle", "work"}
  <2>1. CASE Goto(u, "idle")
    BY <2>1, GotoAll, QuietPlaces
  <2>2. ASSUME NEW token, task' = [task EXCEPT ![u].at = "work", ![u].token = token]
        PROVE  task'[u].at = "work"
    BY <1>1, <2>2 DEF Tasks
  <2> QED
    BY <2>1, <2>2 DEF OpenCancel, Seen, Abort, WorkPin, WorkUnpin, WorkStarted
<1>4. Plain(task'[u].at)
  BY <1>3, QuietPlaces
<1>5. CASE OpenCancel(u) \/ Abort(u) \/ WorkStarted(u)
  <2>1. ctl'.closing = ctl.closing /\ ctl'.sessions = ctl.sessions /\ ctl'.broker = ctl.broker
    BY <1>1, <1>5 DEF OpenCancel, Abort, WorkStarted, Aborted, Idled, Controllers
  <2> QED
    BY <1>1, <1>2, <1>4, <2>1, CarryScreen
<1>6. CASE ctl' = r
  <2> HIDE DEF r
  <2> QED
    BY <1>1, <1>2, <1>4, <1>6, CarryScreen
<1>7. CASE ctl' = [r EXCEPT !.broker = Pinned(r.broker, k.op), !.starting = Pinned(r.broker, k.op).pin]
  <2> HIDE DEF r
  <2>1. ctl'.closing = r.closing /\ ctl'.sessions = r.sessions /\ ctl'.broker.lease = r.broker.lease
    BY <1>1, <1>7 DEF Controllers, States, Pinned
  <2> QED
    BY <1>1, <1>2, <1>4, <2>1, CarryScreen
<1>8. CASE ctl' = Unpin(ctl, k.token)
  <2>1. ctl'.closing = r.closing /\ ctl'.sessions = r.sessions /\ ctl'.broker.lease = r.broker.lease
    BY <1>1, <1>8 DEF Controllers, States, Unpin, Released
  <2> HIDE DEF r
  <2> QED
    BY <1>1, <1>2, <1>4, <2>1, CarryScreen
<1> QED
  BY <1>5, <1>6, <1>7, <1>8 DEF Seen, WorkPin, WorkUnpin

LEMMA CommitScreen ==
  ASSUME IInv, Inventory, Cast, ~exited, NEW u \in Clients, Screen(ctl, task[u]), OpenCommit(u)
  PROVE  Screen(ctl, task[u])'
<1> DEFINE k == task[u]
           id == k.id
<1>1. /\ ctl \in Controllers /\ k.at = "commit" /\ k.at \notin Dark \cup Ahead \cup Swapped
      /\ UNCHANGED actors
  BY QuietPlaces DEF IInv, ControllerOK, OpenCommit, At, OnlyController
<1>2. CASE UNCHANGED ctl /\ Goto(u, "abandon")
  BY <1>1, <1>2, GotoAll, QuietPlaces, CarryScreen
<1>3. CASE /\ id \in ctl.pending /\ Goto(u, "viewport")
           /\ ctl' = [ctl EXCEPT !.pending = @ \ {id}, !.sessions[id] = k.w,
                                 !.broker = Bound(@, id, k.w)]
  <2>1. /\ ctl'.closing = ctl.closing /\ ctl'.broker.lease = ctl.broker.lease
        /\ ctl'.sessions = [ctl.sessions EXCEPT ![id] = k.w]
    BY <1>1, <1>3 DEF Controllers, States, Bound
  <2>2. ctl.broker.lease.id # None =>
            /\ ctl.broker.lease.id # id /\ ctl.broker.lease.id \in Ids
            /\ ctl'.sessions[ctl.broker.lease.id] = ctl.sessions[ctl.broker.lease.id]
    <3>1. ctl.broker.lease.id # None =>
              ctl.broker.lease.id \in Ids /\ ctl.sessions[ctl.broker.lease.id] # 0
      BY DEF IInv, ControllerOK, Controllers, States, Leases, Leased
    <3>2. ctl.sessions[id] = 0
      BY <1>3 DEF IInv, ControllerOK
    <3> QED
      BY <1>1, <2>1, <3>1, <3>2 DEF Controllers
  <2>3. task'[u].at = "viewport" /\ Plain("viewport")
    BY <1>3, GotoAll, QuietPlaces
  <2>4. Screen(ctl', task'[u])
    BY <1>1, <2>1, <2>2, <2>3
       DEF Screen, Holder, Switcher, Lit, Bright, Plain, Dark, Ahead, Swapped, SwitchSteps,
           ReplaceSteps
  <2> QED
    BY <1>1, <2>4, StillFades, FadesOn
<1> QED
  BY <1>2, <1>3 DEF OpenCommit

LEMMA CompleteScreen ==
  ASSUME IInv, Inventory, Cast, ~exited, IInv', NEW u \in Clients, Screen(ctl, task[u]), Complete(u)
  PROVE  Screen(ctl, task[u])'
<1> DEFINE k == task[u]
           b == k.broker
           c == [Idled(ctl) EXCEPT !.broker = b]
           redo == IF k.w # 0 THEN "unshow" ELSE "reshow"
<1>1. /\ ctl \in Controllers /\ k \in Tasks /\ TaskOK(k, ctl, used) /\ k.at = "complete"
      /\ UNCHANGED actors /\ k.gen # 0 /\ b \in States /\ k.op # "replace"
  BY DEF IInv, ControllerOK, Complete, At, OnlyController, TaskOK, SwitchSteps, SwitchOps, Tasks
<1>2. /\ k.w = 0 => b.lease.id = None
      /\ k.w # 0 => /\ b.lease.id \in Ids /\ serves[k.w] = b.lease.id
                    /\ ctl.sessions[b.lease.id] \in {0, k.w}
      /\ k.w \in Awake => k.w \in showing
      /\ \A w \in Bright(ctl) : w = k.w /\ w # 0
  BY <1>1, AwakeAttended DEF Screen, Holder, Switcher, Lit, Ahead, Bright, Workers
<1>3. CASE ctl.transition = k.gen /\ ctl' = Reap(c) /\ Goto(u, "idle")
  <2>1. /\ c \in Controllers /\ c.closing = ctl.closing /\ c.sessions = ctl.sessions
        /\ c.broker = b /\ c.replacing = None
    BY <1>1 DEF Idled, Controllers
  <2>2. ControllerOK(Reap(c), used')
    BY <1>3 DEF IInv
  <2> HIDE DEF c
  <2>3. Entered(c)
    <3>1. ctl.replacing = None
      BY <1>1, <1>3 DEF TaskOK, InTransition
    <3> QED
      BY <2>1, <3>1, EnteredNow DEF Entered
  <2>4. task'[u].at = "idle" /\ Plain("idle") /\ "idle" \notin ReplaceSteps
    BY <1>3, GotoAll, QuietPlaces DEF Plain
  <2>5. Holder(c, task'[u])
    BY <1>2, <2>1, <2>4 DEF Holder, Bright, Dark, Ahead
  <2>6. Switcher(c, task'[u])
    BY <2>4 DEF Switcher, SwitchSteps, ReplaceSteps
  <2>7. Lit(c, task'[u])
    <3>1. 0 \notin Awake
      BY AwakeAttended DEF Workers
    <3> QED
      BY <1>2, <2>1, <2>4, <3>1 DEF Lit
  <2>8. Screen(Reap(c), task'[u])
    BY <2>1, <2>2, <2>3, <2>4, <2>5, <2>6, <2>7, ReapScreen DEF Screen
  <2> QED
    BY <1>1, <1>3, <2>8, StillFades, FadesOn
<1>4. CASE ctl' = Aborted(ctl, k.gen) /\ Goto(u, redo)
  <2>1. ctl'.closing = ctl.closing /\ ctl'.sessions = ctl.sessions /\ ctl'.broker = ctl.broker
    BY <1>1, <1>4 DEF Aborted, Idled, Controllers
  <2>2. /\ task'[u].at = redo /\ task'[u].w = k.w /\ task'[u].prev = k.prev
    BY <1>4, GotoAll DEF Carries, Places
  <2>3. Holder(ctl, task'[u])
    BY <1>2, <2>2 DEF Holder, Dark, Ahead
  <2>4. Switcher(ctl, task'[u])
    BY <1>1, <2>2 DEF Screen, Switcher, SwitchSteps, ReplaceSteps
  <2>5. Lit(ctl, task'[u])
    BY <2>2 DEF Lit, Dark, Ahead
  <2>6. Screen(ctl', task'[u])
    BY <2>1, <2>3, <2>4, <2>5, SameScreen DEF Screen
  <2> QED
    BY <1>1, <2>6, StillFades, FadesOn
<1> QED
  BY <1>3, <1>4 DEF Complete

LEMMA InstallScreen ==
  ASSUME IInv, Inventory, Cast, ~exited, NEW u \in Clients, Screen(ctl, task[u]), Install(u)
  PROVE  Screen(ctl, task[u])'
<1> DEFINE k == task[u]
           id == k.id
<1>1. /\ ctl \in Controllers /\ k.at = "install" /\ UNCHANGED actors /\ id \in Ids
  BY DEF IInv, ControllerOK, Install, At, OnlyController, TaskOK, ReplaceSteps
<1>2. CASE UNCHANGED ctl /\ Goto(u, "discard")
  <2>1. task'[u].at = "discard" /\ task'[u].id = id /\ task'[u].owns = k.owns
    BY <1>2, GotoAll DEF Carries, Places
  <2>2. Screen(ctl, task'[u])
    BY <1>1, <2>1, ReplaceScreen DEF ReplaceSteps, Swapped
  <2> QED
    BY <1>1, <1>2, <2>2, StillFades, FadesOn
<1>3. CASE /\ Goto(u, "viewport")
           /\ ctl' = [Idled(ctl) EXCEPT !.sessions[id] = k.w, !.broker = Bound(@, id, k.w)]
  <2>1. /\ ctl'.closing = ctl.closing /\ ctl'.broker.lease = ctl.broker.lease
        /\ ctl'.sessions = [ctl.sessions EXCEPT ![id] = k.w]
    BY <1>1, <1>3 DEF Controllers, States, Bound, Idled
  <2>2. \A i \in Ids : ctl'.sessions[i] = IF i = id THEN k.w ELSE ctl.sessions[i]
    BY <1>1, <2>1 DEF Controllers
  <2>3. ctl.broker.lease.id \in Ids \cup {None}
    BY <1>1 DEF Controllers, States, Leases
  <2>4. task'[u].at = "viewport" /\ Plain("viewport")
    BY <1>3, GotoAll, QuietPlaces
  <2>5. k.owns <=> ctl.broker.lease.id = id
    BY <1>1 DEF Screen, Switcher, ReplaceSteps
  <2>6. Holder(ctl', task'[u])
    BY <1>1, <2>1, <2>4 DEF Screen, Holder, Bright, Dark, Ahead
  <2>7. Lit(ctl', task'[u])
    BY <1>1, <2>1, <2>2, <2>3, <2>4, <2>5 DEF Screen, Lit, Dark, Ahead, Swapped, ReplaceSteps
  <2>8. Switcher(ctl', task'[u])
    BY <2>4 DEF Switcher, Plain
  <2> QED
    BY <1>1, <2>6, <2>7, <2>8, StillFades, FadesOn DEF Screen
<1> QED
  BY <1>2, <1>3 DEF Install

LEMMA FailScreen ==
  ASSUME IInv, Inventory, Cast, ~exited, NEW u \in Clients, Screen(ctl, task[u]), Fail(u)
  PROVE  Screen(ctl, task[u])'
<1> DEFINE k == task[u]
           id == k.id
           b == Faulted(ctl.broker, {id})
           s == IF ctl.starting.id = id THEN NoPin ELSE ctl.starting
<1>1. /\ ctl \in Controllers /\ k.at = "fail" /\ UNCHANGED actors /\ id \in Ids
      /\ ctl.transition = k.gen /\ ctl.sessions[id] = k.prev
  BY DEF IInv, ControllerOK, Fail, At, OnlyController, TaskOK, ReplaceSteps, Inventory, Fits, Placed,
         TransitPlaces
<1>2. ctl' = [Idled(ctl) EXCEPT !.sessions[id] = 0, !.broker = b, !.starting = s] /\ Goto(u, "idle")
  BY <1>1 DEF Fail, Idled, Controllers
<1>3. b.lease = IF ctl.broker.lease.id = id THEN NoLease ELSE ctl.broker.lease
  <2>1. ctl.broker \in States
    BY <1>1 DEF Controllers
  <2> QED
    BY <2>1 DEF Faulted, Forgotten, States
<1> HIDE DEF b, s
<1>4. /\ ctl'.closing = ctl.closing /\ ctl'.broker = b
      /\ ctl'.sessions = [ctl.sessions EXCEPT ![id] = 0]
  BY <1>1, <1>2 DEF Controllers, Idled
<1>5. \A i \in Ids : i # id => ctl'.sessions[i] = ctl.sessions[i]
  BY <1>1, <1>4 DEF Controllers
<1>6. \A w \in Awake : serves[w] # id
  BY <1>1, AwakeAttended DEF Inventory, Staff, Hired, Makes, Own, OpenPlaces, ReplaceSteps, NewPlaces
<1>7. task'[u].at = "idle" /\ Plain("idle") /\ ctl.broker.lease.id \in Ids \cup {None}
  BY <1>1, <1>2, GotoAll, QuietPlaces DEF Controllers, States, Leases
<1>8. Holder(ctl', task'[u])
  BY <1>1, <1>3, <1>4, <1>6, <1>7 DEF Screen, Holder, Bright, Dark, Ahead
<1>9. Lit(ctl', task'[u])
  BY <1>1, <1>3, <1>4, <1>5, <1>7, RegistryAssumption
     DEF Screen, Lit, Dark, Ahead, Swapped, ReplaceSteps, NoLease
<1>10. Switcher(ctl', task'[u])
  BY <1>7 DEF Switcher, Plain
<1> QED
  BY <1>1, <1>8, <1>9, <1>10, StillFades, FadesOn DEF Screen

(* A session begins and ends to be closed, by any caller.                                 *)
LEMMA ClosingScreen ==
  ASSUME NEW c \in Controllers, NEW k, Screen(c, k), NEW id \in Ids, k.at \notin ReplaceSteps
  PROVE  Screen(Closing(c, id), k)
<1> DEFINE d == Closing(c, id)
<1>1. d.sessions = c.sessions /\ d.closing = c.closing \cup {id}
  BY DEF Closing, Controllers
<1>2. d.broker.lease = IF c.broker.lease.id = id THEN NoLease ELSE c.broker.lease
  BY DEF Closing, Controllers, Closed, Forgotten, States
<1> HIDE DEF d
<1>3. Bright(d) = {w \in Bright(c) : serves[w] # id}
  BY <1>1 DEF Bright
<1>4. Holder(d, k)
  BY <1>2, <1>3 DEF Screen, Holder
<1>5. Switcher(d, k)
  BY <1>1, <1>2, RegistryAssumption DEF Screen, Switcher, NoLease
<1>6. Lit(d, k)
  BY <1>1, <1>2, RegistryAssumption DEF Screen, Lit, NoLease, Swapped
<1> QED
  BY <1>4, <1>5, <1>6 DEF Screen, d

LEMMA MayCloseIdle ==
  ASSUME IInv, Inventory, ~exited, NEW id, MayClose(Reap(ctl), id), NEW u \in Clients
  PROVE  task[u].at \notin ReplaceSteps
<1>1. ctl.transition = 0
  BY ReapReaps DEF MayClose, LifecycleIdle, Reaped, IInv, ControllerOK
<1> QED
  BY <1>1 DEF Inventory, Fits, Placed, TransitPlaces

LEMMA CloseScreen ==
  ASSUME IInv, Inventory, Cast, ~exited, NEW u \in Clients, Screen(ctl, task[u]),
         NEW id \in Ids, MayClose(Reap(ctl), id), ctl' = Closing(Reap(ctl), id), UNCHANGED actors,
         task'[u] = task[u] \/ (task[u].at \in {"idle", "unopen"} /\ task'[u].at = "stop")
  PROVE  Screen(ctl, task[u])'
<1> DEFINE d == Closing(Reap(ctl), id)
<1>1. Screen(d, task[u])
  BY FoundScreen, FoundOK, MayCloseIdle, ClosingScreen
<1> HIDE DEF d
<1>2. Screen(d, task'[u])
  BY <1>1, QuietPlaces, PlainScreen
<1> QED
  BY <1>2, StillFades, FadesOn DEF d

LEMMA UnopenScreen ==
  ASSUME IInv, Inventory, Cast, ~exited, NEW u \in Clients, Screen(ctl, task[u]), Unopen(u)
  PROVE  Screen(ctl, task[u])'
<1> DEFINE k == task[u]
           r == Reap(ctl)
<1>1. /\ r \in Controllers /\ Screen(r, k) /\ task \in [Clients -> Tasks] /\ k.at = "unopen"
      /\ k.at \notin Dark \cup Ahead \cup Swapped /\ UNCHANGED actors /\ k.id \in Ids
  BY FoundScreen, FoundOK, QuietPlaces DEF IInv, TaskOK, Unopen, At, OnlyController
<1>2. CASE ctl' = r /\ Goto(u, "idle")
  <2> HIDE DEF r
  <2> QED
    BY <1>1, <1>2, GotoAll, QuietPlaces, CarryScreen
<1>3. CASE /\ MayClose(r, k.id) /\ ctl' = Closing(r, k.id)
           /\ task' = [task EXCEPT ![u].at = "stop", ![u].w = r.sessions[k.id]]
  <2>1. task'[u].at = "stop"
    BY <1>1, <1>3 DEF Tasks
  <2> QED
    BY <1>1, <1>3, <2>1, CloseScreen
<1> QED
  BY <1>2, <1>3 DEF Unopen

LEMMA FinishScreen ==
  ASSUME IInv, Inventory, Cast, ~exited, NEW u \in Clients, Screen(ctl, task[u]),
         NEW t \in Clients, CloseFinish(t)
  PROVE  Screen(ctl, task[u])'
<1> DEFINE id == task[t].id
<1>1. /\ task[t].at = "finish" /\ ctl \in Controllers /\ id \in Ids /\ UNCHANGED actors
      /\ Goto(t, "idle") /\ ctl' = [ctl EXCEPT !.sessions[id] = 0, !.closing = @ \ {id}]
      /\ id \notin ctl.pending /\ (id \in ctl.closing \/ ctl.sessions[id] = 0)
  BY DEF CloseFinish, At, IInv, ControllerOK, TaskOK, OnlyController
<1>2. /\ ctl'.closing = ctl.closing \ {id} /\ ctl'.broker = ctl.broker
      /\ ctl'.sessions = [ctl.sessions EXCEPT ![id] = 0]
  BY <1>1 DEF Controllers
<1>3. \A i \in Ids : ctl'.sessions[i] = IF i = id THEN 0 ELSE ctl.sessions[i]
  BY <1>1, <1>2 DEF Controllers
<1>4. \A w \in Awake : serves[w] # id
  <2> SUFFICES ASSUME NEW w \in Attended, serves[w] = id PROVE FALSE
    BY AwakeAttended
  <2>1. ctl.sessions[id] # w /\ w # 0
    BY <1>1, AttendedCrew DEF Inventory, Fits, Staff, Placed, Hired, StopPlaces
  <2>2. PICK s \in Clients : Holds(task[s], w, id)
    BY <1>1, <2>1 DEF Inventory, Fits
  <2>3. Placed(task[s], ctl) /\ Hired(task[s]) /\ TaskOK(task[s], ctl, used)
    BY DEF Inventory, Fits, Staff, IInv
  <2>4. task[s].at \in OpenPlaces \cup ReplaceSteps /\ task[s].id = id
    BY <2>2, <2>3 DEF Holds, Placed, NewPlaces, OpenPlaces, ReplaceSteps
  <2>5. task[s].at \in ReplaceSteps /\ ctl.sessions[id] # 0
    BY <1>1, <2>3, <2>4 DEF Placed, Hired
  <2>6. id \notin ctl.closing
    BY <2>3, <2>4, <2>5 DEF TaskOK, Placed, InTransition, TransitPlaces
  <2> QED
    BY <1>1, <2>5, <2>6
<1>5. ctl.broker.lease.id # None => ctl.broker.lease.id \in Ids \ {id}
  BY <1>1 DEF IInv, ControllerOK, Controllers, States, Leases, Leased
<1>6. Bright(ctl') = Bright(ctl)
  BY <1>2, <1>4 DEF Bright
<1>7. Screen(ctl', task[u])
  <2>1. Holder(ctl', task[u])
    BY <1>2, <1>6 DEF Screen, Holder
  <2>2. Switcher(ctl', task[u])
    BY <1>2, <1>3, <1>4, <1>5 DEF Screen, Switcher
  <2>3. Lit(ctl', task[u])
    BY <1>2, <1>3, <1>5 DEF Screen, Lit
  <2> QED
    BY <2>1, <2>2, <2>3 DEF Screen
<1>8. Screen(ctl', task'[u])
  <2>1. Others(t) /\ task'[t].at = "idle"
    BY <1>1, GotoAll, QuietPlaces
  <2>2. CASE u = t
    BY <1>1, <1>7, <2>1, <2>2, QuietPlaces, PlainScreen
       DEF Dark, Ahead, Swapped, ReplaceSteps
  <2> QED
    BY <1>7, <2>1, <2>2 DEF Others
<1> QED
  BY <1>1, <1>8, StillFades, FadesOn

(* The commands of the one caller.                                                        *)
LEMMA ForegroundScreen ==
  ASSUME IInv, Inventory, Cast, NEW u \in Clients, NEW r, r = Reap(ctl), Screen(r, task[u]), ~exited,
         NEW op, NEW w, NEW b, Foreground(u, op, r, w, b),
         \/ w = 0 /\ b.lease.id = None
         \/ w # 0 /\ b.lease.id \in Ids /\ w = r.sessions[b.lease.id]
  PROVE  Screen(ctl, task[u])'
<1> DEFINE prev == IF r.broker.lease.id = None THEN 0 ELSE r.sessions[r.broker.lease.id]
           k == [NoTask EXCEPT !.at = IF prev = 0 THEN "show" ELSE "hide",
                               !.op = op, !.w = w, !.prev = prev, !.broker = b,
                               !.gen = r.transitions + 1]
<1>1. Begin(u, op, k) /\ ctl' = Transit(r, None)
  BY DEF Foreground
<1>2. /\ k.at = IF prev = 0 THEN "show" ELSE "hide"
      /\ k.w = w /\ k.prev = prev /\ k.broker = b
  BY DEF NoTask
<1>3. /\ r \in Controllers /\ ControllerOK(r, used) /\ Fits(r) /\ UNCHANGED actors
  BY <1>1, FoundOK DEF Begin
<1>4. r.broker.lease.id # None =>
          /\ r.broker.lease.id \in Ids /\ prev = r.sessions[r.broker.lease.id] /\ prev # 0
          /\ serves[prev] = r.broker.lease.id
  BY <1>3 DEF Fits, ControllerOK, Controllers, States, Leases, Leased
<1>5. r.broker.lease.id = None => prev = 0
  OBVIOUS
<1> HIDE DEF k, prev
<1>6. task[u].at = "idle" /\ task'[u] = k
  BY <1>1, BeginIs
<1>7. /\ ctl'.closing = r.closing /\ ctl'.sessions = r.sessions /\ ctl'.broker = r.broker
  BY <1>1, <1>3 DEF Transit, Controllers
<1>8. Holder(r, k)
  <2>1. \A v \in Bright(r) : serves[v] = r.broker.lease.id /\ serves[v] \in Ids
    BY <1>6, AwakeAttended, AttendedCrew DEF Screen, Holder, Ahead, Bright, Inventory, Staff
  <2>2. Bright(r) # {} => prev # 0
    BY <1>4, <2>1, RegistryAssumption
  <2> QED
    BY <1>2, <2>1, <2>2 DEF Holder, Dark, Ahead
<1>9. Switcher(r, k)
  <2>1. w # 0 => serves[w] = b.lease.id
    BY <1>3 DEF Fits
  <2>2. 0 \notin Awake
    BY AwakeAttended DEF Workers
  <2> QED
    BY <1>2, <1>4, <1>5, <2>1, <2>2 DEF Switcher, SwitchSteps, ReplaceSteps
<1>10. Lit(r, k)
  BY <1>2, <1>6 DEF Screen, Lit, Dark, Ahead, Swapped, ReplaceSteps
<1>11. Screen(r, k)
  BY <1>8, <1>9, <1>10 DEF Screen
<1>12. Screen(ctl', task'[u])
  BY <1>6, <1>7, <1>11, SameScreen
<1> QED
  BY <1>3, <1>12, StillFades, FadesOn

LEMMA CommandScreen ==
  ASSUME IInv, Inventory, Cast, NEW u \in Clients, Screen(ctl, task[u]), Command(u), ~exited'
  PROVE  Screen(ctl, task[u])'
<1> DEFINE r == Reap(ctl)
<1>1. ~exited
  BY CommandBegins DEF Begin
<1>2. r \in Controllers /\ Screen(r, task[u])
  BY <1>1, FoundScreen, FoundOK
<1>3. ASSUME NEW id \in Ids, OpenReserve(u, id) PROVE Screen(ctl, task[u])'
  <2> DEFINE k == [NoTask EXCEPT !.at = "start", !.op = "open", !.id = id]
  <2>1. Begin(u, "open", k) /\ ctl' = [r EXCEPT !.pending = @ \cup {id}] /\ k.at = "start"
    BY <1>3 DEF OpenReserve, NoTask
  <2> HIDE DEF k, r
  <2>2. task[u].at = "idle" /\ task'[u].at = "start" /\ UNCHANGED actors
    BY <2>1, BeginIs DEF Begin
  <2>3. ctl'.closing = r.closing /\ ctl'.sessions = r.sessions /\ ctl'.broker = r.broker
    BY <1>2, <2>1 DEF Controllers
  <2> QED
    BY <1>2, <2>2, <2>3, QuietPlaces, CarryScreen
<1>4. ASSUME NEW id \in Ids, ClosePrepare(u, id) PROVE Screen(ctl, task[u])'
  <2> DEFINE k == [NoTask EXCEPT !.at = "stop", !.op = "close", !.id = id, !.w = r.sessions[id]]
  <2>1. Begin(u, "close", k) /\ ctl' = Closing(r, id) /\ MayClose(r, id) /\ k.at = "stop"
    BY <1>4 DEF ClosePrepare, NoTask
  <2> HIDE DEF k
  <2>2. task[u].at = "idle" /\ task'[u].at = "stop" /\ UNCHANGED actors
    BY <2>1, BeginIs DEF Begin
  <2> QED
    BY <1>1, <2>1, <2>2, CloseScreen
<1>5. ASSUME NEW id \in Ids, SwitchPrepare(u, id) PROVE Screen(ctl, task[u])'
  <2> DEFINE b == Switched(r.broker, id)
  <2>1. Foreground(u, "switch", r, r.sessions[id], b) /\ r.sessions[id] # 0
    BY <1>5 DEF SwitchPrepare, Tracked
  <2>2. b.lease.id = id
    BY <1>2 DEF Switched, Controllers, States
  <2> QED
    BY <1>1, <1>2, <2>1, <2>2, ForegroundScreen
<1>6. CASE ClearPrepare(u)
  <2> DEFINE b == Cleared(r.broker)
  <2>1. Foreground(u, "clear", r, 0, b)
    BY <1>6 DEF ClearPrepare
  <2>2. b.lease.id = None
    BY <1>2 DEF Cleared, Controllers, States, NoLease
  <2> QED
    BY <1>1, <1>2, <2>1, <2>2, ForegroundScreen
<1>7. ASSUME NEW id \in Ids, ReplaceBegin(u, id) PROVE Screen(ctl, task[u])'
  <2> DEFINE k == [NoTask EXCEPT !.at = "preflight", !.op = "replace", !.id = id,
                       !.prev = r.sessions[id], !.gen = r.transitions + 1,
                       !.owns = r.broker.lease.id = id]
  <2>1. Begin(u, "replace", k) /\ ctl' = Transit(r, id)
    BY <1>7 DEF ReplaceBegin
  <2>2. k.at = "preflight" /\ k.id = id /\ (k.owns <=> r.broker.lease.id = id)
    BY DEF NoTask
  <2> HIDE DEF k, r
  <2>3. task[u].at = "idle" /\ task'[u] = k /\ UNCHANGED actors
    BY <2>1, BeginIs DEF Begin
  <2>4. ctl'.closing = r.closing /\ ctl'.sessions = r.sessions /\ ctl'.broker = r.broker
    BY <1>2, <2>1 DEF Transit, Controllers
  <2>5. Holder(r, k)
    BY <1>2, <2>2, <2>3 DEF Screen, Holder, Dark, Ahead
  <2>6. Switcher(r, k)
    BY <2>2 DEF Switcher, SwitchSteps, ReplaceSteps
  <2>7. Lit(r, k)
    BY <1>2, <2>2, <2>3 DEF Screen, Lit, Dark, Ahead, Swapped, ReplaceSteps
  <2>8. Screen(ctl', task'[u])
    BY <2>3, <2>4, <2>5, <2>6, <2>7, SameScreen DEF Screen
  <2> QED
    BY <2>3, <2>8, StillFades, FadesOn
<1>8. ASSUME NEW id \in Ids, NEW op, WorkRuntime(u, op, id) PROVE Screen(ctl, task[u])'
  <2> DEFINE k == [NoTask EXCEPT !.at = "pin", !.op = op, !.id = id, !.w = r.sessions[id]]
  <2>1. Begin(u, op, k) /\ ctl' = r /\ k.at = "pin"
    BY <1>8 DEF WorkRuntime, NoTask
  <2> HIDE DEF k, r
  <2>2. task[u].at = "idle" /\ task'[u].at = "pin" /\ UNCHANGED actors
    BY <2>1, BeginIs DEF Begin
  <2> QED
    BY <1>2, <2>1, <2>2, QuietPlaces, CarryScreen
<1> QED
  BY <1>3, <1>4, <1>5, <1>6, <1>7, <1>8 DEF Command, Exit

-----------------------------------------------------------------------------
(* The other callers only close and exit.                                                 *)
Bystanders(u) == \A t \in Clients \ {u} : task[t].at \in {"idle", "stop", "finish", "drain"}
Solo(u) == \A t \in Clients \ {u} : May[t] \subseteq {"close", "exit"}

LEMMA BystanderStep ==
  ASSUME IInv, NEW t \in Clients, task[t].at \in {"idle", "stop", "finish", "drain"}, Continue(t)
  PROVE  /\ CloseStop(t) \/ CloseFinish(t) \/ Drain(t)
         /\ task'[t].at \in {"idle", "stop", "finish", "drain"} /\ Others(t)
<1>1. CloseStop(t) \/ CloseFinish(t) \/ Drain(t)
  BY DEF Continue, At, OpenStart, OpenCommit, OpenAbandon, OpenCancel, Unopen, Viewport, Seen,
     CloseStop, CloseFinish, Hide, Show, Restore, Abort, Complete, Unshow, Reshow, Preflight, Swap,
     Restart, Configure, Install, Discard, Settle, Fail, Unshown, WorkPin, WorkStart, WorkUnpin,
     WorkStarted, Drain
<1>2. {"idle", "finish"} \subseteq Places /\ task \in [Clients -> Tasks]
  BY DEF Places, IInv
<1>3. CASE CloseStop(t) \/ CloseFinish(t)
  BY <1>2, <1>3, GotoAll DEF CloseStop, CloseFinish
<1>4. CASE Drain(t)
  <2>1. ASSUME Goto(t, "idle") PROVE task'[t].at = "idle" /\ Others(t)
    <3>1. "idle" \in Places
      BY <1>2
    <3> QED
      BY <1>2, <2>1, <3>1, GotoAll
  <2>2. ASSUME NEW id, task' = [task EXCEPT ![t].broker.warm[id] = 0]
        PROVE  task'[t].at = task[t].at /\ Others(t)
    BY <1>2, <2>2 DEF Others, Tasks
  <2> QED
    BY <1>4, <2>1, <2>2 DEF Drain
<1> QED
  BY <1>1, <1>3, <1>4

LEMMA BystanderCommand ==
  ASSUME IInv, NEW t \in Clients, May[t] \subseteq {"close", "exit"}, Command(t)
  PROVE  /\ Exit(t) \/ \E id \in Ids : ClosePrepare(t, id)
         /\ task'[t].at \in {"stop", "drain"} /\ Others(t)
<1>1. Exit(t) \/ \E id \in Ids : ClosePrepare(t, id)
  BY DEF Command, OpenReserve, SwitchPrepare, ClearPrepare, ReplaceBegin, WorkRuntime, Foreground,
         Begin
<1>2. task \in [Clients -> Tasks]
  BY DEF IInv
<1>3. CASE Exit(t)
  <2> DEFINE k == [NoTask EXCEPT !.at = "drain", !.op = "exit", !.broker.warm = ctl.sessions]
  <2>1. Begin(t, "exit", k) /\ k.at = "drain"
    BY <1>3 DEF Exit, NoTask
  <2> HIDE DEF k
  <2> QED
    BY <1>1, <2>1, BeginIs
<1>4. ASSUME NEW id \in Ids, ClosePrepare(t, id) PROVE task'[t].at = "stop" /\ Others(t)
  <2> DEFINE k == [NoTask EXCEPT !.at = "stop", !.op = "close", !.id = id,
                                 !.w = Reap(ctl).sessions[id]]
  <2>1. Begin(t, "close", k) /\ k.at = "stop"
    BY <1>4 DEF ClosePrepare, NoTask
  <2> HIDE DEF k
  <2> QED
    BY <2>1, BeginIs
<1> QED
  BY <1>1, <1>3, <1>4

Shown(u) == Bystanders(u) /\ (~exited => Screen(ctl, task[u]))

LEMMA ShownInductive ==
  ASSUME NEW u \in Clients, Solo(u)
  PROVE  IInv /\ Budget /\ Inventory /\ Cast /\ Shown(u) /\ [Next]_vars => Shown(u)'
<1> SUFFICES ASSUME IInv, Budget, Inventory, Cast, Shown(u), [Next]_vars PROVE Shown(u)'
  OBVIOUS
<1>1. IInv' /\ task \in [Clients -> Tasks]
  BY Inductive DEF IInv
<1>2. ASSUME UNCHANGED <<task, ctl, exited>>, Fades PROVE Shown(u)'
  BY <1>2, FadesOn DEF Shown, Bystanders
<1>3. ASSUME NEW t \in Clients, Continue(t) PROVE Shown(u)'
  <2>1. exited' = exited
    BY <1>3, ExitedKept
  <2>2. CASE t = u
    <3>1. Bystanders(u)'
      <4>1. Others(u)
        BY <1>3, <2>2, ContinueMoves DEF Moves
      <4> QED
        BY <4>1 DEF Others, Shown, Bystanders
    <3>2. ASSUME ~exited PROVE Screen(ctl, task[u])'
      <4>1. ~Drain(u)
        BY <3>2 DEF Drain, At, Inventory, Fits, Placed
      <4> QED
        BY <1>1, <1>3, <2>2, <3>2, <4>1, HideScreen, ShowScreen, ReshowScreen, UnshowScreen,
           ConfigureScreen, AskScreen, EndScreen, StartScreen, QuietSection, CommitScreen,
           CompleteScreen, InstallScreen, FailScreen, UnopenScreen, FinishScreen
           DEF Continue, Shown
    <3> QED
      BY <2>1, <3>1, <3>2 DEF Shown
  <2>3. CASE t # u
    <3>1. /\ CloseStop(t) \/ CloseFinish(t) \/ Drain(t)
          /\ task'[t].at \in {"idle", "stop", "finish", "drain"} /\ Others(t)
      BY <1>3, <2>3, BystanderStep DEF Shown, Bystanders
    <3>2. Bystanders(u)' /\ task'[u] = task[u]
      BY <2>3, <3>1 DEF Others, Shown, Bystanders
    <3>3. ASSUME ~exited PROVE Screen(ctl, task[u])'
      <4>1. ~Drain(t)
        BY <3>3 DEF Drain, At, Inventory, Fits, Placed
      <4>2. CASE CloseStop(t)
        <5>1. Fades /\ ctl' = ctl
          BY <4>2, ShutsDownFades DEF CloseStop, OnlyActors
        <5> QED
          BY <3>2, <3>3, <5>1, FadesOn DEF Shown
      <4>3. CASE CloseFinish(t)
        BY <3>3, <4>3, FinishScreen DEF Shown
      <4> QED
        BY <3>1, <4>1, <4>2, <4>3
    <3> QED
      BY <2>1, <3>2, <3>3 DEF Shown
  <2> QED
    BY <2>2, <2>3
<1>4. ASSUME NEW t \in Clients, Command(t) PROVE Shown(u)'
  <2>1. CASE t = u
    <3>1. Bystanders(u)'
      <4>1. Others(u)
        BY <1>4, <2>1, BeginIs DEF Command, OpenReserve, ClosePrepare, SwitchPrepare, ClearPrepare,
           ReplaceBegin, WorkRuntime, Foreground, Exit
      <4> QED
        BY <4>1 DEF Others, Shown, Bystanders
    <3>2. ~exited' => ~exited
      BY <1>4, CommandBegins DEF Begin
    <3> QED
      BY <1>4, <2>1, <3>1, <3>2, CommandScreen DEF Shown
  <2>2. CASE t # u
    <3>1. /\ Exit(t) \/ \E id \in Ids : ClosePrepare(t, id)
          /\ task'[t].at \in {"stop", "drain"} /\ Others(t)
      BY <1>4, <2>2, BystanderCommand DEF Solo
    <3>2. Bystanders(u)' /\ task'[u] = task[u]
      BY <2>2, <3>1 DEF Others, Shown, Bystanders
    <3>3. ASSUME NEW id \in Ids, ClosePrepare(t, id) PROVE ~exited /\ Screen(ctl, task[u])'
      <4>1. /\ MayClose(Reap(ctl), id) /\ ctl' = Closing(Reap(ctl), id) /\ ~exited
            /\ UNCHANGED actors
        BY <3>3 DEF ClosePrepare, Begin
      <4> QED
        BY <3>2, <4>1, CloseScreen DEF Shown
    <3> QED
      BY <3>1, <3>2, <3>3 DEF Shown, Exit
  <2> QED
    BY <2>1, <2>2
<1>5. ASSUME NEW w \in 1 .. started, WorkerFault(w) \/ ActorEnds(w) \/ WorkEnds(w) \/ LateAnswer(w)
      PROVE  Shown(u)'
  <2>1. UNCHANGED <<task, ctl, exited>>
    BY <1>5 DEF WorkerFault, ActorEnds, WorkEnds, LateAnswer, OnlyActors, Later
  <2>2. CASE ActorEnds(w)
    BY <1>2, <2>1, <2>2, EndedFades DEF ActorEnds, Stop
  <2>3. CASE WorkerFault(w) \/ WorkEnds(w)
    <3>1. Fades
      BY <2>3 DEF WorkerFault, WorkEnds, Served, Leaves, Fades, Awake, Doomed
    <3> QED
      BY <1>2, <2>1, <3>1
  <2>4. CASE LateAnswer(w)
    <3>1. /\ UNCHANGED <<serves, up>> /\ ending' = ending \cup {w}
          /\ \A v : v # w => (v \in showing' <=> v \in showing)
          /\ \A v \in up : v # w => late'[v] = late[v]
      BY <2>4 DEF LateAnswer, Served, Serves, Leaves, Cast
    <3>2. w \notin Awake /\ w \notin Awake'
      BY <2>4, <3>1 DEF LateAnswer, Awake, Doomed
    <3>3. Fades
      BY <3>1, <3>2 DEF Fades, Awake, Doomed
    <3> QED
      BY <1>2, <2>1, <3>3
  <2> QED
    BY <1>5, <2>2, <2>3, <2>4
<1>6. CASE Monitor
  <2>1. CASE UNCHANGED ctl
    <3>1. ASSUME NEW m \in monitors, MonitorSees(m) PROVE Fades
      <4>1. CASE UNCHANGED actors
        BY <4>1, StillFades
      <4>2. CASE GivesUp(m.w, "view")
        BY <4>2, GivenUpFades DEF Asked
      <4> QED
        BY <3>1, <4>1, <4>2 DEF MonitorSees
    <3>2. ASSUME NEW m \in monitors, MonitorReleases(m) PROVE Fades
      BY <3>2, StillFades DEF MonitorReleases
    <3> QED
      BY <1>2, <1>6, <2>1, <3>1, <3>2 DEF Monitor, MonitorSees, MonitorReleases, Later
  <2>2. ASSUME NEW m \in monitors, MonitorReleases(m) PROVE Shown(u)'
    <3> DEFINE r == Reap(ctl)
    <3>1. UNCHANGED <<task, actors, exited>>
      BY <2>2 DEF MonitorReleases, Later
    <3>2. ASSUME ~exited PROVE Screen(ctl', task[u])
      <4>1. /\ r \in Controllers /\ Screen(r, task[u]) /\ ControllerOK(r, used)
            /\ task[u].at \in ReplaceSteps => task[u].id \in Ids /\ task[u].id = r.replacing
        BY <3>2, FoundScreen, FoundOK, ReapReaps DEF Shown, Reaped, IInv, ControllerOK
      <4>2. CASE ctl' = Unpin(r, m.token)
        <5> DEFINE q == Reap(r)
        <5>1. ControllerOK(q, used) /\ q \in Controllers
          <6>1. ControllerOK(q, used)
            BY <4>1, ReapOK
          <6> HIDE DEF q
          <6> QED
            BY <6>1 DEF ControllerOK
        <5>2. Entered(r)
          BY <3>2, EnteredNow, ReapReaps DEF Entered, Reaped, IInv, ControllerOK
        <5>3. Screen(q, task[u])
          BY <4>1, <5>1, <5>2, ReapScreen
        <5>4. ctl'.closing = q.closing /\ ctl'.sessions = q.sessions /\ ctl'.broker.lease = q.broker.lease
          BY <4>2, <5>1 DEF Unpin, Controllers, States, Released
        <5> HIDE DEF q
        <5> QED
          BY <5>3, <5>4, SameScreen
      <4> QED
        BY <2>2, <4>1, <4>2 DEF MonitorReleases
    <3> QED
      BY <3>1, <3>2, StillFades, FadesOn DEF Shown, Bystanders
  <2> QED
    BY <1>6, <2>1, <2>2 DEF Monitor, MonitorSees
<1>7. CASE Poll
  <2>1. UNCHANGED <<task, actors, exited>> /\ ctl' = Reap(ctl)
    BY <1>7 DEF Poll, OnlyController, Later
  <2>2. ASSUME ~exited PROVE Screen(ctl', task[u])
    BY <2>1, <2>2, FoundScreen DEF Shown
  <2> QED
    BY <2>1, <2>2, StillFades, FadesOn DEF Shown, Bystanders
<1>8. CASE UNCHANGED vars
  BY <1>2, <1>8, StillFades DEF vars
<1> QED
  BY <1>3, <1>4, <1>5, <1>6, <1>7, <1>8 DEF Next

LEMMA ShownInit == ASSUME Init, NEW u \in Clients PROVE Cast /\ Shown(u)
<1>1. \A t \in Clients : task[t].at = "idle"
  BY IdlePlace DEF Init
<1>2. Cast
  BY RegistryAssumption DEF Init, Cast, Asked, Doomed
<1>3. Bystanders(u)
  BY <1>1 DEF Bystanders
<1>4. Screen(ctl, task[u])
  <2>1. Bright(ctl) = {} /\ ctl.broker.lease.id = None
    BY DEF Init, Bright, NoBroker, NoLease
  <2> QED
    BY <1>1, <2>1 DEF Screen, Holder, Switcher, Lit, SwitchSteps, ReplaceSteps
<1> QED
  BY <1>2, <1>3, <1>4 DEF Shown

(* One worker at a time has the foreground, but for those that are being closed and those *)
(* that are to end, because they failed or kept a caller waiting for too long             *)
(* (generic_deck_state.rs).                                                               *)
THEOREM OneIsShown == ASSUME OneCaller PROVE Spec => []OneShown
<1>1. PICK u \in Clients : Solo(u)
  BY DEF OneCaller, Solo
<1>2. Init => Cast /\ Shown(u)
  BY ShownInit
<1>3. IInv /\ Budget /\ Inventory /\ Cast /\ Shown(u) /\ [Next]_vars => Shown(u)'
  BY <1>1, ShownInductive
<1>4. Inventory /\ Cast /\ Shown(u) => OneShown
  <2> SUFFICES ASSUME Inventory, Cast, Shown(u), ~exited, NEW v \in Bright(ctl), NEW w \in Bright(ctl)
               PROVE  v = w
    BY DEF OneShown, Bright, Awake, Cast
  <2>1. Holder(ctl, task[u])
    BY DEF Shown, Screen
  <2>2. v \in Attended /\ w \in Attended
    BY AwakeAttended DEF Bright
  <2>3. serves[v] = serves[w] => v = w
    BY <2>2 DEF Inventory, Staff
  <2> QED
    BY <2>1, <2>3 DEF Holder
<1> QED
  BY <1>2, <1>3, <1>4, InitOK, StockInit, Inductive, StockInductive, CastInductive, PTL DEF Spec

(* And outside a switch it is the worker of the session that holds the lease, which has   *)
(* it unless its actor is to end, because it failed or kept a caller waiting for too long *)
(* (generic_deck_state.rs).                                                               *)
THEOREM LeaseIsShown == ASSUME OneCaller PROVE Spec => []LeaseShown
<1>1. PICK u \in Clients : Solo(u)
  BY DEF OneCaller, Solo
<1>2. Init => Cast /\ Shown(u)
  BY ShownInit
<1>3. IInv /\ Budget /\ Inventory /\ Cast /\ Shown(u) /\ [Next]_vars => Shown(u)'
  BY <1>1, ShownInductive
<1>4. Inventory /\ Cast /\ Shown(u) => LeaseShown
  <2> DEFINE lease == ctl.broker.lease.id
  <2> SUFFICES ASSUME Inventory, Cast, Shown(u), ctl.transition = 0, ~exited,
                      \A t \in Clients : ~Withdrawing(t)
               PROVE  /\ \A w \in showing \cap Awake : serves[w] = lease \/ serves[w] \in ctl.closing
                      /\ lease # None /\ ctl.sessions[lease] \in Awake => ctl.sessions[lease] \in showing
    BY DEF LeaseShown, Awake, Cast
  <2>1. Holder(ctl, task[u]) /\ Lit(ctl, task[u])
    BY DEF Shown, Screen
  <2>2. task[u].at \notin TransitPlaces
    BY DEF Inventory, Fits, Placed
  <2>3. task[u].at \notin Dark \cup Ahead \cup ReplaceSteps
    BY <2>2 DEF Dark, Ahead, TransitPlaces, Withdrawing
  <2>4. \A w \in showing \cap Awake : serves[w] = lease \/ serves[w] \in ctl.closing
    BY <2>1, <2>3 DEF Holder, Bright
  <2>5. lease # None /\ ctl.sessions[lease] \in Awake => ctl.sessions[lease] \in showing
    BY <2>1, <2>3 DEF Lit, Swapped
  <2> QED
    BY <2>4, <2>5
<1> QED
  BY <1>2, <1>3, <1>4, InitOK, StockInit, Inductive, StockInductive, CastInductive, PTL DEF Spec

-----------------------------------------------------------------------------
(* Work and its pin: the captures and recordings whose actor is not to end, and that no    *)
(* failed replacement is about to stop.                                                   *)
Failing(id) == \E t \in Clients : task[t].at = "settle" /\ task[t].id = id
Busy == capturing \cap Awake
Heard == {id \in recording \ {serves[w] : w \in up \ Awake} : ~Failing(id)}
Still == Busy = {} /\ Heard = {}

(* Work runs under a pin of its session and kind, a capture in the session's own worker.  *)
Owned(c) ==
    /\ \A w \in Busy : /\ c.sessions[serves[w]] = w
                       /\ c.broker.pin.kind = "capture" /\ c.broker.pin.id = serves[w]
    /\ \A id \in Heard : c.broker.pin.kind = "mp4" /\ c.broker.pin.id = id

(* A command that starts work has a token of its own.  As long as the worker it was given *)
(* runs, that is the worker of its session and the token is the pin, which nothing reaps; *)
(* and nothing runs under that pin before.  A switch finds no pin until it is complete.   *)
FrozenPlaces == {"hide", "show", "restore", "complete"}
Tasked(k, c) ==
    /\ k.at \in FrozenPlaces => c.broker.pin = NoPin /\ k.broker.pins = c.broker.pins
    /\ k.at \in {"pin", "work"} =>
           /\ k.op \in {"capture", "mp4"} /\ k.w \in 1 .. started /\ serves[k.w] = k.id
           /\ k.w \in Awake => c.sessions[k.id] = k.w
    /\ k.at \in PinPlaces => k.token.gen \in 1 .. c.broker.pins
    /\ k.at = "work" => /\ k.token.id = k.id /\ k.token.kind = k.op
                        /\ k.w \in Awake => c.broker.pin = k.token /\ c.starting = k.token
    /\ k.at \in {"work", "unpin"} /\ c.broker.pin = k.token => Still
    /\ k.at = "started" /\ c.broker.pin = k.token => Busy \subseteq {k.w}

(* A monitor watches the worker that captures under its pin, and has seen the end of that *)
(* work before it releases the pin.                                                       *)
Watched(m, c) ==
    /\ m.token.gen \in 1 .. c.broker.pins
    /\ c.broker.pin = m.token => Busy \subseteq {m.w} /\ (m.ended => Still)

(* No two of them have the same token.                                                    *)
Apart ==
    /\ \A s, t \in Clients :
           s # t /\ task[s].at \in PinPlaces /\ task[t].at \in PinPlaces
               => task[s].token # task[t].token
    /\ \A t \in Clients, m \in monitors : task[t].at \in PinPlaces => task[t].token # m.token

Backed(c) ==
    /\ Owned(c) /\ Apart
    /\ \A t \in Clients : Tasked(task[t], c)
    /\ \A m \in monitors : Watched(m, c)

Manned == capturing \subseteq up
PinInv == Manned /\ (~exited => Backed(ctl))

(* No failed replacement is settled, and what an actor does without starting work.        *)
Lingers ==
    \A t \in Clients :
        task[t].at = "settle" => task'[t].at = "settle" /\ task'[t].id = task[t].id
Eases ==
    /\ Busy' \subseteq Busy /\ Heard' \subseteq Heard
    /\ started \in Nat /\ started' \in Nat /\ started <= started'
    /\ \A w \in 1 .. started : serves'[w] = serves[w]
    /\ Awake' \subseteq Awake \cup {started + 1}

LEMMA EasedOn ==
  ASSUME Inventory, Cast, NEW d, ctl' = d, Eases
  PROVE  /\ Still => Still'
         /\ Busy' \subseteq Busy
         /\ Owned(d) => Owned(ctl)'
         /\ \A s \in Clients : Tasked(task'[s], d) => Tasked(task[s], ctl)'
<1>1. Awake \subseteq 1 .. started /\ Busy \subseteq Awake
  BY AwakeAttended, AttendedCrew DEF Inventory, Staff, Busy
<1>2. Still => Still'
  BY DEF Still, Eases
<1>3. Owned(d) => Owned(ctl)'
  BY <1>1 DEF Owned, Eases
<1>4. ASSUME NEW s \in Clients, Tasked(task'[s], d) PROVE Tasked(task[s], ctl)'
  <2>1. Tasked(task'[s], d)
    BY <1>4
  <2>2. task'[s].w \in 1 .. started =>
            /\ task'[s].w \in 1 .. started' /\ serves'[task'[s].w] = serves[task'[s].w]
            /\ task'[s].w \in Awake' => task'[s].w \in Awake
    BY DEF Eases
  <2>3. Busy' \subseteq Busy
    BY DEF Eases
  <2> QED
    BY <1>2, <2>1, <2>2, <2>3 DEF Tasked
<1> QED
  BY <1>2, <1>3, <1>4 DEF Eases

LEMMA BackedOn ==
  ASSUME Inventory, Cast, NEW d, ctl' = d, Eases, Owned(d), Apart',
         \A s \in Clients : Tasked(task'[s], d), \A m \in monitors' : Watched(m, d)
  PROVE  Backed(ctl)'
<1>1. \A m \in monitors' : Watched(m, ctl)'
  BY EasedOn DEF Watched
<1> QED
  BY <1>1, EasedOn DEF Backed

(* Places at which a command has nothing to do with pins, and steps from and to such.     *)
Quiet(k) == k.at \notin PinPlaces \cup FrozenPlaces \cup {"pin"}
Rests(k, l) ==
    \/ l = k \/ Quiet(l)
    \/ k.at \in FrozenPlaces /\ l.at \in FrozenPlaces /\ l.broker = k.broker

LEMMA QuietTasked == ASSUME NEW k, Quiet(k), NEW c PROVE Tasked(k, c)
  BY DEF Quiet, Tasked, PinPlaces

LEMMA RestsTasked ==
  ASSUME NEW k, NEW l, Rests(k, l), NEW c, Tasked(k, c)
  PROVE  Tasked(l, c) /\ (l.at \in PinPlaces => l = k)
<1>1. CASE Quiet(l)
  BY <1>1, QuietTasked DEF Quiet
<1>2. CASE k.at \in FrozenPlaces /\ l.at \in FrozenPlaces /\ l.broker = k.broker
  BY <1>2 DEF Tasked, FrozenPlaces, PinPlaces
<1> QED
  BY <1>1, <1>2 DEF Rests

LEMMA RestsOn ==
  ASSUME Inventory, Cast, NEW d, ctl' = d, Eases, Backed(d), monitors' \subseteq monitors,
         \A s \in Clients : Rests(task[s], task'[s])
  PROVE  Backed(ctl)'
<1>1. \A s \in Clients : Tasked(task'[s], d) /\ (task'[s].at \in PinPlaces => task'[s] = task[s])
  BY RestsTasked DEF Backed
<1>2. Apart'
  BY <1>1 DEF Backed, Apart
<1> QED
  BY <1>1, <1>2, BackedOn DEF Backed

(* A section that keeps the pin for all who need it.                                      *)
Spares(c, d) ==
    /\ d.broker.pins = c.broker.pins /\ d.broker.pin \in {c.broker.pin, NoPin}
    /\ d.broker.pin # c.broker.pin => Still
    /\ \A id \in Ids : c.sessions[id] \in Awake => d.sessions[id] = c.sessions[id]
    /\ \A t \in Clients : task[t].at = "work" /\ task[t].w \in Awake =>
           d.broker.pin = c.broker.pin /\ d.starting = c.starting

LEMMA SparesKeep ==
  ASSUME IInv, Inventory, Cast, NEW c, NEW d, Backed(c), Spares(c, d)
  PROVE  Backed(d)
<1>1. \A w \in Busy : serves[w] \in Ids /\ w \in Awake
  BY AwakeAttended, AttendedCrew DEF Busy, Inventory, Staff
<1>2. Owned(d)
  <2>1. CASE Still
    BY <2>1 DEF Owned, Still
  <2>2. CASE ~Still
    BY <1>1, <2>2 DEF Owned, Backed, Spares
  <2> QED
    BY <2>1, <2>2
<1>3. \A token : token.gen \in 1 .. c.broker.pins /\ d.broker.pin = token => c.broker.pin = token
  BY DEF Spares, NoPin
<1>4. \A m \in monitors : Watched(m, d)
  BY <1>3 DEF Backed, Watched, Spares
<1>5. ASSUME NEW t \in Clients PROVE Tasked(task[t], d)
  <2> DEFINE k == task[t]
  <2>1. Tasked(k, c)
    BY DEF Backed
  <2>2. k.op \in {"capture", "mp4"} => k.id \in Ids
    BY DEF IInv, TaskOK
  <2>3. k.at \in PinPlaces => k.token.gen \in 1 .. c.broker.pins
    BY <2>1 DEF Tasked
  <2>4. d.broker.pin = k.token /\ k.at \in PinPlaces => c.broker.pin = k.token
    BY <1>3, <2>3
  <2>5. k.at \in {"pin", "work"} /\ k.w \in Awake => d.sessions[k.id] = k.w
    BY <2>1, <2>2 DEF Tasked, Spares
  <2>6. k.at = "work" /\ k.w \in Awake => d.broker.pin = k.token /\ d.starting = k.token
    BY <2>1 DEF Tasked, Spares
  <2>7. k.at \in FrozenPlaces => d.broker.pin = NoPin /\ k.broker.pins = d.broker.pins
    BY <2>1 DEF Tasked, Spares
  <2>8. /\ d.broker.pins = c.broker.pins
        /\ k.at \in {"work", "unpin", "started"} => k.at \in PinPlaces
    BY DEF Spares, PinPlaces
  <2> HIDE DEF k
  <2>9. Tasked(k, d)
    BY <2>1, <2>4, <2>5, <2>6, <2>7, <2>8 DEF Tasked
  <2> QED
    BY <2>9 DEF k
<1> QED
  BY <1>2, <1>4, <1>5 DEF Backed

LEMMA SameSpares ==
  ASSUME NEW c, NEW d, d.broker.pins = c.broker.pins, d.broker.pin = c.broker.pin,
         d.sessions = c.sessions, d.starting = c.starting
  PROVE  Spares(c, d)
  BY DEF Spares

(* Reaping.                                                                               *)
LEMMA ReapPin ==
  ASSUME NEW c \in Controllers
  PROVE  /\ Reap(c).broker.pins = c.broker.pins /\ Reap(c).broker.pin \in {c.broker.pin, NoPin}
         /\ Reap(c).broker.pin # c.broker.pin =>
                \/ /\ c.broker.lease.id \in Ids \ {c.replacing}
                   /\ c.sessions[c.broker.lease.id] \notin up \cup {0}
                \/ /\ c.starting # c.broker.pin
                   /\ ~(c.broker.pin.kind = "mp4" /\ c.broker.pin.id \in recording)
                   /\ c.broker.pin.id \in Ids =>
                          ~(c.broker.pin.kind = "capture"
                            /\ c.sessions[c.broker.pin.id] \in capturing)
         /\ Reap(c).starting # c.starting =>
                c.starting # c.broker.pin \/ Reap(c).broker.pin # c.broker.pin
<1> DEFINE gone == {id \in Ids \ {c.replacing} : c.sessions[id] \notin up \cup {0}}
           lost == {id \in gone \ c.closing : c.broker.warm[id] = c.sessions[id]}
           b == Faulted(c.broker, lost)
           s == IF c.starting = b.pin THEN c.starting ELSE NoPin
           r == [c EXCEPT !.sessions = [id \in Ids |-> IF id \in gone THEN 0 ELSE @[id]],
                          !.closing = @ \ gone, !.broker = b, !.starting = s]
           q == [r EXCEPT !.broker = Released(b, b.pin)]
           reaps == b.pin # NoPin /\ r.sessions[b.pin.id] # 0 /\ ReapsPin(r, b.pin)
<1>1. /\ b.pins = c.broker.pins /\ Released(b, b.pin).pins = b.pins
      /\ Released(b, b.pin).pin = NoPin
      /\ b.pin = IF c.broker.lease.id \in lost THEN NoPin ELSE c.broker.pin
  <2>1. c.broker \in States
    BY DEF Controllers
  <2> HIDE DEF lost
  <2> QED
    BY <2>1 DEF Faulted, Forgotten, Released, States
<1>2. /\ lost \subseteq Ids \ {c.replacing}
      /\ \A id \in lost : c.sessions[id] \notin up \cup {0}
  OBVIOUS
<1> HIDE DEF lost, b, s
<1>3. /\ r.broker = b /\ r.starting = s
      /\ \A id \in Ids : r.sessions[id] \in {0, c.sessions[id]}
  BY DEF Controllers
<1>4. q.broker = Released(b, b.pin) /\ q.starting = s
  BY DEF Controllers
<1>5. Reap(c) = IF reaps THEN q ELSE r
  BY DEF Reap, r, q, b, s, lost, gone
<1> HIDE DEF r, q, gone
<1>6. CASE ~reaps
  <2>1. Reap(c).broker = b /\ Reap(c).starting = s
    BY <1>3, <1>5, <1>6
  <2> QED
    BY <1>1, <1>2, <2>1 DEF s
<1>7. CASE reaps
  <2>1. Reap(c).broker = Released(b, b.pin) /\ Reap(c).starting = s
    BY <1>4, <1>5, <1>7
  <2>2. b.pin = c.broker.pin /\ c.broker.lease.id \notin lost
    BY <1>1, <1>7
  <2>3. c.starting # c.broker.pin
    BY <1>3, <1>7, <2>2 DEF ReapsPin, s
  <2>4. ~Running(c.broker.pin, r.sessions[c.broker.pin.id]) /\ r.sessions[c.broker.pin.id] # 0
    BY <1>7, <2>2 DEF ReapsPin
  <2>5. ~(c.broker.pin.kind = "mp4" /\ c.broker.pin.id \in recording)
    BY <2>4 DEF Running
  <2>6. c.broker.pin.id \in Ids =>
            ~(c.broker.pin.kind = "capture" /\ c.sessions[c.broker.pin.id] \in capturing)
    BY <1>3, <2>4 DEF Running
  <2> QED
    BY <1>1, <2>1, <2>2, <2>3, <2>5, <2>6
<1> QED
  BY <1>6, <1>7

LEMMA EnteredIn ==
  ASSUME Staff, Cast, ~exited, NEW c, NEW u, Fits(c), ControllerOK(c, u)
  PROVE  Entered(c)
<1> SUFFICES ASSUME NEW w \in Awake
             PROVE  /\ serves[w] \in Ids
                    /\ c.sessions[serves[w]] \in {0, w} \/ serves[w] = c.replacing
  BY DEF Entered
<1>1. serves[w] \in Ids /\ w \in Attended
  BY AwakeAttended, AttendedCrew DEF Staff
<1>2. ASSUME NEW t \in Clients, Holds(task[t], w, serves[w])
      PROVE  c.sessions[serves[w]] \in {0, w} \/ serves[w] = c.replacing
  <2>1. Placed(task[t], c) /\ \A i \in c.pending : c.sessions[i] = 0
    BY DEF Fits, ControllerOK
  <2>2. task[t].at \in OpenPlaces \cup ReplaceSteps \cup {"drain"}
        /\ (task[t].at # "drain" => task[t].id = serves[w])
    BY <1>2 DEF Holds, NewPlaces, OpenPlaces, ReplaceSteps
  <2> QED
    BY <2>1, <2>2 DEF Placed
<1> QED
  BY <1>1, <1>2 DEF Fits

LEMMA ReapSpares ==
  ASSUME IInv, Inventory, Cast, ~exited, NEW c, NEW u, Fits(c), ControllerOK(c, u), Backed(c)
  PROVE  Spares(c, Reap(c))
<1> DEFINE r == Reap(c)
           pin == c.broker.pin
<1>1. /\ c \in Controllers /\ Leased(c.broker) /\ Entered(c) /\ Staff
  BY EnteredIn DEF ControllerOK, Inventory
<1>2. /\ r.broker.pins = c.broker.pins /\ r.broker.pin \in {pin, NoPin}
      /\ r.broker.pin # pin =>
             \/ /\ c.broker.lease.id \in Ids \ {c.replacing}
                /\ c.sessions[c.broker.lease.id] \notin up \cup {0}
             \/ /\ c.starting # pin
                /\ ~(pin.kind = "mp4" /\ pin.id \in recording)
                /\ pin.id \in Ids => ~(pin.kind = "capture" /\ c.sessions[pin.id] \in capturing)
      /\ r.starting # c.starting => c.starting # pin \/ r.broker.pin # pin
  BY <1>1, ReapPin
<1>3. \A id \in Ids : c.sessions[id] \in Awake => r.sessions[id] = c.sessions[id]
  BY <1>1, ReapReaps, AwakeAttended DEF Reaped
<1> HIDE DEF r
<1>4. r.broker.pin # pin => pin # NoPin /\ pin.id = c.broker.lease.id
  BY <1>1, <1>2 DEF Leased
<1>5. ASSUME r.broker.pin # pin, NEW w \in Busy PROVE FALSE
  <2>1. /\ w \in up /\ w \in capturing /\ serves[w] \in Ids /\ c.sessions[serves[w]] = w
        /\ pin.kind = "capture" /\ pin.id = serves[w]
    BY <1>1, AttendedCrew, AwakeAttended DEF Busy, Staff, Backed, Owned
  <2> QED
    BY <1>2, <1>4, <1>5, <2>1
<1>6. ASSUME r.broker.pin # pin, NEW id \in Heard PROVE FALSE
  <2>1. id \in recording /\ pin.kind = "mp4" /\ pin.id = id
    BY DEF Heard, Backed, Owned
  <2>2. id \in Ids \ {c.replacing} /\ c.sessions[id] \notin up \cup {0}
    BY <1>2, <1>4, <1>6, <2>1
  <2>3. \A w \in up : serves[w] # id
    <3>1. \A w \in Awake : serves[w] # id
      BY <1>1, <2>2, AwakeAttended DEF Entered
    <3> QED
      BY <1>6, <3>1 DEF Heard
  <2>4. \A t \in Clients : task[t].at \in {"restart", "settle"} => task[t].id # id
    BY <2>2 DEF Fits, Placed, ReplaceSteps
  <2> QED
    BY <1>1, <2>1, <2>3, <2>4 DEF Staff
<1>7. ASSUME NEW t \in Clients, task[t].at = "work", task[t].w \in Awake
      PROVE  r.broker.pin = pin /\ r.starting = c.starting
  <2>1. /\ pin = task[t].token /\ c.starting = pin /\ c.sessions[task[t].id] = task[t].w
        /\ task[t].token.id = task[t].id
    BY <1>7 DEF Backed, Tasked
  <2> QED
    BY <1>2, <1>4, <1>7, <2>1, AwakeAttended
<1>8. r.broker.pin # pin => Still
  BY <1>5, <1>6 DEF Still
<1> QED
  BY <1>2, <1>3, <1>7, <1>8 DEF Spares, r

(* What a section finds after it has reaped.                                              *)
LEMMA FoundBacked ==
  ASSUME IInv, Inventory, Cast, ~exited, Backed(ctl)
  PROVE  Backed(Reap(ctl))
<1>1. ControllerOK(ctl, used) /\ Fits(ctl)
  BY DEF IInv, Inventory
<1> QED
  BY <1>1, ReapSpares, SparesKeep

-----------------------------------------------------------------------------
(* What actors do besides starting work.                                                  *)
LEMMA LingersFails == Lingers => \A id : Failing(id) => Failing(id)'
  BY DEF Lingers, Failing

LEMMA StillEases == ASSUME IInv, Lingers, UNCHANGED actors PROVE Eases
  BY LingersFails DEF IInv, Eases, actors, Busy, Heard, Awake, Doomed

LEMMA EndedEases ==
  ASSUME IInv, Lingers, Cast, NEW w, NEW rec, Ended(w, rec), rec \subseteq recording,
         w \in up \ Awake => rec \subseteq recording \ {serves[w]} \/ Failing(serves[w])
  PROVE  Eases
<1>1. /\ Awake' = Awake \ {w} /\ up' = up \ {w} /\ capturing' = capturing \ {w}
      /\ recording' = rec /\ UNCHANGED <<started, serves>>
  BY DEF Ended, Awake, Doomed, Cast
<1>2. Busy' \subseteq Busy
  BY <1>1 DEF Busy
<1>3. Heard' \subseteq Heard
  BY <1>1, LingersFails DEF Heard
<1> QED
  BY <1>1, <1>2, <1>3 DEF Eases, IInv

LEMMA OverdueEases == ASSUME IInv, Lingers, Cast, NEW w, Overdue(w) PROVE Eases
<1>1. /\ Awake' = Awake \ {w} /\ UNCHANGED <<started, serves, up, capturing, recording>>
  BY DEF Overdue, Awake, Doomed, Cast
<1> QED
  BY <1>1, LingersFails DEF Eases, Busy, Heard, IInv

LEMMA ShutsDownEases == ASSUME IInv, Lingers, Cast, NEW w, ShutsDown(w) PROVE Eases
<1> DEFINE rec == IF w \in up THEN recording \ {serves[w]} ELSE recording
<1>1. CASE Stop(w)
  <2>1. Ended(w, rec) /\ rec \subseteq recording
    BY <1>1 DEF Stop
  <2>2. w \in up => rec \subseteq recording \ {serves[w]}
    OBVIOUS
  <2> HIDE DEF rec
  <2> QED
    BY <2>1, <2>2, EndedEases
<1> QED
  BY <1>1, OverdueEases DEF ShutsDown

LEMMA StartedEases ==
  ASSUME IInv, Lingers, Inventory, Cast, Manned, NEW id, Started(id) PROVE Eases
<1>1. /\ started' = started + 1 /\ serves' = [serves EXCEPT ![started + 1] = id]
      /\ up' = up \cup {started + 1} /\ UNCHANGED <<ending, late, capturing, recording>>
      /\ started \in Nat /\ serves \in [Workers -> Ids \cup {None}]
      /\ up \subseteq 1 .. started /\ up \subseteq Workers
  BY DEF Started, IInv, Inventory, Staff, Crew, Cast
<1>2. \A w \in 1 .. started : serves'[w] = serves[w]
  BY <1>1
<1>3. Awake \subseteq Awake' /\ Awake' \subseteq Awake \cup {started + 1} /\ up \ Awake \subseteq up' \ Awake'
  BY <1>1 DEF Awake, Doomed
<1>4. Busy' \subseteq Busy
  BY <1>1, <1>3 DEF Busy, Manned
<1>5. Heard' \subseteq Heard
  BY <1>1, <1>2, <1>3, LingersFails DEF Heard, Awake
<1> QED
  BY <1>1, <1>2, <1>3, <1>4, <1>5 DEF Eases

LEMMA LeavesEases ==
  ASSUME IInv, Lingers, NEW w, Leaves(w), Served, UNCHANGED late PROVE Eases
<1>1. /\ Awake' = Awake \ {w} /\ UNCHANGED <<started, serves, up, capturing, recording>>
  BY DEF Leaves, Served, Awake, Doomed
<1> QED
  BY <1>1, LingersFails DEF Eases, Busy, Heard, IInv

LEMMA GivenUpEases ==
  ASSUME IInv, Lingers, Cast, NEW w, NEW what, GivesUp(w, what)
  PROVE  Eases
<1>1. Awake' \subseteq Awake /\ UNCHANGED <<started, serves, up, capturing, recording>>
  BY DEF GivesUp, Awake, Doomed, Cast
<1> QED
  BY <1>1, LingersFails DEF Eases, Busy, Heard, IInv

LEMMA LateEases == ASSUME IInv, Lingers, Cast, NEW w, LateAnswer(w) PROVE Eases
<1>1. /\ UNCHANGED <<started, serves, up>> /\ Awake' = Awake
      /\ w \in up \ Awake
  BY DEF LateAnswer, Leaves, Serves, Served, Awake, Doomed, Cast
<1>2. capturing' \subseteq capturing \cup {w} /\ recording' \subseteq recording \cup {serves[w]}
  BY DEF LateAnswer, Serves, Served
<1> QED
  BY <1>1, <1>2, LingersFails DEF Eases, Busy, Heard, IInv

LEMMA AsksEases ==
  ASSUME IInv, Lingers, Cast, NEW t, NEW w, NEW what, what \notin {"capture", "mp4"},
         NEW a, NEW f, Asks(t, w, what, a, f)
  PROVE  Eases
<1>1. CASE UNCHANGED actors
  BY <1>1, StillEases
<1>2. CASE Serves(w, what) /\ UNCHANGED <<ending, late>>
  <2>1. /\ Awake' = Awake /\ UNCHANGED <<started, serves, up, capturing, recording>>
    BY <1>2 DEF Serves, Awake, Doomed
  <2> QED
    BY <2>1, LingersFails DEF Eases, Busy, Heard, IInv
<1>3. CASE Leaves(w) /\ Served /\ UNCHANGED late
  BY <1>3, LeavesEases
<1>4. CASE GivesUp(w, what)
  BY <1>4, GivenUpEases
<1> QED
  BY <1>1, <1>2, <1>3, <1>4 DEF Asks

(* Only a running actor captures.                                                         *)
LEMMA AsksManned ==
  ASSUME Manned, NEW t, NEW w, NEW what, NEW a, NEW f, Asks(t, w, what, a, f)
  PROVE  Manned'
<1>1. CASE UNCHANGED actors
  BY <1>1 DEF actors, Manned
<1>2. CASE w \in up /\ Serves(w, what)
  BY <1>2 DEF Serves, Manned
<1>3. CASE Served
  BY <1>3 DEF Served, Manned
<1>4. CASE GivesUp(w, what)
  BY <1>4 DEF GivesUp, Manned
<1> QED
  BY <1>1, <1>2, <1>3, <1>4 DEF Asks

LEMMA EndedManned == ASSUME Manned, NEW w, NEW rec, Ended(w, rec) PROVE Manned'
  BY DEF Ended, Manned

LEMMA OverdueManned == ASSUME Manned, NEW w, Overdue(w) PROVE Manned'
  BY DEF Overdue, Manned

LEMMA MannedInductive ==
  ASSUME Manned, [Next]_vars PROVE Manned'
<1>1. CASE UNCHANGED actors
  BY <1>1 DEF actors, Manned
<1>2. ASSUME NEW t \in Clients, Continue(t) PROVE Manned'
  <2>2. CASE Viewport(t) \/ Hide(t) \/ Show(t) \/ Restore(t) \/ Unshow(t) \/ Reshow(t)
             \/ Preflight(t) \/ Configure(t) \/ WorkStart(t)
    BY <1>1, <2>2, AsksManned
       DEF Viewport, Hide, Show, Restore, Unshow, Reshow, Preflight, Configure, WorkStart
  <2>3. CASE OpenAbandon(t) \/ CloseStop(t) \/ Discard(t) \/ Unshown(t) \/ Swap(t) \/ Drain(t)
    BY <1>1, <2>3, EndedManned, OverdueManned
       DEF OpenAbandon, CloseStop, Discard, Unshown, Swap, Drain, ShutsDown, Stop
  <2>4. CASE OpenStart(t) \/ Restart(t)
    BY <1>1, <2>4 DEF OpenStart, Restart, Started, Manned
  <2>5. CASE Settle(t)
    BY <2>5 DEF Settle, Manned
  <2>6. CASE \/ OpenCommit(t) \/ OpenCancel(t) \/ Unopen(t) \/ Seen(t) \/ CloseFinish(t) \/ Abort(t)
             \/ Complete(t) \/ Install(t) \/ Fail(t) \/ WorkPin(t) \/ WorkUnpin(t) \/ WorkStarted(t)
    BY <1>1, <2>6 DEF OpenCommit, OpenCancel, Unopen, Seen, CloseFinish, Abort, Complete, Install, Fail,
       WorkPin, WorkUnpin, WorkStarted, OnlyController
  <2> QED
    BY <1>2, <2>2, <2>3, <2>4, <2>5, <2>6 DEF Continue
<1>3. ASSUME NEW t \in Clients, Command(t) PROVE Manned'
  BY <1>1, <1>3, CommandBegins DEF Begin
<1>4. ASSUME NEW w \in 1 .. started, WorkerFault(w) \/ ActorEnds(w) \/ WorkEnds(w) \/ LateAnswer(w)
      PROVE  Manned'
  <2>1. CASE ActorEnds(w)
    BY <2>1, EndedManned DEF ActorEnds, Stop
  <2>2. CASE WorkerFault(w) \/ WorkEnds(w)
    BY <2>2 DEF WorkerFault, WorkEnds, Served, Leaves, Manned
  <2>3. CASE LateAnswer(w)
    BY <2>3 DEF LateAnswer, Serves, Served, Leaves, Manned
  <2> QED
    BY <1>4, <2>1, <2>2, <2>3
<1>5. CASE Monitor \/ Poll
  BY <1>1, <1>5 DEF Monitor, MonitorSees, GivesUp, MonitorReleases, Poll, OnlyController, Manned
<1>6. CASE UNCHANGED vars
  BY <1>1, <1>6 DEF vars
<1> QED
  BY <1>2, <1>3, <1>4, <1>5, <1>6 DEF Next

-----------------------------------------------------------------------------
(* The steps of a command that change only actors.                                        *)
LEMMA GotoRests ==
  ASSUME IInv, NEW t \in Clients, NEW at \in Places, Goto(t, at), at \notin PinPlaces \cup {"pin"},
         at \in FrozenPlaces => task[t].at \in FrozenPlaces
  PROVE  \A s \in Clients : Rests(task[s], task'[s])
<1>1. /\ Others(t) /\ task'[t].at = at
      /\ at # "idle" => Carries(task[t], task'[t])
  BY GotoIs
<1>2. Rests(task[t], task'[t])
  BY <1>1 DEF Rests, Quiet, Carries, FrozenPlaces
<1> QED
  BY <1>1, <1>2 DEF Others, Rests

LEMMA ActorsKeep ==
  ASSUME Inventory, Cast, Backed(ctl), Eases, UNCHANGED <<ctl, monitors>>,
         \A s \in Clients : Rests(task[s], task'[s])
  PROVE  Backed(ctl)'
  BY RestsOn

Settled(p, q) ==
    /\ q \in Places \ (PinPlaces \cup {"pin"}) /\ (q \in FrozenPlaces => p \in FrozenPlaces)

LEMMA SettledPlaces ==
  /\ \A p, q \in FrozenPlaces : Settled(p, q)
  /\ \A p : \A q \in {"seen", "unopen", "idle", "unshown", "abort", "reshow", "swap", "install",
                      "discard", "cancel", "finish", "settle", "fail", "restart", "unshow",
                      "viewport", "abandon", "commit", "configure"} : Settled(p, q)
  BY DEF Settled, Places, PinPlaces, FrozenPlaces

LEMMA AsksKeep ==
  ASSUME IInv, Inventory, Cast, Lingers, Backed(ctl), OnlyActors,
         NEW t \in Clients, NEW w, NEW what, what \notin {"capture", "mp4"},
         NEW a, Settled(task[t].at, a), NEW f, Settled(task[t].at, f), Asks(t, w, what, a, f)
  PROVE  Backed(ctl)'
<1>1. Goto(t, a) \/ Goto(t, f)
  BY AsksFrame
<1>2. Eases
  BY AsksEases
<1> QED
  BY <1>1, <1>2, GotoRests, ActorsKeep DEF Settled, OnlyActors

LEMMA AskKeep ==
  ASSUME IInv, Inventory, Cast, Lingers, Backed(ctl), NEW t \in Clients,
         \/ Viewport(t) \/ Hide(t) \/ Show(t) \/ Restore(t) \/ Unshow(t) \/ Reshow(t)
         \/ Preflight(t) \/ Configure(t)
  PROVE  Backed(ctl)'
<1> USE DEF At
<1>1. CASE Viewport(t)
  BY <1>1, AsksKeep, SettledPlaces DEF Viewport
<1>2. CASE Hide(t)
  <2> DEFINE a == IF task[t].w = 0 THEN "complete" ELSE "show"
  <2>1. Asks(t, task[t].prev, "hide", a, "abort") /\ OnlyActors
    BY <1>2 DEF Hide
  <2>2. Settled(task[t].at, a) /\ Settled(task[t].at, "abort")
    BY <1>2, SettledPlaces DEF Hide, FrozenPlaces
  <2> HIDE DEF a
  <2> QED
    BY <2>1, <2>2, AsksKeep
<1>3. CASE Show(t)
  <2> DEFINE f == IF task[t].prev = 0 THEN "abort" ELSE "restore"
  <2>1. Asks(t, task[t].w, "show", "complete", f) /\ OnlyActors
    BY <1>3 DEF Show
  <2>2. Settled(task[t].at, f) /\ Settled(task[t].at, "complete")
    BY <1>3, SettledPlaces DEF Show, FrozenPlaces
  <2> HIDE DEF f
  <2> QED
    BY <2>1, <2>2, AsksKeep
<1>4. CASE Restore(t)
  BY <1>4, AsksKeep, SettledPlaces DEF Restore
<1>5. CASE Unshow(t)
  <2> DEFINE n == IF task[t].prev = 0 THEN "idle" ELSE "reshow"
  <2>1. Asks(t, task[t].w, "hide", n, n) /\ OnlyActors
    BY <1>5 DEF Unshow
  <2>2. Settled(task[t].at, n)
    BY SettledPlaces
  <2> HIDE DEF n
  <2> QED
    BY <2>1, <2>2, AsksKeep
<1>6. CASE Reshow(t)
  BY <1>6, AsksKeep, SettledPlaces DEF Reshow
<1>7. CASE Preflight(t)
  <2>1. CASE Asks(t, task[t].prev, "view", "swap", "abort")
    BY <1>7, <2>1, AsksKeep, SettledPlaces DEF Preflight
  <2>2. CASE UNCHANGED actors /\ Goto(t, "abort")
    BY <1>7, <2>2, StillEases, GotoRests, ActorsKeep, SettledPlaces DEF Preflight, OnlyActors, Settled
  <2> QED
    BY <1>7, <2>1, <2>2 DEF Preflight
<1>8. CASE Configure(t)
  <2> DEFINE what == IF task[t].owns THEN "show" ELSE "hide"
  <2>1. Asks(t, task[t].w, what, "install", "discard") /\ OnlyActors
    BY <1>8 DEF Configure
  <2>2. what \notin {"capture", "mp4"}
    OBVIOUS
  <2> HIDE DEF what
  <2> QED
    BY <2>1, <2>2, AsksKeep, SettledPlaces
<1> QED
  BY <1>1, <1>2, <1>3, <1>4, <1>5, <1>6, <1>7, <1>8

LEMMA EndKeep ==
  ASSUME IInv, Inventory, Cast, Lingers, Manned, Backed(ctl), NEW t \in Clients,
         \/ OpenAbandon(t) \/ CloseStop(t) \/ Unshown(t) \/ Discard(t) \/ Swap(t)
         \/ Drain(t) \/ OpenStart(t) \/ Restart(t)
  PROVE  Backed(ctl)'
<1> USE DEF At
<1>1. ASSUME Eases, UNCHANGED <<ctl, monitors>>, NEW at, Settled(task[t].at, at), Goto(t, at)
      PROVE  Backed(ctl)'
  BY <1>1, GotoRests, ActorsKeep DEF Settled
<1>2. task[t] \in Tasks /\ task \in [Clients -> Tasks]
  BY DEF IInv
<1>3. CASE OpenAbandon(t) \/ CloseStop(t) \/ Unshown(t) \/ Discard(t)
  BY <1>1, <1>3, ShutsDownEases, SettledPlaces DEF OpenAbandon, CloseStop, Unshown, Discard, OnlyActors
<1>4. CASE Swap(t)
  <2>1. Eases
    <3>1. ASSUME task[t].prev \in up \ ending, late[task[t].prev] = "none" PROVE task[t].prev \in Awake
      BY <3>1 DEF Awake, Doomed
    <3> QED
      BY <1>4, <3>1, EndedEases, OverdueEases, StillEases DEF Swap
  <2> QED
    BY <1>1, <1>4, <2>1, SettledPlaces DEF Swap, OnlyActors
<1>6. CASE Drain(t)
  <2>1. CASE UNCHANGED actors /\ Goto(t, "idle")
    BY <1>1, <1>6, <2>1, StillEases, SettledPlaces DEF Drain, OnlyActors
  <2>2. ASSUME NEW id \in Warm(task[t].broker), ShutsDown(task[t].broker.warm[id]),
               task' = [task EXCEPT ![t].broker.warm[id] = 0]
        PROVE  Backed(ctl)'
    <3>1. task[t].at = "drain" /\ UNCHANGED <<ctl, monitors>>
      BY <1>6 DEF Drain, OnlyActors
    <3>2. Others(t) /\ task'[t].at = "drain"
      BY <1>2, <2>2, <3>1 DEF Others, Tasks
    <3>3. \A s \in Clients : Rests(task[s], task'[s])
      BY <3>2 DEF Others, Rests, Quiet, PinPlaces, FrozenPlaces
    <3> QED
      BY <2>2, <3>1, <3>3, ShutsDownEases, ActorsKeep
  <2> QED
    BY <1>6, <2>1, <2>2 DEF Drain
<1>7. CASE OpenStart(t) \/ Restart(t)
  <2>1. UNCHANGED <<ctl, monitors>>
    BY <1>7 DEF OpenStart, Restart, OnlyActors
  <2>2. CASE UNCHANGED actors /\ (Goto(t, "cancel") \/ Goto(t, "settle"))
    BY <1>1, <2>1, <2>2, StillEases, SettledPlaces
  <2>3. ASSUME NEW at \in {"commit", "configure"}, Started(task[t].id),
               task' = [task EXCEPT ![t].at = at, ![t].w = started + 1]
        PROVE  Backed(ctl)'
    <3>1. Others(t) /\ task'[t].at = at
      BY <1>2, <2>3 DEF Others, Tasks
    <3>2. \A s \in Clients : Rests(task[s], task'[s])
      BY <3>1 DEF Others, Rests, Quiet, PinPlaces, FrozenPlaces
    <3> QED
      BY <2>1, <2>3, <3>2, StartedEases, ActorsKeep
  <2> QED
    BY <1>7, <2>2, <2>3 DEF OpenStart, Restart
<1> QED
  BY <1>3, <1>4, <1>6, <1>7

(* The recording of a failed replacement is stopped.                                      *)
LEMMA SettleKeep ==
  ASSUME IInv, Inventory, Cast, Backed(ctl), NEW t \in Clients, Settle(t)
  PROVE  Backed(ctl)'
<1>1. /\ task[t].at = "settle" /\ recording' = recording \ {task[t].id} /\ Goto(t, "fail")
      /\ UNCHANGED <<started, serves, up, ending, capturing, late, ctl, monitors>>
  BY DEF Settle, At, OnlyActors
<1>2. Others(t)
  BY <1>1, GotoIs DEF Places
<1>3. Awake' = Awake /\ \A id : Failing(id) => Failing(id)' \/ id = task[t].id
  BY <1>1, <1>2 DEF Awake, Doomed, Failing, Others
<1>4. Eases
  BY <1>1, <1>3 DEF Eases, IInv, Busy, Heard
<1> QED
  BY <1>1, <1>4, GotoRests, ActorsKeep, SettledPlaces DEF Settled

-----------------------------------------------------------------------------
(* The sections under the lock.                                                           *)
LEMMA SectionKeeps ==
  ASSUME IInv, Inventory, Cast, Lingers, NEW c, Backed(c), Spares(c, ctl'),
         UNCHANGED actors, monitors' \subseteq monitors,
         \A s \in Clients : Rests(task[s], task'[s])
  PROVE  Backed(ctl)'
<1> DEFINE d == ctl'
<1>1. Backed(d)
  BY SparesKeep
<1>2. Eases
  BY StillEases
<1> HIDE DEF d
<1> QED
  BY <1>1, <1>2, RestsOn DEF d

(* No worker of a session is lost with an entry that is emptied.                          *)
LEMMA EmptiedSpares ==
  ASSUME NEW c, NEW d, d.broker.pins = c.broker.pins, d.broker.pin = c.broker.pin,
         d.starting = c.starting, \A id \in Ids : c.sessions[id] \in Awake => d.sessions[id] = c.sessions[id]
  PROVE  Spares(c, d)
  BY DEF Spares

LEMMA PlainSections ==
  ASSUME IInv, Inventory, Cast, Lingers, ~exited, Backed(ctl), NEW t \in Clients,
         \/ OpenCommit(t) \/ OpenCancel(t) \/ Seen(t) \/ Unopen(t) \/ CloseFinish(t) \/ Abort(t)
  PROVE  Backed(ctl)'
<1> USE DEF At
<1>1. /\ task[t] \in Tasks /\ task \in [Clients -> Tasks] /\ ctl \in Controllers
      /\ 0 \notin Awake /\ UNCHANGED actors /\ monitors' = monitors
      /\ Backed(Reap(ctl)) /\ Reap(ctl) \in Controllers /\ TaskOK(task[t], ctl, used)
      /\ ctl.broker \in States
  <2>1. UNCHANGED <<actors, monitors>>
    BY DEF OpenCommit, OpenCancel, Seen, Unopen, CloseFinish, Abort, OnlyController
  <2>2. 0 \notin Awake
    BY AwakeAttended DEF Workers
  <2> QED
    BY <2>1, <2>2, FoundBacked, FoundOK DEF IInv, ControllerOK, Controllers
<1>2. ASSUME NEW c, Backed(c), Spares(c, ctl'), NEW at, Settled(task[t].at, at), Goto(t, at)
      PROVE  Backed(ctl)'
  BY <1>1, <1>2, GotoRests, SectionKeeps DEF Settled
<1>3. CASE OpenCommit(t)
  <2> DEFINE id == task[t].id
             d == [ctl EXCEPT !.pending = @ \ {id}, !.sessions[id] = task[t].w,
                              !.broker = Bound(@, id, task[t].w)]
  <2>1. CASE id \in ctl.pending /\ ctl' = d /\ Goto(t, "viewport")
    <3>1. ctl.sessions[id] = 0
      BY <2>1 DEF IInv, ControllerOK
    <3>2. /\ d.broker = Bound(ctl.broker, id, task[t].w) /\ d.starting = ctl.starting
          /\ \A i \in Ids : i # id => d.sessions[i] = ctl.sessions[i]
      BY <1>1 DEF Controllers
    <3>3. d.broker.pins = ctl.broker.pins /\ d.broker.pin = ctl.broker.pin
      BY <1>1, <3>2 DEF Bound, States
    <3> HIDE DEF d
    <3>4. Spares(ctl, ctl')
      BY <1>1, <2>1, <3>1, <3>2, <3>3, EmptiedSpares
    <3> QED
      BY <1>2, <2>1, <3>4, SettledPlaces
  <2>2. CASE ctl' = ctl /\ Goto(t, "abandon")
    BY <1>2, <2>2, SameSpares, SettledPlaces
  <2> QED
    BY <1>3, <2>1, <2>2 DEF OpenCommit
<1>4. CASE OpenCancel(t)
  <2>1. Spares(ctl, ctl')
    BY <1>1, <1>4, SameSpares DEF OpenCancel, Controllers
  <2> QED
    BY <1>2, <1>4, <2>1, SettledPlaces DEF OpenCancel
<1>5. CASE Seen(t)
  BY <1>1, <1>2, <1>5, SameSpares, SettledPlaces DEF Seen
<1>6. CASE Unopen(t)
  <2> DEFINE r == Reap(ctl)
             id == task[t].id
  <2>1. CASE ctl' = r /\ Goto(t, "idle")
    BY <1>1, <1>2, <2>1, SameSpares, SettledPlaces
  <2>2. CASE /\ ctl' = Closing(r, id) /\ MayClose(r, id)
             /\ task' = [task EXCEPT ![t].at = "stop", ![t].w = r.sessions[id]]
    <3>1. Others(t) /\ task'[t].at = "stop"
      BY <1>1, <2>2 DEF Others, Tasks
    <3>2. \A s \in Clients : Rests(task[s], task'[s])
      BY <3>1 DEF Others, Rests, Quiet, PinPlaces, FrozenPlaces
    <3>3. Spares(r, ctl')
      <4> HIDE DEF r
      <4>1. r \in Controllers /\ r.broker \in States
        BY <1>1 DEF r, Controllers
      <4>2. /\ ctl'.broker = Closed(r.broker, id) /\ ctl'.sessions = r.sessions
            /\ ctl'.starting = r.starting
        BY <2>2, <4>1 DEF Closing, Controllers
      <4>3. ctl'.broker.pins = r.broker.pins /\ ctl'.broker.pin = r.broker.pin
        BY <4>1, <4>2 DEF Closed, Forgotten, States
      <4> QED
        BY <4>2, <4>3, SameSpares
    <3> QED
      BY <1>1, <3>2, <3>3, SectionKeeps
  <2> QED
    BY <1>6, <2>1, <2>2 DEF Unopen
<1>7. CASE CloseFinish(t)
  <2> DEFINE id == task[t].id
  <2>1. task[t].at = "finish" /\ Placed(task[t], ctl) /\ Hired(task[t])
    BY <1>7 DEF CloseFinish, Inventory, Fits, Staff
  <2>2. ctl.sessions[id] \notin Awake
    BY <1>1, <2>1, AwakeAttended DEF Placed, Hired, StopPlaces
  <2>3. /\ ctl'.broker = ctl.broker /\ ctl'.starting = ctl.starting
        /\ \A i \in Ids : i # id => ctl'.sessions[i] = ctl.sessions[i]
    BY <1>1, <1>7 DEF CloseFinish, Controllers
  <2>4. Spares(ctl, ctl')
    BY <2>2, <2>3, EmptiedSpares
  <2> QED
    BY <1>2, <1>7, <2>4, SettledPlaces DEF CloseFinish
<1>8. CASE Abort(t)
  <2>0. /\ ctl'.broker = ctl.broker /\ ctl'.sessions = ctl.sessions /\ ctl'.starting = ctl.starting
    BY <1>1, <1>8 DEF Abort, Aborted, Idled, Controllers
  <2>1. Spares(ctl, ctl')
    BY <2>0, SameSpares
  <2> QED
    BY <1>2, <1>8, <2>1, SettledPlaces DEF Abort
<1> QED
  BY <1>3, <1>4, <1>5, <1>6, <1>7, <1>8

(* A switch is complete: the broker it installs has no pin and the count there is.        *)
LEMMA CompleteKeeps ==
  ASSUME IInv, Inventory, Cast, Lingers, ~exited, Backed(ctl), NEW t \in Clients, Complete(t)
  PROVE  Backed(ctl)'
<1> DEFINE k == task[t]
           c == [Idled(ctl) EXCEPT !.broker = k.broker]
<1>1. /\ k \in Tasks /\ k.at = "complete" /\ ctl \in Controllers /\ TaskOK(k, ctl, used)
      /\ Tasked(k, ctl) /\ UNCHANGED <<actors, monitors>>
  BY DEF Complete, At, IInv, ControllerOK, Backed, OnlyController
<1>2. ctl.broker.pin = NoPin /\ k.broker.pins = ctl.broker.pins
  BY <1>1 DEF Tasked, FrozenPlaces
<1>3. ASSUME Spares(ctl, ctl'), NEW at, Settled(k.at, at), Goto(t, at) PROVE Backed(ctl)'
  BY <1>1, <1>3, GotoRests, SectionKeeps DEF Settled
<1>4. CASE ctl' = Aborted(ctl, k.gen) /\ (Goto(t, "unshow") \/ Goto(t, "reshow"))
  <2>0. /\ ctl'.broker = ctl.broker /\ ctl'.sessions = ctl.sessions /\ ctl'.starting = ctl.starting
    BY <1>1, <1>4 DEF Aborted, Idled, Controllers
  <2>1. Spares(ctl, ctl')
    BY <2>0, SameSpares
  <2> QED
    BY <1>3, <1>4, <2>1, SettledPlaces
<1>5. CASE ctl' = Reap(c) /\ ctl.transition = k.gen /\ Goto(t, "idle")
  <2>1. k.gen # 0 /\ k.op \in SwitchOps /\ k.broker.pin = NoPin
    BY <1>1, <1>5 DEF TaskOK, SwitchSteps, SwitchOps, InTransition
  <2>2. /\ c \in Controllers /\ c.broker = k.broker /\ c.sessions = ctl.sessions
    BY <1>1 DEF Idled, Controllers, Tasks
  <2> HIDE DEF c
  <2>3. Reap(c).broker.pins = c.broker.pins /\ Reap(c).broker.pin = NoPin
    BY <2>1, <2>2, ReapPin
  <2>4. \A id \in Ids : c.sessions[id] \in Awake => Reap(c).sessions[id] = c.sessions[id]
    BY <2>2, ReapReaps, AwakeAttended DEF Reaped
  <2>5. \A s \in Clients : ~(task[s].at = "work" /\ task[s].w \in Awake)
    <3> SUFFICES ASSUME NEW s \in Clients, task[s].at = "work", task[s].w \in Awake PROVE FALSE
      OBVIOUS
    <3>1. Tasked(task[s], ctl)
      BY DEF Backed
    <3>2. task[s].token = NoPin /\ task[s].token.gen \in 1 .. ctl.broker.pins
      BY <1>2, <3>1 DEF Tasked, PinPlaces
    <3> QED
      BY <3>2 DEF NoPin
  <2>6. Spares(ctl, ctl')
    BY <1>2, <1>5, <2>2, <2>3, <2>4, <2>5 DEF Spares
  <2> QED
    BY <1>3, <1>5, <2>6, SettledPlaces
<1> QED
  BY <1>4, <1>5 DEF Complete

(* A replacement ends: no worker of its session is running but the new one.               *)
LEMMA ReplacementKeeps ==
  ASSUME IInv, Inventory, Cast, Lingers, ~exited, Backed(ctl), NEW t \in Clients,
         Install(t) \/ Fail(t)
  PROVE  Backed(ctl)'
<1> DEFINE k == task[t]
           id == k.id
<1>1. /\ k \in Tasks /\ ctl \in Controllers /\ ctl.broker \in States /\ TaskOK(k, ctl, used)
      /\ UNCHANGED <<actors, monitors>> /\ 0 \notin Awake
  <2>1. 0 \notin Awake
    BY AwakeAttended DEF Workers
  <2> QED
    BY <2>1 DEF Install, Fail, IInv, ControllerOK, Controllers, OnlyController
<1>2. ASSUME Spares(ctl, ctl'), NEW at, Settled(k.at, at), Goto(t, at) PROVE Backed(ctl)'
  BY <1>1, <1>2, GotoRests, SectionKeeps DEF Settled
<1>3. k.at \in {"install", "fail"} /\ Placed(k, ctl) /\ Hired(k) /\ id \in Ids /\ k.op = "replace"
  BY <1>1 DEF Install, Fail, At, Inventory, Fits, Staff, TaskOK, ReplaceSteps
<1>4. \A w \in Awake : serves[w] = id => k.at = "install" /\ w = k.w
  BY <1>3, AwakeAttended DEF Hired, Makes, Own, ReplaceSteps, NewPlaces
<1>5. ctl.sessions[id] \in Awake => serves[ctl.sessions[id]] = id
  BY <1>1, <1>3 DEF Inventory, Fits
<1>6. CASE ctl' = ctl /\ (Goto(t, "discard") \/ Goto(t, "idle"))
  BY <1>2, <1>6, SameSpares, SettledPlaces
<1>7. CASE /\ k.at = "install" /\ Goto(t, "viewport")
           /\ ctl' = [Idled(ctl) EXCEPT !.sessions[id] = k.w, !.broker = Bound(@, id, k.w)]
  <2>1. /\ ctl'.broker = Bound(ctl.broker, id, k.w) /\ ctl'.starting = ctl.starting
        /\ ctl'.sessions[id] = k.w /\ \A i \in Ids : i # id => ctl'.sessions[i] = ctl.sessions[i]
    BY <1>1, <1>3, <1>7 DEF Idled, Controllers
  <2>2. ctl'.broker.pins = ctl.broker.pins /\ ctl'.broker.pin = ctl.broker.pin
    BY <1>1, <2>1 DEF Bound, States
  <2>3. Spares(ctl, ctl')
    BY <1>4, <1>5, <2>1, <2>2, EmptiedSpares
  <2> QED
    BY <1>2, <1>7, <2>3, SettledPlaces
<1>8. CASE k.at = "fail" /\ ctl' = Idled(ctl) /\ Goto(t, "idle")
  <2>0. /\ ctl'.broker = ctl.broker /\ ctl'.sessions = ctl.sessions /\ ctl'.starting = ctl.starting
    BY <1>1, <1>8 DEF Idled, Controllers
  <2>1. Spares(ctl, ctl')
    BY <2>0, SameSpares
  <2> QED
    BY <1>2, <1>8, <2>1, SettledPlaces
<1>9. CASE /\ k.at = "fail" /\ Goto(t, "idle")
           /\ ctl' = [Idled(ctl) EXCEPT !.sessions[id] = 0, !.broker = Faulted(@, {id}),
                                        !.starting = IF @.id = id THEN NoPin ELSE @]
  <2>1. \A w \in Awake : serves[w] # id
    BY <1>4, <1>9
  <2>2. ctl.sessions[id] \notin Awake
    BY <1>5, <2>1
  <2>3. /\ ctl'.broker = Faulted(ctl.broker, {id})
        /\ ctl'.starting = IF ctl.starting.id = id THEN NoPin ELSE ctl.starting
        /\ \A i \in Ids : i # id => ctl'.sessions[i] = ctl.sessions[i]
    BY <1>1, <1>9 DEF Idled, Controllers
  <2>4. /\ ctl'.broker.pins = ctl.broker.pins
        /\ ctl'.broker.pin = IF ctl.broker.lease.id = id THEN NoPin ELSE ctl.broker.pin
    BY <1>1, <2>3 DEF Faulted, Forgotten, States
  <2>5. ctl.broker.pin # NoPin => ctl.broker.pin.id = ctl.broker.lease.id
    BY DEF IInv, ControllerOK, Leased
  <2>6. id \notin Heard
    <3>1. \A s \in Clients : task[s].at \in {"restart", "settle"} => task[s].id # id
      <4> SUFFICES ASSUME NEW s \in Clients, task[s].at \in {"restart", "settle"}, task[s].id = id
                   PROVE  FALSE
        OBVIOUS
      <4>1. Makes(task[s]) /\ Makes(k) /\ s # t
        BY <1>9 DEF Makes, ReplaceSteps
      <4> QED
        BY <4>1 DEF Inventory, Staff
    <3> QED
      BY <2>1, <3>1 DEF Heard, Inventory, Staff
  <2>7. \A w \in Busy : serves[w] # id
    BY <2>1 DEF Busy
  <2>8. ctl.broker.pin # NoPin /\ ctl.broker.lease.id = id => Still
    BY <2>5, <2>6, <2>7 DEF Backed, Owned, Still
  <2>9. ASSUME NEW s \in Clients, task[s].at = "work", task[s].w \in Awake
        PROVE  ctl'.broker.pin = ctl.broker.pin /\ ctl'.starting = ctl.starting
    <3>1. Tasked(task[s], ctl)
      BY DEF Backed
    <3>2. /\ ctl.broker.pin = task[s].token /\ ctl.starting = task[s].token
          /\ task[s].token.id = task[s].id /\ serves[task[s].w] = task[s].id
          /\ task[s].token.gen \in 1 .. ctl.broker.pins
      BY <2>9, <3>1 DEF Tasked, PinPlaces
    <3>3. task[s].id # id
      BY <2>1, <2>9, <3>2
    <3>4. ctl.broker.pin # NoPin
      BY <3>2 DEF NoPin
    <3> QED
      BY <2>3, <2>4, <2>5, <3>2, <3>3, <3>4
  <2>10. Spares(ctl, ctl')
    BY <2>2, <2>3, <2>4, <2>8, <2>9 DEF Spares
  <2> QED
    BY <1>2, <1>9, <2>10, SettledPlaces
<1> QED
  BY <1>6, <1>7, <1>8, <1>9 DEF Install, Fail, At

-----------------------------------------------------------------------------
(* Work is pinned, started, watched and unpinned.                                         *)
LEMMA PinKeeps ==
  ASSUME IInv, Inventory, Cast, Lingers, ~exited, Backed(ctl), NEW t \in Clients, WorkPin(t)
  PROVE  Backed(ctl)'
<1> DEFINE r == Reap(ctl)
           k == task[t]
           b == Pinned(r.broker, k.op)
           d == [r EXCEPT !.broker = b, !.starting = b.pin]
<1>1. /\ k \in Tasks /\ k.at = "pin" /\ task \in [Clients -> Tasks] /\ UNCHANGED <<actors, monitors>>
      /\ Backed(r) /\ r \in Controllers /\ r.broker \in States /\ Fits(r) /\ Eases
  BY FoundBacked, FoundOK, StillEases DEF WorkPin, At, IInv, Controllers, OnlyController
<1> HIDE DEF r
<1>2. CASE ctl' = r /\ Goto(t, "idle")
  BY <1>1, <1>2, GotoRests, RestsOn, SettledPlaces DEF Settled
<1>3. CASE /\ LifecycleIdle(r) /\ r.broker.lease.id = k.id /\ Unpinned(r.broker) /\ ctl' = d
           /\ task' = [task EXCEPT ![t].at = "work", ![t].token = b.pin]
  <2>1. /\ b.pin = [id |-> k.id, lease |-> r.broker.lease.gen, gen |-> r.broker.pins + 1,
                    kind |-> k.op]
        /\ b.pins = r.broker.pins + 1 /\ r.broker.pins \in Nat
    BY <1>1, <1>3 DEF Pinned, TokenOf, States
  <2>2. d.broker = b /\ d.starting = b.pin /\ d.sessions = r.sessions
    BY <1>1 DEF Controllers
  <2> HIDE DEF b
  <2>3. /\ Others(t) /\ task'[t].at = "work" /\ task'[t].token = b.pin /\ task'[t].w = k.w
        /\ task'[t].id = k.id /\ task'[t].op = k.op
    BY <1>1, <1>3 DEF Others, Tasks
  <2>4. r.broker.pin = NoPin /\ Tasked(k, r)
    BY <1>1, <1>3 DEF Unpinned, Backed
  <2>5. Still
    BY <1>1, <2>4 DEF Backed, Owned, Still, NoPin
  <2>6. ASSUME NEW token, token.gen \in 1 .. r.broker.pins
        PROVE  token # b.pin /\ token # NoPin /\ token.gen \in 1 .. b.pins
    BY <2>1, <2>6 DEF NoPin
  <2> HIDE DEF d
  <2>7. Owned(d)
    BY <2>5 DEF Owned, Still
  <2>8. \A m \in monitors' : Watched(m, d)
    BY <1>1, <2>2, <2>6 DEF Backed, Watched
  <2>9. ASSUME NEW s \in Clients, s # t PROVE Tasked(task'[s], d)
    <3>1. task'[s] = task[s] /\ Tasked(task[s], r) /\ Placed(task[s], r)
      BY <1>1, <2>3, <2>9 DEF Others, Backed, Fits
    <3>2. task[s].at \notin FrozenPlaces
      BY <1>3, <3>1 DEF LifecycleIdle, Placed, FrozenPlaces, TransitPlaces
    <3>3. task[s].at \in PinPlaces => task[s].token # b.pin /\ task[s].token # NoPin
                                      /\ task[s].token.gen \in 1 .. b.pins
      BY <2>6, <3>1 DEF Tasked
    <3>4. ~(task[s].at = "work" /\ task[s].w \in Awake)
      BY <2>4, <3>1, <3>3 DEF Tasked, PinPlaces
    <3>5. task[s].at \in {"work", "unpin", "started"} => task[s].at \in PinPlaces
      BY DEF PinPlaces
    <3> QED
      BY <2>2, <3>1, <3>2, <3>3, <3>4, <3>5 DEF Tasked
  <2>10. Tasked(task'[t], d)
    BY <1>1, <2>1, <2>2, <2>3, <2>4, <2>5 DEF Tasked, FrozenPlaces, PinPlaces
  <2>11. Apart'
    <3>1. \A s \in Clients : task[s].at \in PinPlaces => task[s].token # b.pin
      BY <1>1, <2>6 DEF Backed, Tasked
    <3>2. \A m \in monitors : m.token # b.pin
      BY <1>1, <2>6 DEF Backed, Watched
    <3> QED
      BY <1>1, <2>3, <3>1, <3>2 DEF Backed, Apart, Others
  <2> QED
    BY <1>1, <1>3, <2>7, <2>8, <2>9, <2>10, <2>11, BackedOn
<1> QED
  BY <1>2, <1>3 DEF WorkPin, r, b, d

LEMMA WorkKeeps ==
  ASSUME IInv, Inventory, Cast, Lingers, ~exited, Backed(ctl),
         NEW t \in Clients, WorkStart(t)
  PROVE  Backed(ctl)'
<1> DEFINE k == task[t]
           w == k.w
           pin == ctl.broker.pin
<1>1. /\ k \in Tasks /\ k.at = "work" /\ UNCHANGED <<ctl, monitors>> /\ Tasked(k, ctl)
      /\ Asks(t, w, k.op, "started", "unpin") /\ ending \subseteq up
  BY DEF WorkStart, At, IInv, OnlyActors, Backed, Cast
<1>2. /\ k.op \in {"capture", "mp4"} /\ serves[w] = k.id /\ k.token.id = k.id
      /\ k.token.kind = k.op /\ k.token.gen \in 1 .. ctl.broker.pins
      /\ w \in Awake => pin = k.token /\ ctl.sessions[k.id] = w
      /\ pin = k.token => Still
  BY <1>1 DEF Tasked, PinPlaces
<1>3. ASSUME NEW at \in {"started", "unpin"}, Goto(t, at)
      PROVE  /\ Others(t) /\ task'[t].at = at /\ Carries(k, task'[t])
             /\ Apart'
  <2>1. at \in Places /\ at # "idle"
    BY DEF Places
  <2>2. Others(t) /\ task'[t].at = at /\ Carries(k, task'[t])
    BY <1>3, <2>1, GotoIs
  <2>3. k.at \in PinPlaces /\ task'[t].token = k.token
    BY <1>1, <2>2 DEF PinPlaces, Carries
  <2> QED
    BY <1>1, <2>2, <2>3 DEF Backed, Apart, Others
<1>4. CASE Goto(t, "unpin") /\ Eases
  <2>1. Tasked(task'[t], ctl)
    BY <1>1, <1>2, <1>3, <1>4 DEF Tasked, Carries, PinPlaces, FrozenPlaces
  <2>2. \A s \in Clients : Tasked(task'[s], ctl)
    BY <1>3, <1>4, <2>1 DEF Others, Backed
  <2> QED
    BY <1>1, <1>3, <1>4, <2>2, BackedOn DEF Backed
<1>5. CASE /\ w \in Awake /\ Serves(w, k.op) /\ UNCHANGED <<ending, late>> /\ Goto(t, "started")
  <2>1. Still /\ pin = k.token
    BY <1>2, <1>5
  <2>2. UNCHANGED <<started, serves, up, Awake>>
    BY <1>5 DEF Serves, Awake, Doomed
  <2>3. /\ Busy' \subseteq {w} /\ Heard' \subseteq {serves[w]}
        /\ Busy' # {} => k.op = "capture"
        /\ Heard' # {} => k.op = "mp4"
    <3>1. CASE k.op = "capture"
      BY <1>5, <2>1, <2>2, <3>1, LingersFails DEF Serves, Busy, Heard, Still
    <3>2. CASE k.op = "mp4"
      BY <1>5, <2>1, <2>2, <3>2, LingersFails DEF Serves, Busy, Heard, Still
    <3> QED
      BY <1>2, <3>1, <3>2
  <2>4. Owned(ctl)'
    BY <1>1, <1>2, <1>5, <2>1, <2>2, <2>3 DEF Owned
  <2>5. \A m \in monitors : m.token # pin
    BY <1>1, <2>1 DEF Backed, Apart, PinPlaces
  <2>6. \A m \in monitors' : Watched(m, ctl)'
    BY <1>1, <2>5 DEF Backed, Watched
  <2>7. ASSUME NEW s \in Clients, s # t PROVE Tasked(task[s], ctl)'
    <3>1. task'[s] = task[s] /\ Tasked(task[s], ctl)
      BY <1>3, <1>5, <2>7 DEF Others, Backed
    <3>2. task[s].at \in PinPlaces => task[s].token # pin
      BY <1>1, <2>1, <2>7 DEF Backed, Apart, PinPlaces
    <3>3. task[s].at \in {"work", "unpin", "started"} => task[s].at \in PinPlaces
      BY DEF PinPlaces
    <3> QED
      BY <1>1, <2>2, <3>1, <3>2, <3>3 DEF Tasked
  <2>8. Tasked(task[t], ctl)'
    BY <1>1, <1>2, <1>3, <1>5, <2>2, <2>3 DEF Tasked, Carries, PinPlaces, FrozenPlaces
  <2> QED
    BY <1>3, <1>5, <2>4, <2>6, <2>7, <2>8 DEF Backed
<1> QED
  BY <1>1, <1>4, <1>5, StillEases, LeavesEases, GivenUpEases DEF Asks, Awake, Doomed

LEMMA UnpinSpares ==
  ASSUME IInv, Inventory, Cast, ~exited, NEW c, NEW u, Fits(c), ControllerOK(c, u), Backed(c),
         NEW token, token.gen \in 1 .. c.broker.pins, c.broker.pin = token => Still,
         \A s \in Clients : task[s].at = "work" => task[s].token # token
  PROVE  Backed(Unpin(c, token))
<1> DEFINE r == Reap(c)
           d == Unpin(c, token)
<1>1. Spares(c, r) /\ Backed(r) /\ r \in Controllers /\ r.broker \in States
  <2>1. ControllerOK(r, u) /\ Spares(c, r)
    BY ReapSpares, ReapOK
  <2> QED
    BY <2>1, SparesKeep DEF ControllerOK, Controllers
<1> HIDE DEF r
<1>2. /\ d.broker = Released(r.broker, token) /\ d.sessions = r.sessions
      /\ d.starting = IF r.starting = token THEN NoPin ELSE r.starting
  BY <1>1 DEF Unpin, r, Controllers
<1> HIDE DEF d
<1>3. /\ d.broker.pins = r.broker.pins
      /\ d.broker.pin = IF r.broker.pin = token THEN NoPin ELSE r.broker.pin
  BY <1>1, <1>2 DEF Released, States
<1>4. r.broker.pin = token => Still
  BY <1>1 DEF Spares, NoPin
<1>5. ASSUME NEW s \in Clients, task[s].at = "work", task[s].w \in Awake
      PROVE  d.broker.pin = r.broker.pin /\ d.starting = r.starting
  <2>1. r.broker.pin = task[s].token /\ r.starting = task[s].token /\ task[s].token # token
    BY <1>1, <1>5 DEF Backed, Tasked
  <2> QED
    BY <1>2, <1>3, <2>1
<1>6. Spares(r, d)
  BY <1>2, <1>3, <1>4, <1>5 DEF Spares
<1> QED
  BY <1>1, <1>6, SparesKeep DEF d

LEMMA UnpinKeeps ==
  ASSUME IInv, Inventory, Cast, Lingers, ~exited, Backed(ctl), NEW t \in Clients, WorkUnpin(t)
  PROVE  Backed(ctl)'
<1> DEFINE token == task[t].token
           d == Unpin(ctl, token)
<1>1. /\ task[t].at = "unpin" /\ UNCHANGED <<actors, monitors>> /\ ctl' = d
      /\ Goto(t, "idle") /\ Tasked(task[t], ctl) /\ Fits(ctl) /\ ControllerOK(ctl, used)
  BY DEF WorkUnpin, At, OnlyController, Backed, IInv, Inventory
<1>2. token.gen \in 1 .. ctl.broker.pins /\ (ctl.broker.pin = token => Still)
  BY <1>1 DEF Tasked, PinPlaces
<1>3. \A s \in Clients : task[s].at = "work" => task[s].token # token
  BY <1>1 DEF Backed, Apart, PinPlaces
<1>4. Backed(d)
  BY <1>1, <1>2, <1>3, UnpinSpares
<1> HIDE DEF d
<1> QED
  BY <1>1, <1>4, StillEases, GotoRests, RestsOn, SettledPlaces DEF Settled

LEMMA WatchKeeps ==
  ASSUME IInv, Inventory, Cast, Lingers, ~exited, Backed(ctl), NEW t \in Clients, WorkStarted(t)
  PROVE  Backed(ctl)'
<1> DEFINE k == task[t]
           m == [token |-> k.token, w |-> k.w, ended |-> FALSE]
           d == [ctl EXCEPT !.starting = IF @ = k.token THEN NoPin ELSE @]
<1>1. /\ k.at = "started" /\ UNCHANGED actors /\ ctl' = d /\ monitors' = monitors \cup {m}
      /\ Goto(t, "idle") /\ Tasked(k, ctl) /\ ctl \in Controllers /\ k.at \in PinPlaces
  BY DEF WorkStarted, At, Backed, IInv, ControllerOK, PinPlaces
<1>2. /\ d.broker = ctl.broker /\ d.sessions = ctl.sessions
      /\ d.starting = IF ctl.starting = k.token THEN NoPin ELSE ctl.starting
  BY <1>1 DEF Controllers
<1> HIDE DEF d
<1>3. \A s \in Clients : s # t /\ task[s].at \in PinPlaces => task[s].token # k.token
  BY <1>1 DEF Backed, Apart
<1>4. Backed(d)
  <2>1. ASSUME NEW s \in Clients, task[s].at = "work", task[s].w \in Awake
        PROVE  d.starting = ctl.starting
    <3>1. ctl.starting = task[s].token /\ s # t /\ task[s].at \in PinPlaces
      BY <1>1, <2>1 DEF Backed, Tasked, PinPlaces
    <3> QED
      BY <1>2, <1>3, <3>1
  <2>2. Spares(ctl, d)
    BY <1>2, <2>1 DEF Spares
  <2> QED
    BY <2>2, SparesKeep
<1>5. Watched(m, d)
  <2>1. m.token = k.token /\ m.w = k.w /\ ~m.ended
    OBVIOUS
  <2> HIDE DEF m
  <2> QED
    BY <1>1, <1>2, <2>1 DEF Tasked, Watched
<1>6. Others(t) /\ Quiet(task'[t])
  <2>1. Others(t) /\ task'[t].at = "idle"
    BY <1>1, GotoIs DEF Places
  <2> QED
    BY <2>1 DEF Quiet, PinPlaces, FrozenPlaces
<1>7. \A s \in Clients : Tasked(task'[s], d)
  BY <1>4, <1>6, QuietTasked DEF Backed, Others
<1>8. Apart'
  <2>1. m.token = k.token
    OBVIOUS
  <2> HIDE DEF m
  <2>2. task'[t].at \notin PinPlaces
    BY <1>6 DEF Quiet
  <2> QED
    BY <1>1, <1>3, <1>6, <2>1, <2>2 DEF Backed, Apart, Others
<1>9. \A x \in monitors' : Watched(x, d)
  BY <1>1, <1>4, <1>5 DEF Backed
<1> HIDE DEF m
<1> QED
  BY <1>1, <1>4, <1>7, <1>8, <1>9, StillEases, BackedOn DEF Backed

(* The monitors.                                                                          *)
LEMMA MonitorKeeps ==
  ASSUME IInv, Inventory, Cast, Lingers, ~exited, Backed(ctl), Monitor
  PROVE  Backed(ctl)'
<1>1. ASSUME NEW m \in monitors, MonitorSees(m) PROVE Backed(ctl)'
  <2> DEFINE n == [m EXCEPT !.ended = TRUE]
  <2>1. /\ UNCHANGED <<ctl, task>> /\ monitors' = (monitors \ {m}) \cup {n}
        /\ \/ ~Running(m.token, m.w) /\ UNCHANGED actors
           \/ m.token.kind = "capture" /\ m.w \in ending /\ UNCHANGED actors
           \/ m.token.kind = "capture" /\ GivesUp(m.w, "view")
    BY <1>1 DEF MonitorSees
  <2>2. n.token = m.token /\ n.w = m.w
    <3>1. m \in Watches
      BY DEF IInv
    <3> QED
      BY <3>1 DEF Watches
  <2>3. Watched(m, ctl)
    BY DEF Backed
  <2>4. Eases
    BY <2>1, StillEases, GivenUpEases
  <2>5. ASSUME ctl.broker.pin = m.token PROVE Still'
    <3>1. ASSUME NEW w \in Busy' PROVE FALSE
      <4>1. w \in Busy
        BY <2>4, <3>1 DEF Eases
      <4>2. w \in capturing /\ w \in Awake /\ w = m.w /\ m.token.kind = "capture"
        BY <2>3, <2>5, <4>1 DEF Watched, Backed, Owned, Busy
      <4>3. w \notin Awake' \/ UNCHANGED actors
        BY <2>1, <4>2, GivenUpFades DEF Asked
      <4> QED
        BY <2>1, <3>1, <4>2, <4>3, GivenUpFades DEF Running, Awake, Doomed, Busy, Asked
    <3>2. ASSUME NEW id \in Heard' PROVE FALSE
      <4>1. id \in recording /\ m.token.kind = "mp4" /\ m.token.id = id
        BY <2>4, <2>5, <3>2 DEF Eases, Backed, Owned, Heard
      <4> QED
        BY <2>1, <4>1 DEF Running
    <3> QED
      BY <3>1, <3>2 DEF Still
  <2> HIDE DEF n
  <2>6. Owned(ctl)' /\ \A s \in Clients : Tasked(task[s], ctl)'
    BY <2>1, <2>4, EasedOn DEF Backed
  <2>7. Apart'
    BY <2>1, <2>2 DEF Backed, Apart
  <2>8. ASSUME NEW x \in monitors' PROVE Watched(x, ctl)'
    <3>1. CASE x = n
      BY <2>1, <2>2, <2>3, <2>4, <2>5, <3>1, EasedOn DEF Watched
    <3>2. CASE x # n
      BY <2>1, <2>4, <3>2, EasedOn DEF Watched, Backed
    <3> QED
      BY <3>1, <3>2
  <2> QED
    BY <2>6, <2>7, <2>8 DEF Backed
<1>2. ASSUME NEW m \in monitors, MonitorReleases(m) PROVE Backed(ctl)'
  <2> DEFINE r == Reap(ctl)
             d == IF r.broker.pin = m.token THEN Unpin(r, m.token) ELSE r
  <2>1. /\ UNCHANGED <<task, actors>> /\ monitors' \subseteq monitors /\ m.ended /\ ctl' = d
        /\ Backed(r) /\ Fits(r) /\ ControllerOK(r, used)
    BY <1>2, FoundBacked, FoundOK DEF MonitorReleases
  <2> HIDE DEF r
  <2>2. Backed(d)
    <3>1. Watched(m, r) /\ \A s \in Clients : task[s].at = "work" => task[s].token # m.token
      BY <2>1 DEF Backed, Apart, PinPlaces
    <3>2. m.token.gen \in 1 .. r.broker.pins /\ (r.broker.pin = m.token => Still)
      BY <2>1, <3>1 DEF Watched
    <3> QED
      BY <2>1, <3>1, <3>2, UnpinSpares
  <2> HIDE DEF d
  <2>3. \A s \in Clients : Rests(task[s], task'[s])
    BY <2>1 DEF Rests
  <2> QED
    BY <2>1, <2>2, <2>3, StillEases, RestsOn
<1> QED
  BY <1>1, <1>2 DEF Monitor

-----------------------------------------------------------------------------
(* Commands begin with no pin.                                                            *)
LEMMA BeginKeeps ==
  ASSUME IInv, Inventory, Cast, Lingers, NEW c, Backed(c), Spares(c, ctl'),
         NEW t \in Clients, NEW op, NEW k, Begin(t, op, k), Tasked(k, ctl'), k.at \notin PinPlaces
  PROVE  Backed(ctl)'
<1> DEFINE d == ctl'
<1>1. Others(t) /\ task'[t] = k /\ UNCHANGED <<monitors, actors>>
  BY BeginIs DEF Begin
<1>2. Backed(d) /\ Tasked(k, d) /\ ctl' = d
  BY SparesKeep
<1> HIDE DEF d
<1>3. \A s \in Clients : Tasked(task'[s], d)
  BY <1>1, <1>2 DEF Others, Backed
<1>4. Apart'
  BY <1>1, <1>2 DEF Others, Backed, Apart
<1> QED
  BY <1>1, <1>2, <1>3, <1>4, StillEases, BackedOn DEF Backed

LEMMA ForegroundKeeps ==
  ASSUME IInv, Inventory, Cast, Lingers, ~exited, Backed(ctl), NEW t \in Clients,
         NEW op, NEW w, NEW b, b.pins = Reap(ctl).broker.pins, Foreground(t, op, Reap(ctl), w, b)
  PROVE  Backed(ctl)'
<1> DEFINE r == Reap(ctl)
           prev == IF r.broker.lease.id = None THEN 0 ELSE r.sessions[r.broker.lease.id]
           k == [NoTask EXCEPT !.at = IF prev = 0 THEN "show" ELSE "hide",
                               !.op = op, !.w = w, !.prev = prev, !.broker = b,
                               !.gen = r.transitions + 1]
<1>1. Begin(t, op, k) /\ ctl' = Transit(r, None) /\ r.broker.pin = NoPin
  BY DEF Foreground, Unpinned
<1>2. k.at \in {"hide", "show"} /\ k.broker = b
  BY DEF NoTask
<1> HIDE DEF k
<1>3. Backed(r) /\ r \in Controllers /\ b.pins = r.broker.pins
  BY FoundBacked, FoundOK
<1> HIDE DEF r
<1>4. /\ ctl'.broker = r.broker /\ ctl'.sessions = r.sessions /\ ctl'.starting = r.starting
  BY <1>1, <1>3 DEF Transit, Controllers
<1>5. Tasked(k, ctl') /\ k.at \notin PinPlaces
  BY <1>1, <1>2, <1>3, <1>4 DEF Tasked, PinPlaces
<1> QED
  BY <1>1, <1>3, <1>4, <1>5, SameSpares, BeginKeeps

LEMMA CommandKeeps ==
  ASSUME IInv, Inventory, Cast, Lingers, ~exited, Backed(ctl), NEW t \in Clients, Command(t), ~exited'
  PROVE  Backed(ctl)'
<1> DEFINE r == Reap(ctl)
<1>1. /\ Backed(r) /\ r \in Controllers /\ r.broker \in States /\ Fits(r) /\ started \in Nat
  BY FoundBacked, FoundOK DEF Controllers, IInv
<1>2. ASSUME NEW op, NEW k, Begin(t, op, k), Quiet(k), NEW id,
             ctl' = [r EXCEPT !.pending = @ \cup {id}] \/ ctl' = Closing(r, id) \/ ctl' = Transit(r, id)
      PROVE  Backed(ctl)'
  <2> HIDE DEF r
  <2>1. /\ ctl'.sessions = r.sessions /\ ctl'.starting = r.starting
        /\ ctl'.broker \in {r.broker, Closed(r.broker, id)}
    BY <1>1, <1>2 DEF Closing, Transit, Controllers
  <2>2. ctl'.broker.pins = r.broker.pins /\ ctl'.broker.pin = r.broker.pin
    BY <1>1, <2>1 DEF Closed, Forgotten, States
  <2>3. Tasked(k, ctl') /\ k.at \notin PinPlaces
    BY <1>2, QuietTasked DEF Quiet
  <2> QED
    BY <1>1, <1>2, <2>1, <2>2, <2>3, SameSpares, BeginKeeps
<1>3. ASSUME NEW id \in Ids, OpenReserve(t, id) PROVE Backed(ctl)'
  <2> DEFINE k == [NoTask EXCEPT !.at = "start", !.op = "open", !.id = id]
  <2>1. Begin(t, "open", k) /\ ctl' = [r EXCEPT !.pending = @ \cup {id}]
    BY <1>3 DEF OpenReserve
  <2>2. Quiet(k)
    BY DEF NoTask, Quiet, PinPlaces, FrozenPlaces
  <2> HIDE DEF k, r
  <2> QED
    BY <1>2, <2>1, <2>2
<1>4. ASSUME NEW id \in Ids, ClosePrepare(t, id) PROVE Backed(ctl)'
  <2> DEFINE k == [NoTask EXCEPT !.at = "stop", !.op = "close", !.id = id, !.w = r.sessions[id]]
  <2>1. Begin(t, "close", k) /\ ctl' = Closing(r, id)
    BY <1>4 DEF ClosePrepare
  <2>2. Quiet(k)
    BY DEF NoTask, Quiet, PinPlaces, FrozenPlaces
  <2> HIDE DEF k, r
  <2> QED
    BY <1>2, <2>1, <2>2
<1>5. ASSUME NEW id \in Ids, ReplaceBegin(t, id) PROVE Backed(ctl)'
  <2> DEFINE k == [NoTask EXCEPT !.at = "preflight", !.op = "replace", !.id = id,
                       !.prev = r.sessions[id], !.gen = r.transitions + 1,
                       !.owns = r.broker.lease.id = id]
  <2>1. Begin(t, "replace", k) /\ ctl' = Transit(r, id)
    BY <1>5 DEF ReplaceBegin
  <2>2. Quiet(k)
    BY DEF NoTask, Quiet, PinPlaces, FrozenPlaces
  <2> HIDE DEF k, r
  <2> QED
    BY <1>2, <2>1, <2>2
<1>6. ASSUME NEW id \in Ids, SwitchPrepare(t, id) PROVE Backed(ctl)'
  <2>1. Foreground(t, "switch", r, r.sessions[id], Switched(r.broker, id))
    BY <1>6 DEF SwitchPrepare
  <2>2. Switched(r.broker, id).pins = r.broker.pins
    BY <1>1 DEF Switched, States
  <2> QED
    BY <2>1, <2>2, ForegroundKeeps
<1>7. CASE ClearPrepare(t)
  <2>1. Foreground(t, "clear", r, 0, Cleared(r.broker))
    BY <1>7 DEF ClearPrepare
  <2>2. Cleared(r.broker).pins = r.broker.pins
    BY <1>1 DEF Cleared, States
  <2> QED
    BY <2>1, <2>2, ForegroundKeeps
<1>8. ASSUME NEW id \in Ids, NEW op \in {"capture", "mp4"}, WorkRuntime(t, op, id)
      PROVE  Backed(ctl)'
  <2> DEFINE k == [NoTask EXCEPT !.at = "pin", !.op = op, !.id = id, !.w = r.sessions[id]]
  <2>1. Begin(t, op, k) /\ ctl' = r /\ r.sessions[id] # 0
    BY <1>8 DEF WorkRuntime, Tracked
  <2>2. k.at = "pin" /\ k.op = op /\ k.id = id /\ k.w = r.sessions[id]
    BY DEF NoTask
  <2> HIDE DEF k, r
  <2>3. k.w \in 1 .. started /\ serves[k.w] = id
    BY <1>1, <2>1, <2>2 DEF Fits
  <2>4. Tasked(k, r) /\ k.at \notin PinPlaces
    BY <2>2, <2>3 DEF Tasked, PinPlaces, FrozenPlaces
  <2> QED
    BY <1>1, <2>1, <2>4, SameSpares, BeginKeeps
<1>9. CASE Exit(t)
  BY <1>9 DEF Exit
<1> QED
  BY <1>3, <1>4, <1>5, <1>6, <1>7, <1>8, <1>9 DEF Command

LEMMA PollKeeps ==
  ASSUME IInv, Inventory, Cast, Lingers, ~exited, Backed(ctl), Poll
  PROVE  Backed(ctl)'
<1> DEFINE r == Reap(ctl)
<1>1. ctl' = r /\ UNCHANGED <<task, actors, monitors>> /\ Backed(r)
  BY FoundBacked DEF Poll, OnlyController
<1> HIDE DEF r
<1>2. \A s \in Clients : Rests(task[s], task'[s])
  BY <1>1 DEF Rests
<1> QED
  BY <1>1, <1>2, StillEases, RestsOn

(* Actors that fail, end or stop working.                                                 *)
LEMMA WorkersKeep ==
  ASSUME IInv, Inventory, Cast, Lingers, Backed(ctl), NEW w,
         WorkerFault(w) \/ ActorEnds(w) \/ WorkEnds(w) \/ LateAnswer(w)
  PROVE  Backed(ctl)'
<1>1. UNCHANGED <<ctl, monitors, task>>
  BY DEF WorkerFault, ActorEnds, WorkEnds, LateAnswer, OnlyActors
<1>2. Eases
  <2>1. CASE WorkerFault(w)
    BY <2>1, LeavesEases DEF WorkerFault
  <2>2. CASE ActorEnds(w)
    <3>1. ASSUME NEW s \in Clients, task[s].at = "settle", task[s].prev = w PROVE Failing(serves[w])
      BY <3>1 DEF Failing, Inventory, Staff, Hired, ReplaceSteps
    <3> QED
      BY <2>2, <3>1, ShutsDownEases, EndedEases DEF ActorEnds, At, ShutsDown
  <2>3. CASE WorkEnds(w)
    <3>1. Awake' = Awake /\ UNCHANGED <<started, serves, up>>
          /\ capturing' \subseteq capturing /\ recording' \subseteq recording
      BY <2>3 DEF WorkEnds, Awake, Doomed
    <3> QED
      BY <3>1, LingersFails DEF Eases, Busy, Heard, IInv
  <2>4. CASE LateAnswer(w)
    BY <2>4, LateEases
  <2> QED
    BY <2>1, <2>2, <2>3, <2>4
<1>3. \A s \in Clients : Rests(task[s], task'[s])
  BY <1>1 DEF Rests
<1> QED
  BY <1>1, <1>2, <1>3, ActorsKeep

(* Only the step that settles a failed replacement leaves that place.                     *)
LEMMA SettleLeaves ==
  ASSUME IInv, Inventory, [Next]_vars, ~exited, \A t \in Clients : ~Settle(t)
  PROVE  Lingers
<1> SUFFICES ASSUME NEW s \in Clients, task[s].at = "settle" PROVE task'[s] = task[s]
  BY DEF Lingers
<1>1. ASSUME NEW t \in Clients, Continue(t) PROVE task'[s] = task[s]
  <2>1. Others(t)
    BY <1>1, ContinueMoves DEF Moves
  <2>2. s # t
    BY <1>1 DEF Continue, At, OpenStart, OpenCommit, OpenAbandon, OpenCancel, Unopen, Viewport, Seen,
       CloseStop, CloseFinish, Hide, Show, Restore, Abort, Complete, Unshow, Reshow, Preflight, Swap,
       Restart, Configure, Install, Discard, Fail, Unshown, WorkPin, WorkStart, WorkUnpin,
       WorkStarted, Drain
  <2> QED
    BY <2>1, <2>2 DEF Others
<1>2. ASSUME NEW t \in Clients, NEW op, NEW k, Begin(t, op, k) PROVE task'[s] = task[s]
  BY <1>2, BeginIs DEF Begin, At, Others
<1>3. ASSUME NEW t \in Clients, Command(t) PROVE task'[s] = task[s]
  BY <1>2, <1>3, CommandBegins
<1>4. ASSUME NEW w \in 1 .. started, WorkerFault(w) \/ ActorEnds(w) \/ WorkEnds(w) \/ LateAnswer(w)
      PROVE  task' = task
  BY <1>4 DEF WorkerFault, ActorEnds, WorkEnds, LateAnswer
<1>5. CASE Monitor \/ Poll
  BY <1>5 DEF Monitor, MonitorSees, MonitorReleases, Poll
<1>6. CASE UNCHANGED vars
  BY <1>6 DEF vars
<1> QED
  BY <1>1, <1>3, <1>4, <1>5, <1>6 DEF Next

LEMMA PinInductive == IInv /\ Inventory /\ Cast /\ PinInv /\ [Next]_vars => PinInv'
<1> SUFFICES ASSUME IInv, Inventory, Cast, PinInv, [Next]_vars PROVE PinInv'
  OBVIOUS
<1>1. Manned /\ Manned'
  BY MannedInductive DEF PinInv
<1> SUFFICES ASSUME ~exited' PROVE Backed(ctl)'
  BY <1>1 DEF PinInv
<1>2. exited => exited'
  <2>1. ASSUME NEW t \in Clients, Continue(t) PROVE exited => exited'
    BY <2>1, ExitedKept
  <2>2. ASSUME NEW t \in Clients, Command(t) PROVE ~exited
    BY <2>2, CommandBegins DEF Begin
  <2>3. ASSUME NEW w \in 1 .. started, WorkerFault(w) \/ ActorEnds(w) \/ WorkEnds(w) \/ LateAnswer(w)
        PROVE  exited => exited'
    BY <2>3 DEF WorkerFault, ActorEnds, WorkEnds, LateAnswer, OnlyActors, Later
  <2>4. CASE Monitor \/ Poll
    BY <2>4 DEF Monitor, MonitorSees, MonitorReleases, Poll, OnlyController, Later
  <2>5. CASE UNCHANGED vars
    BY <2>5 DEF vars
  <2> QED
    BY <2>1, <2>2, <2>3, <2>4, <2>5 DEF Next
<1>3. CASE ~exited /\ \E t \in Clients : Settle(t)
  BY <1>3, SettleKeep DEF PinInv
<1>4. CASE ~exited /\ Lingers
  <2>1. ASSUME NEW t \in Clients, Continue(t) PROVE Backed(ctl)'
    <3>1. Backed(ctl)
      BY <1>4 DEF PinInv
    <3>2. CASE \/ Viewport(t) \/ Hide(t) \/ Show(t) \/ Restore(t) \/ Unshow(t) \/ Reshow(t)
               \/ Preflight(t) \/ Configure(t)
      BY <1>4, <3>1, <3>2, AskKeep
    <3>3. CASE \/ OpenAbandon(t) \/ CloseStop(t) \/ Unshown(t) \/ Discard(t) \/ Swap(t)
               \/ Drain(t) \/ OpenStart(t) \/ Restart(t)
      BY <1>1, <1>4, <3>1, <3>3, EndKeep
    <3>4. CASE OpenCommit(t) \/ OpenCancel(t) \/ Seen(t) \/ Unopen(t) \/ CloseFinish(t) \/ Abort(t)
      BY <1>4, <2>1, <3>1, <3>4, PlainSections
    <3>5. CASE Complete(t)
      BY <1>4, <2>1, <3>1, <3>5, CompleteKeeps
    <3>6. CASE Install(t) \/ Fail(t)
      BY <1>4, <2>1, <3>1, <3>6, ReplacementKeeps
    <3>7. CASE WorkPin(t)
      BY <1>4, <2>1, <3>1, <3>7, PinKeeps
    <3>8. CASE WorkStart(t)
      BY <1>4, <2>1, <3>1, <3>8, WorkKeeps
    <3>9. CASE WorkUnpin(t)
      BY <1>4, <2>1, <3>1, <3>9, UnpinKeeps
    <3>10. CASE WorkStarted(t)
      BY <1>4, <2>1, <3>1, <3>10, WatchKeeps
    <3> QED
      BY <1>3, <1>4, <2>1, <3>2, <3>3, <3>4, <3>5, <3>6, <3>7, <3>8, <3>9, <3>10 DEF Continue
  <2>2. ASSUME NEW t \in Clients, Command(t) PROVE Backed(ctl)'
    BY <1>4, <2>2, CommandKeeps DEF PinInv
  <2>3. ASSUME NEW w \in 1 .. started,
               WorkerFault(w) \/ ActorEnds(w) \/ WorkEnds(w) \/ LateAnswer(w)
        PROVE  Backed(ctl)'
    BY <1>4, <2>3, WorkersKeep DEF PinInv
  <2>4. CASE Monitor \/ Poll
    BY <1>4, <2>4, MonitorKeeps, PollKeeps DEF PinInv
  <2>5. CASE UNCHANGED vars
    <3>1. UNCHANGED <<ctl, monitors, task>> /\ UNCHANGED actors
      BY <2>5 DEF vars
    <3>2. \A s \in Clients : Rests(task[s], task'[s])
      BY <3>1 DEF Rests
    <3> QED
      BY <1>4, <2>5, <3>1, <3>2, StillEases, ActorsKeep DEF PinInv
  <2> QED
    BY <2>1, <2>2, <2>3, <2>4, <2>5 DEF Next
<1> QED
  BY <1>2, <1>3, <1>4, SettleLeaves

LEMMA PinInit == Init => Cast /\ PinInv
<1> SUFFICES ASSUME Init PROVE Cast /\ PinInv
  OBVIOUS
<1>1. \A t \in Clients : task[t].at = "idle"
  BY IdlePlace DEF Init
<1>2. Cast
  BY RegistryAssumption DEF Init, Cast, Asked, Doomed
<1>3. Manned /\ Owned(ctl)
  BY DEF Init, Manned, Owned, Busy, Heard
<1>4. monitors = {} /\ Apart
  BY <1>1 DEF Init, Apart, PinPlaces
<1>5. \A t \in Clients : Tasked(task[t], ctl)
  BY <1>1, QuietTasked DEF Quiet, PinPlaces, FrozenPlaces
<1> QED
  BY <1>2, <1>3, <1>4, <1>5 DEF PinInv, Backed

(* A capture or recording that runs has the pin of its session and kind, whatever the     *)
(* callers do and whatever fails: no reap, no monitor of earlier work, no switch, close,  *)
(* fault or replacement takes it away (generic_deck_state.rs).  Left aside is the work of *)
(* an actor that is to end because it failed or kept a caller waiting for too long, and a *)
(* recording that a failed replacement is about to stop.                                  *)
THEOREM WorkIsPinned == Spec => []WorkPinned
<1>1. IInv /\ Inventory /\ Cast /\ PinInv /\ [Next]_vars => PinInv'
  BY PinInductive
<1>2. IInv /\ Cast /\ PinInv => WorkPinned
  <2> SUFFICES ASSUME IInv, Cast, PinInv PROVE WorkPinned
    OBVIOUS
  <2>1. PinOwnsLease
    BY DEF IInv, ControllerOK, Leased, PinOwnsLease, Unpinned
  <2>2. ~exited => Owned(ctl)
    BY DEF PinInv, Backed
  <2>3. \A w \in capturing : Doomed(w) \/ w \in Busy
    BY DEF PinInv, Manned, Busy, Awake
  <2>4. \A id \in recording \ {serves[w] : w \in {v \in up : Doomed(v)}} :
            Failing(id) \/ id \in Heard
    BY DEF Heard, Awake
  <2>5. ~exited => \A w \in capturing :
            Doomed(w) \/ (ctl.broker.pin.kind = "capture" /\ ctl.broker.pin.id = serves[w])
    BY <2>2, <2>3 DEF Owned
  <2>6. ~exited => \A id \in recording \ {serves[w] : w \in {v \in up : Doomed(v)}} :
            \/ ctl.broker.pin.kind = "mp4" /\ ctl.broker.pin.id = id
            \/ \E t \in Clients : At(t, "settle") /\ task[t].id = id
    BY <2>2, <2>4 DEF Owned, Failing, At
  <2> QED
    BY <2>1, <2>5, <2>6 DEF WorkPinned
<1> QED
  BY <1>1, <1>2, PinInit, InitOK, StockInit, Inductive, StockInductive, CastInductive, PTL DEF Spec
====
