------------------------- MODULE ExtensionLifecycle -------------------------
(***************************************************************************)
(* The installed versions of one package ID, as files: the tree of each    *)
(* version, its trust receipt, its runtime seal, and what a crash leaves    *)
(* behind.  Two kinds of actors move them: the lifecycle commands of the    *)
(* applications and the CLI (install, repair, remove, enable, disable,      *)
(* verify), serialised by a lock that dies with its process, and the        *)
(* runtime, which resolves an enabled version and keeps a lease on it.      *)
(* Every file operation of a command is one step, so a process may die      *)
(* between any two of them.  The usage lock of a version is held exactly    *)
(* while some process has a lease on it.                                    *)
(***************************************************************************)
EXTENDS Naturals, FiniteSets

CONSTANTS
    Versions,       \* versions of the package ID
    Builds,         \* archives that carry the same version with different bytes
    Procs,          \* processes: applications and CLI runs
    None,
    Damaged,        \* bytes that no archive carries
    Reserved,       \* kinds of ID of the instance: reserved for bundled packages or not
    Commands,       \* bound: commands that get the lock
    Mishaps         \* bound: crashes, failed file operations, damaged trees

Ops == {"install", "repair", "remove", "enable", "enable_only", "disable",
        "verify", "resolve"}

ASSUME LifecycleAssumption ==
    /\ Reserved \subseteq BOOLEAN
    /\ Commands \in Nat /\ Mishaps \in Nat
    /\ None \notin Versions \cup Builds \cup Procs \cup {Damaged}
    /\ Damaged \notin Builds

VARIABLES
    reserved,       \* whether the ID is reserved
    tree,           \* version -> bytes of its installed directory, or None
    receipt,        \* version -> trust receipt, or None
    seal,           \* version -> runtime seal file, or None
    stray,          \* versions of which an enabled receipt was left as a partial file
    litter,         \* what lies in the staging and trash roots
    lock,           \* holder of the lifecycle lock
    task,           \* process -> the command it is executing
    cache,          \* process -> version -> receipt of the cached lease
    session,        \* process -> version -> receipt of the lease a session holds
    commands, mishaps

vars == <<reserved, tree, receipt, seal, stray, litter, lock, task, cache, session, commands, mishaps>>

(* A seal binds the receipt it was made for and the file identities of the *)
(* tree; `fits' tells whether the tree still has those identities.         *)
Seal == [of : Builds, enabled : BOOLEAN, fits : BOOLEAN]
Receipt == [of : Builds, enabled : BOOLEAN, sealed : Seal \cup {None}]
Trees == Builds \cup {None, Damaged}
Core(r) == IF r = None THEN None ELSE [of |-> r.of, enabled |-> r.enabled]
Cores == {None} \cup [of : Builds, enabled : BOOLEAN]

Steps == {"stage", "publish", "link", "commit", "rollback", "sweep", "restore",
          "quarantine", "unreceipt", "unseal", "discard", "seal"}

Task == [op : Ops, v : Versions, b : Builds \cup {None}, at : Steps,
         due : Receipt \cup {None}, kept : Trees, was : Trees \X Cores]

(* The mark of what is absent is none of the things that can be present.   *)
ASSUME NoneAssumption == None \notin Seal /\ None \notin Receipt /\ None \notin Task

TypeOK ==
    /\ reserved \in BOOLEAN
    /\ tree \in [Versions -> Trees]
    /\ receipt \in [Versions -> Receipt \cup {None}]
    /\ seal \in [Versions -> Seal \cup {None}]
    /\ stray \subseteq Versions
    /\ litter \subseteq {"staging", "trash"}
    /\ lock \in Procs \cup {None}
    /\ task \in [Procs -> Task \cup {None}]
    /\ cache \in [Procs -> [Versions -> Receipt \cup {None}]]
    /\ session \in [Procs -> [Versions -> Receipt \cup {None}]]
    /\ commands \in 0 .. Commands
    /\ mishaps \in 0 .. Mishaps

Nothing == [v \in Versions |-> None]

Init ==
    /\ reserved \in Reserved
    /\ tree = Nothing /\ receipt = Nothing /\ seal = Nothing
    /\ stray = {} /\ litter = {}
    /\ lock = None
    /\ task = [p \in Procs |-> None]
    /\ cache = [p \in Procs |-> Nothing]
    /\ session = [p \in Procs |-> Nothing]
    /\ commands = 0 /\ mishaps = 0

-----------------------------------------------------------------------------
(* What the checks of the commands read.                                   *)

Enabled(v) == receipt[v] # None /\ receipt[v].enabled

Valid(v) == receipt[v] # None /\ tree[v] = receipt[v].of

InUse(c, v) == \E p \in Procs : c[p][v] # None \/ session[p][v] # None

(* ensure_no_other_enabled_version reads every file of the receipt         *)
(* directory but the exact receipt, partial files included.                *)
Blocked(v) == stray # {} \/ \E w \in Versions \ {v} : Enabled(w)

(* The own cached leases are dropped first: of the version by enable,      *)
(* disable and remove, of every version by repair.                         *)
Uncached(p, op, v) ==
    IF op = "repair" THEN [cache EXCEPT ![p] = Nothing]
    ELSE IF op \in {"enable", "disable", "remove"} THEN [cache EXCEPT ![p][v] = None]
    ELSE cache

(* Files moved or rewritten in a tree change what its seal measured.       *)
Aged(s) == IF s = None THEN None ELSE [s EXCEPT !.fits = FALSE]
AgedReceipt(r) == IF r = None THEN None ELSE [r EXCEPT !.sealed = Aged(r.sealed)]

TouchSeals(v) ==
    /\ seal' = [seal EXCEPT ![v] = Aged(seal[v])]
    /\ receipt' = [receipt EXCEPT ![v] = AgedReceipt(receipt[v])]

NewTask(op, v, b, at, due) ==
    [op |-> op, v |-> v, b |-> b, at |-> at, due |-> due, kept |-> None,
     was |-> <<tree[v], Core(receipt[v])>>]

Disabled(b) == [of |-> b, enabled |-> FALSE, sealed |-> None]

(* prepare_authorized: no program repairs a package of a reserved ID, and  *)
(* only the provisioning of bundled packages, which are, selects the first *)
(* version by itself.                                                      *)
Issued(op) == IF reserved THEN op # "repair" ELSE op # "enable_only"

(* acquire_lock and prepare_locked_roots, which verify does not call.      *)
Idle(p) == task[p] = None /\ lock = None
Sweeps(op) == litter' = IF op = "verify" THEN litter ELSE {}

Begin(p, op, v, b, at, due) ==
    /\ Issued(op)
    /\ Idle(p)
    /\ commands < Commands /\ commands' = commands + 1
    /\ lock' = p
    /\ task' = [task EXCEPT ![p] = NewTask(op, v, b, at, due)]
    /\ cache' = Uncached(p, op, v)
    /\ Sweeps(op)
    /\ UNCHANGED <<reserved, tree, receipt, seal, stray, session, mishaps>>

-----------------------------------------------------------------------------
(* The commands, up to the point where they start to write.                *)

CanInstall(v) == tree[v] = None

BeginInstall(p, v, b) ==
    CanInstall(v) /\ Begin(p, "install", v, b, "stage", Disabled(b))

CanRepair(p, v, b) ==
    \/ tree[v] = None
    \/ /\ ~InUse(Uncached(p, "repair", v), v)
       /\ ~(Enabled(v) /\ receipt[v].of = b)

BeginRepair(p, v, b) ==
    /\ CanRepair(p, v, b)
    /\ Begin(p, "repair", v, b,
             IF tree[v] = None THEN "stage" ELSE IF tree[v] = b THEN "commit" ELSE "quarantine",
             Disabled(b))

(* Mutant: the usage lock is not tried.                                    *)
CanRemoveUsed(p, v, allowCorrupt) ==
    /\ tree[v] # None
    /\ IF Valid(v) THEN ~Enabled(v) ELSE allowCorrupt

CanRemove(p, v, allowCorrupt) ==
    /\ tree[v] # None
    /\ ~InUse(Uncached(p, "remove", v), v)
    /\ IF Valid(v) THEN ~Enabled(v) ELSE allowCorrupt

BeginRemove(p, v) ==
    /\ \E allowCorrupt \in BOOLEAN : CanRemove(p, v, allowCorrupt)
    /\ Begin(p, "remove", v, None, "quarantine", None)

(* Mutant: only the own receipt is read.                                   *)
CanEnableBeside(v) == Valid(v)

CanEnable(v) == ~Blocked(v) /\ Valid(v)

BeginEnable(p, v) ==
    /\ CanEnable(v)
    /\ Begin(p, "enable", v, None, "seal", [receipt[v] EXCEPT !.enabled = TRUE])

CanEnableOnly(v) == Valid(v) /\ \A w \in Versions \ {v} : tree[w] = None

BeginEnableOnly(p, v) ==
    /\ CanEnableOnly(v)
    /\ Begin(p, "enable_only", v, None, "seal", [receipt[v] EXCEPT !.enabled = TRUE])

CanDisable(v) == tree[v] # None /\ receipt[v] # None

BeginDisable(p, v) ==
    /\ CanDisable(v)
    /\ Begin(p, "disable", v, None, "commit", Disabled(receipt[v].of))

CanVerify(v) == Valid(v)

BeginVerify(p, v) ==
    CanVerify(v) /\ Begin(p, "verify", v, None, "seal", receipt[v])

(* The receipt names the seal that is there, and the tree still fits it.   *)
Sealed(v) ==
    /\ receipt[v].sealed # None
    /\ seal[v] = receipt[v].sealed
    /\ seal[v].of = receipt[v].of /\ seal[v].enabled = receipt[v].enabled
    /\ seal[v].fits

CanResolve(v) == tree[v] # None /\ Enabled(v)

(* Without a matching seal the payload is hashed and the seal renewed.     *)
BeginResolve(p, v) ==
    /\ cache[p][v] = None
    /\ CanResolve(v) /\ ~Sealed(v) /\ Valid(v)
    /\ Begin(p, "resolve", v, None, "seal", receipt[v])

(* With one nothing is hashed and nothing written.                         *)
ResolveSealed(p, v) ==
    /\ Idle(p)
    /\ cache[p][v] = None
    /\ CanResolve(v) /\ Sealed(v)
    /\ litter' = {}
    /\ cache' = [cache EXCEPT ![p][v] = receipt[v]]
    /\ session' = [session EXCEPT ![p][v] = receipt[v]]
    /\ UNCHANGED <<reserved, tree, receipt, seal, stray, lock, task, commands, mishaps>>

(* A cached lease is handed out again if its receipt is still the one.     *)
(* Mutant: the cached receipt is trusted.                                  *)
RevalidatesCached(p, v) == cache[p][v].enabled

Revalidates(p, v) == Enabled(v) /\ cache[p][v] = receipt[v]

ResolveCached(p, v) ==
    /\ Idle(p)
    /\ cache[p][v] # None
    /\ IF Revalidates(p, v)
       THEN /\ session' = [session EXCEPT ![p][v] = cache[p][v]]
            /\ UNCHANGED cache
       ELSE /\ cache' = [cache EXCEPT ![p][v] = None]
            /\ UNCHANGED session
    /\ UNCHANGED <<reserved, tree, receipt, seal, stray, litter, lock, task, commands, mishaps>>

-----------------------------------------------------------------------------
(* A command that its checks refuse has swept the roots and dropped its    *)
(* own cached leases, no more; one that meets a held lock has only         *)
(* dropped the leases.                                                     *)

Refused(p, op, v, b) ==
    CASE op = "install" -> ~CanInstall(v)
      [] op = "repair" -> ~CanRepair(p, v, b)
      [] op = "remove" -> ~CanRemove(p, v, FALSE)
      [] op = "enable" -> ~CanEnable(v)
      [] op = "enable_only" -> ~CanEnableOnly(v)
      [] op = "disable" -> ~CanDisable(v)
      [] op = "verify" -> ~CanVerify(v)
      [] op = "resolve" -> cache[p][v] = None /\ ~(CanResolve(v) /\ (Sealed(v) \/ Valid(v)))

Refuse(p, op, v, b) ==
    /\ Issued(op)
    /\ Idle(p)
    /\ Refused(p, op, v, b)
    /\ Sweeps(op)
    /\ cache' = Uncached(p, op, v)
    /\ UNCHANGED <<reserved, tree, receipt, seal, stray, lock, task, session, commands, mishaps>>

MeetBusy(p, op, v) ==
    /\ Issued(op)
    /\ task[p] = None /\ lock # None
    /\ cache' = IF op = "resolve" THEN [cache EXCEPT ![p][v] = None] ELSE Uncached(p, op, v)
    /\ UNCHANGED <<reserved, tree, receipt, seal, stray, litter, lock, task, session, commands, mishaps>>

-----------------------------------------------------------------------------
(* The steps of the command that holds the lock.                           *)

At(p, step) == task[p] # None /\ task[p].at = step

Goto(p, step) == task' = [task EXCEPT ![p].at = step] /\ UNCHANGED lock

Finish(p) == task' = [task EXCEPT ![p] = None] /\ lock' = None

Mishap == mishaps < Mishaps /\ mishaps' = mishaps + 1

(* Mutant: the quarantined tree is left in the trash.                      *)
UndoNothing(p) == Finish(p)

Undo(p) == IF task[p].kept = None THEN Finish(p) ELSE Goto(p, "restore")

(* create_dir and extract_prepared; on an error the guard removes it.      *)
Stage(p) ==
    /\ At(p, "stage")
    /\ \/ /\ litter' = litter \cup {"staging"}
          /\ Goto(p, "publish")
          /\ UNCHANGED mishaps
       \/ Mishap /\ Undo(p) /\ UNCHANGED litter
    /\ UNCHANGED <<reserved, tree, receipt, seal, stray, cache, session, commands>>

(* The staging directory becomes the version's tree.  What fails between   *)
(* that and the writing of the receipt returns, and nothing is undone.     *)
Publish(p) ==
    /\ At(p, "publish")
    /\ litter' = litter \ {"staging"}
    /\ \/ /\ tree' = [tree EXCEPT ![task[p].v] = task[p].b]
          /\ \/ Goto(p, IF task[p].op = "install" THEN "link" ELSE "commit") /\ UNCHANGED mishaps
             \/ Mishap /\ Finish(p)
       \/ Mishap /\ Undo(p) /\ UNCHANGED tree
    /\ UNCHANGED <<reserved, receipt, seal, stray, cache, session, commands>>

(* write_receipt_new: the link fails if there is a receipt, and the        *)
(* removal of the partial file may fail when the receipt is there.         *)
Link(p) ==
    LET v == task[p].v IN
    /\ At(p, "link")
    /\ \/ /\ receipt[v] = None
          /\ receipt' = [receipt EXCEPT ![v] = task[p].due]
          /\ \/ Goto(p, "unseal") /\ UNCHANGED mishaps
             \/ Mishap /\ Goto(p, "rollback")
       \/ /\ receipt[v] # None
          /\ Goto(p, "rollback")
          /\ UNCHANGED <<receipt, mishaps>>
       \/ Mishap /\ Goto(p, "rollback") /\ UNCHANGED receipt
    /\ UNCHANGED <<reserved, tree, seal, stray, litter, cache, session, commands>>

(* The package directory that could not get its receipt is taken back.     *)
Rollback(p) ==
    LET v == task[p].v IN
    /\ At(p, "rollback")
    /\ tree' = [tree EXCEPT ![v] = None]
    /\ litter' = litter \cup {"staging"}
    /\ Goto(p, "sweep")
    /\ UNCHANGED <<reserved, receipt, seal, stray, cache, session, commands, mishaps>>

RollbackFails(p) ==
    /\ At(p, "rollback")
    /\ Mishap
    /\ Finish(p)
    /\ UNCHANGED <<reserved, tree, receipt, seal, stray, litter, cache, session, commands>>

SweepRollback(p) ==
    /\ At(p, "sweep")
    /\ litter' = litter \ {"staging"}
    /\ Undo(p)
    /\ UNCHANGED <<reserved, tree, receipt, seal, stray, cache, session, commands, mishaps>>

(* The old tree comes back from the quarantine.                            *)
Restore(p) ==
    LET v == task[p].v IN
    /\ At(p, "restore")
    /\ tree' = [tree EXCEPT ![v] = task[p].kept]
    /\ litter' = litter \ {"trash"}
    /\ Finish(p)
    /\ UNCHANGED <<reserved, receipt, seal, stray, cache, session, commands, mishaps>>

RestoreFails(p) ==
    /\ At(p, "restore")
    /\ Mishap
    /\ Finish(p)
    /\ UNCHANGED <<reserved, tree, receipt, seal, stray, litter, cache, session, commands>>

(* prepare_runtime_seal: the seal is best effort, the receipt names it.    *)
WriteSeal(p) ==
    LET v == task[p].v
        new == [of |-> task[p].due.of, enabled |-> task[p].due.enabled, fits |-> TRUE]
    IN
    /\ At(p, "seal")
    /\ \E s \in {new, None} :
         /\ seal' = [seal EXCEPT ![v] = s]
         /\ task' = [task EXCEPT ![p].at = "commit", ![p].due.sealed = s]
    /\ UNCHANGED <<reserved, tree, receipt, stray, litter, lock, cache, session, commands, mishaps>>

(* The lease that enable primes the cache with and resolve hands out.      *)
Lease(p, r) ==
    LET v == task[p].v IN
    /\ cache' = IF task[p].op \in {"enable", "resolve"} THEN [cache EXCEPT ![p][v] = r] ELSE cache
    /\ session' = IF task[p].op = "resolve" THEN [session EXCEPT ![p][v] = r] ELSE session

(* write_receipt_replace: the partial file is on disk, replace_atomic.     *)
Commit(p) ==
    LET t == task[p] IN
    /\ At(p, "commit")
    /\ receipt' = [receipt EXCEPT ![t.v] = t.due]
    /\ IF t.op \in {"install", "repair", "disable"} THEN Goto(p, "unseal") ELSE Finish(p)
    /\ Lease(p, t.due)
    /\ UNCHANGED <<reserved, tree, seal, stray, litter, commands, mishaps>>

(* A repair takes its new tree back, a resolve does without the seal.      *)
CommitFails(p) ==
    LET t == task[p] IN
    /\ At(p, "commit")
    /\ Mishap
    /\ IF t.op = "repair" /\ t.was[1] # t.b THEN Goto(p, "rollback") ELSE Finish(p)
    /\ IF t.op = "resolve" THEN Lease(p, receipt[t.v]) ELSE UNCHANGED <<cache, session>>
    /\ UNCHANGED <<reserved, tree, receipt, seal, stray, litter, commands>>

Unseal(p) ==
    /\ At(p, "unseal")
    /\ seal' = [seal EXCEPT ![task[p].v] = None]
    /\ IF task[p].kept = None THEN Finish(p) ELSE Goto(p, "discard")
    /\ UNCHANGED <<reserved, tree, receipt, stray, litter, cache, session, commands, mishaps>>

(* The tree that is repaired or removed goes to the trash root.            *)
Quarantine(p) ==
    LET v == task[p].v IN
    /\ At(p, "quarantine")
    /\ \/ /\ tree' = [tree EXCEPT ![v] = None]
          /\ TouchSeals(v)
          /\ litter' = litter \cup {"trash"}
          /\ task' = [task EXCEPT ![p].kept = tree[v],
                                  ![p].at = IF task[p].op = "remove"
                                            THEN "unreceipt" ELSE "stage"]
          /\ UNCHANGED <<lock, mishaps>>
       \/ Mishap /\ Finish(p) /\ UNCHANGED <<tree, receipt, seal, litter>>
    /\ UNCHANGED <<reserved, stray, cache, session, commands>>

(* A receipt that cannot be deleted brings the tree back, one that cannot  *)
(* be looked for does not.                                                 *)
Unreceipt(p) ==
    LET v == task[p].v IN
    /\ At(p, "unreceipt")
    /\ \/ receipt' = [receipt EXCEPT ![v] = None] /\ Goto(p, "unseal") /\ UNCHANGED mishaps
       \/ /\ Mishap /\ UNCHANGED receipt
          /\ Finish(p) \/ (receipt[v] # None /\ Goto(p, "restore"))
    /\ UNCHANGED <<reserved, tree, seal, stray, litter, cache, session, commands>>

Discard(p) ==
    /\ At(p, "discard")
    /\ \/ litter' = litter \ {"trash"} /\ UNCHANGED mishaps
       \/ Mishap /\ UNCHANGED litter
    /\ Finish(p)
    /\ UNCHANGED <<reserved, tree, receipt, seal, stray, cache, session, commands>>

-----------------------------------------------------------------------------
(* The other events.                                                       *)

(* A session ends; the cache evicts or invalidates an entry.               *)
DropSession(p, v) ==
    /\ session[p][v] # None
    /\ session' = [session EXCEPT ![p][v] = None]
    /\ UNCHANGED <<reserved, tree, receipt, seal, stray, litter, lock, task, cache, commands, mishaps>>

DropCached(p, v) ==
    /\ cache[p][v] # None
    /\ cache' = [cache EXCEPT ![p][v] = None]
    /\ UNCHANGED <<reserved, tree, receipt, seal, stray, litter, lock, task, session, commands, mishaps>>

(* A process dies: its lock and leases go, the partial receipt stays.      *)
Crash(p) ==
    /\ task[p] # None
    /\ Mishap
    /\ \E left \in SUBSET {task[p].v} :
         /\ left # {} => At(p, "commit") /\ task[p].due.enabled
         /\ stray' = stray \cup left
    /\ lock' = None
    /\ task' = [task EXCEPT ![p] = None]
    /\ cache' = [cache EXCEPT ![p] = Nothing]
    /\ session' = [session EXCEPT ![p] = Nothing]
    /\ UNCHANGED <<reserved, tree, receipt, seal, litter, commands>>

(* Something else rewrites a file; a lease and a validation in progress    *)
(* deny that to it.                                                        *)
Damage(v) ==
    /\ tree[v] \in Builds
    /\ ~InUse(cache, v)
    /\ \A p \in Procs : task[p] # None => task[p].v # v
    /\ Mishap
    /\ tree' = [tree EXCEPT ![v] = Damaged]
    /\ TouchSeals(v)
    /\ UNCHANGED <<reserved, stray, litter, lock, task, cache, session, commands>>

Next ==
    \/ \E p \in Procs :
         \/ \E v \in Versions :
              \/ \E b \in Builds : BeginInstall(p, v, b) \/ BeginRepair(p, v, b)
              \/ BeginRemove(p, v) \/ BeginEnable(p, v) \/ BeginEnableOnly(p, v)
              \/ BeginDisable(p, v) \/ BeginVerify(p, v) \/ BeginResolve(p, v)
              \/ ResolveSealed(p, v) \/ ResolveCached(p, v)
              \/ \E op \in Ops, b \in Builds : Refuse(p, op, v, b)
              \/ \E op \in Ops : MeetBusy(p, op, v)
              \/ DropSession(p, v) \/ DropCached(p, v)
         \/ Stage(p) \/ Publish(p) \/ Link(p) \/ WriteSeal(p)
         \/ Commit(p) \/ CommitFails(p) \/ Unseal(p)
         \/ Rollback(p) \/ RollbackFails(p) \/ SweepRollback(p)
         \/ Restore(p) \/ RestoreFails(p)
         \/ Quarantine(p) \/ Unreceipt(p) \/ Discard(p)
         \/ Crash(p)
    \/ \E v \in Versions : Damage(v)

Spec == Init /\ [][Next]_vars

-----------------------------------------------------------------------------
(* The files a lease was granted for are still there, byte for byte: remove *)
(* and repair cannot tear files out from under a session, and a seal that  *)
(* spared the hashing spared it rightly.                                   *)
LeaseIntact ==
    \A p \in Procs, v \in Versions :
        /\ cache[p][v] # None => tree[v] = cache[p][v].of
        /\ session[p][v] # None => tree[v] = session[p][v].of

(* At most one version of an ID that is not reserved is enabled, whatever  *)
(* was interrupted.                                                        *)
OneEnabled == ~reserved => \A v, w \in Versions : Enabled(v) /\ Enabled(w) => v = w

(* A new session is only given a version whose receipt is enabled at that  *)
(* moment: a disable in one process reaches the cached leases of another.  *)
OnlyEnabledRuns ==
    [][\A p \in Procs, v \in Versions :
         session'[p][v] \notin {None, session[p][v]} => Enabled(v)']_vars

(* What the command of a task promises for the tree and the receipt.       *)
Goal(t) ==
    CASE t.op \in {"install", "repair"} -> <<t.b, [of |-> t.b, enabled |-> FALSE]>>
      [] t.op = "remove" -> <<None, None>>
      [] t.op \in {"enable", "enable_only"} -> <<t.was[1], [t.was[2] EXCEPT !.enabled = TRUE]>>
      [] t.op = "disable" -> <<t.was[1], [t.was[2] EXCEPT !.enabled = FALSE]>>
      [] t.op \in {"verify", "resolve"} -> t.was

(* The halves that a failure may leave: a published tree whose receipt was *)
(* not written, a first receipt whose tree was taken back, a removed tree  *)
(* whose receipt was not looked at.                                        *)
HalfDone(t, left) ==
    \/ t.op \in {"install", "repair"} /\ left = <<t.b, t.was[2]>>
    \/ t.op = "install" /\ t.was = <<None, None>> /\ left = <<None, Goal(t)[2]>>
    \/ t.op = "remove" /\ left = <<None, t.was[2]>>

(* A command that returns, with a result or an error, has done all of its  *)
(* work on tree and receipt or none of it, but for the halves above, and   *)
(* unless the undo failed as well: enable, disable, verify and resolve     *)
(* leave no half, a repair no version without a tree it had, a remove no   *)
(* tree without its receipt, and no half has a receipt enabled that was    *)
(* not.                                                                    *)
AllOrNothing ==
    [][\A p \in Procs :
         lock = p /\ lock' # p /\ ~Crash(p) /\ ~RollbackFails(p) /\ ~RestoreFails(p) =>
             LET t == task[p]
                 left == <<tree'[t.v], Core(receipt'[t.v])>>
             IN  left \in {t.was, Goal(t)} \/ HalfDone(t, left)]_vars

(* enable says that another version is enabled only if one is.             *)
BlockedByAnother ==
    \A v \in Versions : Blocked(v) => \E w \in Versions \ {v} : Enabled(w)

=============================================================================
