------------------------------ MODULE LocalStore ------------------------------
(***************************************************************************)
(* The Receiver's file store (services/tsn-receiver/lib/local-firestore.ts) *)
(* with the Node's state operations on it (lib/node-state-store.ts).       *)
(* Several Receiver processes share one JSON file and one lock file.  A    *)
(* process runs its mutations one after the other (queue), so it has one   *)
(* operation at a time here.  A step ends at each call of the file system. *)
(***************************************************************************)
EXTENDS Naturals, FiniteSets

CONSTANTS
    Workers,     \* the Receiver processes
    Fields,      \* the items of one state bucket
    BusyAfter,   \* how long an operation waits for the lock
    StaleAfter,  \* the age after which a lock file is taken for abandoned
    HoldLimit,   \* how long a process keeps the lock at most
    MaxOps,      \* bound on the operations
    MaxCrashes,  \* bound on the crashes
    MaxRefusals  \* bound on the calls the file system refuses

ASSUME StoreConstants ==
    /\ BusyAfter \in Nat /\ StaleAfter \in Nat /\ HoldLimit \in Nat
    /\ MaxOps \in Nat /\ MaxCrashes \in Nat /\ MaxRefusals \in Nat
    /\ "nobody" \notin Workers

VARIABLES
    file,     \* the items in the JSON file
    lock,     \* NoLock, or who made the lock file and its age up to StaleAfter + 1
    op,       \* what each process is doing
    intruded, \* history: the lock file of a process that was using it was removed
    winners,  \* history: successful consume_once calls since the item was deleted
    crashes,  \* crashes so far
    refusals, \* calls the file system refused so far
    ops       \* operations so far

storeVars == <<file, lock, op, intruded, winners, crashes, refusals, ops>>

NoLock == [by |-> "nobody", age |-> 0]

Kinds == {"hset", "consume", "delete"}

\* A process that has not migrated its legacy records yet is not booted.
Idle(booted) == [pc |-> "idle", kind |-> "none", fields |-> {}, age |-> 0,
                 data |-> {}, scanned |-> FALSE, booted |-> booted]

Inside(w) == op[w].pc \in {"held", "loaded", "closing"}

\* The file system refuses a call (EPERM, EBUSY, EACCES).
CallRefused == refusals < MaxRefusals /\ refusals' = refusals + 1

\* unlink(lockFile) removes whatever lock file there is by now.  Where it is
\* refused the error is swallowed and the file stays.
Unlink(w) ==
    \/ /\ lock' = NoLock
       /\ intruded' = (intruded \/ (lock # NoLock /\ lock.by # w /\ Inside(lock.by)))
       /\ UNCHANGED refusals
    \/ CallRefused /\ UNCHANGED <<lock, intruded>>

-----------------------------------------------------------------------------
(* The lock file *)

\* An operation starts: the migration of a new process, or a state operation
\* on some items.
Start(w, kind, fields) ==
    /\ op[w].pc = "idle" /\ ops < MaxOps
    /\ kind = "compact" <=> ~op[w].booted
    /\ op' = [op EXCEPT ![w] = [@ EXCEPT !.pc = "open", !.kind = kind, !.fields = fields]]
    /\ ops' = ops + 1
    /\ UNCHANGED <<file, lock, intruded, winners, crashes, refusals>>

\* A mutant: the lock file is opened without the exclusive flag.
MayCreate == TRUE

\* open(lockFile, "wx") succeeds only when there is no lock file.
LockIsFree == lock = NoLock

\* An error other than EEXIST ends the operation.
OpenLock(w) ==
    /\ op[w].pc = "open"
    /\ \/ /\ LockIsFree
          /\ lock' = [by |-> w, age |-> 0]
          /\ op' = [op EXCEPT ![w].pc = "held", ![w].age = 0]
          /\ UNCHANGED refusals
       \/ /\ ~LockIsFree
          /\ op' = [op EXCEPT ![w].pc = "look"]
          /\ UNCHANGED <<lock, refusals>>
       \/ /\ CallRefused
          /\ op' = [op EXCEPT ![w] = Idle(TRUE)]
          /\ UNCHANGED lock
    /\ UNCHANGED <<file, intruded, winners, crashes, ops>>

LockIsStale == lock # NoLock /\ lock.age > StaleAfter

\* A mutant: the waiter tries again whatever it finds and however late it is.
LookAtLockAgain(w) ==
    /\ op[w].pc = "look"
    /\ op' = [op EXCEPT ![w].pc = "open"]
    /\ UNCHANGED <<file, lock, intruded, winners, crashes, refusals, ops>>

\* The waiter looks at the lock's age: a stale one will be removed, and one
\* that has waited too long gives up (for a migration the error is caught).
LookAtLock(w) ==
    /\ op[w].pc = "look"
    /\ op' = [op EXCEPT ![w] =
            IF LockIsStale THEN [@ EXCEPT !.pc = "break"]
            ELSE IF @.age > BusyAfter THEN Idle(TRUE)
            ELSE [@ EXCEPT !.pc = "open"]]
    /\ UNCHANGED <<file, lock, intruded, winners, crashes, refusals, ops>>

\* The waiter removes the lock file it found stale, and tries again without a
\* look at its own time: refused for ever, it would never stop.
BreakLock(w) ==
    /\ op[w].pc = "break"
    /\ Unlink(w)
    /\ op' = [op EXCEPT ![w].pc = "open"]
    /\ UNCHANGED <<file, winners, crashes, ops>>

\* The finally block: the lock file is removed, again whoever made it, or
\* stays when that is refused, until somebody finds it stale.  A
\* delete has only listed the items until then, and commits in a second turn.
CloseLock(w) ==
    /\ op[w].pc = "closing"
    /\ Unlink(w)
    /\ op' = [op EXCEPT ![w] =
            IF @.kind = "delete" /\ ~@.scanned
            THEN [@ EXCEPT !.pc = "open", !.age = 0, !.scanned = TRUE]
            ELSE Idle(TRUE)]
    /\ UNCHANGED <<file, winners, crashes, ops>>

-----------------------------------------------------------------------------
(* The operations under the lock *)

\* readRaw: the whole file; the first turn of a delete keeps the list of the
\* items and ends there.  A read that is refused ends the operation.
LoadFile(w) ==
    /\ op[w].pc = "held"
    /\ \/ /\ op' = [op EXCEPT ![w] =
                IF @.kind = "delete" /\ ~@.scanned
                THEN [@ EXCEPT !.pc = "closing", !.fields = file]
                ELSE [@ EXCEPT !.pc = "loaded", !.data = file]]
          /\ UNCHANGED refusals
       \/ CallRefused /\ op' = [op EXCEPT ![w].pc = "closing", ![w].kind = "none"]
    /\ UNCHANGED <<file, lock, intruded, winners, crashes, ops>>

\* consume_once creates the item unless it exists.
Consumes(w) == op[w].kind = "consume" /\ op[w].fields \cap op[w].data = {}

\* The file an operation makes of the one it read.
Edited(w) ==
    IF op[w].kind = "delete" THEN op[w].data \ op[w].fields
    ELSE op[w].data \cup op[w].fields

\* writeRaw replaces the file by rename; a migration that finds no legacy
\* record leaves it alone, and so does a rename that fails eight times.
ReplaceFile(w) ==
    /\ op[w].pc = "loaded"
    /\ \/ /\ file' = Edited(w)
          /\ winners' = [f \in Fields |->
                IF f \notin op[w].fields THEN winners[f]
                ELSE IF Consumes(w) THEN winners[f] + 1
                ELSE IF op[w].kind = "delete" THEN 0
                ELSE winners[f]]
       \/ UNCHANGED <<file, winners>>
    /\ op' = [op EXCEPT ![w].pc = "closing"]
    /\ UNCHANGED <<lock, intruded, crashes, refusals, ops>>

-----------------------------------------------------------------------------
(* Time and crashes *)

Older(age, limit) == IF age > limit THEN age ELSE age + 1

\* Time passes, unless a process has kept the lock for HoldLimit.
StoreTick ==
    /\ \A w \in Workers : Inside(w) => op[w].age < HoldLimit
    /\ lock' = IF lock = NoLock THEN lock ELSE [lock EXCEPT !.age = Older(@, StaleAfter)]
    /\ op' = [w \in Workers |->
                IF op[w].pc \in {"idle", "dead"} THEN op[w]
                ELSE [op[w] EXCEPT !.age = Older(@, IF Inside(w) THEN HoldLimit
                                                                 ELSE BusyAfter)]]
    /\ UNCHANGED <<file, intruded, winners, crashes, refusals, ops>>

\* A process dies and leaves its lock file behind, and is started again.
Crash(w) ==
    /\ op[w].pc \notin {"idle", "dead"} /\ crashes < MaxCrashes
    /\ crashes' = crashes + 1
    /\ op' = [op EXCEPT ![w] = [Idle(FALSE) EXCEPT !.pc = "dead"]]
    /\ UNCHANGED <<file, lock, intruded, winners, refusals, ops>>

Restart(w) ==
    /\ op[w].pc = "dead"
    /\ op' = [op EXCEPT ![w] = Idle(FALSE)]
    /\ UNCHANGED <<file, lock, intruded, winners, crashes, refusals, ops>>

-----------------------------------------------------------------------------
StoreInit ==
    /\ file \in SUBSET Fields
    /\ lock = NoLock
    /\ intruded = FALSE
    /\ op = [w \in Workers |-> Idle(FALSE)]
    /\ winners = [f \in Fields |-> 0]
    /\ crashes = 0 /\ refusals = 0 /\ ops = 0

StoreStep(w) ==
    \/ OpenLock(w) \/ LookAtLock(w) \/ BreakLock(w) \/ CloseLock(w)
    \/ LoadFile(w) \/ ReplaceFile(w)

StoreNext ==
    \/ StoreTick
    \/ \E w \in Workers : Crash(w) \/ Restart(w) \/ StoreStep(w)
    \/ \E w \in Workers : Start(w, "compact", {}) \/ Start(w, "delete", {})
    \/ \E w \in Workers, f \in Fields : Start(w, "hset", {f}) \/ Start(w, "consume", {f})

\* Time passes and a process that is alive goes on.
StoreFairness ==
    /\ WF_storeVars(StoreTick)
    /\ \A w \in Workers : WF_storeVars(StoreStep(w))

StoreSpec == StoreInit /\ [][StoreNext]_storeVars /\ StoreFairness

-----------------------------------------------------------------------------
(* Properties *)

\* An item is consumed once until it is deleted, across all processes, as long
\* as nobody's lock was removed while it was inside: the Node rejects a
\* replayed nonce by it (node-state-store.ts:50, mutate local-firestore.ts:83).
ConsumedOnce == intruded \/ \A f \in Fields : winners[f] <= 1

\* An operation ends, with a result or as busy, also when another process
\* died or could not remove its lock file and left it behind, as long as the
\* file system refuses only finitely many calls: a stale lock file that can
\* never be removed keeps a waiter in its loop, past its own limit of waiting
\* (withFileLock, local-firestore.ts:18-41).
OperationsEnd ==
    \A w \in Workers : op[w].pc = "open" ~> op[w].pc \in {"idle", "dead"}

=============================================================================
