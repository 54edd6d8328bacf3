-------------------------------- MODULE Queue --------------------------------
(***************************************************************************)
(* The queue layer of kumod (src/crates/kumod/src/queue.rs): the           *)
(* QueueManager registry behind its async mutex, each Queue behind its own *)
(* async mutex with its time-ordered heap of delayed messages, and the     *)
(* maintainer task of every queue.                                         *)
(*                                                                         *)
(* A message enters through a task that locks the manager and calls       *)
(* QueueManager::insert (reception), or through Dispatcher::requeue_message*)
(* (a message the site layer hands back).  Both take the manager lock,     *)
(* then the queue lock.  The maintainer takes the queue lock, and in its   *)
(* Empty branch the manager lock while still holding it.                   *)
(*                                                                         *)
(* The site layer and time are the environment.  Time is abstracted to     *)
(* three facts that only grow: a delayed message has become due, a message *)
(* has reached max_age, and a queue's last_change is older than 10 minutes.*)
(***************************************************************************)
EXTENDS Integers, FiniteSets

CONSTANTS
    Msgs,          \* message ids
    Queues,        \* queue names
    QueueOf,       \* the queue name each message is routed to
    NoHolder,      \* model value: a lock nobody holds
    MaxAttempts,   \* attempts after which the schedule is past max_age
    SpoolCanFail,  \* whether remove_from_spool may return an error
    ConfigCanFail, \* whether get_queue_config may fail
    ReceivedDirty  \* the needs_save values a message may arrive with

ASSUME /\ QueueOf \in [Msgs -> Queues]
       /\ MaxAttempts \in Nat \ {0}
       /\ SpoolCanFail \in BOOLEAN
       /\ ConfigCanFail \in BOOLEAN
       /\ ReceivedDirty \subseteq BOOLEAN /\ ReceivedDirty # {}

\* Where a message is.
Loc == {"ingress",  \* with the reception task
        "requeue",  \* with a Dispatcher::requeue_message task
        "heap",     \* in its queue's TimeQ
        "popped",   \* popped by the maintainer, not yet routed
        "site",     \* in the site layer
        "expired",  \* removed from the spool as too old
        "done",     \* delivered or bounced by the site layer
        "rejected", \* reception was given the error (out of the core)
        "lost"}     \* still in the spool but held by nobody in memory

\* Program counter of the task that carries a message into its queue.
TPc == {"none", "wantQM", "resolve", "wantQ", "insert"}

\* Program counter of a queue's maintainer task.
MPc == {"gone",   \* no maintainer: the queue is not registered
        "sleep",  \* tokio::time::sleep
        "wantQ",  \* waiting for the queue lock
        "items",  \* routing popped messages, holding the queue lock
        "wantQM", \* Empty: waiting for the manager lock, holding the queue lock
        "dead"}   \* returned an error; the queue stays registered

VARIABLES
    named,     \* QueueManager.named: registered queue names
    mpc,       \* maintainer program counters
    qmHolder,  \* holder of the QueueManager mutex
    qHolder,   \* holder of each Queue mutex
    loc,       \* where each message is
    tpc,       \* program counter of the task carrying each message
    incr,      \* the requeue task's increment_attempts
    attempts,  \* num_attempts of each message
    due,       \* the message's due time has passed
    aged,      \* the message's age has reached max_age
    dirty,     \* the message's needs_save
    idleQ      \* the queue's last_change is older than 10 minutes

vars == <<named, mpc, qmHolder, qHolder, loc, tpc, incr, attempts, due, aged,
          dirty, idleQ>>

Holders == Msgs \cup Queues \cup {NoHolder}

InQueue(q, where) == {m \in Msgs : QueueOf[m] = q /\ loc[m] = where}

-----------------------------------------------------------------------------
(* Queue::insert and its helpers, as state transformers on one message *)

\* insert_delayed for a message not yet due, followed by did_insert_delayed:
\* the message goes on the heap and, if it needs saving (d), is saved; a
\* failed save is only logged.
Delay(m, d) ==
    /\ loc' = [loc EXCEPT ![m] = "heap"]
    /\ due' = [due EXCEPT ![m] = FALSE]
    /\ \E saveOk \in BOOLEAN :
         /\ saveOk \/ SpoolCanFail
         /\ dirty' = [dirty EXCEPT ![m] = d /\ ~saveOk]

(***************************************************************************)
(* Queue::insert, after last_change was touched: the delay computed by the *)
(* caller may already have passed (isDue), in which case insert_ready      *)
(* hands the message to the site layer unsaved, and on "no room" or a      *)
(* resolve error force_into_delayed puts it on the heap instead.           *)
(***************************************************************************)
QueueInsert(m, d) ==
    \E isDue \in BOOLEAN :
        \/ ~isDue /\ Delay(m, d)
        \/ /\ isDue
           /\ \/ /\ loc' = [loc EXCEPT ![m] = "site"]
                 /\ dirty' = [dirty EXCEPT ![m] = d]
                 /\ UNCHANGED due
              \/ Delay(m, d)

-----------------------------------------------------------------------------
(* Tasks carrying a message to its queue *)

\* QueueManager::get: lock the manager.
AcquireManager(m) ==
    /\ tpc[m] = "wantQM"
    /\ qmHolder = NoHolder
    /\ qmHolder' = m
    /\ tpc' = [tpc EXCEPT ![m] = "resolve"]
    /\ UNCHANGED <<named, mpc, qHolder, loc, incr, attempts, due, aged, dirty, idleQ>>

\* Mutant of Resolve: the queue is registered without spawning a maintainer.
ResolveNoMaintainer(m) ==
    LET q == QueueOf[m] IN
    /\ tpc[m] = "resolve"
    /\ named' = named \cup {q}
    /\ idleQ' = [idleQ EXCEPT ![q] = FALSE]
    /\ tpc' = [tpc EXCEPT ![m] = "wantQ"]
    /\ UNCHANGED <<mpc, qmHolder, loc, qHolder, incr, attempts, due, aged, dirty>>

(***************************************************************************)
(* QueueManager::resolve: an existing handle, or Queue::new, which calls   *)
(* get_queue_config and spawns the maintainer.  A failing callback fails   *)
(* the call and the manager lock is released: reception is handed the      *)
(* error, a requeue task drops the message it was given.                   *)
(***************************************************************************)
Resolve(m) ==
    LET q == QueueOf[m] IN
    /\ tpc[m] = "resolve"
    /\ \/ /\ q \in named
          /\ tpc' = [tpc EXCEPT ![m] = "wantQ"]
          /\ UNCHANGED <<named, mpc, qmHolder, loc, idleQ>>
       \/ /\ q \notin named
          /\ named' = named \cup {q}
          /\ mpc' = [mpc EXCEPT ![q] = "sleep"]
          /\ idleQ' = [idleQ EXCEPT ![q] = FALSE]
          /\ tpc' = [tpc EXCEPT ![m] = "wantQ"]
          /\ UNCHANGED <<qmHolder, loc>>
       \/ /\ q \notin named
          /\ ConfigCanFail
          /\ qmHolder' = NoHolder
          /\ tpc' = [tpc EXCEPT ![m] = "none"]
          /\ loc' = [loc EXCEPT ![m] = IF @ = "ingress" THEN "rejected" ELSE "lost"]
          /\ UNCHANGED <<named, mpc, idleQ>>
    /\ UNCHANGED <<qHolder, incr, attempts, due, aged, dirty>>

\* entry.lock().await, with the manager lock still held.
AcquireQueue(m) ==
    LET q == QueueOf[m] IN
    /\ tpc[m] = "wantQ"
    /\ qHolder[q] = NoHolder
    /\ qHolder' = [qHolder EXCEPT ![q] = m]
    /\ tpc' = [tpc EXCEPT ![m] = "insert"]
    /\ UNCHANGED <<named, mpc, qmHolder, loc, incr, attempts, due, aged, dirty, idleQ>>

\* Mutant of InsertLocked: requeue without increment_attempts returns
\* before inserting the message.
InsertLockedSkipsJitterInsert(m) ==
    LET q == QueueOf[m] IN
    /\ tpc[m] = "insert"
    /\ tpc' = [tpc EXCEPT ![m] = "none"]
    /\ qmHolder' = NoHolder
    /\ qHolder' = [qHolder EXCEPT ![q] = NoHolder]
    /\ idleQ' = [idleQ EXCEPT ![q] = FALSE]
    /\ IF loc[m] = "requeue" /\ ~incr[m]
         THEN loc' = [loc EXCEPT ![m] = "lost"] /\ UNCHANGED <<due, dirty>>
         ELSE QueueInsert(m, dirty[m] \/ loc[m] = "requeue")
    /\ UNCHANGED <<named, mpc, incr, attempts, aged>>

\* Mutant of InsertLocked: expiry only by age, never by the attempt count.
InsertLockedNoAttemptCap(m) ==
    LET q == QueueOf[m] IN
    /\ tpc[m] = "insert"
    /\ tpc' = [tpc EXCEPT ![m] = "none"]
    /\ qmHolder' = NoHolder
    /\ qHolder' = [qHolder EXCEPT ![q] = NoHolder]
    /\ idleQ' = [idleQ EXCEPT ![q] = FALSE]
    /\ IF loc[m] = "requeue" /\ incr[m]
         THEN /\ attempts' = [attempts EXCEPT ![m] = @ + 1]
              /\ IF aged[m] THEN loc' = [loc EXCEPT ![m] = "expired"] /\ UNCHANGED <<due, dirty>>
                            ELSE QueueInsert(m, TRUE)
         ELSE /\ QueueInsert(m, dirty[m] \/ loc[m] = "requeue")
              /\ UNCHANGED attempts
    /\ UNCHANGED <<named, mpc, incr, aged>>

(***************************************************************************)
(* Queue::insert for reception, or Queue::requeue_message for a requeue:   *)
(* with increment_attempts the attempt count goes up and a message whose   *)
(* next delay would take it past max_age is removed from the spool (a      *)
(* failed removal returns the error and the message is gone from memory);  *)
(* delay_by and delay_with_jitter change its metadata, so a requeued       *)
(* message needs a save.  Both locks are released at the end.              *)
(***************************************************************************)
InsertLocked(m) ==
    LET q == QueueOf[m] IN
    /\ tpc[m] = "insert"
    /\ tpc' = [tpc EXCEPT ![m] = "none"]
    /\ qmHolder' = NoHolder
    /\ qHolder' = [qHolder EXCEPT ![q] = NoHolder]
    /\ idleQ' = [idleQ EXCEPT ![q] = FALSE]
    /\ IF loc[m] = "requeue" /\ incr[m]
         THEN LET n == attempts[m] + 1 IN
              /\ attempts' = [attempts EXCEPT ![m] = n]
              /\ \E expire \in BOOLEAN :
                   /\ (n >= MaxAttempts \/ aged[m]) => expire
                   /\ IF expire
                        THEN /\ \E ok \in BOOLEAN :
                                  /\ ok \/ SpoolCanFail
                                  /\ loc' = [loc EXCEPT ![m] = IF ok THEN "expired" ELSE "lost"]
                             /\ UNCHANGED <<due, dirty>>
                        ELSE /\ QueueInsert(m, TRUE)
         ELSE /\ QueueInsert(m, dirty[m] \/ loc[m] = "requeue")
              /\ UNCHANGED attempts
    /\ UNCHANGED <<named, mpc, incr, aged>>

-----------------------------------------------------------------------------
(* The maintainer task of a queue (maintain_named_queue) *)

\* tokio::time::sleep(sleep_duration) returns.
MaintainerWake(q) ==
    /\ mpc[q] = "sleep"
    /\ mpc' = [mpc EXCEPT ![q] = "wantQ"]
    /\ UNCHANGED <<named, qmHolder, qHolder, loc, tpc, incr, attempts, due, aged, dirty, idleQ>>

\* Mutant of MaintainerPop: Empty taken whenever nothing is due.
MaintainerPopNoEmptyCheck(q) ==
    LET ready == {m \in InQueue(q, "heap") : due[m]} IN
    /\ mpc[q] = "wantQ"
    /\ qHolder[q] = NoHolder
    /\ \/ /\ ready # {}
          /\ loc' = [m \in Msgs |-> IF m \in ready THEN "popped" ELSE loc[m]]
          /\ mpc' = [mpc EXCEPT ![q] = "items"]
          /\ qHolder' = [qHolder EXCEPT ![q] = q]
       \/ /\ ready = {}
          /\ qHolder' = [qHolder EXCEPT ![q] = q]
          /\ mpc' = [mpc EXCEPT ![q] = "wantQM"]
          /\ UNCHANGED loc
    /\ UNCHANGED <<named, qmHolder, tpc, incr, attempts, due, aged, dirty, idleQ>>

(***************************************************************************)
(* queue.lock().await and queue.pop().  Items: the due messages are taken  *)
(* off the heap and, when resolve_domain succeeds, routed one at a time    *)
(* with the queue lock held; when it fails each is forced back into the    *)
(* heap (force_into_delayed) and the lock released.  Sleep: nothing is due *)
(* and the lock is released.  Empty: the lock is kept while the manager    *)
(* lock is awaited.                                                        *)
(***************************************************************************)
MaintainerPop(q) ==
    LET heap  == InQueue(q, "heap")
        ready == {m \in heap : due[m]}
    IN
    /\ mpc[q] = "wantQ"
    /\ qHolder[q] = NoHolder
    /\ \/ /\ ready # {}
          /\ \/ /\ loc' = [m \in Msgs |-> IF m \in ready THEN "popped" ELSE loc[m]]
                /\ mpc' = [mpc EXCEPT ![q] = "items"]
                /\ qHolder' = [qHolder EXCEPT ![q] = q]
                /\ UNCHANGED <<due, dirty>>
             \/ /\ due' = [m \in Msgs |-> IF m \in ready THEN FALSE ELSE due[m]]
                /\ \E failed \in SUBSET ready :
                     /\ failed = {} \/ SpoolCanFail
                     /\ dirty' = [m \in Msgs |-> IF m \in ready THEN dirty[m] /\ m \in failed
                                                               ELSE dirty[m]]
                /\ mpc' = [mpc EXCEPT ![q] = "sleep"]
                /\ UNCHANGED <<loc, qHolder>>
       \/ /\ ready = {} /\ heap # {}
          /\ mpc' = [mpc EXCEPT ![q] = "sleep"]
          /\ UNCHANGED <<loc, qHolder, due, dirty>>
       \/ /\ heap = {}
          /\ qHolder' = [qHolder EXCEPT ![q] = q]
          /\ mpc' = [mpc EXCEPT ![q] = "wantQM"]
          /\ UNCHANGED <<loc, due, dirty>>
    /\ UNCHANGED <<named, qmHolder, tpc, incr, attempts, aged, idleQ>>

(***************************************************************************)
(* One popped message: one that reached max_age is removed from the spool, *)
(* and a failed removal returns the error out of the loop, ending the      *)
(* maintainer with the rest of the popped batch dropped from memory and    *)
(* the queue still registered.  Any other goes to site.insert, and on      *)
(* "no room" back into the heap, saved if it needs it.                     *)
(***************************************************************************)
MaintainerRoute(q) ==
    /\ mpc[q] = "items"
    /\ \E m \in InQueue(q, "popped") :
         \/ /\ aged[m]
            /\ loc' = [loc EXCEPT ![m] = "expired"]
            /\ UNCHANGED <<mpc, qHolder, due, dirty>>
         \/ /\ aged[m]
            /\ SpoolCanFail
            /\ loc' = [x \in Msgs |-> IF loc[x] = "popped" /\ QueueOf[x] = q
                                        THEN "lost" ELSE loc[x]]
            /\ mpc' = [mpc EXCEPT ![q] = "dead"]
            /\ qHolder' = [qHolder EXCEPT ![q] = NoHolder]
            /\ UNCHANGED <<due, dirty>>
         \/ /\ ~aged[m]
            /\ loc' = [loc EXCEPT ![m] = "site"]
            /\ UNCHANGED <<mpc, qHolder, due, dirty>>
         \/ /\ ~aged[m]
            /\ Delay(m, dirty[m])
            /\ UNCHANGED <<mpc, qHolder>>
    /\ UNCHANGED <<named, qmHolder, tpc, incr, attempts, aged, idleQ>>

\* The batch is routed: the queue lock guard goes out of scope.
MaintainerRouted(q) ==
    /\ mpc[q] = "items"
    /\ InQueue(q, "popped") = {}
    /\ mpc' = [mpc EXCEPT ![q] = "sleep"]
    /\ qHolder' = [qHolder EXCEPT ![q] = NoHolder]
    /\ UNCHANGED <<named, qmHolder, loc, tpc, incr, attempts, due, aged, dirty, idleQ>>

(***************************************************************************)
(* Empty: QueueManager::get().await with the queue lock held; a queue      *)
(* whose last_change is older than 10 minutes removes itself from the      *)
(* manager and the task returns.  Both guards are dropped either way.      *)
(***************************************************************************)
MaintainerIdleCheck(q) ==
    /\ mpc[q] = "wantQM"
    /\ qmHolder = NoHolder
    /\ named' = IF idleQ[q] THEN named \ {q} ELSE named
    /\ mpc' = [mpc EXCEPT ![q] = IF idleQ[q] THEN "gone" ELSE "sleep"]
    /\ qHolder' = [qHolder EXCEPT ![q] = NoHolder]
    /\ UNCHANGED <<qmHolder, loc, tpc, incr, attempts, due, aged, dirty, idleQ>>

-----------------------------------------------------------------------------
(* Environment: the site layer and the passage of time *)

\* A heap entry's due time passes.
BecomeDue(m) ==
    /\ loc[m] = "heap" /\ ~due[m]
    /\ due' = [due EXCEPT ![m] = TRUE]
    /\ UNCHANGED <<named, mpc, qmHolder, qHolder, loc, tpc, incr, attempts, aged, dirty, idleQ>>

\* A message's age reaches max_age.
Age(m) ==
    /\ ~aged[m]
    /\ loc[m] \in {"ingress", "requeue", "heap", "popped", "site"}
    /\ aged' = [aged EXCEPT ![m] = TRUE]
    /\ UNCHANGED <<named, mpc, qmHolder, qHolder, loc, tpc, incr, attempts, due, dirty, idleQ>>

\* Ten minutes pass without an insert into a registered queue.
QueueIdles(q) ==
    /\ q \in named /\ ~idleQ[q]
    /\ idleQ' = [idleQ EXCEPT ![q] = TRUE]
    /\ UNCHANGED <<named, mpc, qmHolder, qHolder, loc, tpc, incr, attempts, due, aged, dirty>>

(***************************************************************************)
(* The site layer finishes with a message (delivered or bounced), or hands *)
(* it back through Dispatcher::requeue_message: after a 4xx with           *)
(* increment_attempts, from a dropped dispatcher without.                  *)
(***************************************************************************)
SiteDone(m) ==
    /\ loc[m] = "site"
    /\ loc' = [loc EXCEPT ![m] = "done"]
    /\ UNCHANGED <<named, mpc, qmHolder, qHolder, tpc, incr, attempts, due, aged, dirty, idleQ>>

SiteRequeue(m) ==
    /\ loc[m] = "site"
    /\ loc' = [loc EXCEPT ![m] = "requeue"]
    /\ tpc' = [tpc EXCEPT ![m] = "wantQM"]
    /\ \E i \in BOOLEAN : incr' = [incr EXCEPT ![m] = i]
    /\ UNCHANGED <<named, mpc, qmHolder, qHolder, attempts, due, aged, dirty, idleQ>>

-----------------------------------------------------------------------------
(***************************************************************************)
(* Reception has accepted every message and its task is about to call     *)
(* QueueManager::get; whether reception saved the message first is not    *)
(* in the core, so needs_save is any value ReceivedDirty allows.          *)
(***************************************************************************)
Init ==
    /\ named = {}
    /\ mpc = [q \in Queues |-> "gone"]
    /\ qmHolder = NoHolder
    /\ qHolder = [q \in Queues |-> NoHolder]
    /\ loc = [m \in Msgs |-> "ingress"]
    /\ tpc = [m \in Msgs |-> "wantQM"]
    /\ incr = [m \in Msgs |-> FALSE]
    /\ attempts = [m \in Msgs |-> 0]
    /\ due = [m \in Msgs |-> FALSE]
    /\ aged = [m \in Msgs |-> FALSE]
    /\ dirty \in [Msgs -> ReceivedDirty]
    /\ idleQ = [q \in Queues |-> FALSE]

TaskStep(m) == AcquireManager(m) \/ Resolve(m) \/ AcquireQueue(m) \/ InsertLocked(m)

MaintainerStep(q) ==
    \/ MaintainerWake(q) \/ MaintainerPop(q) \/ MaintainerRoute(q)
    \/ MaintainerRouted(q) \/ MaintainerIdleCheck(q)

Environment ==
    \/ \E m \in Msgs : BecomeDue(m) \/ Age(m) \/ SiteDone(m) \/ SiteRequeue(m)
    \/ \E q \in Queues : QueueIdles(q)

Next ==
    \/ \E m \in Msgs : TaskStep(m)
    \/ \E q \in Queues : MaintainerStep(q)
    \/ Environment

(***************************************************************************)
(* Tokio runs every ready task, and its Mutex is fair (FIFO), so a task    *)
(* waiting for a lock that is released again and again gets it.  A task or *)
(* maintainer has one step enabled at a time, and only a lock acquisition  *)
(* can be disabled by another actor, so strong fairness on its whole step  *)
(* is that guarantee.  The sleep timer fires and due times pass.  The site *)
(* layer and ageing get no fairness.                                       *)
(***************************************************************************)
Fairness ==
    /\ \A m \in Msgs : SF_vars(TaskStep(m)) /\ WF_vars(BecomeDue(m))
    /\ \A q \in Queues : SF_vars(MaintainerStep(q))

Spec == Init /\ [][Next]_vars /\ Fairness

-----------------------------------------------------------------------------
(* Properties *)

TypeOK ==
    /\ named \subseteq Queues
    /\ mpc \in [Queues -> MPc]
    /\ qmHolder \in Holders
    /\ qHolder \in [Queues -> Holders]
    /\ loc \in [Msgs -> Loc]
    /\ tpc \in [Msgs -> TPc]
    /\ incr \in [Msgs -> BOOLEAN]
    /\ attempts \in [Msgs -> 0..MaxAttempts]
    /\ due \in [Msgs -> BOOLEAN]
    /\ aged \in [Msgs -> BOOLEAN]
    /\ dirty \in [Msgs -> BOOLEAN]
    /\ idleQ \in [Queues -> BOOLEAN]

\* The actor each actor is blocked on: a task waiting for the manager or
\* its queue's lock, a maintainer waiting for its queue's or the manager lock.
WaitsFor(a, b) ==
    \/ a \in Msgs /\ tpc[a] = "wantQM" /\ qmHolder = b
    \/ a \in Msgs /\ tpc[a] = "wantQ" /\ qHolder[QueueOf[a]] = b
    \/ a \in Queues /\ mpc[a] = "wantQ" /\ qHolder[a] = b
    \/ a \in Queues /\ mpc[a] = "wantQM" /\ qmHolder = b

\* Two actors each wait for a lock the other holds.
Deadlocked == \E a, b \in Msgs \cup Queues : WaitsFor(a, b) /\ WaitsFor(b, a)

(***************************************************************************)
(* No two tasks wait on each other: the reception and requeue tasks take   *)
(* the QueueManager lock and then a Queue lock, and the maintainer's Empty *)
(* branch must not take them in the other order.                           *)
(***************************************************************************)
NoLockOrderCycle == ~Deadlocked

(***************************************************************************)
(* A queue the maintainer removed from the manager took no messages with   *)
(* it: nothing of an unregistered queue is on a heap or in a popped batch, *)
(* and a registered queue has its maintainer (alive or ended by an error). *)
(***************************************************************************)
ReapedQueueEmpty ==
    \A q \in Queues :
        /\ q \notin named => InQueue(q, "heap") \cup InQueue(q, "popped") = {}
        /\ (q \in named) <=> (mpc[q] # "gone")

(***************************************************************************)
(* Unless the tasks deadlock on the two locks, a message that is due on a *)
(* heap is eventually popped by the maintainer of its queue.              *)
(***************************************************************************)
DueEventuallyPopped ==
    []~Deadlocked =>
        \A m \in Msgs : (loc[m] = "heap" /\ due[m]) ~> ~(loc[m] = "heap" /\ due[m])

(***************************************************************************)
(* Unless the tasks deadlock, a message the site layer hands back through  *)
(* Dispatcher::requeue_message ends up on a heap, in a site or expired.    *)
(***************************************************************************)
RequeueEventuallyQueued ==
    []~Deadlocked =>
        \A m \in Msgs : loc[m] = "requeue" ~> loc[m] \in {"heap", "site", "expired"}
=============================================================================
