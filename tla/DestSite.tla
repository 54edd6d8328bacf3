------------------------------ MODULE DestSite ------------------------------
(***************************************************************************)
(* The destination-site layer of kumod (src/crates/kumod/src/dest_site.rs): *)
(* the SiteManager registry, DestinationSite (its bounded ready ring, the  *)
(* handles of its dispatcher tasks and its idle reaper task) and the       *)
(* Dispatcher task that pops the ring and delivers over one connection.    *)
(*                                                                         *)
(* The queue layer is the environment: a message owned by the queue side  *)
(* ("queue") is routed by resolve_domain, which hands the caller a site    *)
(* handle, and later inserted into that site under the site lock.  A       *)
(* message leaves the site layer by delivery, permanent failure, or a      *)
(* requeue back to the queue side.  Site handles are the indices           *)
(* 1..MaxSites; an index is reused once nothing refers to the old site     *)
(* object, as its memory is.                                               *)
(***************************************************************************)
EXTENDS Integers, Sequences, FiniteSets, ConnShaping

CONSTANTS
    Msgs,            \* message ids
    Dispatchers,     \* dispatcher task ids
    NoMsg,           \* model value: a dispatcher holds no message
    MaxSites,        \* site objects that may exist at once for the site key
    MaxReady,        \* DestSiteConfig.max_ready: ring capacity
    ConnectionLimit, \* DestSiteConfig.connection_limit
    MaxAddrs,        \* most addresses resolve_addresses yields
    EnableTls,       \* DestSiteConfig.enable_tls
    SendOutcomes,    \* outcomes send_mail can have on an open connection
    SpoolCanFail     \* whether spool load/remove may return an error

TlsPolicies == {"Opportunistic", "OpportunisticInsecure", "Required",
                "RequiredInsecure", "Disabled"}

ASSUME /\ MaxSites \in Nat \ {0}
       /\ MaxReady \in Nat \ {0}
       /\ ConnectionLimit \in Nat
       /\ MaxAddrs \in Nat
       /\ EnableTls \in TlsPolicies
       /\ SendOutcomes \subseteq {"ok", "transient", "permanent", "io"}
       /\ SpoolCanFail \in BOOLEAN

Sites == 1..MaxSites
NoSite == 0

\* Program counter of a dispatcher task.
DPc == {"free",       \* no task with this id
        "resolve",    \* spawned, resolving the MX addresses
        "first",      \* about to claim its first message
        "loop",       \* at the top of the loop: wait_for_message
        "arming",     \* obtain_message found nothing; notified() not yet created
        "waiting",    \* waiting on the notifier or the idle timeout
        "connect",    \* attempt_connection
        "deliver",    \* deliver_message
        "exiting",    \* run has returned; the task is not finished yet
        "done"}       \* JoinHandle::is_finished() is true

\* Who owns a message outside the site's ring and dispatchers.
MState == {"queue", "routing", "site", "dropping", "delivered", "bounced"}

VARIABLES
    registered,   \* SiteManager.sites[name]: the registered site, or NoSite
    ring,         \* DestinationSite.ready of each site object
    conns,        \* DestinationSite.connections: ids of its spawned tasks
    idle,         \* last_change of the site is older than 10 minutes
    reaper,       \* the site's idle-reaper task is running
    gauge,        \* connection_gauge of the site
    dpc,          \* dispatcher program counters
    dsite,        \* site object a dispatcher was spawned by
    held,         \* Dispatcher.msg
    client,       \* Dispatcher.client: "none", "open" or "broken"
    addrs,        \* Dispatcher.addresses not yet tried
    woken,        \* dispatchers whose Notified future notify_waiters has woken
    mstate,       \* who owns each message (see MState)
    handle        \* the site handle a routing queue task holds

siteVars == <<registered, ring, conns, idle, reaper, gauge>>
dispVars == <<dpc, dsite, held, client, addrs, woken>>
vars == <<siteVars, dispVars, mstate, handle>>

-----------------------------------------------------------------------------
(* Helpers *)

InRing(m) == \E s \in Sites : \E i \in 1..Len(ring[s]) : ring[s][i] = m

FreeIds == {d \in Dispatchers : dpc[d] = "free"}

\* A site object is unreachable, so its index can be reused.
Unreferenced(s) ==
    /\ s # registered
    /\ ring[s] = <<>>
    /\ conns[s] = {}
    /\ \A d \in Dispatchers : dsite[d] # s
    /\ \A m \in Msgs : handle[m] # s

\* DestinationSite::ideal_connection_count for a ring of length n.
Ideal(n) == IdealConnectionCount(n, ConnectionLimit)

(***************************************************************************)
(* DestinationSite::maintain with the ring already at length n: drop the   *)
(* handles of finished tasks, then spawn dispatchers until there are       *)
(* Ideal(n) handles.  The new tasks start in "resolve".  Should the model's *)
(* pool of task ids run out, fewer are spawned; the configurations size    *)
(* the pool so that this never happens.                                    *)
(***************************************************************************)
Maintain(s, n) ==
    LET live   == {d \in conns[s] : dpc[d] # "done"}
        pruned == conns[s] \ live
        want   == Ideal(n) - Cardinality(live)
        ids    == FreeIds \cup pruned
        spawn  == IF want > Cardinality(ids) THEN Cardinality(ids) ELSE want
    IN  \E new \in SUBSET ids :
          /\ Cardinality(new) = IF spawn > 0 THEN spawn ELSE 0
          /\ conns' = [conns EXCEPT ![s] = live \cup new]
          /\ dpc' = [d \in Dispatchers |->
                       IF d \in new THEN "resolve"
                       ELSE IF d \in pruned THEN "free" ELSE dpc[d]]
          /\ dsite' = [d \in Dispatchers |->
                         IF d \in new THEN s
                         ELSE IF d \in pruned THEN NoSite ELSE dsite[d]]

\* DestinationSite::reapable, evaluated after maintain.
Reapable(s, n) == Ideal(n) = 0 /\ idle[s]

-----------------------------------------------------------------------------
(* Queue side: SiteManager::resolve_domain and DestinationSite::insert *)

(***************************************************************************)
(* resolve_domain: look the site key up in the registry, or construct a    *)
(* site object, register it and spawn its reaper.  The caller gets the     *)
(* handle and releases the registry lock before it locks the site.  A      *)
(* failed MX lookup leaves the message with the queue, which re-delays it. *)
(***************************************************************************)
ResolveDomain(m) ==
    /\ mstate[m] = "queue"
    /\ \/ /\ registered # NoSite
          /\ handle' = [handle EXCEPT ![m] = registered]
          /\ UNCHANGED siteVars
       \/ /\ registered = NoSite
          /\ \E s \in Sites :
               /\ Unreferenced(s)
               /\ registered' = s
               /\ idle' = [idle EXCEPT ![s] = FALSE]
               /\ reaper' = [reaper EXCEPT ![s] = TRUE]
               /\ handle' = [handle EXCEPT ![m] = s]
          /\ UNCHANGED <<ring, conns, gauge>>
    /\ mstate' = [mstate EXCEPT ![m] = "routing"]
    /\ UNCHANGED dispVars

\* Mutant of SiteInsert: the push ignores the ring's capacity.
SiteInsertNoCapacity(m) ==
    LET s == handle[m] IN
    /\ mstate[m] = "routing"
    /\ handle' = [handle EXCEPT ![m] = NoSite]
    /\ ring' = [ring EXCEPT ![s] = Append(@, m)]
    /\ Maintain(s, Len(ring[s]) + 1)
    /\ idle' = [idle EXCEPT ![s] = FALSE]
    /\ mstate' = [mstate EXCEPT ![m] = "site"]
    /\ UNCHANGED <<registered, reaper, gauge, held, client, addrs, woken>>

(***************************************************************************)
(* DestinationSite::insert, under the site lock of the handle the queue    *)
(* task holds: push to the ring (a full ring hands the message back to the *)
(* queue, which re-delays it), wake waiters, maintain, touch last_change.  *)
(* notify_waiters wakes only the Notified futures that already exist: a    *)
(* dispatcher between its failed pop and notified() is not woken.          *)
(***************************************************************************)
SiteInsert(m) ==
    LET s == handle[m] IN
    /\ mstate[m] = "routing"
    /\ handle' = [handle EXCEPT ![m] = NoSite]
    /\ \/ /\ Len(ring[s]) < MaxReady
          /\ ring' = [ring EXCEPT ![s] = Append(@, m)]
          /\ woken' = woken \cup {d \in Dispatchers : dpc[d] = "waiting" /\ dsite[d] = s}
          /\ Maintain(s, Len(ring[s]) + 1)
          /\ idle' = [idle EXCEPT ![s] = FALSE]
          /\ mstate' = [mstate EXCEPT ![m] = "site"]
       \/ /\ Len(ring[s]) = MaxReady
          /\ mstate' = [mstate EXCEPT ![m] = "queue"]
          /\ UNCHANGED <<ring, idle, conns, dpc, dsite, woken>>
    /\ UNCHANGED <<registered, reaper, gauge, held, client, addrs>>

\* Ten minutes pass without an insert into site s.
IdleElapses(s) ==
    /\ reaper[s]
    /\ ~idle[s]
    /\ idle' = [idle EXCEPT ![s] = TRUE]
    /\ UNCHANGED <<registered, ring, conns, reaper, gauge, dispVars, mstate, handle>>

\* Mutant of ReaperTick: reapable no longer calls maintain.
ReaperTickNoMaintain(s) ==
    /\ reaper[s]
    /\ registered = s
    /\ IF Reapable(s, Len(ring[s])) /\ {d \in conns[s] : dpc[d] # "done"} = {}
         THEN /\ registered' = NoSite
              /\ reaper' = [reaper EXCEPT ![s] = FALSE]
         ELSE UNCHANGED <<registered, reaper>>
    /\ UNCHANGED <<ring, conns, idle, gauge, dispVars, mstate, handle>>

(***************************************************************************)
(* One round of the reaper loop spawned by resolve_domain: look the site   *)
(* up by name under the registry lock, lock it, run reapable (which calls  *)
(* maintain) and unregister it when reapable.                              *)
(***************************************************************************)
ReaperTick(s) ==
    /\ reaper[s]
    /\ registered = s
    /\ Maintain(s, Len(ring[s]))
    /\ IF Reapable(s, Len(ring[s])) /\ conns'[s] = {}
         THEN /\ registered' = NoSite
              /\ reaper' = [reaper EXCEPT ![s] = FALSE]
         ELSE UNCHANGED <<registered, reaper>>
    /\ UNCHANGED <<ring, idle, gauge, held, client, addrs, woken, mstate, handle>>

-----------------------------------------------------------------------------
(* Dispatcher task *)

\* Mutant of Exit: Drop forgets to decrement the gauge.
ExitKeepsGauge(d) ==
    /\ dpc' = [dpc EXCEPT ![d] = "exiting"]
    /\ held' = [held EXCEPT ![d] = NoMsg]
    /\ client' = [client EXCEPT ![d] = "none"]
    /\ gauge' = gauge
    /\ mstate' = IF held[d] # NoMsg
                   THEN [mstate EXCEPT ![held[d]] = "dropping"] ELSE mstate

\* The dispatcher returns from run: Drop re-queues a held message through
\* a spawned task and decrements the gauge if a client is open.
Exit(d) ==
    /\ dpc' = [dpc EXCEPT ![d] = "exiting"]
    /\ held' = [held EXCEPT ![d] = NoMsg]
    /\ client' = [client EXCEPT ![d] = "none"]
    /\ gauge' = IF client[d] # "none"
                  THEN [gauge EXCEPT ![dsite[d]] = @ - 1] ELSE gauge
    /\ mstate' = IF held[d] # NoMsg
                   THEN [mstate EXCEPT ![held[d]] = "dropping"] ELSE mstate

\* Mutant of PopReady: the head is read but left in the ring.
PopReadyPeek(d) ==
    LET s == dsite[d] IN
    /\ ring[s] # <<>>
    /\ held' = [held EXCEPT ![d] = Head(ring[s])]
    /\ ring' = ring

\* Mutant of PopReady: the newest message is popped instead of the oldest.
PopReadyLast(d) ==
    LET s == dsite[d] IN
    /\ ring[s] # <<>>
    /\ held' = [held EXCEPT ![d] = ring[s][Len(ring[s])]]
    /\ ring' = [ring EXCEPT ![s] = SubSeq(@, 1, Len(@) - 1)]

\* Dispatcher::obtain_message: pop the head of the ring into held.
PopReady(d) ==
    LET s == dsite[d] IN
    /\ ring[s] # <<>>
    /\ held' = [held EXCEPT ![d] = Head(ring[s])]
    /\ ring' = [ring EXCEPT ![s] = Tail(@)]

\* Dispatcher::run up to the loop: resolve_addresses may drop hosts whose
\* lookup fails, so any number of addresses up to MaxAddrs can result.
ResolveAddresses(d) ==
    /\ dpc[d] = "resolve"
    /\ \E n \in 0..MaxAddrs : addrs' = [addrs EXCEPT ![d] = n]
    /\ dpc' = [dpc EXCEPT ![d] = "first"]
    /\ UNCHANGED <<siteVars, dsite, held, client, woken, mstate, handle>>

\* The first obtain_message: with nothing to claim, return at once.
ObtainFirst(d) ==
    /\ dpc[d] = "first"
    /\ \/ /\ PopReady(d)
          /\ dpc' = [dpc EXCEPT ![d] = "loop"]
       \/ /\ ring[dsite[d]] = <<>>
          /\ dpc' = [dpc EXCEPT ![d] = "exiting"]
          /\ UNCHANGED <<held, ring>>
    /\ UNCHANGED <<registered, conns, idle, reaper, gauge, dsite, client, addrs,
                   woken, mstate, handle>>

\* wait_for_message: a held or poppable message goes on to connect;
\* otherwise the pop found the ring empty and the notifier is next.
WaitForMessage(d) ==
    /\ dpc[d] = "loop"
    /\ \/ /\ held[d] # NoMsg
          /\ dpc' = [dpc EXCEPT ![d] = "connect"]
          /\ UNCHANGED <<held, ring>>
       \/ /\ held[d] = NoMsg
          /\ PopReady(d)
          /\ dpc' = [dpc EXCEPT ![d] = "connect"]
       \/ /\ held[d] = NoMsg
          /\ ring[dsite[d]] = <<>>
          /\ dpc' = [dpc EXCEPT ![d] = "arming"]
          /\ UNCHANGED <<held, ring>>
    /\ UNCHANGED <<registered, conns, idle, reaper, gauge, dsite, client, addrs,
                   woken, mstate, handle>>

\* timeout(idle_timeout, notify.notified()) creates the Notified future;
\* from here notify_waiters wakes it.
AwaitNotified(d) ==
    /\ dpc[d] = "arming"
    /\ dpc' = [dpc EXCEPT ![d] = "waiting"]
    /\ woken' = woken \ {d}
    /\ UNCHANGED <<siteVars, dsite, held, client, addrs, mstate, handle>>

WakeUp(d) ==
    /\ dpc[d] = "waiting"
    /\ \/ /\ PopReady(d)
          /\ dpc' = [dpc EXCEPT ![d] = "connect"]
          /\ UNCHANGED <<gauge, client, mstate>>
       \/ /\ ring[dsite[d]] = <<>>
          /\ Exit(d)
          /\ UNCHANGED ring
    /\ woken' = woken \ {d}
    /\ UNCHANGED <<registered, conns, idle, reaper, dsite, addrs, handle>>

\* attempt_connection's STARTTLS decision: "plain", "starttls" or "fail".
TlsDecision(policy, hasTls) ==
    CASE policy \in {"Required", "RequiredInsecure"} /\ ~hasTls -> "fail"
      [] policy = "Disabled" \/ ~hasTls                          -> "plain"
      [] OTHER                                                   -> "starttls"

(***************************************************************************)
(* attempt_connection and the error handling around it in run.  An open    *)
(* client (even a broken one) is reused.  Otherwise the gauge goes up, the *)
(* next address is popped, and connect, banner, EHLO and STARTTLS run      *)
(* under one timeout; tcpOk is whether everything but the TLS policy       *)
(* succeeded.  On error the gauge goes down and the next address is tried, *)
(* unless none is left, in which case run returns the error.               *)
(***************************************************************************)
AttemptConnection(d) ==
    LET s == dsite[d] IN
    /\ dpc[d] = "connect"
    /\ \/ /\ client[d] # "none"
          /\ dpc' = [dpc EXCEPT ![d] = "deliver"]
          /\ UNCHANGED <<gauge, held, client, addrs, mstate>>
       \/ /\ client[d] = "none"
          /\ addrs[d] = 0
          /\ Exit(d)
          /\ UNCHANGED addrs
       \/ /\ client[d] = "none"
          /\ addrs[d] > 0
          /\ addrs' = [addrs EXCEPT ![d] = @ - 1]
          /\ \E hasTls, tcpOk \in BOOLEAN :
               IF tcpOk /\ TlsDecision(EnableTls, hasTls) # "fail"
                 THEN /\ client' = [client EXCEPT ![d] = "open"]
                      /\ gauge' = [gauge EXCEPT ![s] = @ + 1]
                      /\ dpc' = [dpc EXCEPT ![d] = "deliver"]
                      /\ UNCHANGED <<held, mstate>>
                 ELSE IF addrs[d] - 1 = 0
                        THEN Exit(d)
                        ELSE /\ dpc' = [dpc EXCEPT ![d] = "loop"]
                             /\ UNCHANGED <<gauge, held, client, mstate>>
    /\ UNCHANGED <<registered, ring, conns, idle, reaper, dsite, woken, handle>>

(***************************************************************************)
(* deliver_message.  Loading meta or data from the spool may fail, which   *)
(* returns from run with the message still held.  A 4xx takes the message  *)
(* and requeues it with an incremented attempt count; a 5xx or a success   *)
(* takes it and removes it from the spool (whose failure also returns from *)
(* run); any other error leaves message and client as they are, and the    *)
(* loop comes back to the same message over the same client.  A broken     *)
(* client fails every command with an I/O error.                           *)
(***************************************************************************)
DeliverMessage(d) ==
    LET m == held[d] IN
    /\ dpc[d] = "deliver"
    /\ \/ /\ SpoolCanFail
          /\ client[d] # "broken"
          /\ Exit(d)
       \/ LET outcomes == IF client[d] = "broken" THEN {"io"} ELSE SendOutcomes
          IN \E r \in outcomes :
               CASE r = "io" ->
                      /\ client' = [client EXCEPT ![d] = "broken"]
                      /\ dpc' = [dpc EXCEPT ![d] = "loop"]
                      /\ UNCHANGED <<gauge, held, mstate>>
                 [] r = "transient" ->
                      /\ held' = [held EXCEPT ![d] = NoMsg]
                      /\ mstate' = [mstate EXCEPT ![m] = "queue"]
                      /\ dpc' = [dpc EXCEPT ![d] = "loop"]
                      /\ UNCHANGED <<gauge, client>>
                 [] OTHER ->
                      LET fin == IF r = "ok" THEN "delivered" ELSE "bounced" IN
                      \/ /\ held' = [held EXCEPT ![d] = NoMsg]
                         /\ mstate' = [mstate EXCEPT ![m] = fin]
                         /\ dpc' = [dpc EXCEPT ![d] = "loop"]
                         /\ UNCHANGED <<gauge, client>>
                      \/ /\ SpoolCanFail
                         /\ dpc' = [dpc EXCEPT ![d] = "exiting"]
                         /\ held' = [held EXCEPT ![d] = NoMsg]
                         /\ client' = [client EXCEPT ![d] = "none"]
                         /\ gauge' = [gauge EXCEPT ![dsite[d]] = @ - 1]
                         /\ mstate' = [mstate EXCEPT ![m] = fin]
    /\ UNCHANGED <<registered, ring, conns, idle, reaper, dsite, addrs, woken, handle>>

\* The tokio task completes after run (and Drop) returned.
Finish(d) ==
    /\ dpc[d] = "exiting"
    /\ dpc' = [dpc EXCEPT ![d] = "done"]
    /\ UNCHANGED <<siteVars, dsite, held, client, addrs, woken, mstate, handle>>

\* The task Drop spawned runs Dispatcher::requeue_message(msg, false).
DropRequeue(m) ==
    /\ mstate[m] = "dropping"
    /\ mstate' = [mstate EXCEPT ![m] = "queue"]
    /\ UNCHANGED <<siteVars, dispVars, handle>>

-----------------------------------------------------------------------------

Init ==
    /\ registered = NoSite
    /\ ring = [s \in Sites |-> <<>>]
    /\ conns = [s \in Sites |-> {}]
    /\ idle = [s \in Sites |-> FALSE]
    /\ reaper = [s \in Sites |-> FALSE]
    /\ gauge = [s \in Sites |-> 0]
    /\ dpc = [d \in Dispatchers |-> "free"]
    /\ dsite = [d \in Dispatchers |-> NoSite]
    /\ held = [d \in Dispatchers |-> NoMsg]
    /\ client = [d \in Dispatchers |-> "none"]
    /\ addrs = [d \in Dispatchers |-> 0]
    /\ woken = {}
    /\ mstate = [m \in Msgs |-> "queue"]
    /\ handle = [m \in Msgs |-> NoSite]

\* Every message delivered or bounced and every task gone: nothing is left
\* to do, and the system stays put.
Quiescent ==
    /\ \A m \in Msgs : mstate[m] \in {"delivered", "bounced"}
    /\ \A d \in Dispatchers : dpc[d] \in {"free", "done"}
    /\ UNCHANGED vars

DispatcherStep(d) ==
    \/ ResolveAddresses(d) \/ ObtainFirst(d) \/ WaitForMessage(d)
    \/ AwaitNotified(d) \/ WakeUp(d) \/ AttemptConnection(d) \/ DeliverMessage(d) \/ Finish(d)

Next ==
    \/ \E m \in Msgs : ResolveDomain(m) \/ SiteInsert(m) \/ DropRequeue(m)
    \/ \E s \in Sites : IdleElapses(s) \/ ReaperTick(s)
    \/ \E d \in Dispatchers : DispatcherStep(d)
    \/ Quiescent

(***************************************************************************)
(* Fairness: dispatcher tasks, the reaper's 60 s timer, the spawned drop   *)
(* task and a queue task that already holds a site handle all keep running *)
(* on the tokio runtime.  The queue side routing a message and time        *)
(* passing are the environment and get no fairness.                        *)
(***************************************************************************)
Fairness ==
    /\ \A d \in Dispatchers : WF_vars(DispatcherStep(d))
    /\ \A s \in Sites : WF_vars(ReaperTick(s))
    /\ \A m \in Msgs : WF_vars(SiteInsert(m)) /\ WF_vars(DropRequeue(m))

Spec == Init /\ [][Next]_vars /\ Fairness

-----------------------------------------------------------------------------
(* Properties *)

TypeOK ==
    /\ registered \in Sites \cup {NoSite}
    /\ ring \in [Sites -> Seq(Msgs)]
    /\ \A s \in Sites : Len(ring[s]) <= MaxReady
    /\ conns \in [Sites -> SUBSET Dispatchers]
    /\ idle \in [Sites -> BOOLEAN]
    /\ reaper \in [Sites -> BOOLEAN]
    /\ gauge \in [Sites -> Int]
    /\ dpc \in [Dispatchers -> DPc]
    /\ dsite \in [Dispatchers -> Sites \cup {NoSite}]
    /\ held \in [Dispatchers -> Msgs \cup {NoMsg}]
    /\ client \in [Dispatchers -> {"none", "open", "broken"}]
    /\ addrs \in [Dispatchers -> 0..MaxAddrs]
    /\ woken \subseteq Dispatchers
    /\ mstate \in [Msgs -> MState]
    /\ handle \in [Msgs -> Sites \cup {NoSite}]

RingCopies(m) ==
    Cardinality({<<s, i>> \in Sites \X (1..MaxReady) :
                   i <= Len(ring[s]) /\ ring[s][i] = m})

Holders(m) == {d \in Dispatchers : held[d] = m}

\* Exactly-one-owner (spec section 3): a message the site layer accepted
\* sits in exactly one ring slot or one dispatcher's msg, and a message the
\* site layer does not own is in no ring and held by no dispatcher, across
\* concurrent pops by racing dispatchers, requeues and Drop.
ExactlyOneOwner ==
    \A m \in Msgs :
        RingCopies(m) + Cardinality(Holders(m)) = IF mstate[m] = "site" THEN 1 ELSE 0

\* The connection_count gauge of a site equals the number of its
\* dispatchers with an open client, through connect failures, address
\* exhaustion, spool errors and Drop.
GaugeTracksConnections ==
    \A s \in Sites :
        gauge[s] = Cardinality({d \in Dispatchers : dsite[d] = s /\ client[d] # "none"})

\* The dispatcher tasks of a site object that have not finished.
LiveOf(s) == {d \in Dispatchers : dsite[d] = s /\ dpc[d] \notin {"free", "done"}}

\* Site cap (spec invariant 5): the dispatchers of a site key never exceed
\* connection_limit.  maintain counts only the dispatchers of its own site
\* object, so an orphaned object's dispatchers, still running after the
\* reaper unregistered it, add to the re-registered object's.
SiteKeyCap == Cardinality(UNION {LiveOf(s) : s \in Sites}) <= ConnectionLimit

ReadyEventuallyClaimed ==
    \A m \in Msgs : InRing(m) ~> ~InRing(m)

\* A message claimed by a dispatcher is eventually let go of: delivered,
\* bounced or handed back to the queue (spec 4.I step 6).
ClaimedEventuallyReleased ==
    \A m \in Msgs : (Holders(m) # {}) ~> (Holders(m) = {})
-----------------------------------------------------------------------------
(* Refinement *)

\* The site layer seen from the queue layer: the rings are the FIFOs, a
\* message is in flight while a dispatcher holds it or its Drop requeue is
\* pending, and finished once delivered or bounced.
Handoff == INSTANCE SiteHandoff WITH
    Capacity <- MaxReady,
    ready <- ring,
    inflight <- {m \in Msgs : Holders(m) # {} \/ mstate[m] = "dropping"},
    done <- {m \in Msgs : mstate[m] \in {"delivered", "bounced"}}

\* DestSite implements SiteHandoff: every step of resolve_domain, insert,
\* maintain, the reaper and the dispatchers either leaves the handoff view
\* unchanged or is one of its steps.  Dispatchers racing on a ring take
\* from the head, each message once; a 4xx, Drop's requeue task and the
\* spool-error exits hand it back or finish it only after it was taken;
\* insert respects max_ready.
ImplementsSiteHandoff == Handoff!Spec
=============================================================================
