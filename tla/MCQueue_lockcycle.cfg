\* The maintainer's Empty branch holds the queue lock and waits for the
\* manager lock, while a requeue holds the manager lock and waits for the queue.
CONSTANTS
    m1 = m1  m2 = m2  q1 = q1  q2 = q2
    Msgs = {m1, m2}
    Queues = {q1}
    QueueOf <- OneQueue
    NoHolder = NoHolder
    MaxAttempts = 2
    SpoolCanFail = FALSE
    ConfigCanFail = FALSE
    ReceivedDirty = {FALSE, TRUE}
SPECIFICATION Spec
INVARIANT NoLockOrderCycle
\* Messages that reach their end, and the lock cycle, really stop the system.
CHECK_DEADLOCK FALSE
