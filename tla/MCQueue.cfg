\* Safety of the queue registry with every failure enabled: two messages
\* on two queues, each with reception, requeue and maintainer tasks.
CONSTANTS
    m1 = m1  m2 = m2  q1 = q1  q2 = q2
    Msgs = {m1, m2}
    Queues = {q1, q2}
    QueueOf <- TwoQueues
    NoHolder = NoHolder
    MaxAttempts = 2
    SpoolCanFail = TRUE
    ConfigCanFail = TRUE
    ReceivedDirty = {FALSE, TRUE}
SPECIFICATION Spec
INVARIANT TypeOK
INVARIANT ReapedQueueEmpty
\* Messages that reach their end, and the lock cycle, really stop the system.
CHECK_DEADLOCK FALSE
