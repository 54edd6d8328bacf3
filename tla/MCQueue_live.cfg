\* Progress of the queue layer when the spool and the policy callback do
\* not fail: two messages on one queue.
CONSTANTS
    m1 = m1  m2 = m2  q1 = q1  q2 = q2
    Msgs = {m1, m2}
    Queues = {q1}
    QueueOf <- OneQueue
    NoHolder = NoHolder
    MaxAttempts = 2
    SpoolCanFail = FALSE
    ConfigCanFail = FALSE
    ReceivedDirty = {FALSE, TRUE}
SPECIFICATION Spec
PROPERTY DueEventuallyPopped
PROPERTY RequeueEventuallyQueued
\* Messages that reach their end, and the lock cycle, really stop the system.
CHECK_DEADLOCK FALSE
