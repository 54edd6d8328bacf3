\* remove_from_spool fails for an expired message the maintainer popped:
\* the `?` ends the maintainer while its queue stays registered.
CONSTANTS
    m1 = m1  m2 = m2  q1 = q1  q2 = q2
    Msgs = {m1, m2}
    Queues = {q1}
    QueueOf <- OneQueue
    NoHolder = NoHolder
    MaxAttempts = 2
    SpoolCanFail = TRUE
    ConfigCanFail = FALSE
    ReceivedDirty = {FALSE, TRUE}
SPECIFICATION Spec
PROPERTY DueEventuallyPopped
\* Messages that reach their end, and the lock cycle, really stop the system.
CHECK_DEADLOCK FALSE
