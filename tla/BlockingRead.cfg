\* Every driver of the chapter, and lab7_uio.
CONSTANTS
    Drivers = {"lab1_wait_event", "lab1_complete", "globalmem_complete", "globalmem_sem",
               "globalmem_wait", "globalmem_exwait", "globalmem_killable",
               "lab1_excl", "lab2_killable", "lab3_poll", "lab1_semaphore", "lab7_uio"}
    Readers = {r1, r2}
    Writers = {w1, w2}
    MaxReads = 4
    MaxWrites = 3
    Signals = TRUE
SPECIFICATION Spec
INVARIANT PassNeedsWrite
PROPERTY ReadyIsTaken
\* The calls are bounded, and a reader may sleep for ever.
CHECK_DEADLOCK FALSE
