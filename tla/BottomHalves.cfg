CONSTANTS
    Drivers = {
        "lab2_one_tasklet", "lab2_one_workqueue", "lab2_one_thread",
        "lab3_one_thread_improved", "lab3_one_tasklet_improved",
        "lab3_one_tasklet_dynamic",
        "lab3_one_workqueue_dynamic", "Nirq_dynamic", "lab4_all_tasklet",
        "lab4_all_workqueue", "lab4_all_thread", "lab5_all_tasklet_dynamic",
        "lab5_all_workqueue_dynamic", "lab2_interrupt", "lab1_tasklet",
        "lab1_workqueue_shared", "lab1_workqueue_private",
        "tasklet", "workqueue"}
    NLines = 2
    Cpus = {"cpu0", "cpu1"}
    MaxIrq = 3
    MaxAll = 2
SPECIFICATION Spec
INVARIANTS
    NeverMoreBottoms
    LinesGivenBack
    ForgottenOnlyAtLoad
    OwnMemory
PROPERTIES
    EveryStampAnswered
    NextInterruptAnswers
\* An unloaded module stops.
CHECK_DEADLOCK FALSE
