SPECIFICATION FairSpec
CONSTANTS
    Threads = {t1, t2}
    Condvars = {c1}
    NULL = NULL
PROPERTIES FreeMutexIsTaken
