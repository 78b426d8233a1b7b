CONSTANTS
    t1 = t1
    t2 = t2
    Tasks = {t1, t2}
    MaxPollers = 2
SPECIFICATION Spec
INVARIANTS ActiveTasksAgree OwnPipeline NoDoubleClose
PROPERTY StopEndsTasks
