\* Clients may hang up before they are answered.
CONSTANTS
    Conns = {c1, c2}
    NoConn = NoConn
    Requests = {"health"}
    QueueCapacity = 1
    ThreadCount = 1
SPECIFICATION Spec
INVARIANT SurvivesHangUp
