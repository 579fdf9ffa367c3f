\* Clients may connect and never send anything.
CONSTANTS
    Conns = {c1, c2, c3}
    NoConn = NoConn
    Requests = {"health"}
    QueueCapacity = 1
    ThreadCount = 1
SPECIFICATION SilentClientsSpec
PROPERTY AcceptLoopResumes
