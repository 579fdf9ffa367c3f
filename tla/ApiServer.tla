----------------------------- MODULE ApiServer ------------------------------
(***************************************************************************)
(* src/api/api_server.c and src/api/db_api.c: the accept loop hands each   *)
(* connection to the thread pool; a worker reads one HTTP request, answers *)
(* it, counts it and closes the connection.  SQL runs one statement at a   *)
(* time under the DbApi mutex.                                             *)
(*                                                                         *)
(* The pool is the abstract one (module TaskPool, which ThreadPool         *)
(* implements).  The SQL engine is a table of ids: a statement reads it in *)
(* one step and changes it in a second one, so that two statements without *)
(* the mutex would lose updates.  A connection carries one request.        *)
(***************************************************************************)
EXTENDS Naturals, Sequences, FiniteSets, SequencesExt

CONSTANTS Conns,           \* client connections
          NoConn,          \* nobody
          Requests,        \* subset of the request kinds below
          QueueCapacity,   \* config->queue_capacity
          ThreadCount      \* config->thread_count

(* The kinds of request that handle_client tells apart: OPTIONS and GET    *)
(* /health ("health"), GET /metrics, POST /query with an INSERT, a SELECT, *)
(* SQL the engine refuses or no SQL at all, another route, and a request   *)
(* that read_http_request refuses.                                         *)
AllRequests ==
    {"health", "metrics", "insert", "select", "badsql", "empty", "unknown", "malformed"}
QueryRequests == {"insert", "select", "badsql", "empty"}

ASSUME ServerAssumption ==
    /\ NoConn \notin Conns
    /\ Requests \subseteq AllRequests
    /\ QueueCapacity \in Nat \ {0}
    /\ ThreadCount \in Nat \ {0}

VARIABLES up,              \* the process is alive
          lpc,             \* the thread in api_server_run
          held,            \* what it has acquired and not released
          current,         \* the connection it has accepted and not handed over
          backlog,         \* connections in the kernel's accept queue
          pending, active, finished, closed, released,     \* the thread pool
          request,         \* per connection: what the client asks
          sent,            \* per connection: the whole request is on its way
          reading,         \* per connection: the client takes in its reply
          gone,            \* per connection: the client has hung up
          socket,          \* per connection: the server's descriptor
          hpc,             \* per connection: where handle_client is
          ok,              \* per connection: status 200
          dbOwner,         \* holder of the DbApi mutex
          rows,            \* ids of the table, in file order
          view,            \* per connection: the rows its statement has read
          metrics,         \* ApiMetrics
          report,          \* per connection: the metrics in its reply
          replied,         \* history: connections whose reply reached the client
          known            \* history, per connection: when the request was sent,
                           \* ids of acknowledged INSERTs and connections seen closed

poolVars == <<pending, active, finished, closed, released>>
loopVars == <<lpc, held, current, backlog>>
clientVars == <<request, sent, reading, gone>>
dbVars == <<dbOwner, rows, view>>
metricVars == <<metrics, report>>
history == <<replied, known>>
vars == <<up, loopVars, poolVars, clientVars, socket, hpc, ok, dbVars, metricVars, history>>

Pool == INSTANCE TaskPool WITH Tasks <- Conns, Capacity <- QueueCapacity, MaxActive <- ThreadCount

(* What api_server_run acquires, in this order: the metrics mutex, DbApi,  *)
(* the thread pool, the listening socket.                                  *)
Resources == <<"metrics", "db", "pool", "listener">>

NoMetrics == [total |-> 0, query |-> 0, ok |-> 0, error |-> 0]

Init ==
    /\ up = TRUE
    /\ lpc = "start"
    /\ held = {}
    /\ current = NoConn
    /\ backlog = <<>>
    /\ Pool!Init
    /\ request = [c \in Conns |-> "none"]
    /\ sent = {}
    /\ reading = {}
    /\ gone = {}
    /\ socket = [c \in Conns |-> "none"]
    /\ hpc = [c \in Conns |-> "idle"]
    /\ ok = [c \in Conns |-> FALSE]
    /\ dbOwner = NoConn
    /\ rows = <<>>
    /\ view = [c \in Conns |-> <<>>]
    /\ metrics = NoMetrics
    /\ report = [c \in Conns |-> NoMetrics]
    /\ replied = {}
    /\ known = [c \in Conns |-> [ids |-> {}, closed |-> {}]]

-----------------------------------------------------------------------------
(* Clients                                                                 *)

Connect(c, r) ==
    /\ up
    /\ lpc \in {"accept", "submit"}
    /\ request[c] = "none"
    /\ request' = [request EXCEPT ![c] = r]
    /\ backlog' = Append(backlog, c)
    /\ UNCHANGED <<up, lpc, held, current, poolVars, sent, reading, gone, socket, hpc, ok, dbVars,
                   metricVars, history>>

AckedIds == {view[c][Len(view[c])] : c \in {d \in replied : request[d] = "insert" /\ ok[d]}}
ClosedConns == {c \in Conns : socket[c] = "closed"}

(* The client has sent the last byte of its request.                       *)
Send(c) ==
    /\ request[c] # "none"
    /\ c \notin sent \cup gone
    /\ sent' = sent \cup {c}
    /\ known' = [known EXCEPT ![c] = [ids |-> AckedIds, closed |-> ClosedConns \cap finished]]
    /\ UNCHANGED <<up, loopVars, poolVars, request, reading, gone, socket, hpc, ok, dbVars,
                   metricVars, replied>>

(* What the engine has to say may be more than the socket buffers of both  *)
(* sides hold; every other reply is a few hundred bytes.                   *)
MayBeLarge(c) == request[c] \in QueryRequests \ {"empty"}

(* The client begins to read the reply, and goes on to its end.            *)
Read(c) ==
    /\ MayBeLarge(c)
    /\ c \in sent
    /\ c \notin reading \cup gone
    /\ socket[c] # "closed"
    /\ reading' = reading \cup {c}
    /\ UNCHANGED <<up, loopVars, poolVars, request, sent, gone, socket, hpc, ok, dbVars, metricVars,
                   history>>

HangUp(c) ==
    /\ request[c] # "none"
    /\ c \notin gone
    /\ socket[c] # "closed"
    /\ gone' = gone \cup {c}
    /\ UNCHANGED <<up, loopVars, poolVars, request, sent, reading, socket, hpc, ok, dbVars,
                   metricVars, history>>

-----------------------------------------------------------------------------
(* api_server_run: start-up and the accept loop                            *)

Acquire ==
    /\ up
    /\ lpc = "start"
    /\ LET r == Resources[Cardinality(held) + 1]
       IN  /\ held' = held \cup {r}
           /\ lpc' = IF r = "listener" THEN "accept" ELSE "start"
    /\ UNCHANGED <<up, current, backlog, poolVars, clientVars, socket, hpc, ok, dbVars, metricVars,
                   history>>

(* The next resource cannot be had: those before it are released.          *)
StartFails ==
    /\ up
    /\ lpc = "start"
    /\ \/ /\ held = {"metrics", "db", "pool"}
          /\ Pool!Close
          /\ lpc' = "destroy"
          /\ UNCHANGED held
       \/ /\ held = {"metrics", "db"}
          /\ lpc' = "freeDb"
          /\ UNCHANGED <<held, poolVars>>
       \/ /\ held \subseteq {"metrics"}
          /\ lpc' = "done"
          /\ held' = {}
          /\ UNCHANGED poolVars
    /\ UNCHANGED <<up, current, backlog, clientVars, socket, hpc, ok, dbVars, metricVars, history>>

Accept ==
    /\ up
    /\ lpc = "accept"
    /\ backlog # <<>>
    /\ current' = Head(backlog)
    /\ backlog' = Tail(backlog)
    /\ socket' = [socket EXCEPT ![Head(backlog)] = "open"]
    /\ lpc' = "submit"
    /\ UNCHANGED <<up, held, poolVars, clientVars, hpc, ok, dbVars, metricVars, history>>

(* Mutant: no "continue" after the close.                                  *)
TaskAllocationFailsThrough ==
    /\ up
    /\ lpc = "accept"
    /\ backlog # <<>>
    /\ current' = Head(backlog)
    /\ backlog' = Tail(backlog)
    /\ socket' = [socket EXCEPT ![Head(backlog)] = "closed"]
    /\ lpc' = "submit"
    /\ UNCHANGED <<up, held, poolVars, clientVars, hpc, ok, dbVars, metricVars, history>>

(* malloc fails: the connection is closed and the loop goes on.            *)
TaskAllocationFails ==
    /\ up
    /\ lpc = "accept"
    /\ backlog # <<>>
    /\ backlog' = Tail(backlog)
    /\ socket' = [socket EXCEPT ![Head(backlog)] = "closed"]
    /\ UNCHANGED <<up, lpc, held, current, poolVars, clientVars, hpc, ok, dbVars, metricVars, history>>

(* thread_pool_submit returns when the queue has room.                     *)
Submit ==
    /\ up
    /\ lpc = "submit"
    /\ Pool!Accept(current)
    /\ current' = NoConn
    /\ lpc' = "accept"
    /\ UNCHANGED <<up, held, backlog, clientVars, socket, hpc, ok, dbVars, metricVars, history>>

(* accept fails: the listener is closed, which resets what is in the       *)
(* backlog, and thread_pool_destroy begins.                                *)
AcceptFails ==
    /\ up
    /\ lpc = "accept"
    /\ Pool!Close
    /\ backlog' = <<>>
    /\ socket' = [c \in Conns |-> IF c \in ToSet(backlog) THEN "closed" ELSE socket[c]]
    /\ lpc' = "destroy"
    /\ held' = held \ {"listener"}
    /\ UNCHANGED <<up, current, clientVars, hpc, ok, dbVars, metricVars, history>>

(* Mutant: the database is freed before the pool is destroyed.             *)
PoolDestroyedEarly ==
    /\ up
    /\ lpc = "destroy"
    /\ lpc' = "freeDb"
    /\ held' = held \ {"pool"}
    /\ UNCHANGED <<up, current, backlog, poolVars, clientVars, socket, hpc, ok, dbVars,
                   metricVars, history>>

(* thread_pool_destroy returns.                                            *)
PoolDestroyed ==
    /\ up
    /\ lpc = "destroy"
    /\ Pool!Release
    /\ lpc' = "freeDb"
    /\ held' = held \ {"pool"}
    /\ UNCHANGED <<up, current, backlog, clientVars, socket, hpc, ok, dbVars, metricVars, history>>

(* db_api_free, metrics_mutex_destroy and the end of api_server_run.       *)
FreeDb ==
    /\ up
    /\ lpc = "freeDb"
    /\ lpc' = "done"
    /\ held' = held \ {"db", "metrics"}
    /\ UNCHANGED <<up, current, backlog, poolVars, clientVars, socket, hpc, ok, dbVars, metricVars,
                   history>>

-----------------------------------------------------------------------------
(* handle_client                                                           *)

At(c, where) == up /\ hpc[c] = where
Goto(c, where) == hpc' = [hpc EXCEPT ![c] = where]

(* A worker takes the oldest connection.                                   *)
StartHandler ==
    /\ up
    /\ Pool!Start
    /\ Goto(Head(pending), "read")
    /\ UNCHANGED <<up, loopVars, clientVars, socket, ok, dbVars, metricVars, history>>

(* Mutant: every route takes the mutex.                                    *)
ReadRequestLocksAlways(c) ==
    /\ At(c, "read")
    /\ c \in sent
    /\ request[c] # "malformed"
    /\ Goto(c, "lock")
    /\ UNCHANGED <<up, loopVars, poolVars, clientVars, socket, ok, dbVars, metricVars, history>>

(* read_http_request succeeds; recv blocks until the client has sent all.  *)
(* The reply of every route but /query is decided here, for /metrics with  *)
(* a snapshot that does not count this request, unless there is no memory  *)
(* to format it.                                                           *)
ReadRequest(c) ==
    /\ At(c, "read")
    /\ c \in sent
    /\ request[c] # "malformed"
    /\ Goto(c, IF request[c] \in QueryRequests \ {"empty"} THEN "lock" ELSE "send")
    /\ \E formatted \in BOOLEAN :
          ok' = [ok EXCEPT ![c] = \/ request[c] = "health"
                                  \/ request[c] = "metrics" /\ formatted]
    /\ report' = [report EXCEPT ![c] = IF request[c] = "metrics" THEN metrics ELSE @]
    /\ UNCHANGED <<up, loopVars, poolVars, clientVars, socket, dbVars, metrics, history>>

(* recv reports the end of the stream or an error, or the request is too   *)
(* large or has no valid Content-Length: 400 by send_error, whatever the   *)
(* client meant to ask.                                                    *)
ReadFails(c) ==
    /\ At(c, "read")
    /\ c \in gone \/ (c \in sent /\ request[c] = "malformed")
    /\ Goto(c, "send")
    /\ request' = [request EXCEPT ![c] = "malformed"]
    /\ UNCHANGED <<up, loopVars, poolVars, sent, reading, gone, socket, ok, dbVars, metricVars,
                   history>>

(* db_api_execute_sql: tmpfile fails before the mutex is taken.            *)
TmpfileFails(c) ==
    /\ At(c, "lock")
    /\ Goto(c, "send")
    /\ UNCHANGED <<up, loopVars, poolVars, clientVars, socket, ok, dbVars, metricVars, history>>

(* Mutant: the mutex excludes nobody.                                      *)
LockDbUnguarded(c) ==
    /\ At(c, "lock")
    /\ dbOwner' = c
    /\ Goto(c, "engine")
    /\ UNCHANGED <<up, loopVars, poolVars, clientVars, socket, ok, rows, view, metricVars, history>>

(* The DbApi mutex is taken.                                               *)
LockDb(c) ==
    /\ At(c, "lock")
    /\ dbOwner = NoConn
    /\ dbOwner' = c
    /\ Goto(c, "engine")
    /\ UNCHANGED <<up, loopVars, poolVars, clientVars, socket, ok, rows, view, metricVars, history>>

(* The engine reads the table: an INSERT takes the next id.                *)
EngineRead(c) ==
    /\ At(c, "engine")
    /\ view' = [view EXCEPT ![c] = IF request[c] = "insert" THEN Append(rows, Len(rows) + 1)
                                   ELSE rows]
    /\ Goto(c, "commit")
    /\ UNCHANGED <<up, loopVars, poolVars, clientVars, socket, ok, dbOwner, rows, metricVars,
                   history>>

(* Mutants: the row stays in a buffer; the mutex is kept on the error path. *)
EngineCommitLost(c, captured) ==
    /\ At(c, "commit")
    /\ ok' = [ok EXCEPT ![c] = request[c] # "badsql" /\ captured]
    /\ dbOwner' = NoConn
    /\ Goto(c, "send")
    /\ UNCHANGED <<up, loopVars, poolVars, clientVars, socket, rows, view, metricVars, history>>

EngineCommitKeepsLock(c, captured) ==
    /\ At(c, "commit")
    /\ rows' = IF request[c] = "insert" THEN view[c] ELSE rows
    /\ ok' = [ok EXCEPT ![c] = request[c] # "badsql" /\ captured]
    /\ dbOwner' = IF ok'[c] THEN NoConn ELSE dbOwner
    /\ Goto(c, "send")
    /\ UNCHANGED <<up, loopVars, poolVars, clientVars, socket, view, metricVars, history>>

(* It changes the table, the result is captured from the temporary file    *)
(* (which may fail: an error reply although the statement took effect),    *)
(* and the mutex is released.                                              *)
EngineCommit(c, captured) ==
    /\ At(c, "commit")
    /\ rows' = IF request[c] = "insert" THEN view[c] ELSE rows
    /\ ok' = [ok EXCEPT ![c] = request[c] # "badsql" /\ captured]
    /\ dbOwner' = NoConn
    /\ Goto(c, "send")
    /\ UNCHANGED <<up, loopVars, poolVars, clientVars, socket, view, metricVars, history>>

(* send_json: whether it succeeds is ignored.  send has no timeout: it     *)
(* returns for certain only if the peer drains the connection (Drained),   *)
(* and may return earlier if the reply happens to fit the socket buffers.  *)
Drained(c) == c \in reading \cup gone \/ ~MayBeLarge(c)

SendReply(c) ==
    /\ At(c, "send")
    /\ replied' = IF c \in gone THEN replied ELSE replied \cup {c}
    /\ Goto(c, "record")
    /\ UNCHANGED <<up, loopVars, poolVars, clientVars, socket, ok, dbVars, metricVars, known>>

(* send on a connection the peer has reset raises SIGPIPE, which nobody    *)
(* ignores or handles: the process ends.                                   *)
SigPipe(c) ==
    /\ At(c, "send")
    /\ c \in gone
    /\ up' = FALSE
    /\ UNCHANGED <<loopVars, poolVars, clientVars, socket, hpc, ok, dbVars, metricVars, history>>

(* Mutants: only queries are counted; errors are counted as successes.     *)
MetricsRecordQueriesOnly(c) ==
    /\ At(c, "record")
    /\ metrics' = IF request[c] \notin QueryRequests THEN metrics
                  ELSE [total |-> metrics.total + 1,
                        query |-> metrics.query + 1,
                        ok |-> metrics.ok + (IF ok[c] THEN 1 ELSE 0),
                        error |-> metrics.error + (IF ok[c] THEN 0 ELSE 1)]
    /\ Goto(c, "close")
    /\ UNCHANGED <<up, loopVars, poolVars, clientVars, socket, ok, dbVars, report, history>>

MetricsRecordAlwaysOk(c) ==
    /\ At(c, "record")
    /\ metrics' = [metrics EXCEPT !.total = @ + 1, !.ok = @ + 1,
                       !.query = @ + (IF request[c] \in QueryRequests THEN 1 ELSE 0)]
    /\ Goto(c, "close")
    /\ UNCHANGED <<up, loopVars, poolVars, clientVars, socket, ok, dbVars, report, history>>

(* metrics_record, under its own mutex.                                    *)
MetricsRecord(c) ==
    /\ At(c, "record")
    /\ metrics' = [total |-> metrics.total + 1,
                   query |-> metrics.query + (IF request[c] \in QueryRequests THEN 1 ELSE 0),
                   ok |-> metrics.ok + (IF ok[c] THEN 1 ELSE 0),
                   error |-> metrics.error + (IF ok[c] THEN 0 ELSE 1)]
    /\ Goto(c, "close")
    /\ UNCHANGED <<up, loopVars, poolVars, clientVars, socket, ok, dbVars, report, history>>

(* Mutants: the early return after a bad request forgets the close; the    *)
(* connection is kept alive for another request.                           *)
CloseClientLeaks(c) ==
    /\ At(c, "close")
    /\ Pool!Finish(c)
    /\ socket' = [socket EXCEPT ![c] = IF request[c] = "malformed" THEN @ ELSE "closed"]
    /\ Goto(c, "idle")
    /\ UNCHANGED <<up, loopVars, clientVars, ok, dbVars, metricVars, history>>

CloseClientKeepsAlive(c) ==
    /\ At(c, "close")
    /\ Goto(c, "read")
    /\ UNCHANGED <<up, loopVars, poolVars, clientVars, socket, ok, dbVars, metricVars, history>>

(* The connection is closed and the worker is free.                        *)
CloseClient(c) ==
    /\ At(c, "close")
    /\ Pool!Finish(c)
    /\ socket' = [socket EXCEPT ![c] = "closed"]
    /\ Goto(c, "idle")
    /\ UNCHANGED <<up, loopVars, clientVars, ok, dbVars, metricVars, history>>

-----------------------------------------------------------------------------
(* The process has ended.                                                  *)
Rest ==
    /\ ~up \/ lpc = "done"
    /\ UNCHANGED vars

LoopStep == Acquire \/ Accept \/ Submit \/ PoolDestroyed \/ FreeDb
EngineStep(c) == LockDb(c) \/ EngineRead(c) \/ \E captured \in BOOLEAN : EngineCommit(c, captured)
ReplyStep(c) == ReadRequest(c) \/ ReadFails(c) \/ SendReply(c) \/ MetricsRecord(c) \/ CloseClient(c)

Next ==
    \/ LoopStep \/ StartFails \/ TaskAllocationFails \/ AcceptFails
    \/ StartHandler
    \/ \E c \in Conns :
          \/ \E r \in Requests : Connect(c, r)
          \/ Send(c) \/ Read(c) \/ HangUp(c)
          \/ ReplyStep(c) \/ EngineStep(c) \/ TmpfileFails(c) \/ SigPipe(c)
    \/ Rest

Spec == Init /\ [][Next]_vars

(* Threads that can run do run; a handler in send can if its client lets   *)
(* it.  A mutex that becomes free goes to one of the finitely many         *)
(* handlers that wait for it.                                              *)
ThreadFairness ==
    /\ WF_vars(LoopStep)
    /\ WF_vars(StartHandler)
    /\ \A c \in Conns : WF_vars((hpc[c] = "send" => Drained(c)) /\ ReplyStep(c))

EngineFairness == \A c \in Conns : WF_vars(EngineStep(c))

(* Clients that have connected send their request and read a reply that    *)
(* may be large, or hang up.                                               *)
Owes(c) == c \notin sent \/ (MayBeLarge(c) /\ c \notin reading)
ClientFairness == \A c \in Conns : WF_vars(Send(c) \/ Read(c) \/ (Owes(c) /\ HangUp(c)))

(* A statement may run for ever.                                           *)
StuckEngineSpec == Spec /\ ThreadFairness /\ ClientFairness
(* A client may keep its connection and send nothing, or read nothing.     *)
SilentClientsSpec == Spec /\ ThreadFairness /\ EngineFairness

-----------------------------------------------------------------------------
(* Properties                                                              *)

MetricsType == [total : Nat, query : Nat, ok : Nat, error : Nat]

(* Every variable has its type (ApiMetrics, ApiServer and ClientTask,      *)
(* api_server.c 105-175).                                                  *)
TypeOK ==
    /\ up \in BOOLEAN
    /\ lpc \in {"start", "accept", "submit", "destroy", "freeDb", "done"}
    /\ held \subseteq ToSet(Resources)
    /\ current \in Conns \cup {NoConn}
    /\ backlog \in Seq(Conns) /\ pending \in Seq(Conns)
    /\ active \cup finished \cup sent \cup reading \cup gone \cup replied \subseteq Conns
    /\ {closed, released} \subseteq BOOLEAN
    /\ request \in [Conns -> AllRequests \cup {"none"}]
    /\ socket \in [Conns -> {"none", "open", "closed"}]
    /\ hpc \in [Conns -> {"idle", "read", "lock", "engine", "commit", "send", "record", "close"}]
    /\ ok \in [Conns -> BOOLEAN]
    /\ dbOwner \in Conns \cup {NoConn}
    /\ rows \in Seq(Nat)
    /\ view \in [Conns -> Seq(Nat)]
    /\ metrics \in MetricsType
    /\ report \in [Conns -> MetricsType]
    /\ known \in [Conns -> [ids : SUBSET Nat, closed : SUBSET Conns]]

(* No update is lost and no id is given twice, although several workers    *)
(* run statements: every acknowledged INSERT is in the table and the ids   *)
(* are distinct (db_api.c 213-234).                                        *)
StatementsSerialised ==
    /\ IsInjective(rows)
    /\ \A c, d \in replied :
          request[c] = "insert" /\ request[d] = "insert" /\ ok[c] /\ ok[d] /\ c # d =>
              Last(view[c]) # Last(view[d])
    /\ AckedIds \subseteq ToSet(rows)

(* A SELECT returns every row whose INSERT was acknowledged before the     *)
(* SELECT was sent, whichever workers ran the two.                         *)
ReadYourWrites ==
    \A c \in replied : request[c] = "select" /\ ok[c] => known[c].ids \subseteq ToSet(view[c])

(* A /metrics reply counts every request whose connection was closed       *)
(* before the /metrics request was sent, and its numbers add up            *)
(* (metrics_record comes before API_CLOSE_SOCKET, but after send_json).    *)
MetricsCountClosed ==
    \A c \in replied : request[c] = "metrics" /\ ok[c] =>
        /\ report[c].total >= Cardinality(known[c].closed)
        /\ report[c].total = report[c].ok + report[c].error

(* Every handled connection is counted once, with the status it was sent.  *)
Counted == finished \cup {c \in Conns : hpc[c] = "close"}
MetricsExact ==
    /\ metrics.total = Cardinality(Counted)
    /\ metrics.ok = Cardinality({c \in Counted : ok[c]})
    /\ metrics.query = Cardinality({c \in Counted : request[c] \in QueryRequests})

(* A closed descriptor is in nobody's hands: neither the accept loop nor   *)
(* the queue nor a worker can use or close it again, so it cannot hit a    *)
(* later connection that was given the same number.                        *)
ClosedSocketIsForgotten ==
    \A c \in Conns : socket[c] = "closed" =>
        /\ c # current
        /\ c \notin ToSet(pending) \cup active \cup ToSet(backlog)
        /\ hpc[c] = "idle"

(* Everything a thread uses is still there: workers have the pool, the     *)
(* database and the metrics mutex, the accept loop the listener as well.   *)
(* And when api_server_run returns, after shutdown or after a start-up     *)
(* that failed half way, nothing is left (api_server.c 1334-1373,          *)
(* 1409-1413).                                                             *)
ReleasedUnused ==
    /\ (\E c \in Conns : hpc[c] # "idle") => {"metrics", "db", "pool"} \subseteq held
    /\ lpc \in {"accept", "submit"} => held = ToSet(Resources)
    /\ lpc = "done" => held = {} /\ pending = <<>> /\ current = NoConn

-----------------------------------------------------------------------------
(* The inductive invariant behind these properties                         *)

(* Where api_server_run is says what it holds and which queues may have    *)
(* something in them.                                                      *)
LoopState ==
    /\ lpc = "start" =>
          held \in {{}, {"metrics"}, {"metrics", "db"}, {"metrics", "db", "pool"}}
    /\ lpc \in {"accept", "submit"} => held = {"metrics", "db", "pool", "listener"}
    /\ lpc = "destroy" => held = {"metrics", "db", "pool"}
    /\ lpc = "freeDb" => held = {"metrics", "db"}
    /\ lpc = "done" => held = {}
    /\ lpc \in {"start", "freeDb", "done"} => pending = <<>> /\ active = {}
    /\ lpc = "submit" <=> current # NoConn
    /\ lpc \notin {"accept", "submit"} => backlog = <<>>

(* A connection is in one place at a time - the backlog, the accept loop's *)
(* hands, the queue, a worker's hands, finished - and its descriptor is    *)
(* open from the accept to the close.                                      *)
OnePlace ==
    /\ IsInjective(backlog) /\ IsInjective(pending)
    /\ \A c \in Conns :
          /\ hpc[c] # "idle" <=> c \in active
          /\ request[c] = "none" =>
                socket[c] = "none" /\ c \notin ToSet(backlog) \cup sent \cup gone
          /\ c \in ToSet(backlog) => socket[c] = "none"
          /\ c = current \/ c \in ToSet(pending) \cup active => socket[c] = "open"
          /\ c \in finished => socket[c] = "closed"
          /\ c = current => c \notin ToSet(pending) \cup active
          /\ c \in ToSet(pending) => c \notin active

(* How far a handler has come: only a request that was read completely is  *)
(* executed, and a status 200 is set when its work is done.                *)
HandlerProgress ==
    \A c \in Conns :
        /\ hpc[c] \in {"lock", "engine", "commit"} =>
              c \in sent /\ request[c] \in QueryRequests \ {"empty"}
        /\ ok[c] => c \in sent /\ (hpc[c] \in {"send", "record", "close"} \/ c \in finished)
        /\ c \in replied => hpc[c] \in {"record", "close"} \/ c \in finished

(* Exactly the owner of the mutex is inside the engine, what it has read   *)
(* is still the table, and the table holds the ids 1, 2, 3, ...            *)
Mutex ==
    /\ \A c \in Conns : dbOwner = c <=> hpc[c] \in {"engine", "commit"}
    /\ \A i \in 1 .. Len(rows) : rows[i] = i
    /\ \A c \in Conns : hpc[c] = "commit" =>
          view[c] = IF request[c] = "insert" THEN Append(rows, Len(rows) + 1) ELSE rows

(* Each successful INSERT left its own id at the end of what it wrote.     *)
Succeeded(c) == request[c] = "insert" /\ ok[c]
OwnIds ==
    /\ \A c \in Conns : Succeeded(c) =>
          Len(view[c]) \in 1 .. Len(rows) /\ view[c][Len(view[c])] = Len(view[c])
    /\ \A c, d \in Conns : Succeeded(c) /\ Succeeded(d) /\ c # d => Len(view[c]) # Len(view[d])

(* What a client knew when it sent its request is in the table, in what    *)
(* its SELECT read and in the metrics it was given.                        *)
KnownIsKept ==
    \A c \in Conns :
        /\ known[c].ids \subseteq 1 .. Len(rows)
        /\ known[c].closed \subseteq finished
        /\ request[c] = "select" /\ ok[c] => known[c].ids \subseteq ToSet(view[c])
        /\ request[c] = "metrics" /\ ok[c] =>
              /\ report[c].total >= Cardinality(known[c].closed)
              /\ report[c].total = report[c].ok + report[c].error

(* The counters are those of the connections counted so far.               *)
CountersAgree ==
    /\ IsFiniteSet(Counted)
    /\ metrics.total = metrics.ok + metrics.error
    /\ MetricsExact

IndInv ==
    /\ TypeOK
    /\ LoopState
    /\ OnePlace
    /\ HandlerProgress
    /\ Mutex
    /\ OwnIds
    /\ KnownIsKept
    /\ CountersAgree

-----------------------------------------------------------------------------
(* Liveness                                                                *)

(* Every connection is answered or closed in the end, also those that find *)
(* the queue full, as long as statements end and clients send their        *)
(* requests and read their replies, or hang up (api_server.c 353 and 1027  *)
(* wait for them without a timeout).                                       *)
EveryConnectionEnds ==
    EngineFairness => \A c \in Conns : (request[c] # "none") ~> (socket[c] = "closed" \/ ~up)

(* When accept fails the server winds down completely, if statements end   *)
(* and clients send and read, or hang up: thread_pool_destroy joins        *)
(* workers that wait for a client (api_server.c 1409-1413).                *)
ShutdownCompletes == EngineFairness => (lpc = "destroy") ~> (lpc = "done" \/ ~up)

(* /health and /metrics do not wait for a SQL statement, however long it   *)
(* runs (README.md 196).                                                   *)
HealthWithoutDb ==
    \A c \in Conns :
        hpc[c] = "read" /\ c \in sent /\ request[c] \in {"health", "metrics"}
            ~> (socket[c] = "closed" \/ ~up)

(* The accept loop only pauses while the queue is full (README.md 75).     *)
AcceptLoopResumes == (lpc = "submit") ~> (lpc # "submit" \/ ~up)

(* The accept loop is endless (api_server.c 1305-1319): a client that      *)
(* hangs up does not end the process.                                      *)
SurvivesHangUp == up
=============================================================================
