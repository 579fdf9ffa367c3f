-------------------------- MODULE ApiServer_proofs ---------------------------
(***************************************************************************)
(* Invariance proofs for ApiServer, for every set of connections and       *)
(* requests, every queue capacity and every number of workers.             *)
(***************************************************************************)
EXTENDS ApiServer, FiniteSetTheorems, SequenceTheorems, TLAPS

-----------------------------------------------------------------------------
(* Sequences                                                               *)

(* The elements of a sequence after an Append.                             *)
LEMMA AppendElements ==
    ASSUME NEW S, NEW s \in Seq(S), NEW e \in S
    PROVE  /\ Append(s, e) \in Seq(S)
           /\ ToSet(Append(s, e)) = ToSet(s) \cup {e}
           /\ IsInjective(s) /\ e \notin ToSet(s) => IsInjective(Append(s, e))
  <1>1. /\ Append(s, e) \in Seq(S)
        /\ DOMAIN s = 1 .. Len(s) /\ Len(s) \in Nat
        /\ DOMAIN Append(s, e) = 1 .. Len(s) + 1
        /\ \A i \in 1 .. Len(s) : Append(s, e)[i] = s[i]
        /\ Append(s, e)[Len(s) + 1] = e
    BY AppendProperties, LenProperties
  <1>2. ASSUME NEW x PROVE x \in ToSet(Append(s, e)) <=> x \in ToSet(s) \cup {e}
    BY <1>1 DEF ToSet
  <1>3. IsInjective(s) /\ e \notin ToSet(s) => IsInjective(Append(s, e))
    BY <1>1 DEF ToSet, IsInjective
  <1>4. QED
    BY <1>1, <1>2, <1>3

(* The elements of a sequence without repetitions after its head is taken. *)
LEMMA TailElements ==
    ASSUME NEW S, NEW s \in Seq(S), s # <<>>, IsInjective(s)
    PROVE  /\ Head(s) \in S /\ Head(s) \in ToSet(s) /\ Tail(s) \in Seq(S)
           /\ ToSet(Tail(s)) = ToSet(s) \ {Head(s)}
           /\ IsInjective(Tail(s))
  <1>1. /\ Len(s) \in Nat \ {0} /\ DOMAIN s = 1 .. Len(s) /\ Head(s) = s[1]
        /\ Tail(s) \in Seq(S) /\ DOMAIN Tail(s) = 1 .. Len(s) - 1
        /\ \A i \in 1 .. Len(s) - 1 : Tail(s)[i] = s[i + 1]
    OBVIOUS
  <1>2. Head(s) \in S /\ Head(s) \in ToSet(s)
    BY <1>1 DEF ToSet
  <1>3. IsInjective(Tail(s))
    BY <1>1 DEF IsInjective
  <1>4. ASSUME NEW e \in ToSet(s) \ {Head(s)} PROVE e \in ToSet(Tail(s))
    <2>1. PICK i \in 2 .. Len(s) : e = s[i]
      BY <1>1, <1>4 DEF ToSet
    <2>2. i - 1 \in DOMAIN Tail(s) /\ Tail(s)[i - 1] = e
      BY <1>1, <2>1
    <2>3. QED
      BY <2>2 DEF ToSet
  <1>5. ASSUME NEW e \in ToSet(Tail(s)) PROVE e \in ToSet(s) \ {Head(s)}
    <2>1. PICK i \in 1 .. Len(s) - 1 : e = s[i + 1]
      BY <1>1, <1>5 DEF ToSet
    <2>2. i + 1 \in DOMAIN s /\ 1 \in DOMAIN s /\ i + 1 # 1
      BY <1>1, <2>1
    <2>3. QED
      BY <1>1, <2>1, <2>2 DEF ToSet, IsInjective
  <1>6. QED
    BY <1>1, <1>2, <1>3, <1>4, <1>5

(* The elements of a typed sequence.                                       *)
LEMMA ElementsTyped ==
    ASSUME NEW S, NEW s \in Seq(S)
    PROVE  ToSet(s) \subseteq S
  BY DEF ToSet

(* The empty sequence has no elements.                                     *)
LEMMA EmptyElements == ToSet(<<>>) = {} /\ IsInjective(<<>>)
  BY DEF ToSet, IsInjective

-----------------------------------------------------------------------------
(* Type correctness and the accept loop                                    *)

(* What the next resource is: start-up acquires them in the order of       *)
(* Resources.                                                              *)
LEMMA AcquireCases ==
    ASSUME LoopState, Acquire
    PROVE  \/ held = {} /\ held' = {"metrics"} /\ lpc' = "start"
           \/ held = {"metrics"} /\ held' = {"metrics", "db"} /\ lpc' = "start"
           \/ held = {"metrics", "db"} /\ held' = {"metrics", "db", "pool"} /\ lpc' = "start"
           \/ /\ held = {"metrics", "db", "pool"}
              /\ held' = {"metrics", "db", "pool", "listener"}
              /\ lpc' = "accept"
  <1>1. /\ Cardinality({}) = 0 /\ Cardinality({"metrics"}) = 1
        /\ Cardinality({"metrics", "db"}) = 2 /\ Cardinality({"metrics", "db", "pool"}) = 3
    <2>1. IsFiniteSet({"metrics"}) /\ Cardinality({}) = 0 /\ Cardinality({"metrics"}) = 1
      BY FS_EmptySet, FS_Singleton
    <2>2. {"metrics", "db"} = {"metrics"} \cup {"db"} /\ "db" \notin {"metrics"}
      OBVIOUS
    <2>3. IsFiniteSet({"metrics", "db"}) /\ Cardinality({"metrics", "db"}) = 2
      BY <2>1, <2>2, FS_AddElement
    <2>4. /\ {"metrics", "db", "pool"} = {"metrics", "db"} \cup {"pool"}
          /\ "pool" \notin {"metrics", "db"}
      OBVIOUS
    <2>5. Cardinality({"metrics", "db", "pool"}) = 3
      BY <2>3, <2>4, FS_AddElement
    <2>6. QED
      BY <2>1, <2>3, <2>5
  <1>2. /\ Resources[1] = "metrics" /\ Resources[2] = "db"
        /\ Resources[3] = "pool" /\ Resources[4] = "listener"
    BY DEF Resources
  <1>3. held \in {{}, {"metrics"}, {"metrics", "db"}, {"metrics", "db", "pool"}}
    BY DEF LoopState, Acquire
  <1>4. CASE held = {}
    BY <1>1, <1>2, <1>4 DEF Acquire
  <1>5. CASE held = {"metrics"}
    BY <1>1, <1>2, <1>5 DEF Acquire
  <1>6. CASE held = {"metrics", "db"}
    BY <1>1, <1>2, <1>6 DEF Acquire
  <1>7. CASE held = {"metrics", "db", "pool"}
    BY <1>1, <1>2, <1>7 DEF Acquire
  <1>8. QED
    BY <1>3, <1>4, <1>5, <1>6, <1>7

(* The resources as a set.                                                 *)
LEMMA AllResources == ToSet(Resources) = {"metrics", "db", "pool", "listener"}
  BY DEF ToSet, Resources

(* Init is well typed.                                                     *)
LEMMA TypeInit == Init => TypeOK
  <1> SUFFICES ASSUME Init PROVE TypeOK
    OBVIOUS
  <1>1. /\ held \subseteq ToSet(Resources) /\ up \in BOOLEAN
        /\ lpc \in {"start", "accept", "submit", "destroy", "freeDb", "done"}
        /\ current \in Conns \cup {NoConn} /\ dbOwner \in Conns \cup {NoConn}
        /\ {closed, released} \subseteq BOOLEAN
        /\ active \cup finished \cup sent \cup reading \cup gone \cup replied \subseteq Conns
    BY DEF Init, Pool!Init
  <1>2. backlog \in Seq(Conns) /\ pending \in Seq(Conns) /\ rows \in Seq(Nat)
    BY DEF Init, Pool!Init
  <1>3. /\ request \in [Conns -> AllRequests \cup {"none"}]
        /\ socket \in [Conns -> {"none", "open", "closed"}]
        /\ hpc \in [Conns -> {"idle", "read", "lock", "engine", "commit", "send", "record", "close"}]
        /\ ok \in [Conns -> BOOLEAN]
    BY DEF Init
  <1>4. view \in [Conns -> Seq(Nat)]
    BY DEF Init
  <1>5. metrics \in MetricsType /\ report \in [Conns -> MetricsType]
    BY DEF Init, NoMetrics, MetricsType
  <1>6. known \in [Conns -> [ids : SUBSET Nat, closed : SUBSET Conns]]
    BY DEF Init
  <1>7. QED
    BY <1>1, <1>2, <1>3, <1>4, <1>5, <1>6 DEF TypeOK

(* The ids that clients have been told are numbers.                        *)
LEMMA AckedTyped ==
    ASSUME TypeOK, OwnIds
    PROVE  AckedIds \subseteq 1 .. Len(rows)
  BY DEF TypeOK, OwnIds, AckedIds, Succeeded

(* No step gives a variable a value outside its type.                      *)
LEMMA TypeStep ==
    TypeOK /\ LoopState /\ OnePlace /\ OwnIds /\ [Next]_vars => TypeOK'
  <1> SUFFICES ASSUME TypeOK, LoopState, OnePlace, OwnIds, [Next]_vars
               PROVE  TypeOK'
    OBVIOUS
  <1> USE ServerAssumption, AllResources
          DEF loopVars, poolVars, clientVars, dbVars, metricVars, history
  <1>1. ASSUME NEW c \in Conns, NEW r \in Requests, Connect(c, r) PROVE TypeOK'
    BY <1>1 DEF TypeOK, Connect
  <1>2. ASSUME NEW c \in Conns, Send(c) PROVE TypeOK'
    <2>1. [ids |-> AckedIds, closed |-> ClosedConns \cap finished]
             \in [ids : SUBSET Nat, closed : SUBSET Conns]
      BY AckedTyped DEF ClosedConns, TypeOK
    <2>2. known' \in [Conns -> [ids : SUBSET Nat, closed : SUBSET Conns]]
      BY <1>2, <2>1 DEF TypeOK, Send
    <2>3. QED
      BY <1>2, <2>2 DEF TypeOK, Send
  <1>3. ASSUME NEW c \in Conns, Read(c) \/ HangUp(c) PROVE TypeOK'
    BY <1>3 DEF TypeOK, Read, HangUp
  <1>4. CASE Acquire
    BY <1>4, AcquireCases DEF TypeOK, Acquire
  <1>5. CASE StartFails
    BY <1>5 DEF TypeOK, StartFails, Pool!Close
  <1>6. CASE Accept \/ TaskAllocationFails
    <2>1. Head(backlog) \in Conns /\ Tail(backlog) \in Seq(Conns)
      BY <1>6, TailElements DEF TypeOK, OnePlace, Accept, TaskAllocationFails
    <2>2. CASE Accept
      BY <2>1, <2>2 DEF TypeOK, Accept
    <2>3. CASE TaskAllocationFails
      BY <2>1, <2>3 DEF TypeOK, TaskAllocationFails
    <2>4. QED
      BY <1>6, <2>2, <2>3
  <1>7. CASE Submit
    <2>1. current \in Conns
      BY <1>7 DEF LoopState, Submit, TypeOK
    <2>2. QED
      BY <1>7, <2>1 DEF TypeOK, Submit, Pool!Accept
  <1>8. CASE AcceptFails
    BY <1>8 DEF TypeOK, AcceptFails, Pool!Close
  <1>9. CASE PoolDestroyed \/ FreeDb
    BY <1>9 DEF TypeOK, PoolDestroyed, FreeDb, Pool!Release
  <1>10. CASE StartHandler
    <2>1. Head(pending) \in Conns /\ Tail(pending) \in Seq(Conns)
      BY <1>10, TailElements DEF TypeOK, OnePlace, StartHandler, Pool!Start
    <2>2. QED
      BY <1>10, <2>1 DEF TypeOK, StartHandler, Pool!Start, Goto
  <1>11. ASSUME NEW c \in Conns, ReadRequest(c) PROVE TypeOK'
    <2>1. ok' \in [Conns -> BOOLEAN]
      BY <1>11, Zenon DEF TypeOK, ReadRequest
    <2>2. report' \in [Conns -> MetricsType]
      BY <1>11 DEF TypeOK, ReadRequest
    <2>3. hpc' \in [Conns -> {"idle", "read", "lock", "engine", "commit", "send", "record", "close"}]
      BY <1>11 DEF TypeOK, ReadRequest, Goto
    <2>4. UNCHANGED <<up, loopVars, poolVars, clientVars, socket, dbVars, metrics, history>>
      BY <1>11 DEF ReadRequest
    <2>5. QED
      BY <2>1, <2>2, <2>3, <2>4 DEF TypeOK
  <1>12. ASSUME NEW c \in Conns, ReadFails(c) \/ TmpfileFails(c) \/ LockDb(c) PROVE TypeOK'
    <2>1. CASE ReadFails(c)
      BY <2>1 DEF TypeOK, ReadFails, Goto, AllRequests
    <2>2. CASE TmpfileFails(c)
      BY <2>2 DEF TypeOK, TmpfileFails, Goto
    <2>3. CASE LockDb(c)
      BY <2>3 DEF TypeOK, LockDb, Goto
    <2>4. QED
      BY <1>12, <2>1, <2>2, <2>3
  <1>13. ASSUME NEW c \in Conns, EngineRead(c) PROVE TypeOK'
    BY <1>13 DEF TypeOK, EngineRead, At, Goto
  <1>14. ASSUME NEW c \in Conns, NEW captured \in BOOLEAN, EngineCommit(c, captured) PROVE TypeOK'
    <2>1. ok' \in [Conns -> BOOLEAN]
      BY <1>14, Zenon DEF TypeOK, EngineCommit
    <2>2. QED
      BY <1>14, <2>1 DEF TypeOK, EngineCommit, At, Goto
  <1>15. ASSUME NEW c \in Conns, SendReply(c) \/ SigPipe(c) PROVE TypeOK'
    <2>1. CASE SendReply(c)
      BY <2>1 DEF TypeOK, SendReply, At, Goto
    <2>2. CASE SigPipe(c)
      BY <2>2 DEF TypeOK, SigPipe
    <2>3. QED
      BY <1>15, <2>1, <2>2
  <1>16. ASSUME NEW c \in Conns, MetricsRecord(c) PROVE TypeOK'
    <2>1. /\ metrics.total \in Nat /\ metrics.query \in Nat
          /\ metrics.ok \in Nat /\ metrics.error \in Nat
      BY DEF TypeOK, MetricsType
    <2>2. metrics' \in MetricsType
      BY <1>16, <2>1 DEF MetricsRecord, MetricsType
    <2>3. QED
      BY <1>16, <2>2 DEF TypeOK, MetricsRecord, At, Goto
  <1>17. ASSUME NEW c \in Conns, CloseClient(c) PROVE TypeOK'
    BY <1>17 DEF TypeOK, CloseClient, At, Goto, Pool!Finish
  <1>18. CASE UNCHANGED vars
    BY <1>18 DEF TypeOK, vars
  <1>19. QED
    BY <1>1, <1>2, <1>3, <1>4, <1>5, <1>6, <1>7, <1>8, <1>9, <1>10, <1>11, <1>12, <1>13,
       <1>14, <1>15, <1>16, <1>17, <1>18
       DEF Next, LoopStep, ReplyStep, EngineStep, Rest

(* The steps of handle_client and of the clients leave the loop alone.     *)
LEMMA LoopStateStep ==
    TypeOK /\ LoopState /\ OnePlace /\ [Next]_vars => LoopState'
  <1> SUFFICES ASSUME TypeOK, LoopState, OnePlace, [Next]_vars
               PROVE  LoopState'
    OBVIOUS
  <1> USE ServerAssumption DEF loopVars, poolVars, clientVars, dbVars, metricVars, history
  <1>1. ASSUME NEW c \in Conns, NEW r \in Requests, Connect(c, r) PROVE LoopState'
    BY <1>1 DEF LoopState, Connect
  <1>2. CASE Acquire
    BY <1>2, AcquireCases DEF LoopState, Acquire
  <1>3. CASE StartFails
    BY <1>3 DEF LoopState, StartFails, Pool!Close
  <1>4. CASE Accept \/ TaskAllocationFails
    <2>1. Head(backlog) \in Conns
      BY <1>4, TailElements DEF TypeOK, OnePlace, Accept, TaskAllocationFails
    <2>2. QED
      BY <1>4, <2>1 DEF LoopState, Accept, TaskAllocationFails
  <1>5. CASE Submit
    BY <1>5 DEF LoopState, Submit, Pool!Accept
  <1>6. CASE AcceptFails
    BY <1>6 DEF LoopState, AcceptFails, Pool!Close
  <1>7. CASE PoolDestroyed
    BY <1>7 DEF LoopState, PoolDestroyed, Pool!Release
  <1>8. CASE FreeDb
    BY <1>8 DEF LoopState, FreeDb
  <1>9. CASE StartHandler
    BY <1>9 DEF LoopState, TypeOK, StartHandler, Pool!Start
  <1>10. ASSUME NEW c \in Conns, CloseClient(c) PROVE LoopState'
    BY <1>10 DEF LoopState, CloseClient, Pool!Finish
  <1>11. CASE UNCHANGED <<loopVars, pending, active>>
    BY <1>11 DEF LoopState
  <1>12. ASSUME NEW c \in Conns,
                \/ Send(c) \/ Read(c) \/ HangUp(c) \/ ReadRequest(c) \/ ReadFails(c)
                \/ TmpfileFails(c) \/ LockDb(c) \/ EngineRead(c) \/ \E captured \in BOOLEAN : EngineCommit(c, captured)
                \/ SendReply(c) \/ SigPipe(c) \/ MetricsRecord(c)
         PROVE  UNCHANGED <<loopVars, pending, active>>
    BY <1>12 DEF Send, Read, HangUp, ReadRequest, ReadFails, TmpfileFails, LockDb, EngineRead,
                 EngineCommit, SendReply, SigPipe, MetricsRecord
  <1>13. CASE UNCHANGED vars
    BY <1>11, <1>13 DEF vars
  <1>14. QED
    BY <1>1, <1>2, <1>3, <1>4, <1>5, <1>6, <1>7, <1>8, <1>9, <1>10, <1>11, <1>12, <1>13
       DEF Next, LoopStep, ReplyStep, EngineStep, Rest

-----------------------------------------------------------------------------
(* Connections                                                             *)

(* No step puts a connection in a second place or closes a descriptor that *)
(* somebody still has.                                                     *)
LEMMA OnePlaceStep ==
    TypeOK /\ LoopState /\ OnePlace /\ [Next]_vars => OnePlace'
  <1> SUFFICES ASSUME TypeOK, LoopState, OnePlace, [Next]_vars
               PROVE  OnePlace'
    OBVIOUS
  <1> USE ServerAssumption DEF loopVars, poolVars, clientVars, dbVars, metricVars, history
  <1>1. ASSUME NEW c \in Conns, NEW r \in Requests, Connect(c, r) PROVE OnePlace'
    <2>1. /\ ToSet(backlog') = ToSet(backlog) \cup {c}
          /\ IsInjective(backlog')
      BY <1>1, AppendElements DEF Connect, TypeOK, OnePlace
    <2>2. \A d \in Conns : request'[d] = IF d = c THEN r ELSE request[d]
      BY <1>1 DEF Connect, TypeOK
    <2>3. /\ r # "none"
          /\ UNCHANGED <<current, pending, active, finished, sent, gone, socket, hpc>>
          /\ request[c] = "none"
      BY <1>1 DEF Connect, AllRequests
    <2>4. QED
      BY <2>1, <2>2, <2>3 DEF OnePlace
  <1>2. ASSUME NEW c \in Conns, Send(c) \/ Read(c) \/ HangUp(c) PROVE OnePlace'
    BY <1>2 DEF OnePlace, Send, Read, HangUp
  <1>3. CASE Acquire
    BY <1>3 DEF OnePlace, Acquire
  <1>4. CASE StartFails
    BY <1>4 DEF OnePlace, StartFails, Pool!Close
  <1>5. CASE Accept
    <2>1. /\ Head(backlog) \in Conns /\ Head(backlog) \in ToSet(backlog)
          /\ ToSet(backlog') = ToSet(backlog) \ {Head(backlog)}
          /\ IsInjective(backlog') /\ current' = Head(backlog)
      BY <1>5, TailElements DEF Accept, TypeOK, OnePlace
    <2>2. \A d \in Conns : socket'[d] = IF d = current' THEN "open" ELSE socket[d]
      BY <1>5, <2>1 DEF Accept, TypeOK
    <2>3. UNCHANGED <<pending, active, finished, request, sent, gone, hpc>>
      BY <1>5 DEF Accept
    <2>4. QED
      BY <2>1, <2>2, <2>3 DEF OnePlace
  <1>6. CASE TaskAllocationFails
    <2> DEFINE h == Head(backlog)
    <2>1. /\ h \in Conns /\ h \in ToSet(backlog)
          /\ ToSet(backlog') = ToSet(backlog) \ {h}
          /\ IsInjective(backlog')
      BY <1>6, TailElements DEF TaskAllocationFails, TypeOK, OnePlace
    <2>2. \A d \in Conns : socket'[d] = IF d = h THEN "closed" ELSE socket[d]
      BY <1>6, <2>1 DEF TaskAllocationFails, TypeOK
    <2>3. UNCHANGED <<current, pending, active, finished, request, sent, gone, hpc>>
      BY <1>6 DEF TaskAllocationFails
    <2> HIDE DEF h
    <2>4. QED
      BY <2>1, <2>2, <2>3 DEF OnePlace
  <1>7. CASE Submit
    <2>1. current \in Conns /\ current \notin ToSet(pending)
      BY <1>7 DEF Submit, LoopState, TypeOK, OnePlace
    <2>2. /\ ToSet(pending') = ToSet(pending) \cup {current}
          /\ IsInjective(pending')
      BY <1>7, <2>1, AppendElements DEF Submit, Pool!Accept, TypeOK, OnePlace
    <2>3. /\ current' = NoConn
          /\ UNCHANGED <<backlog, active, finished, request, sent, gone, socket, hpc>>
      BY <1>7 DEF Submit, Pool!Accept
    <2>4. QED
      BY <2>1, <2>2, <2>3 DEF OnePlace
  <1>8. CASE AcceptFails
    <2>1. /\ ToSet(backlog') = {} /\ IsInjective(backlog')
          /\ UNCHANGED <<current, pending, active, finished, request, sent, gone, hpc>>
      BY <1>8, EmptyElements DEF AcceptFails, Pool!Close
    <2>2. \A c \in Conns : socket'[c] = IF c \in ToSet(backlog) THEN "closed" ELSE socket[c]
      BY <1>8 DEF AcceptFails
    <2>3. QED
      BY <2>1, <2>2 DEF OnePlace
  <1>9. CASE PoolDestroyed \/ FreeDb
    BY <1>9 DEF OnePlace, PoolDestroyed, Pool!Release, FreeDb
  <1>10. CASE StartHandler
    <2> DEFINE h == Head(pending)
    <2>1. /\ h \in Conns /\ h \in ToSet(pending)
          /\ ToSet(pending') = ToSet(pending) \ {h}
          /\ IsInjective(pending')
      BY <1>10, TailElements DEF StartHandler, Pool!Start, TypeOK, OnePlace
    <2>2. /\ active' = active \cup {h}
          /\ \A d \in Conns : hpc'[d] = IF d = h THEN "read" ELSE hpc[d]
      BY <1>10, <2>1 DEF StartHandler, Pool!Start, Goto, TypeOK
    <2>3. UNCHANGED <<backlog, current, finished, request, sent, gone, socket>>
      BY <1>10 DEF StartHandler, Pool!Start
    <2> HIDE DEF h
    <2>4. QED
      BY <2>1, <2>2, <2>3 DEF OnePlace
  <1>11. ASSUME NEW c \in Conns,
                \/ ReadRequest(c) \/ TmpfileFails(c) \/ LockDb(c) \/ EngineRead(c)
                \/ \E captured \in BOOLEAN : EngineCommit(c, captured)
                \/ SendReply(c) \/ SigPipe(c) \/ MetricsRecord(c)
         PROVE  OnePlace'
    <2>1. UNCHANGED <<backlog, pending, current, active, finished, request, sent, gone, socket>>
      BY <1>11 DEF ReadRequest, TmpfileFails, LockDb, EngineRead, EngineCommit, SendReply,
                   SigPipe, MetricsRecord
    <2>2. \A d \in Conns : hpc'[d] # "idle" <=> hpc[d] # "idle"
      BY <1>11 DEF ReadRequest, TmpfileFails, LockDb, EngineRead, EngineCommit, SendReply,
                   SigPipe, MetricsRecord, At, Goto, TypeOK
    <2>3. QED
      BY <2>1, <2>2 DEF OnePlace
  <1>12. ASSUME NEW c \in Conns, ReadFails(c) PROVE OnePlace'
    <2>1. UNCHANGED <<backlog, pending, current, active, finished, sent, gone, socket>>
      BY <1>12 DEF ReadFails
    <2>2. \A d \in Conns : /\ hpc'[d] # "idle" <=> hpc[d] # "idle"
                           /\ request'[d] = IF d = c THEN "malformed" ELSE request[d]
      BY <1>12 DEF ReadFails, At, Goto, TypeOK
    <2>3. QED
      BY <2>1, <2>2 DEF OnePlace
  <1>13. ASSUME NEW c \in Conns, CloseClient(c) PROVE OnePlace'
    <2>1. UNCHANGED <<backlog, pending, current, request, sent, gone>>
      BY <1>13 DEF CloseClient, Pool!Finish
    <2>2. /\ c \in active /\ active' = active \ {c} /\ finished' = finished \cup {c}
          /\ \A d \in Conns : /\ hpc'[d] = IF d = c THEN "idle" ELSE hpc[d]
                              /\ socket'[d] = IF d = c THEN "closed" ELSE socket[d]
      BY <1>13 DEF CloseClient, Pool!Finish, Goto, TypeOK
    <2>3. QED
      BY <2>1, <2>2 DEF OnePlace
  <1>14. CASE UNCHANGED vars
    BY <1>14 DEF OnePlace, vars
  <1>15. QED
    BY <1>1, <1>2, <1>3, <1>4, <1>5, <1>6, <1>7, <1>8, <1>9, <1>10, <1>11, <1>12, <1>13, <1>14
       DEF Next, LoopStep, ReplyStep, EngineStep, Rest

-----------------------------------------------------------------------------
(* Handlers, the DbApi mutex and the table                                 *)

(* Only clients that connect or send and handlers that work touch          *)
(* requests, replies, the table and the counters.                          *)
LEMMA QuietSteps ==
    ASSUME [Next]_vars
    PROVE  \/ StartHandler
           \/ \E c \in Conns :
                \/ \E r \in Requests : Connect(c, r)
                \/ Send(c) \/ ReadRequest(c) \/ ReadFails(c) \/ TmpfileFails(c)
                \/ LockDb(c) \/ EngineRead(c) \/ \E captured \in BOOLEAN : EngineCommit(c, captured)
                \/ SendReply(c) \/ MetricsRecord(c) \/ CloseClient(c)
           \/ UNCHANGED <<finished, request, sent, hpc, ok, dbVars, metricVars, history>>
  BY DEF Next, LoopStep, ReplyStep, EngineStep, Rest, vars, poolVars, clientVars, Acquire,
         StartFails, Accept, TaskAllocationFails, Submit, AcceptFails, PoolDestroyed, FreeDb,
         Read, HangUp, SigPipe, Pool!Close, Pool!Accept, Pool!Release

(* A handler sets status 200 and replies only at the end of its work.      *)
LEMMA HandlerProgressStep ==
    TypeOK /\ OnePlace /\ HandlerProgress /\ [Next]_vars => HandlerProgress'
  <1> SUFFICES ASSUME TypeOK, OnePlace, HandlerProgress, [Next]_vars
               PROVE  HandlerProgress'
    OBVIOUS
  <1> USE DEF loopVars, poolVars, clientVars, dbVars, metricVars, history
  <1>1. CASE StartHandler
    <2> DEFINE h == Head(pending)
    <2>1. h \in Conns /\ h \in ToSet(pending)
      BY <1>1, TailElements DEF StartHandler, Pool!Start, TypeOK, OnePlace
    <2>2. \A d \in Conns : hpc'[d] = IF d = h THEN "read" ELSE hpc[d]
      BY <1>1 DEF StartHandler, Goto, TypeOK
    <2>3. UNCHANGED <<ok, sent, finished, replied, request>>
      BY <1>1 DEF StartHandler, Pool!Start
    <2>4. hpc[h] = "idle" /\ h \notin finished
      BY <2>1 DEF OnePlace
    <2> HIDE DEF h
    <2>5. QED
      BY <2>1, <2>2, <2>3, <2>4 DEF HandlerProgress
  <1>2. ASSUME NEW c \in Conns, \/ \E r \in Requests : Connect(c, r)
                                \/ Send(c)
        PROVE  HandlerProgress'
    <2>1. CASE Send(c)
      BY <2>1 DEF HandlerProgress, Send
    <2>2. CASE \E r \in Requests : Connect(c, r)
      <3>1. /\ hpc[c] = "idle" /\ UNCHANGED <<ok, sent, finished, replied, hpc>>
            /\ \A d \in Conns \ {c} : request'[d] = request[d]
        BY <2>2 DEF Connect, OnePlace, TypeOK
      <3>2. QED
        BY <3>1 DEF HandlerProgress
    <2>3. QED
      BY <1>2, <2>1, <2>2
  <1>3. ASSUME NEW c \in Conns, ReadRequest(c) PROVE HandlerProgress'
    <2>1. /\ UNCHANGED <<sent, finished, replied, request>> /\ c \in sent /\ hpc[c] = "read"
          /\ \A d \in Conns \ {c} : hpc'[d] = hpc[d] /\ ok'[d] = ok[d]
          /\ \/ hpc'[c] = "lock" /\ request[c] \in QueryRequests \ {"empty"} /\ ~ok'[c]
             \/ hpc'[c] = "send"
      BY <1>3 DEF ReadRequest, At, Goto, TypeOK, QueryRequests
    <2>2. c \notin finished
      BY <2>1 DEF OnePlace
    <2>3. QED
      BY <2>1, <2>2 DEF HandlerProgress
  <1>4. ASSUME NEW c \in Conns, \/ ReadFails(c) \/ TmpfileFails(c) \/ LockDb(c) \/ EngineRead(c)
                                \/ MetricsRecord(c)
        PROVE  HandlerProgress'
    <2>1. /\ UNCHANGED <<sent, finished, replied, ok>>
          /\ \A d \in Conns \ {c} : hpc'[d] = hpc[d] /\ request'[d] = request[d]
          /\ \/ hpc[c] = "read" /\ hpc'[c] = "send"
             \/ hpc[c] = "lock" /\ hpc'[c] \in {"send", "engine"} /\ request' = request
             \/ hpc[c] = "engine" /\ hpc'[c] = "commit" /\ request' = request
             \/ hpc[c] = "record" /\ hpc'[c] = "close"
      BY <1>4 DEF ReadFails, TmpfileFails, LockDb, EngineRead, MetricsRecord, At, Goto, TypeOK
    <2>2. QED
      BY <2>1 DEF HandlerProgress
  <1>5. ASSUME NEW c \in Conns, NEW captured \in BOOLEAN, EngineCommit(c, captured)
        PROVE  HandlerProgress'
    <2>1. /\ UNCHANGED <<sent, finished, replied, request>> /\ hpc[c] = "commit" /\ hpc'[c] = "send"
          /\ \A d \in Conns \ {c} : hpc'[d] = hpc[d] /\ ok'[d] = ok[d]
      BY <1>5 DEF EngineCommit, At, Goto, TypeOK
    <2>2. QED
      BY <2>1 DEF HandlerProgress
  <1>6. ASSUME NEW c \in Conns, SendReply(c) PROVE HandlerProgress'
    <2>1. /\ UNCHANGED <<sent, finished, ok, request>> /\ hpc[c] = "send" /\ hpc'[c] = "record"
          /\ \A d \in Conns \ {c} : hpc'[d] = hpc[d]
          /\ replied' \subseteq replied \cup {c}
      BY <1>6 DEF SendReply, At, Goto, TypeOK
    <2>2. QED
      BY <2>1 DEF HandlerProgress
  <1>7. ASSUME NEW c \in Conns, CloseClient(c) PROVE HandlerProgress'
    <2>1. /\ UNCHANGED <<sent, replied, ok, request>> /\ finished' = finished \cup {c}
          /\ hpc'[c] = "idle" /\ \A d \in Conns \ {c} : hpc'[d] = hpc[d]
      BY <1>7 DEF CloseClient, Pool!Finish, Goto, TypeOK
    <2>2. QED
      BY <2>1 DEF HandlerProgress
  <1>8. CASE UNCHANGED <<finished, request, sent, hpc, ok, dbVars, metricVars, history>>
    BY <1>8 DEF HandlerProgress
  <1>9. QED
    BY <1>1, <1>2, <1>3, <1>4, <1>5, <1>6, <1>7, <1>8, QuietSteps

(* The mutex admits one handler to the engine; what it has read stays the  *)
(* table until it commits.                                                 *)
LEMMA MutexStep ==
    TypeOK /\ OnePlace /\ Mutex /\ [Next]_vars => Mutex'
  <1> SUFFICES ASSUME TypeOK, OnePlace, Mutex, [Next]_vars
               PROVE  Mutex'
    OBVIOUS
  <1> USE ServerAssumption DEF loopVars, poolVars, clientVars, dbVars, metricVars, history
  <1> DEFINE InEngine(pc) == pc \in {"engine", "commit"}
  <1>1. ASSUME NEW c \in Conns, UNCHANGED <<dbOwner, rows, view>>,
               \A d \in Conns \ {c} : hpc'[d] = hpc[d] /\ request'[d] = request[d],
               ~InEngine(hpc[c]), ~InEngine(hpc'[c])
        PROVE  Mutex'
    BY <1>1 DEF Mutex
  <1>2. CASE StartHandler
    <2> DEFINE h == Head(pending)
    <2>1. h \in Conns /\ h \in ToSet(pending)
      BY <1>2, TailElements DEF StartHandler, Pool!Start, TypeOK, OnePlace
    <2>2. \A d \in Conns : hpc'[d] = IF d = h THEN "read" ELSE hpc[d]
      BY <1>2 DEF StartHandler, Goto, TypeOK
    <2>3. UNCHANGED <<request, dbOwner, rows, view>>
      BY <1>2 DEF StartHandler
    <2>4. hpc[h] = "idle"
      BY <2>1 DEF OnePlace
    <2> HIDE DEF h
    <2>5. QED
      BY <1>1, <2>1, <2>2, <2>3, <2>4
  <1>3. ASSUME NEW c \in Conns, NEW r \in Requests, Connect(c, r) PROVE Mutex'
    <2>1. hpc[c] = "idle"
      BY <1>3 DEF Connect, OnePlace
    <2>2. QED
      BY <1>1, <1>3, <2>1 DEF Connect, TypeOK
  <1>4. ASSUME NEW c \in Conns,
               \/ ReadRequest(c) \/ ReadFails(c) \/ TmpfileFails(c) \/ SendReply(c)
               \/ MetricsRecord(c) \/ CloseClient(c)
        PROVE  Mutex'
    <2>1. /\ UNCHANGED <<dbOwner, rows, view>>
          /\ \A d \in Conns \ {c} : hpc'[d] = hpc[d] /\ request'[d] = request[d]
          /\ ~InEngine(hpc[c]) /\ ~InEngine(hpc'[c])
      BY <1>4 DEF ReadRequest, ReadFails, TmpfileFails, SendReply, MetricsRecord, CloseClient,
                  At, Goto, TypeOK
    <2>2. QED
      BY <1>1, <2>1
  <1>5. ASSUME NEW c \in Conns, LockDb(c) PROVE Mutex'
    <2>1. /\ dbOwner = NoConn /\ dbOwner' = c /\ UNCHANGED <<rows, view, request>>
          /\ hpc[c] = "lock" /\ \A d \in Conns : hpc'[d] = IF d = c THEN "engine" ELSE hpc[d]
      BY <1>5 DEF LockDb, At, Goto, TypeOK
    <2>2. QED
      BY <2>1 DEF Mutex
  <1>6. ASSUME NEW c \in Conns, EngineRead(c) PROVE Mutex'
    <2>1. /\ UNCHANGED <<dbOwner, rows, request>> /\ hpc[c] = "engine"
          /\ \A d \in Conns : /\ hpc'[d] = IF d = c THEN "commit" ELSE hpc[d]
                              /\ d # c => view'[d] = view[d]
          /\ view'[c] = IF request[c] = "insert" THEN Append(rows, Len(rows) + 1) ELSE rows
      BY <1>6 DEF EngineRead, At, Goto, TypeOK
    <2>2. QED
      BY <2>1 DEF Mutex
  <1>7. ASSUME NEW c \in Conns, NEW captured \in BOOLEAN, EngineCommit(c, captured) PROVE Mutex'
    <2>1. /\ dbOwner' = NoConn /\ UNCHANGED <<view, request>> /\ hpc[c] = "commit"
          /\ \A d \in Conns : hpc'[d] = IF d = c THEN "send" ELSE hpc[d]
          /\ rows' = IF request[c] = "insert" THEN view[c] ELSE rows
      BY <1>7 DEF EngineCommit, At, Goto, TypeOK
    <2>2. \A d \in Conns : ~InEngine(hpc'[d])
      BY <2>1 DEF Mutex
    <2>3. rows' \in {rows, Append(rows, Len(rows) + 1)}
      BY <2>1 DEF Mutex
    <2>4. \A i \in 1 .. Len(rows') : rows'[i] = i
      <3>1. CASE rows' = rows
        BY <3>1 DEF Mutex
      <3>2. CASE rows' = Append(rows, Len(rows) + 1)
        <4> DEFINE n == Len(rows)
        <4>1. rows \in Seq(Nat) /\ n \in Nat /\ \A i \in 1 .. n : rows[i] = i
          BY DEF Mutex, TypeOK
        <4>2. /\ Len(rows') = n + 1 /\ rows'[n + 1] = n + 1
              /\ \A i \in 1 .. n : rows'[i] = rows[i]
          BY <3>2, <4>1
        <4> HIDE DEF n
        <4>3. QED
          BY <4>1, <4>2
      <3>3. QED
        BY <2>3, <3>1, <3>2
    <2>5. QED
      BY <2>1, <2>2, <2>4 DEF Mutex
  <1>8. CASE UNCHANGED <<finished, request, sent, hpc, ok, dbVars, metricVars, history>>
    BY <1>8 DEF Mutex
  <1>9. ASSUME NEW c \in Conns, Send(c) PROVE Mutex'
    BY <1>9 DEF Mutex, Send
  <1>10. QED
    BY <1>2, <1>3, <1>4, <1>5, <1>6, <1>7, <1>8, <1>9, QuietSteps

(* A handler that has not decided its reply has no status 200 yet.         *)
LEMMA UndecidedNotOk ==
    ASSUME TypeOK, OnePlace, HandlerProgress, NEW c \in Conns,
           hpc[c] \in {"read", "lock", "engine", "commit"} \/ request[c] = "none"
                \/ c \in ToSet(pending)
    PROVE  ~ok[c] /\ c \notin finished
  <1>1. c \notin finished
    BY DEF OnePlace
  <1>2. request[c] = "none" \/ c \in ToSet(pending) => hpc[c] = "idle"
    BY DEF OnePlace
  <1>3. QED
    BY <1>1, <1>2 DEF HandlerProgress

(* The table only grows.                                                   *)
LEMMA RowsGrow ==
    ASSUME TypeOK, Mutex, NEW c \in Conns, NEW captured \in BOOLEAN, EngineCommit(c, captured)
    PROVE  /\ request[c] = "insert" =>
                view[c] = Append(rows, Len(rows) + 1) /\ rows' = view[c]
           /\ request[c] # "insert" => view[c] = rows /\ rows' = rows
           /\ Len(rows') \in {Len(rows), Len(rows) + 1}
           /\ request[c] = "insert" => Len(rows') = Len(rows) + 1
           /\ Len(rows) \in Nat
  <1>1. /\ request[c] = "insert" => view[c] = Append(rows, Len(rows) + 1) /\ rows' = view[c]
        /\ request[c] # "insert" => view[c] = rows /\ rows' = rows
    BY DEF EngineCommit, At, Mutex
  <1>2. Len(Append(rows, Len(rows) + 1)) = Len(rows) + 1 /\ Len(rows) \in Nat
    BY DEF TypeOK
  <1>3. QED
    BY <1>1, <1>2

(* A statement that succeeds has an id no other one has.                   *)
LEMMA OwnIdsStep ==
    TypeOK /\ OnePlace /\ HandlerProgress /\ Mutex /\ OwnIds /\ [Next]_vars => OwnIds'
  <1> SUFFICES ASSUME TypeOK, OnePlace, HandlerProgress, Mutex, OwnIds, [Next]_vars
               PROVE  OwnIds'
    OBVIOUS
  <1> USE DEF loopVars, poolVars, clientVars, dbVars, metricVars, history
  <1>1. ASSUME UNCHANGED rows,
               \A d \in Conns : Succeeded(d)' => Succeeded(d) /\ view'[d] = view[d]
        PROVE  OwnIds'
    BY <1>1 DEF OwnIds
  <1>2. ASSUME NEW c \in Conns, NEW r \in Requests, Connect(c, r) PROVE OwnIds'
    <2>1. ~ok[c]
      BY <1>2, UndecidedNotOk DEF Connect
    <2>2. QED
      BY <1>1, <1>2, <2>1 DEF Connect, Succeeded, TypeOK
  <1>3. ASSUME NEW c \in Conns, ReadRequest(c) PROVE OwnIds'
    <2>1. /\ UNCHANGED <<rows, view, request>>
          /\ \A d \in Conns \ {c} : ok'[d] = ok[d]
          /\ ok'[c] => request[c] \in {"health", "metrics"}
      BY <1>3 DEF ReadRequest, TypeOK
    <2>2. QED
      BY <1>1, <2>1 DEF Succeeded
  <1>4. ASSUME NEW c \in Conns, ReadFails(c) PROVE OwnIds'
    BY <1>1, <1>4 DEF ReadFails, Succeeded, TypeOK
  <1>5. ASSUME NEW c \in Conns, EngineRead(c) PROVE OwnIds'
    <2>1. ~ok[c]
      BY <1>5, UndecidedNotOk DEF EngineRead, At
    <2>2. QED
      BY <1>1, <1>5, <2>1 DEF EngineRead, Succeeded, TypeOK
  <1>6. ASSUME NEW c \in Conns, NEW captured \in BOOLEAN, EngineCommit(c, captured) PROVE OwnIds'
    <2>1. /\ UNCHANGED <<view, request>>
          /\ \A d \in Conns \ {c} : ok'[d] = ok[d]
      BY <1>6 DEF EngineCommit, TypeOK
    <2>2. \A d \in Conns \ {c} : Succeeded(d)' <=> Succeeded(d)
      BY <2>1 DEF Succeeded
    <2>3. /\ Len(rows) \in Nat /\ Len(rows') \in {Len(rows), Len(rows) + 1}
          /\ request[c] = "insert" => Len(rows') = Len(rows) + 1 /\ rows' = view[c]
                                       /\ view[c] = Append(rows, Len(rows) + 1)
      BY <1>6, RowsGrow
    <2>4. ASSUME Succeeded(c)'
          PROVE  Len(view[c]) = Len(rows) + 1 /\ view[c][Len(view[c])] = Len(view[c])
                 /\ Len(rows') = Len(rows) + 1
      <3>1. request[c] = "insert"
        BY <2>1, <2>4 DEF Succeeded
      <3>2. view[c] = Append(rows, Len(rows) + 1) /\ Len(rows') = Len(rows) + 1
        BY <2>3, <3>1
      <3>3. Len(view[c]) = Len(rows) + 1 /\ view[c][Len(rows) + 1] = Len(rows) + 1
        BY <3>2 DEF TypeOK
      <3>4. QED
        BY <3>2, <3>3
    <2>5. \A d \in Conns \ {c} : Succeeded(d)' =>
             Len(view[d]) \in 1 .. Len(rows) /\ view[d][Len(view[d])] = Len(view[d])
      BY <2>2 DEF OwnIds
    <2>6. \A d \in Conns : Succeeded(d)' =>
             Len(view[d]) \in 1 .. Len(rows') /\ view[d][Len(view[d])] = Len(view[d])
      BY <2>3, <2>4, <2>5
    <2>7. \A d, e \in Conns : Succeeded(d)' /\ Succeeded(e)' /\ d # e => Len(view[d]) # Len(view[e])
      BY <2>2, <2>3, <2>4, <2>5 DEF OwnIds
    <2>8. QED
      BY <2>1, <2>6, <2>7 DEF OwnIds
  <1>7. ASSUME NEW c \in Conns,
               \/ Send(c) \/ TmpfileFails(c) \/ LockDb(c) \/ SendReply(c) \/ MetricsRecord(c)
               \/ CloseClient(c)
        PROVE  OwnIds'
    <2>1. UNCHANGED <<request, ok, rows, view>>
      BY <1>7 DEF Send, TmpfileFails, LockDb, SendReply, MetricsRecord, CloseClient
    <2>2. QED
      BY <1>1, <2>1 DEF Succeeded
  <1>8. CASE StartHandler
    BY <1>1, <1>8 DEF StartHandler, Succeeded
  <1>9. CASE UNCHANGED <<finished, request, sent, hpc, ok, dbVars, metricVars, history>>
    BY <1>1, <1>9 DEF Succeeded
  <1>10. QED
    BY <1>2, <1>3, <1>4, <1>5, <1>6, <1>7, <1>8, <1>9, QuietSteps

-----------------------------------------------------------------------------
(* What clients know                                                       *)

(* The table as a set.                                                     *)
LEMMA RowsAreNumbered ==
    ASSUME TypeOK, Mutex
    PROVE  ToSet(rows) = 1 .. Len(rows) /\ IsInjective(rows)
  <1>1. /\ DOMAIN rows = 1 .. Len(rows) /\ Len(rows) \in Nat
        /\ \A i \in 1 .. Len(rows) : rows[i] = i
    BY DEF TypeOK, Mutex
  <1>2. \A i : i \in ToSet(rows) <=> i \in 1 .. Len(rows)
    BY <1>1 DEF ToSet
  <1>3. QED
    BY <1>1, <1>2 DEF IsInjective

(* What a client knew when it sent its request is never taken back.        *)
LEMMA KnownStep ==
    /\ TypeOK /\ OnePlace /\ HandlerProgress /\ Mutex /\ OwnIds /\ KnownIsKept /\ CountersAgree
    /\ [Next]_vars
    => KnownIsKept'
  <1> SUFFICES ASSUME TypeOK, OnePlace, HandlerProgress, Mutex, OwnIds, KnownIsKept,
                      CountersAgree, [Next]_vars
               PROVE  KnownIsKept'
    OBVIOUS
  <1> USE DEF loopVars, poolVars, clientVars, dbVars, metricVars, history
  <1>1. ASSUME UNCHANGED <<rows, known>>, finished \subseteq finished',
               \A d \in Conns :
                  ok'[d] => /\ ok[d] /\ view'[d] = view[d] /\ report'[d] = report[d]
                            /\ request'[d] \in {request[d], "malformed"}
        PROVE  KnownIsKept'
    BY <1>1 DEF KnownIsKept
  <1>2. ASSUME NEW c \in Conns, NEW r \in Requests, Connect(c, r) PROVE KnownIsKept'
    <2>1. ~ok[c]
      BY <1>2, UndecidedNotOk DEF Connect
    <2>2. QED
      BY <1>1, <1>2, <2>1 DEF Connect, TypeOK
  <1>3. ASSUME NEW c \in Conns, Send(c) PROVE KnownIsKept'
    <2>1. /\ UNCHANGED <<rows, view, finished, ok, request, report>>
          /\ \A d \in Conns \ {c} : known'[d] = known[d]
          /\ known'[c].ids = AckedIds /\ known'[c].closed \subseteq finished
          /\ c \notin sent
      BY <1>3 DEF Send, TypeOK
    <2>2. ~ok[c]
      BY <2>1 DEF HandlerProgress
    <2>3. AckedIds \subseteq 1 .. Len(rows)
      BY AckedTyped
    <2>4. QED
      BY <2>1, <2>2, <2>3 DEF KnownIsKept
  <1>4. ASSUME NEW c \in Conns, ReadRequest(c) PROVE KnownIsKept'
    <2>1. /\ UNCHANGED <<rows, view, finished, request, known>>
          /\ \A d \in Conns \ {c} : ok'[d] = ok[d] /\ report'[d] = report[d]
          /\ ok'[c] => request[c] \in {"health", "metrics"}
          /\ request[c] = "metrics" => report'[c] = metrics
      BY <1>4 DEF ReadRequest, TypeOK
    <2>2. known[c].closed \subseteq Counted
      BY DEF KnownIsKept, Counted
    <2>3. /\ Cardinality(known[c].closed) <= Cardinality(Counted)
      BY <2>2, FS_Subset DEF CountersAgree
    <2>4. /\ metrics.total >= Cardinality(known[c].closed)
          /\ metrics.total = metrics.ok + metrics.error
      <3>1. Cardinality(known[c].closed) \in Nat /\ Cardinality(Counted) \in Nat
        BY <2>2, FS_Subset, FS_CardinalityType DEF CountersAgree
      <3>2. QED
        BY <2>3, <3>1 DEF CountersAgree, MetricsExact
    <2>5. QED
      BY <2>1, <2>4 DEF KnownIsKept
  <1>5. ASSUME NEW c \in Conns, ReadFails(c) PROVE KnownIsKept'
    BY <1>1, <1>5 DEF ReadFails, TypeOK
  <1>6. ASSUME NEW c \in Conns, EngineRead(c) PROVE KnownIsKept'
    <2>1. ~ok[c]
      BY <1>6, UndecidedNotOk DEF EngineRead, At
    <2>2. QED
      BY <1>1, <1>6, <2>1 DEF EngineRead, TypeOK
  <1>7. ASSUME NEW c \in Conns, NEW captured \in BOOLEAN, EngineCommit(c, captured)
        PROVE  KnownIsKept'
    <2>1. /\ UNCHANGED <<view, finished, request, report, known>> /\ hpc[c] = "commit"
          /\ \A d \in Conns \ {c} : ok'[d] = ok[d]
      BY <1>7 DEF EngineCommit, At, TypeOK
    <2>2. /\ request[c] # "insert" => view[c] = rows
          /\ Len(rows) \in Nat /\ Len(rows') \in {Len(rows), Len(rows) + 1}
      BY <1>7, RowsGrow
    <2>3. ToSet(rows) = 1 .. Len(rows)
      BY RowsAreNumbered
    <2>4. request[c] = "select" => known[c].ids \subseteq ToSet(view[c])
      BY <2>2, <2>3 DEF KnownIsKept
    <2>5. ok'[c] => request[c] # "metrics"
      <3>1. hpc[c] = "commit" => request[c] # "metrics"
        BY DEF HandlerProgress, QueryRequests
      <3>2. QED
        BY <2>1, <3>1
    <2>6. QED
      BY <2>1, <2>2, <2>4, <2>5 DEF KnownIsKept
  <1>8. ASSUME NEW c \in Conns,
               \/ TmpfileFails(c) \/ LockDb(c) \/ SendReply(c) \/ MetricsRecord(c)
               \/ CloseClient(c)
        PROVE  KnownIsKept'
    <2>1. UNCHANGED <<request, ok, rows, view, known, report>> /\ finished \subseteq finished'
      BY <1>8 DEF TmpfileFails, LockDb, SendReply, MetricsRecord, CloseClient, Pool!Finish
    <2>2. QED
      BY <1>1, <2>1
  <1>9. CASE StartHandler
    BY <1>1, <1>9 DEF StartHandler, Pool!Start
  <1>10. CASE UNCHANGED <<finished, request, sent, hpc, ok, dbVars, metricVars, history>>
    BY <1>1, <1>10
  <1>11. QED
    BY <1>2, <1>3, <1>4, <1>5, <1>6, <1>7, <1>8, <1>9, <1>10, QuietSteps

-----------------------------------------------------------------------------
(* Counters                                                                *)

(* A connection that is not counted yet can change its status and request  *)
(* without changing what the counters stand for.                           *)
LEMMA CountersKept ==
    ASSUME CountersAgree, UNCHANGED metrics, Counted' = Counted,
           \A c \in Counted : ok'[c] = ok[c] /\ request'[c] = request[c]
    PROVE  CountersAgree'
  <1>1. {c \in Counted : ok[c]}' = {c \in Counted : ok[c]}
    OBVIOUS
  <1>2. {c \in Counted : request[c] \in QueryRequests}' =
        {c \in Counted : request[c] \in QueryRequests}
    OBVIOUS
  <1>3. QED
    BY <1>1, <1>2 DEF CountersAgree, MetricsExact

(* metrics_record counts a connection once, with the status it was sent.   *)
LEMMA CountersStep ==
    TypeOK /\ OnePlace /\ HandlerProgress /\ CountersAgree /\ [Next]_vars => CountersAgree'
  <1> SUFFICES ASSUME TypeOK, OnePlace, HandlerProgress, CountersAgree, [Next]_vars
               PROVE  CountersAgree'
    OBVIOUS
  <1> USE DEF loopVars, poolVars, clientVars, dbVars, metricVars, history
  <1>1. ASSUME NEW c \in Conns, c \notin finished, hpc[c] # "close", hpc'[c] # "close",
               UNCHANGED <<metrics, finished>>,
               \A d \in Conns \ {c} : /\ hpc'[d] = hpc[d] /\ ok'[d] = ok[d]
                                      /\ request'[d] = request[d]
        PROVE  CountersAgree'
    <2>1. Counted' = Counted /\ c \notin Counted /\ Counted \subseteq Conns
      BY <1>1 DEF Counted, TypeOK
    <2>2. QED
      BY <1>1, <2>1, CountersKept
  <1>2. CASE StartHandler
    <2> DEFINE h == Head(pending)
    <2>1. h \in Conns /\ h \in ToSet(pending)
      BY <1>2, TailElements DEF StartHandler, Pool!Start, TypeOK, OnePlace
    <2>2. /\ \A d \in Conns : hpc'[d] = IF d = h THEN "read" ELSE hpc[d]
          /\ UNCHANGED <<metrics, finished, ok, request>>
      BY <1>2 DEF StartHandler, Pool!Start, Goto, TypeOK
    <2>3. hpc[h] = "idle" /\ h \notin finished
      BY <2>1 DEF OnePlace
    <2> HIDE DEF h
    <2>4. QED
      BY <1>1, <2>1, <2>2, <2>3
  <1>3. ASSUME NEW c \in Conns, NEW r \in Requests, Connect(c, r) PROVE CountersAgree'
    <2>1. hpc[c] = "idle" /\ c \notin finished
      BY <1>3 DEF Connect, OnePlace
    <2>2. QED
      BY <1>1, <1>3, <2>1 DEF Connect, TypeOK
  <1>4. ASSUME NEW c \in Conns,
               \/ ReadRequest(c) \/ ReadFails(c) \/ TmpfileFails(c) \/ LockDb(c) \/ EngineRead(c)
               \/ \E captured \in BOOLEAN : EngineCommit(c, captured)
               \/ SendReply(c)
        PROVE  CountersAgree'
    <2>1. /\ UNCHANGED <<metrics, finished>>
          /\ hpc[c] \notin {"idle", "close"} /\ hpc'[c] # "close"
          /\ \A d \in Conns \ {c} : /\ hpc'[d] = hpc[d] /\ ok'[d] = ok[d]
                                    /\ request'[d] = request[d]
      BY <1>4 DEF ReadRequest, ReadFails, TmpfileFails, LockDb, EngineRead, EngineCommit,
                  SendReply, At, Goto, TypeOK
    <2>2. c \notin finished
      BY <2>1 DEF OnePlace
    <2>3. QED
      BY <1>1, <2>1, <2>2
  <1>5. ASSUME NEW c \in Conns, MetricsRecord(c) PROVE CountersAgree'
    <2>1. /\ hpc[c] = "record" /\ UNCHANGED <<finished, ok, request>>
          /\ \A d \in Conns : hpc'[d] = IF d = c THEN "close" ELSE hpc[d]
      BY <1>5 DEF MetricsRecord, At, Goto, TypeOK
    <2>2. /\ metrics'.total = metrics.total + 1
          /\ metrics'.query = metrics.query + (IF request[c] \in QueryRequests THEN 1 ELSE 0)
          /\ metrics'.ok = metrics.ok + (IF ok[c] THEN 1 ELSE 0)
          /\ metrics'.error = metrics.error + (IF ok[c] THEN 0 ELSE 1)
      BY <1>5 DEF MetricsRecord
    <2>3. c \notin Counted /\ Counted' = Counted \cup {c}
      <3>1. c \notin finished
        BY <2>1 DEF OnePlace
      <3>2. QED
        BY <2>1, <3>1 DEF Counted
    <2> DEFINE Ok == {d \in Counted : ok[d]}
               Query == {d \in Counted : request[d] \in QueryRequests}
    <2>4. IsFiniteSet(Counted) /\ IsFiniteSet(Ok) /\ IsFiniteSet(Query)
      BY FS_Subset DEF CountersAgree
    <2>5. IsFiniteSet(Counted') /\ Cardinality(Counted') = Cardinality(Counted) + 1
      BY <2>3, <2>4, FS_AddElement
    <2>6. Cardinality(Ok') = Cardinality(Ok) + (IF ok[c] THEN 1 ELSE 0)
      <3>1. CASE ok[c]
        <4>1. Ok' = Ok \cup {c} /\ c \notin Ok
          BY <2>1, <2>3, <3>1
        <4>2. QED
          BY <2>4, <3>1, <4>1, FS_AddElement
      <3>2. CASE ~ok[c]
        <4>1. Ok' = Ok
          BY <2>1, <2>3, <3>2
        <4>2. Cardinality(Ok) \in Nat
          BY <2>4, FS_CardinalityType
        <4>3. QED
          BY <3>2, <4>1, <4>2
      <3>3. QED
        BY <3>1, <3>2
    <2>7. Cardinality(Query') =
             Cardinality(Query) + (IF request[c] \in QueryRequests THEN 1 ELSE 0)
      <3>1. CASE request[c] \in QueryRequests
        <4>1. Query' = Query \cup {c} /\ c \notin Query
          BY <2>1, <2>3, <3>1
        <4>2. Cardinality(Query \cup {c}) = Cardinality(Query) + 1
          BY <2>4, <4>1, FS_AddElement
        <4>3. QED
          BY <3>1, <4>1, <4>2
      <3>2. CASE request[c] \notin QueryRequests
        <4>1. Query' = Query
          BY <2>1, <2>3, <3>2
        <4>2. Cardinality(Query) \in Nat /\ Cardinality(Query') = Cardinality(Query)
          BY <2>4, <4>1, FS_CardinalityType
        <4> HIDE DEF Query
        <4>3. QED
          BY <3>2, <4>2
      <3>3. QED
        BY <3>1, <3>2
    <2>8. /\ metrics.total = Cardinality(Counted) /\ metrics.ok = Cardinality(Ok)
          /\ metrics.query = Cardinality(Query) /\ metrics.total = metrics.ok + metrics.error
      BY DEF CountersAgree, MetricsExact
    <2>9. MetricsExact'
      BY <2>2, <2>5, <2>6, <2>7, <2>8 DEF MetricsExact
    <2>10. metrics'.total = metrics'.ok + metrics'.error
      <3>1. metrics.ok \in Nat /\ metrics.error \in Nat
        BY DEF TypeOK, MetricsType
      <3>2. QED
        BY <2>2, <2>8, <3>1
    <2>11. QED
      BY <2>5, <2>9, <2>10 DEF CountersAgree
  <1>6. ASSUME NEW c \in Conns, CloseClient(c) PROVE CountersAgree'
    <2>1. /\ hpc[c] = "close" /\ finished' = finished \cup {c}
          /\ \A d \in Conns : hpc'[d] = IF d = c THEN "idle" ELSE hpc[d]
          /\ UNCHANGED <<metrics, ok, request>>
      BY <1>6 DEF CloseClient, Pool!Finish, At, Goto, TypeOK
    <2>2. Counted' = Counted
      BY <2>1 DEF Counted
    <2>3. QED
      BY <2>1, <2>2, CountersKept
  <1>7. ASSUME UNCHANGED <<finished, hpc, ok, request, metrics>> PROVE CountersAgree'
    BY <1>7, CountersKept DEF Counted
  <1>8. ASSUME NEW c \in Conns, Send(c) PROVE CountersAgree'
    BY <1>7, <1>8 DEF Send
  <1>9. CASE UNCHANGED <<finished, request, sent, hpc, ok, dbVars, metricVars, history>>
    BY <1>7, <1>9
  <1>10. QED
    BY <1>2, <1>3, <1>4, <1>5, <1>6, <1>8, <1>9, QuietSteps

-----------------------------------------------------------------------------
(* The theorems                                                            *)

(* The inductive invariant holds before api_server_run starts.             *)
LEMMA IndInvInit == Init => IndInv
  <1> SUFFICES ASSUME Init PROVE IndInv
    OBVIOUS
  <1> USE ServerAssumption
  <1>1. TypeOK
    BY TypeInit
  <1>2. LoopState
    BY DEF Init, Pool!Init, LoopState
  <1>3. OnePlace
    BY EmptyElements DEF Init, Pool!Init, OnePlace
  <1>4. HandlerProgress /\ Mutex
    BY DEF Init, Pool!Init, HandlerProgress, Mutex
  <1>5. OwnIds /\ KnownIsKept
    BY DEF Init, Pool!Init, OwnIds, Succeeded, KnownIsKept
  <1>6. CountersAgree
    <2>1. Counted = {}
      BY DEF Init, Pool!Init, Counted
    <2>2. {c \in Counted : ok[c]} = {} /\ {c \in Counted : request[c] \in QueryRequests} = {}
      BY <2>1
    <2>3. QED
      BY <2>1, <2>2, FS_EmptySet DEF Init, NoMetrics, CountersAgree, MetricsExact
  <1>7. QED
    BY <1>1, <1>2, <1>3, <1>4, <1>5, <1>6 DEF IndInv

(* IndInv is an inductive invariant of the server.                         *)
THEOREM Invariance == Spec => []IndInv
  <1>1. IndInv /\ [Next]_vars => IndInv'
    BY TypeStep, LoopStateStep, OnePlaceStep, HandlerProgressStep, MutexStep, OwnIdsStep,
       KnownStep, CountersStep DEF IndInv
  <1>2. QED
    BY <1>1, IndInvInit, PTL DEF Spec

(* Type correctness of the server's state.                                 *)
THEOREM TypeCorrectness == Spec => []TypeOK
  BY Invariance, PTL DEF IndInv

(* No descriptor is used or closed a second time after its close, whatever *)
(* way the connection took through the backlog, the queue and the workers  *)
(* (api_server.c 1226-1302, 1377-1413).                                    *)
THEOREM ClosedIsForgotten == Spec => []ClosedSocketIsForgotten
  <1>1. IndInv => ClosedSocketIsForgotten
    BY DEF IndInv, OnePlace, ClosedSocketIsForgotten, TypeOK
  <1>2. QED
    BY <1>1, Invariance, PTL

(* The pool, the database and the metrics mutex outlive every handler, and *)
(* nothing is left when api_server_run returns.                            *)
THEOREM ReleasedIsUnused == Spec => []ReleasedUnused
  <1>1. IndInv => ReleasedUnused
    <2> SUFFICES ASSUME IndInv PROVE ReleasedUnused
      OBVIOUS
    <2>1. (\E c \in Conns : hpc[c] # "idle") => {"metrics", "db", "pool"} \subseteq held
      <3>1. (\E c \in Conns : hpc[c] # "idle") => active # {}
        BY DEF IndInv, OnePlace
      <3>2. active # {} => lpc \in {"accept", "submit", "destroy"}
        BY DEF IndInv, LoopState, TypeOK
      <3>3. QED
        BY <3>1, <3>2 DEF IndInv, LoopState
    <2>2. lpc \in {"accept", "submit"} => held = ToSet(Resources)
      BY AllResources DEF IndInv, LoopState
    <2>3. lpc = "done" => held = {} /\ pending = <<>> /\ current = NoConn
      BY DEF IndInv, LoopState
    <2>4. QED
      BY <2>1, <2>2, <2>3 DEF ReleasedUnused
  <1>2. QED
    BY <1>1, Invariance, PTL

(* The DbApi mutex serialises statements: whatever the number of workers,  *)
(* no id is given twice and no acknowledged row is lost                    *)
(* (db_api.c 213-234).                                                     *)
THEOREM StatementsAreSerialised == Spec => []StatementsSerialised
  <1>1. IndInv => StatementsSerialised
    <2> SUFFICES ASSUME IndInv PROVE StatementsSerialised
      OBVIOUS
    <2>1. IsInjective(rows) /\ ToSet(rows) = 1 .. Len(rows)
      BY RowsAreNumbered DEF IndInv
    <2>2. AckedIds \subseteq ToSet(rows)
      BY <2>1, AckedTyped DEF IndInv
    <2>3. ASSUME NEW c \in replied, NEW d \in replied, Succeeded(c), Succeeded(d), c # d
          PROVE  Last(view[c]) # Last(view[d])
      <3>1. c \in Conns /\ d \in Conns
        BY DEF IndInv, TypeOK
      <3>2. QED
        BY <2>3, <3>1 DEF IndInv, OwnIds, Last
    <2>4. QED
      BY <2>1, <2>2, <2>3 DEF StatementsSerialised, Succeeded
  <1>2. QED
    BY <1>1, Invariance, PTL

(* A SELECT sees every INSERT that was acknowledged before it was sent,    *)
(* whichever workers ran them.                                             *)
THEOREM WritesAreRead == Spec => []ReadYourWrites
  <1>1. IndInv => ReadYourWrites
    BY DEF IndInv, KnownIsKept, ReadYourWrites, TypeOK
  <1>2. QED
    BY <1>1, Invariance, PTL

(* A /metrics reply counts everything the client has seen end, and its     *)
(* numbers add up (api_server.c 105-175, 1226-1302).                       *)
THEOREM MetricsAreCurrent == Spec => []MetricsCountClosed
  <1>1. IndInv => MetricsCountClosed
    BY DEF IndInv, KnownIsKept, MetricsCountClosed, TypeOK
  <1>2. QED
    BY <1>1, Invariance, PTL

(* The counters are exact after any interleaving of handlers.              *)
THEOREM MetricsAreExact == Spec => []MetricsExact
  <1>1. IndInv => MetricsExact
    BY DEF IndInv, CountersAgree
  <1>2. QED
    BY <1>1, Invariance, PTL
=============================================================================
