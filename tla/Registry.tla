------------------------------ MODULE Registry ------------------------------
(***************************************************************************)
(* The transactions of TamarackDB, from Begin to the answer to Commit, the *)
(* pause, and the requests that share the write queue with them: package   *)
(* tx over packages writer and store, with the crash of the server.        *)
(*                                                                         *)
(* A process is a call under way: a transaction has at most one, an        *)
(* administrative request is one by itself.  The grain is the lock: what   *)
(* one hold of Registry.mu does, what one SQLite transaction does, and     *)
(* what one step of the queue does, is a step.  A call that only marks the *)
(* transaction busy and then touches what is private to it is one step up  *)
(* to its release: nothing tells apart when in between it did.             *)
(*                                                                         *)
(* lock() ends the idle transactions in every hold of Registry.mu.  Each   *)
(* such step here looks at Live, the transactions left after that, and     *)
(* forgets the others.                                                     *)
(***************************************************************************)
EXTENDS Decisions

CONSTANTS Admin,              \* requests outside a transaction
          MaxQueued,          \* Config.MaxQueued of the writer, 0 for no limit
          MaxEventsPerTx, MaxReadsPerTx, MaxProjectionsPerTx,
          MaxEventsPerTxRead,
          MaxOpenTx,          \* the limits of tx.Config
          Asked,              \* what requests ask; "deleteEvents" in dev mode only
          MayCrash, MayClose, \* the server may crash and restart; may shut down
          MaxVersion          \* bound: versions the model hands out

Requests == {"pause", "resume", "projections", "deleteProjections", "deleteEvents", "optimize"}

ASSUME RegistryAssumption ==
    /\ Tx \cap Admin = {}
    /\ MaxQueued \in Nat /\ MaxOpenTx \in Nat
    /\ MaxEventsPerTx \in Nat /\ MaxReadsPerTx \in Nat /\ MaxProjectionsPerTx \in Nat
    /\ MaxEventsPerTxRead \in Nat /\ MaxVersion \in Nat
    /\ Asked \subseteq Requests
    /\ MayCrash \in BOOLEAN /\ MayClose \in BOOLEAN

VARIABLES
    \* tx.Registry
    txs,        \* the open transactions
    begun,      \* the transactions that were ever begun: an id is never reused
    idle,       \* the transactions of txs last used IdleTimeout ago or longer
    tx,         \* what each transaction holds
    pause,      \* Registry.pause
    \* queue.Manager and writer.Writer (Line.tla)
    line, working, closed,
    \* store.Store: the file, then the counter in memory
    events,     \* the committed events
    paused,     \* store.paused_at is set
    version,    \* the version of each projection
    lastVersion,\* the last version handed out
    nextSeq,    \* Store.nextSeq
    start,      \* the local variable start of Append, while positions are reserved
    \* calls
    pc,         \* where each call is
    job         \* what each administrative request asks for

registryVars == <<txs, begun, idle, tx, pause>>
queueVars    == <<line, working, closed>>
fileVars     == <<events, paused, version, lastVersion>>
counterVars  == <<nextSeq, start>>
callVars     == <<pc, job>>
vars == <<registryVars, queueVars, fileVars, counterVars, callVars>>

Proc == Tx \cup Admin

Queue == INSTANCE Line

-----------------------------------------------------------------------------
(* State *)

Transaction ==
    [open        : SUBSET Condition,   \* the open condition, if any
     conditions  : Seq(Condition),
     events      : Seq(Kind),
     projections : [Key -> ProjectionState]]

NewTransaction ==
    [open |-> {}, conditions |-> <<>>, events |-> <<>>,
     projections |-> [k \in Key |-> Untouched]]

(***************************************************************************)
(* free      no call uses the transaction; the request is not made         *)
(* called    a call on the transaction did its work and is to release it   *)
(* joining   about to join the queue                                       *)
(* queued    in line                                                       *)
(* turn      has the turn, and began its work                              *)
(* reserved  Append checked everything and reserved its positions          *)
(* worked    its work is over, turn.Done is to come                        *)
(* ending    the commit is over, the transaction is to be ended            *)
(***************************************************************************)
Stages == {"free", "called", "joining", "queued", "turn", "reserved", "worked", "ending"}

NoWrites == [k \in Key |-> [op |-> "none", at |-> NoVersion]]

NoJob == [request |-> "optimize", writes |-> NoWrites]

TypeOK ==
    /\ txs \subseteq begun
    /\ begun \subseteq Tx
    /\ idle \subseteq txs
    /\ tx \in [Tx -> Transaction]
    /\ pause \in {"Running", "PauseRequested", "Paused"}
    /\ line \in Seq(Proc)
    /\ working \in BOOLEAN
    /\ closed \in BOOLEAN
    /\ events \subseteq Event
    /\ paused \in BOOLEAN
    /\ version \in [Key -> Nat]
    /\ lastVersion \in Nat
    /\ nextSeq \in Nat \ {0}
    /\ start \in Nat \ {0}
    /\ pc \in [Proc -> Stages]
    /\ job \in [Admin -> [request : Requests, writes : StoreWrites]]

Init ==
    /\ txs = {} /\ begun = {} /\ idle = {}
    /\ tx = [t \in Tx |-> NewTransaction]
    /\ pause = "Running"
    /\ Queue!Init
    /\ events = {} /\ paused = FALSE
    /\ version = [k \in Key |-> NoVersion] /\ lastVersion = 0
    /\ nextSeq = 1 /\ start = 1
    /\ pc = [p \in Proc |-> "free"]
    /\ job = [a \in Admin |-> NoJob]

Goto(p, stage) == pc' = [pc EXCEPT ![p] = stage]

\* Mutants of Expired: a transaction in use expires too; none ever does.
ExpiredInUse == idle
ExpiredNever == {}

\* lock: a free transaction idle for IdleTimeout is ended.
Expired == {t \in idle : pc[t] = "free"}
Live    == txs \ Expired

\* Mutant of Registered: the idle time of a transaction outlives it.
RegisteredKeepIdle(open, new) ==
    /\ txs' = open
    /\ idle' = idle
    /\ tx' = [t \in Tx |-> IF t \in Expired THEN NewTransaction ELSE new[t]]

\* The registry after a hold of its lock that leaves the transactions "open",
\* with what "new" says they hold.
Registered(open, new) ==
    /\ txs' = open
    /\ idle' = idle \cap open
    /\ tx' = [t \in Tx |-> IF t \in Expired THEN NewTransaction ELSE new[t]]

LastSequence == nextSeq - 1

-----------------------------------------------------------------------------
(* Time and the calls that change nothing *)

\* IdleTimeout passes since t was last used, busy or not.
Tick(t) ==
    /\ t \in txs \ idle
    /\ idle' = idle \cup {t}
    /\ UNCHANGED <<txs, begun, tx, pause, queueVars, fileVars, counterVars, callVars>>

\* A call that only takes the lock: Stats, PauseInfo, a Begin refused, a call
\* on a transaction that is busy (ErrBusy) or not there (ErrNotFound).
Sweep ==
    /\ Expired # {}
    /\ Registered(Live, tx)
    /\ UNCHANGED <<begun, pause, queueVars, fileVars, counterVars, callVars>>

-----------------------------------------------------------------------------
(* The life of a transaction, up to its commit *)

\* Mutant of Begin: only the limit on open transactions refuses.
BeginPaused(t) ==
    /\ t \notin begun
    /\ MaxOpenTx > 0 => Cardinality(Live) < MaxOpenTx
    /\ begun' = begun \cup {t}
    /\ Registered(Live \cup {t}, [tx EXCEPT ![t] = NewTransaction])
    /\ UNCHANGED <<pause, queueVars, fileVars, counterVars, callVars>>

\* Begin.
Begin(t) ==
    /\ t \notin begun
    /\ pause = "Running"
    /\ MaxOpenTx > 0 => Cardinality(Live) < MaxOpenTx
    /\ begun' = begun \cup {t}
    /\ Registered(Live \cup {t}, [tx EXCEPT ![t] = NewTransaction])
    /\ UNCHANGED <<pause, queueVars, fileVars, counterVars, callVars>>

\* acquire: t is there, and no call uses it.
Acquire(t) == t \in Live /\ pc[t] = "free"

\* Mutant of ReadEvents: the position is the counter's, not the snapshot's.
ReadEventsAtCounter(t, q, limit) ==
    /\ Acquire(t)
    /\ tx[t].open = {}
    /\ Len(tx[t].conditions) + 1 <= MaxReadsPerTx
    /\ limit > 0 \/ Cardinality(Matching(q, events)) <= MaxEventsPerTxRead
    /\ Registered(Live, [tx EXCEPT ![t].open = {[Opened(q, events) EXCEPT !.after = LastSequence]}])
    /\ Goto(t, "called")
    /\ UNCHANGED <<begun, pause, queueVars, fileVars, counterVars, job>>

\* ReadEvents of q, with a limit (0 for none): the snapshot, the condition it
\* opens.  The condition is the whole query, whatever the limit.
ReadEvents(t, q, limit) ==
    LET matches == Cardinality(Matching(q, events))
                   + Cardinality({i \in DOMAIN tx[t].events : tx[t].events[i] \in q})
        count   == IF limit > 0 /\ matches > limit THEN limit ELSE matches
    IN  /\ Acquire(t)
        /\ tx[t].open = {}
        /\ Len(tx[t].conditions) + 1 <= MaxReadsPerTx
        /\ count <= MaxEventsPerTxRead
        /\ Registered(Live, [tx EXCEPT ![t].open = {Opened(q, events)}])
        /\ Goto(t, "called")
        /\ UNCHANGED <<begun, pause, queueVars, fileVars, counterVars, job>>

\* WriteEvents: the events of the decision, or none; the condition closes.
WriteEvents(t, batch) ==
    /\ Acquire(t)
    /\ Len(tx[t].events) + Len(batch) <= MaxEventsPerTx
    /\ \E c \in tx[t].open :
          Registered(Live, [tx EXCEPT ![t] =
                              [@ EXCEPT !.events = tx[t].events \o batch,
                                        !.conditions = Append(tx[t].conditions, c),
                                        !.open = {}]])
    /\ Goto(t, "called")
    /\ UNCHANGED <<begun, pause, queueVars, fileVars, counterVars, job>>

\* GetProjection.
GetProjection(t, k) ==
    /\ Acquire(t)
    /\ Registered(Live, [tx EXCEPT ![t].projections[k] = Fetched(@, version[k])])
    /\ Goto(t, "called")
    /\ UNCHANGED <<begun, pause, queueVars, fileVars, counterVars, job>>

\* WriteProjections of w, an operation for each projection.
WriteProjections(t, w) ==
    LET old == tx[t].projections
        new == [k \in Key |-> Written(w[k], old[k])]
    IN  /\ Acquire(t)
        /\ tx[t].open = {}
        /\ \E k \in Key : w[k] # "none"
        /\ \A k \in Key : Allowed(w[k], old[k])
        /\ Cardinality({k \in Key : new[k].written}) <= MaxProjectionsPerTx
        /\ Registered(Live, [tx EXCEPT ![t].projections = new])
        /\ Goto(t, "called")
        /\ UNCHANGED <<begun, pause, queueVars, fileVars, counterVars, job>>

\* Mutant of Release: t is free when the lock ends the idle transactions.
ReleaseFirst(t) ==
    /\ pc[t] = "called"
    /\ txs' = Live \ (idle \cap {t})
    /\ idle' = (idle \cap Live) \ {t}
    /\ tx' = [u \in Tx |-> IF u \in Expired \cup (idle \cap {t}) THEN NewTransaction ELSE tx[u]]
    /\ Goto(t, "free")
    /\ UNCHANGED <<begun, pause, queueVars, fileVars, counterVars, job>>

\* release: the lock is taken, and idle transactions ended, while t is still
\* busy; only then is t free, and used now.
Release(t) ==
    /\ pc[t] = "called"
    /\ txs' = Live
    /\ idle' = (idle \cap Live) \ {t}
    /\ tx' = [u \in Tx |-> IF u \in Expired THEN NewTransaction ELSE tx[u]]
    /\ Goto(t, "free")
    /\ UNCHANGED <<begun, pause, queueVars, fileVars, counterVars, job>>

\* A call that ends the transaction: Abandon, Reject, and any call that breaks
\* a rule, goes over a limit, or fails to read the store (do, end, release).
EndTx(t) ==
    /\ Acquire(t)
    /\ Registered(Live \ {t}, [tx EXCEPT ![t] = NewTransaction])
    /\ UNCHANGED <<begun, pause, queueVars, fileVars, counterVars, callVars>>

-----------------------------------------------------------------------------
(* Requests for a turn *)

Unprojected(t) == NothingWritten(NetProjections(tx[t].projections))
Nothing(t)     == tx[t].events = <<>> /\ Unprojected(t)

\* Mutant of Commit: the transaction leaves the registry before it is written.
CommitUnregistered(t) ==
    /\ Acquire(t)
    /\ tx[t].open = {}
    /\ Registered(Live \ {t}, tx)
    /\ Goto(t, IF Nothing(t) THEN "ending" ELSE "joining")
    /\ UNCHANGED <<begun, pause, queueVars, fileVars, counterVars, job>>

\* Commit: with nothing to write, it is over at once, without a turn and
\* whatever its conditions.  The transaction stays registered meanwhile.
Commit(t) ==
    /\ Acquire(t)
    /\ tx[t].open = {}
    /\ Registered(Live, tx)
    /\ Goto(t, IF Nothing(t) THEN "ending" ELSE "joining")
    /\ UNCHANGED <<begun, pause, queueVars, fileVars, counterVars, job>>

\* What an administrative request may ask.  A version a client sends is one
\* the server once answered, maybe for another projection; a request that
\* names a projection twice is refused before it joins.
Jobs ==
    [request : Asked \ {"projections"}, writes : {NoWrites}]
    \cup
    [request : Asked \cap {"projections"},
     writes  : {w \in [Key -> [op : Operations, at : 0..lastVersion]] :
                   /\ ~NothingWritten(w)
                   /\ \A k \in Key : (w[k].at = NoVersion) <=> (w[k].op \in {"none", "create"})}]

\* A handler is called.  Resume joins only if a pause is requested or in place;
\* it looks under the lock.
Request(a, j) ==
    /\ pc[a] = "free"
    /\ j \in Jobs
    /\ j.request = "projections" => lastVersion < MaxVersion
    /\ IF j.request = "resume"
       THEN pause # "Running" /\ Registered(Live, tx)
       ELSE UNCHANGED <<txs, idle, tx>>
    /\ job' = [job EXCEPT ![a] = j]
    /\ Goto(a, "joining")
    /\ UNCHANGED <<begun, pause, queueVars, fileVars, counterVars>>

\* After RunInTurn: Commit has the transaction to end, a request is answered.
After(p) == IF p \in Tx THEN "ending" ELSE "free"

\* Mutant of Refused: a commit that is refused is answered, and nothing more.
RefusedAnswered(p) ==
    /\ pc[p] = "joining"
    /\ closed \/ Queue!Full
    /\ Goto(p, "free")
    /\ UNCHANGED <<registryVars, queueVars, fileVars, counterVars, job>>

\* Join: a full line refuses...
Refused(p) ==
    /\ pc[p] = "joining"
    /\ closed \/ Queue!Full
    /\ Goto(p, After(p))
    /\ UNCHANGED <<registryVars, queueVars, fileVars, counterVars, job>>

\* ... and any other takes p.
Join(p) ==
    /\ pc[p] = "joining"
    /\ Queue!Enter(p)
    /\ Goto(p, "queued")
    /\ UNCHANGED <<registryVars, fileVars, counterVars, job>>

\* The writer is closed: Join, or RunInTurn in turn, returns ErrClosed.
TurnAway(p) ==
    /\ pc[p] = "queued"
    /\ Queue!TurnAway(p)
    /\ Goto(p, After(p))
    /\ UNCHANGED <<registryVars, fileVars, counterVars, job>>

\* The turn comes, and the work begins.
Start(p) ==
    /\ pc[p] = "queued"
    /\ Queue!Begin(p)
    /\ Goto(p, "turn")
    /\ UNCHANGED <<registryVars, fileVars, counterVars, job>>

\* turn.Done.
Leave(p) ==
    /\ pc[p] = "worked"
    /\ Queue!Leave(p)
    /\ Goto(p, After(p))
    /\ UNCHANGED <<registryVars, fileVars, counterVars, job>>

\* The end of Commit: counted if it committed, ended whatever the outcome,
\* released.
EndCommit(t) ==
    /\ pc[t] = "ending"
    /\ Registered(Live \ {t}, [tx EXCEPT ![t] = NewTransaction])
    /\ Goto(t, "free")
    /\ UNCHANGED <<begun, pause, queueVars, fileVars, counterVars, job>>

-----------------------------------------------------------------------------
(* store.Append, for the commit of t *)

AllHold(t) ==
    /\ \A i \in DOMAIN tx[t].conditions : Holds(tx[t].conditions[i], events, LastSequence)
    /\ VersionsHold(NetProjections(tx[t].projections), version)

\* The conditions and the versions hold: the positions are reserved.
Reserve(t) ==
    /\ pc[t] = "turn"
    /\ AllHold(t)
    /\ start' = nextSeq
    /\ nextSeq' = nextSeq + Len(tx[t].events)
    /\ Goto(t, "reserved")
    /\ UNCHANGED <<registryVars, queueVars, fileVars, job>>

\* One does not hold, or SQLite fails before that: nothing is reserved.
Refuse(t) ==
    /\ pc[t] = "turn"
    /\ Goto(t, "worked")
    /\ UNCHANGED <<registryVars, queueVars, fileVars, counterVars, job>>

\* Mutant of Inserted: the first event gets the position after the first one.
InsertedOneOff(t) ==
    {[seq |-> start + i, kind |-> tx[t].events[i], by |-> t] : i \in DOMAIN tx[t].events}

Inserted(t) ==
    {[seq |-> start + i - 1, kind |-> tx[t].events[i], by |-> t] : i \in DOMAIN tx[t].events}

\* The SQLite transaction commits: projections and events, all at once.
CommitWrite(t) ==
    /\ pc[t] = "reserved"
    /\ events' = events \cup Inserted(t)
    /\ version' = NewVersions(NetProjections(tx[t].projections), version, lastVersion + 1)
    /\ lastVersion' = IF Unprojected(t) THEN lastVersion ELSE lastVersion + 1
    /\ start' = 1
    /\ Goto(t, "worked")
    /\ UNCHANGED <<registryVars, queueVars, paused, nextSeq, job>>

\* Mutant of FailWrite: the positions are not given back.
FailWriteKeepPositions(t) ==
    /\ pc[t] = "reserved"
    /\ start' = 1
    /\ Goto(t, "worked")
    /\ UNCHANGED <<registryVars, queueVars, fileVars, nextSeq, job>>

\* The insert or the commit fails, or the code panics: the SQLite transaction
\* is rolled back, and the deferred releaseSequences gives the positions back.
FailWrite(t) ==
    /\ pc[t] = "reserved"
    /\ nextSeq' = start
    /\ start' = 1
    /\ Goto(t, "worked")
    /\ UNCHANGED <<registryVars, queueVars, fileVars, job>>

-----------------------------------------------------------------------------
(* The other requests, in turn *)

InTurn(a, request) == a \in Admin /\ pc[a] = "turn" /\ job[a].request = request

\* Pause, in one hold of the lock: in place already, or requested because
\* transactions are open, or put in place.
Pause(a) ==
    /\ InTurn(a, "pause")
    /\ Registered(Live, tx)
    /\ \/ /\ pause = "Paused"
          /\ UNCHANGED <<pause, paused>>
       \/ /\ pause # "Paused"
          /\ Live # {}
          /\ pause' = "PauseRequested"
          /\ UNCHANGED paused
       \/ /\ pause # "Paused"
          /\ Live = {}
          /\ pause' = "Paused"
          /\ paused' = TRUE
    /\ Goto(a, "worked")
    /\ UNCHANGED <<begun, queueVars, events, version, lastVersion, counterVars, job>>

\* Resume, in one hold of the lock.
Resume(a) ==
    /\ InTurn(a, "resume")
    /\ Registered(Live, tx)
    /\ pause' = "Running"
    /\ paused' = IF pause = "Paused" THEN FALSE ELSE paused
    /\ Goto(a, "worked")
    /\ UNCHANGED <<begun, queueVars, events, version, lastVersion, counterVars, job>>

\* POST /projections: store.Append with no event and no condition.
PostProjections(a) ==
    /\ InTurn(a, "projections")
    /\ VersionsHold(job[a].writes, version)
    /\ version' = NewVersions(job[a].writes, version, lastVersion + 1)
    /\ lastVersion' = lastVersion + 1
    /\ Goto(a, "worked")
    /\ UNCHANGED <<registryVars, queueVars, events, paused, counterVars, job>>

\* DELETE /projections, all of them or those of a type.
DeleteProjections(a) ==
    /\ InTurn(a, "deleteProjections")
    /\ \E deleted \in SUBSET Key :
          version' = [k \in Key |-> IF k \in deleted THEN NoVersion ELSE version[k]]
    /\ Goto(a, "worked")
    /\ UNCHANGED <<registryVars, queueVars, events, paused, lastVersion, counterVars, job>>

\* Mutant of DeleteEvents: the counter starts over.
DeleteEventsAndCounter(a) ==
    /\ InTurn(a, "deleteEvents")
    /\ events' = {}
    /\ nextSeq' = 1
    /\ Goto(a, "worked")
    /\ UNCHANGED <<registryVars, queueVars, paused, version, lastVersion, start, job>>

\* DELETE /events: the events go, the counter stays.
DeleteEvents(a) ==
    /\ InTurn(a, "deleteEvents")
    /\ events' = {}
    /\ Goto(a, "worked")
    /\ UNCHANGED <<registryVars, queueVars, paused, version, lastVersion, counterVars, job>>

\* A request that leaves the store as it was: POST /optimize, a conflict, or a
\* SQLite error.  Pause and Resume hold the lock, and keep the state they found.
WorkFails(a) ==
    /\ a \in Admin
    /\ pc[a] = "turn"
    /\ \/ /\ job[a].request = "pause"
          /\ pause # "Paused" /\ Live = {}
          /\ Registered(Live, tx)
       \/ /\ job[a].request = "resume"
          /\ pause = "Paused"
          /\ Registered(Live, tx)
       \/ /\ job[a].request \notin {"pause", "resume"}
          /\ UNCHANGED <<txs, idle, tx>>
    /\ Goto(a, "worked")
    /\ UNCHANGED <<begun, pause, queueVars, fileVars, counterVars, job>>

-----------------------------------------------------------------------------
(* The server *)

\* Writer.Close, at shutdown.
Close ==
    /\ MayClose
    /\ Queue!Close
    /\ UNCHANGED <<registryVars, fileVars, counterVars, callVars>>

\* Mutant of Restart: the pause is not read from the file.
RestartRunning ==
    /\ MayCrash
    /\ txs' = {} /\ idle' = {} /\ UNCHANGED begun
    /\ tx' = [t \in Tx |-> NewTransaction]
    /\ pause' = "Running"
    /\ line' = <<>> /\ working' = FALSE /\ closed' = FALSE
    /\ nextSeq' = MaxSequence(events) + 1
    /\ start' = 1
    /\ pc' = [p \in Proc |-> "free"]
    /\ job' = [a \in Admin |-> NoJob]
    /\ UNCHANGED fileVars

\* Mutant of Restart: the counter starts after count(*) of events, not max.
RestartAtCount ==
    /\ MayCrash
    /\ txs' = {} /\ idle' = {} /\ UNCHANGED begun
    /\ tx' = [t \in Tx |-> NewTransaction]
    /\ pause' = IF paused THEN "Paused" ELSE "Running"
    /\ line' = <<>> /\ working' = FALSE /\ closed' = FALSE
    /\ nextSeq' = Cardinality(events) + 1
    /\ start' = 1
    /\ pc' = [p \in Proc |-> "free"]
    /\ job' = [a \in Admin |-> NoJob]
    /\ UNCHANGED fileVars

\* The server stops, at any point, and opens the file again: what was in
\* memory is lost, and store.Open and tx.New start from the file.
Restart ==
    /\ MayCrash
    /\ txs' = {} /\ idle' = {} /\ UNCHANGED begun
    /\ tx' = [t \in Tx |-> NewTransaction]
    /\ pause' = IF paused THEN "Paused" ELSE "Running"
    /\ line' = <<>> /\ working' = FALSE /\ closed' = FALSE
    /\ nextSeq' = MaxSequence(events) + 1
    /\ start' = 1
    /\ pc' = [p \in Proc |-> "free"]
    /\ job' = [a \in Admin |-> NoJob]
    /\ UNCHANGED fileVars

-----------------------------------------------------------------------------

Batches == {<<>>} \cup {<<k>> : k \in Kind}

ClientCall(t) ==
    \/ Begin(t)
    \/ \E q \in SUBSET Kind, limit \in {0, 1} : ReadEvents(t, q, limit)
    \/ \E batch \in Batches : WriteEvents(t, batch)
    \/ \E k \in Key : GetProjection(t, k)
    \/ \E w \in [Key -> Operations] : WriteProjections(t, w)
    \/ EndTx(t)
    \/ Commit(t)

\* What the server does of its own, once called.
QueueStep(p) == Refused(p) \/ Join(p) \/ TurnAway(p) \/ Start(p) \/ Leave(p)
WriteStep(t) == Reserve(t) \/ Refuse(t) \/ CommitWrite(t) \/ FailWrite(t)
AdminStep(a) ==
    \/ Pause(a) \/ Resume(a) \/ PostProjections(a) \/ DeleteProjections(a)
    \/ DeleteEvents(a) \/ WorkFails(a)

Next ==
    \/ Sweep
    \/ Close
    \/ Restart
    \/ \E t \in Tx : Tick(t) \/ ClientCall(t) \/ Release(t) \/ EndCommit(t) \/ WriteStep(t)
    \/ \E a \in Admin : (\E j \in Jobs : Request(a, j)) \/ AdminStep(a)
    \/ \E p \in Proc : QueueStep(p)

\* The server carries on with every call under way.  Nothing makes a client
\* call, the server stop, or time pass.
Fairness ==
    /\ \A t \in Tx : WF_vars(Release(t) \/ EndCommit(t) \/ WriteStep(t))
    /\ \A a \in Admin : WF_vars(AdminStep(a))
    /\ \A p \in Proc : WF_vars(QueueStep(p))

Spec == Init /\ [][Next]_vars /\ Fairness

-----------------------------------------------------------------------------

\* The last position given to a committed event: the counter, but for the
\* positions a write under way has reserved.
LastCommitted == IF \E t \in Tx : pc[t] = "reserved" THEN start - 1 ELSE nextSeq - 1

(***************************************************************************)
(* tx.Commit and store.Append: when a commit writes, what the transaction  *)
(* read still holds.  From the check to the SQLite commit, no event that   *)
(* a query of its decisions matches is in the log unless the read saw it,  *)
(* and each projection it changes is the one it read, or still absent.     *)
(* This crosses the snapshot of the read, the shortcut by the counter, the *)
(* queue, failed writes and DELETE /events.                                *)
(***************************************************************************)
DecisionsHold ==
    \A t \in Tx : pc[t] = "reserved" =>
        /\ \A i \in DOMAIN tx[t].conditions :
              LET c == tx[t].conditions[i] IN Matching(c.query, events) \subseteq c.seen
        /\ \A k \in Key :
              LET s == tx[t].projections[k]
              IN  s.written /\ (s.read # NoVersion \/ s.found) => version[k] = s.read

(***************************************************************************)
(* store.Append: "a failed write leaves no gap in the sequence", and no    *)
(* position is given twice.  The positions of the log are those up to the  *)
(* counter, from 1, or from the last DELETE /events on.                    *)
(***************************************************************************)
NoGap ==
    /\ \A e, f \in events : e.seq = f.seq => e = f
    /\ \A e \in events : \A n \in e.seq..LastCommitted : \E f \in events : f.seq = n
    /\ \A e \in events : e.seq <= LastCommitted
    /\ "deleteEvents" \notin Asked /\ LastCommitted > 0 => \E e \in events : e.seq = 1

(***************************************************************************)
(* tx.Pause: "the state and the store always agree", across a crash too,   *)
(* and a pause in place leaves no transaction, commits that still wait for *)
(* their turn included.                                                    *)
(***************************************************************************)
PauseInPlace ==
    /\ pause = "Paused" <=> paused
    /\ paused => txs = {} /\ \A t \in Tx : pc[t] = "free"

(***************************************************************************)
(* tx.Commit: "a pause looks only at the Registry".  From the answer of a  *)
(* pause to its resume, restarts included, no event is appended.  DELETE   *)
(* /events is the one exception to a still log: it only takes away.        *)
(***************************************************************************)
StillWhilePaused == [][paused /\ paused' => events' \subseteq events]_vars

(***************************************************************************)
(* tx.lock, tx.release and tx.Commit: a transaction lives as long as its   *)
(* calls, and ends with its commit.  While a call uses it it is there,     *)
(* however long the call waits in the queue; a call that is not a commit   *)
(* leaves it there at its own release, even one longer than the timeout;   *)
(* and a commit that asked for its turn ends it, a full line, a closed one *)
(* and a failed write included.  Only a stop of the server ends it sooner. *)
(***************************************************************************)
EndsWithItsCommit ==
    [][\A t \in Tx :
         /\ pc'[t] # "free" => t \in txs'
         /\ pc[t] = "called" => t \in txs' \/ Restart
         /\ pc[t] \notin {"free", "called"} /\ pc'[t] = "free" => t \notin txs']_vars

(***************************************************************************)
(* tx.Commit: a commit that asked for a turn is answered, whatever else is *)
(* in line, and whether it is written, refused, turned away or lost.       *)
(***************************************************************************)
CommitAnswered == \A t \in Tx : pc[t] = "joining" ~> pc[t] = "free"

-----------------------------------------------------------------------------
(* The refinement mapping to EventLog.  It is one as long as nobody deletes  *)
(* the events, since EventLog never takes an event back.                     *)

\* A transaction goes on until the timeout, its end, or the end of its write.
Going == {t \in Live : pc[t] \notin {"worked", "ending"}}

\* The conditions of a transaction, the one that is open included.
ConditionsOf(x) == x.open \cup {x.conditions[i] : i \in DOMAIN x.conditions}

\* What was read, without the position it was read at.
ReadsOf(x) == {[query |-> c.query, saw |-> {e.seq : e \in c.seen}] : c \in ConditionsOf(x)}

logBar     == [n \in 1..LastCommitted |-> (CHOOSE e \in events : e.seq = n).kind]
readsBar   == [t \in Tx |-> IF t \in Going THEN ReadsOf(tx[t]) ELSE {}]
pendingBar == [t \in Tx |-> IF t \in Going THEN tx[t].events ELSE <<>>]

Abstract == INSTANCE EventLog WITH
        log     <- logBar,
        still   <- paused,
        open    <- Going,
        reads   <- readsBar,
        pending <- pendingBar

(***************************************************************************)
(* The transactions of the server are those of EventLog: each commit is    *)
(* one step on the log that finds its reads unchanged, an idle transaction *)
(* is over the moment its time is up although it is removed later, and a   *)
(* crash only loses transactions.                                          *)
(***************************************************************************)
IsAnEventLog == Abstract!Spec
=============================================================================
