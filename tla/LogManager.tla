----------------------------- MODULE LogManager -----------------------------
(***************************************************************************)
(* The manager of loggers (src/log/log.cpp) and the listener that replaces *)
(* loggers when the configuration variable "loggers" changes               *)
(* (src/log/config_init.cpp), composed with the configuration.             *)
(*                                                                         *)
(* The listener is called by SetValue, with the shared lock of the         *)
(* variable held, and takes many steps: the mutex of the manager is taken  *)
(* for each call, so that other threads may find, use and drop loggers in  *)
(* between.  RemoveLogger alone may hold it for long, when it destroys the *)
(* logger and joins its writer.                                            *)
(*                                                                         *)
(* Of a logger, its configuration and the number of its events in the      *)
(* queue and in the hand of the writer are kept; module Logger has the     *)
(* order of the events and the steps of Log.                               *)
(***************************************************************************)
EXTENDS Config

CONSTANTS
    LoggersTag,         \* the name of the variable: "loggers"
    Manager,            \* its listener
    Users,              \* threads that find and use loggers themselves
    LoggerNames, RootName,
    Levels,             \* texts that name a level
    DefaultLevel,
    StdOut, File,       \* texts that name a type of appender
    Strings, Empty,     \* patterns and names of files; the empty string
    BadPatterns,        \* patterns that Formatter refuses
    NoThread,
    MaxLoggers          \* users create loggers only below this number

ASSUME MaxLoggersAssumption == MaxLoggers \in Nat \ {0}
ASSUME RootAssumption       == RootName \in LoggerNames
ASSUME ManagerAssumption    == Manager \in Listeners \ Throwing /\ LoggersTag \in Names
ASSUME ThreadsAssumption    == Users \subseteq Threads /\ NoThread \notin Threads
ASSUME StringsAssumption    == Empty \in Strings
ASSUME FiniteAssumption     == IsFiniteSet(Threads) /\ IsFiniteSet(LoggerNames)

\* Configurations of appenders and of loggers.
AppenderTypes   == {StdOut, File}
AppenderConfigs == [type : AppenderTypes, file : Strings, formatter : Strings]
LoggerConfigs   ==
    [name : LoggerNames, level : Levels, capacity : Nat, formatter : Strings,
     appenders : Seq(AppenderConfigs)]

\* The variable "loggers" is a set of configurations.
ASSUME LoggersAssumption ==
    /\ DefaultOf(LoggersTag) \in SUBSET LoggerConfigs
    /\ \A x \in Values(LoggersTag) : x \in SUBSET LoggerConfigs
    /\ \A doc \in Documents : LoggersTag \in DOMAIN doc =>
          FromStr(LoggersTag, doc[LoggersTag]) \in {Malformed} \cup SUBSET LoggerConfigs

VARIABLES
    inited,     \* InitConfig has run: it runs once
    loggers_,   \* the table of the manager
    logger,     \* every logger created, in the order of creation
    mtx,        \* the thread that holds the mutex of the manager, if any
    job,        \* what each thread that runs the listener is about
    ptr,        \* the logger each thread has a pointer to
    joining,    \* the logger whose destructor each thread is in
    stuck,      \* threads that wait in Log for room that nobody will make
    terminated, \* an exception has left a noexcept function
    excused,    \* history: names whose logger need not be as it is configured
    complete    \* history: loggers configured to the end by one listener alone

managerVars == <<inited, loggers_, logger, mtx, job, ptr, joining, stuck,
                 terminated, excused, complete>>
allVars     == <<configVars, managerVars>>

-----------------------------------------------------------------------------
(* Reading the configuration of loggers.                                   *)

\* A node is a function from fields to texts, or to nodes.
HasFields(node, fields) == fields \subseteq DOMAIN node

\* The nodes of a list, each of which has to be read.
Elements(nodes) == {nodes[i] : i \in DOMAIN nodes}

NamesLevel(text) == text \in Levels

\* A node without the field leaves the member as {} has made it.
FieldOr(node, field, default) ==
    IF field \in DOMAIN node THEN node[field] ELSE default

\* The field "formatter" is looked up as "formatters", and missed.
ReadsAppender(node) ==
    /\ HasFields(node, {"type"}) /\ node.type \in AppenderTypes
    /\ HasFields(node, {"formatter"}) => HasFields(node, {"formatters"})

ToAppender(node) ==
    [type |-> node.type, file |-> FieldOr(node, "file", Empty),
     formatter |-> IF HasFields(node, {"formatter"}) THEN node.formatters ELSE Empty]

ReadsLogger(node) ==
    /\ HasFields(node, {"name", "level", "appenders"}) /\ NamesLevel(node.level)
    /\ FieldOr(node, "capacity", 0) \in Nat
    /\ \A a \in Elements(node.appenders) : ReadsAppender(a)

ToLogger(node) ==
    [name      |-> node.name,
     level     |-> node.level,
     capacity  |-> FieldOr(node, "capacity", 0),
     formatter |-> FieldOr(node, "formatter", Empty),
     appenders |-> [i \in DOMAIN node.appenders |-> ToAppender(node.appenders[i])]]

\* The text of a set of loggers is a list of nodes; one that cannot be read
\* makes the whole text unreadable.
ToLoggers(text) ==
    IF \A node \in Elements(text) : ReadsLogger(node)
    THEN {ToLogger(node) : node \in Elements(text)} ELSE Malformed

-----------------------------------------------------------------------------
(* Loggers and their references.                                           *)

NewAppender(type, file, formatter) ==
    [type |-> type, file |-> file, formatter |-> formatter]

SetFormatter(appenders, f) ==
    [i \in DOMAIN appenders |-> [appenders[i] EXCEPT !.formatter = f]]

\* The empty formatter stands for the default one.
NewLogger(n, level, capacity, appenders) ==
    [name |-> n, level |-> level, capacity |-> capacity, formatter |-> Empty,
     appenders |-> appenders, queued |-> 0, hand |-> FALSE, state |-> "open"]

LoggerIds == 1 .. Len(logger)
NoLogger  == 0

NoJob == [at |-> "out", cfgs |-> {}, cfg |-> NoValue, logger |-> NoLogger,
          left |-> <<>>]

\* The constructor of the manager has put the root logger, which writes to
\* the standard output, into its table.
Init ==
    /\ ConfigInit
    /\ inited = FALSE
    /\ loggers_ = [n \in LoggerNames |-> IF n = RootName THEN 1 ELSE NoLogger]
    /\ logger = <<NewLogger(RootName, DefaultLevel, 0, <<NewAppender(StdOut, Empty, Empty)>>)>>
    /\ mtx = NoThread
    /\ job = [t \in Threads |-> NoJob]
    /\ ptr = [t \in Threads |-> NoLogger]
    /\ joining = [t \in Threads |-> NoLogger]
    /\ stuck = {} /\ terminated = FALSE /\ excused = {} /\ complete = {}

\* A thread that is about nothing and may call any function.
Ready(t) == Free(t) /\ joining[t] = NoLogger /\ t \notin stuck

\* Pointers to a logger: in the table, in the hands of users and of listeners.
References(o) ==
    [table |-> {n \in LoggerNames : loggers_[n] = o},
     users |-> {t \in Threads : ptr[t] = o},
     jobs  |-> {t \in Threads : job[t].logger = o}]

Last(o) ==
    Cardinality(References(o).table) + Cardinality(References(o).users)
        + Cardinality(References(o).jobs) = 1

\* What is left of a logger that has been destroyed.
Gone(n) == [NewLogger(n, DefaultLevel, 0, <<>>) EXCEPT !.state = "gone"]

\* Defect: the destructor does not close the queue, and the writer waits on.
NotClosed(o) ==
    [logger EXCEPT ![o] = IF @.capacity = 0 THEN Gone(@.name) ELSE @]

\* The last pointer goes: the queue of an asynchronous logger is closed, which
\* drops its events, and its writer is joined by t.
Closed(o) ==
    [logger EXCEPT ![o] = IF @.capacity = 0 THEN Gone(@.name)
                          ELSE [@ EXCEPT !.queued = 0, !.state = "closing"]]

ReleasedBy(t, o) ==
    IF o # NoLogger /\ Last(o)
    THEN /\ logger' = Closed(o)
         /\ joining' = [joining EXCEPT ![t] = IF logger[o].capacity = 0
                                              THEN NoLogger ELSE o]
    ELSE UNCHANGED <<logger, joining>>

\* The mutex of the logger is free.
Unlocked(o) == \A t \in stuck : ptr[t] # o

-----------------------------------------------------------------------------
(* The manager.                                                            *)

\* FindLogger with a level and a capacity: they only serve to create.
Found(n, level, capacity) ==
    IF loggers_[n] # NoLogger
    THEN UNCHANGED <<loggers_, logger>>
    ELSE /\ logger' = Append(logger, NewLogger(n, level, capacity, <<>>))
         /\ loggers_' = [loggers_ EXCEPT ![n] = Len(logger) + 1]

\* A user finds a logger, which is created if need be, ...
FindLogger(t, n) ==
    /\ Ready(t) /\ ptr[t] = NoLogger /\ mtx = NoThread
    /\ loggers_[n] # NoLogger \/ Len(logger) < MaxLoggers
    /\ Found(n, DefaultLevel, 0)
    /\ ptr' = [ptr EXCEPT ![t] = loggers_'[n]]
    /\ UNCHANGED <<configVars, inited, mtx, job, joining, stuck, terminated,
                   excused, complete>>

\* ... and lets it go.
DropLogger(t) ==
    /\ Ready(t) /\ ptr[t] # NoLogger
    /\ ReleasedBy(t, ptr[t])
    /\ ptr' = [ptr EXCEPT ![t] = NoLogger]
    /\ UNCHANGED <<configVars, inited, loggers_, mtx, job, stuck, terminated,
                   excused, complete>>

\* Log of a synchronous logger changes nothing here.  That of an asynchronous
\* one pushes; with the queue full and an event in the hand of the writer, it
\* waits with the mutex of the logger, which the writer needs.  With the
\* queue full and the hand empty the writer makes room at its next step.
Log(t) ==
    LET o == ptr[t]
    IN  /\ Ready(t) /\ o # NoLogger /\ logger[o].capacity > 0 /\ Unlocked(o)
        /\ \/ /\ logger[o].queued < logger[o].capacity
              /\ logger' = [logger EXCEPT ![o].queued = @ + 1]
              /\ UNCHANGED stuck
           \/ /\ logger[o].queued = logger[o].capacity /\ logger[o].hand
              /\ stuck' = stuck \cup {t}
              /\ UNCHANGED logger
        /\ UNCHANGED <<configVars, inited, loggers_, mtx, job, ptr, joining,
                       terminated, excused, complete>>

WriterPop(o) ==
    /\ logger[o].state = "open" /\ logger[o].queued > 0 /\ ~logger[o].hand
    /\ logger' = [logger EXCEPT ![o].queued = @ - 1, ![o].hand = TRUE]

WriterLog(o) ==
    /\ logger[o].hand /\ Unlocked(o)
    /\ logger' = [logger EXCEPT ![o].hand = FALSE]

WriterExit(o) ==
    /\ logger[o].state = "closing" /\ ~logger[o].hand
    /\ logger' = [logger EXCEPT ![o] = Gone(@.name)]

Writer(o) ==
    /\ WriterPop(o) \/ WriterLog(o) \/ WriterExit(o)
    /\ UNCHANGED <<configVars, inited, loggers_, mtx, job, ptr, joining, stuck,
                   terminated, excused, complete>>

\* The writer has been joined; RemoveLogger then releases its mutex.
Joined(t) ==
    /\ joining[t] # NoLogger /\ logger[joining[t]].state = "gone"
    /\ joining' = [joining EXCEPT ![t] = NoLogger]
    /\ mtx' = IF mtx = t THEN NoThread ELSE mtx
    /\ UNCHANGED <<configVars, inited, loggers_, logger, job, ptr, stuck, terminated,
                   excused, complete>>

-----------------------------------------------------------------------------
(* The listener.                                                           *)

\* InitConfig: the listener is added to the variable that its Lookup has
\* returned, which is the registered one or one that the race has left out.
InitConfig(t, v) ==
    /\ ~inited /\ inited' = TRUE
    /\ v \in VarIds /\ store[v].name = LoggersTag
    /\ AddListener(t, v, Manager)
    /\ excused' = {c.name : c \in store[v].val}
    /\ UNCHANGED <<loggers_, logger, mtx, job, ptr, joining, stuck, terminated,
                   complete>>

InJob(t, at) == job[t].at = at /\ joining[t] = NoLogger /\ ~terminated

\* A configuration that is in the old set with all its fields is passed over.
Changed(old, new) == new \ old

\* Defect: a logger whose name was configured before is left as it is.
ListenByName(t) ==
    /\ call[t].op = "set" /\ Manager \in call[t].todo /\ InJob(t, "out")
    /\ job' = [job EXCEPT ![t] = [NoJob EXCEPT !.at = "next",
                  !.cfgs = {c \in call[t].val :
                               \A d \in store[call[t].var].val : d.name # c.name}]]
    /\ UNCHANGED <<configVars, inited, loggers_, logger, mtx, ptr, joining, stuck,
                   terminated, excused, complete>>

\* The configurations that were not already there are gone through.
Listen(t) ==
    /\ call[t].op = "set" /\ Manager \in call[t].todo /\ InJob(t, "out")
    /\ job' = [job EXCEPT ![t] = [NoJob EXCEPT !.at = "next",
                             !.cfgs = Changed(store[call[t].var].val, call[t].val)]]
    /\ UNCHANGED <<configVars, inited, loggers_, logger, mtx, ptr, joining, stuck,
                   terminated, excused, complete>>

\* Defect: the old logger is configured anew instead of replaced.
KeepLogger(t, c) ==
    /\ InJob(t, "next") /\ mtx = NoThread /\ c \in job[t].cfgs
    /\ job' = [job EXCEPT ![t].at = "find", ![t].cfg = c, ![t].cfgs = @ \ {c}]
    /\ UNCHANGED <<configVars, inited, loggers_, logger, mtx, ptr, joining, stuck,
                   terminated, excused, complete>>

\* The old logger leaves the table.  When nobody else refers to it, it is
\* destroyed under the mutex of the manager.
RemoveLogger(t, c) ==
    LET o == loggers_[c.name]
    IN  /\ InJob(t, "next") /\ mtx = NoThread /\ c \in job[t].cfgs
        /\ loggers_' = [loggers_ EXCEPT ![c.name] = NoLogger]
        /\ ReleasedBy(t, o)
        /\ mtx' = IF joining'[t] # NoLogger THEN t ELSE NoThread
        /\ job' = [job EXCEPT ![t].at = "find", ![t].cfg = c, ![t].cfgs = @ \ {c}]
        /\ UNCHANGED <<configVars, inited, ptr, stuck, terminated, excused, complete>>

FindNewLogger(t) ==
    LET c == job[t].cfg
    IN  /\ InJob(t, "find") /\ mtx = NoThread
        /\ Found(c.name, c.level, c.capacity)
        /\ job' = [job EXCEPT ![t].at = "formatter", ![t].logger = loggers_'[c.name]]
        /\ excused' = IF loggers_[c.name] = NoLogger THEN excused \ {c.name}
                      ELSE excused \cup {c.name}
        /\ UNCHANGED <<configVars, inited, mtx, ptr, joining, stuck, terminated,
                       complete>>

\* SetDefaultFormatter with the pattern, which changes the appenders that are
\* there as well.  A pattern that is refused throws out of the listener.
SetDefaultFormatter(t) ==
    LET o == job[t].logger
        f == job[t].cfg.formatter
    IN  /\ InJob(t, "formatter")
        /\ job' = [job EXCEPT ![t].at = "clear"]
        /\ IF f = Empty THEN UNCHANGED <<logger, terminated>>
           ELSE IF f \in BadPatterns THEN terminated' = TRUE /\ UNCHANGED logger
           ELSE /\ Unlocked(o)
                /\ logger' = [logger EXCEPT ![o].formatter = f,
                                            ![o].appenders = SetFormatter(@, f)]
                /\ UNCHANGED terminated
        /\ UNCHANGED <<configVars, inited, loggers_, mtx, ptr, joining, stuck,
                       excused, complete>>

ClearAppenders(t) ==
    LET o == job[t].logger
    IN  /\ InJob(t, "clear") /\ Unlocked(o)
        /\ job' = [job EXCEPT ![t].at = "add", ![t].left = job[t].cfg.appenders]
        /\ logger' = [logger EXCEPT ![o].appenders = <<>>]
        /\ UNCHANGED <<configVars, inited, loggers_, mtx, ptr, joining, stuck,
                       terminated, excused, complete>>

\* The appenders are made with the formatter of the logger, whatever their own
\* configuration says, and added.  GetDefaultFormatter and AddAppender lock the
\* logger one after the other; they are one step, as nobody but a second
\* listener changes the formatter in between, and its loggers are excused.  A
\* file that cannot be opened throws out of the listener.
OpenFails(t) ==
    /\ InJob(t, "add") /\ job[t].left # <<>> /\ Head(job[t].left).type = File
    /\ Unlocked(job[t].logger)
    /\ terminated' = TRUE
    /\ UNCHANGED <<configVars, inited, loggers_, logger, mtx, job, ptr, joining, stuck,
                   excused, complete>>

AddAppender(t) ==
    LET o == job[t].logger
        a == Head(job[t].left)
    IN  /\ InJob(t, "add") /\ job[t].left # <<>> /\ Unlocked(o)
        /\ job' = [job EXCEPT ![t].left = Tail(@)]
        /\ logger' = [logger EXCEPT ![o].appenders =
                         Append(@, NewAppender(a.type, a.file, logger[o].formatter))]
        /\ UNCHANGED <<configVars, inited, loggers_, mtx, ptr, joining, stuck,
                       terminated, excused, complete>>

\* The pointer of the listener goes out of scope.
Configured(t) ==
    /\ InJob(t, "add") /\ job[t].left = <<>>
    /\ ReleasedBy(t, job[t].logger)
    /\ job' = [job EXCEPT ![t].at = "next", ![t].logger = NoLogger, ![t].cfg = NoValue]
    /\ complete' = IF call[t].alone THEN complete \cup {job[t].logger} ELSE complete
    /\ UNCHANGED <<configVars, inited, loggers_, mtx, ptr, stuck, terminated, excused>>

\* The listener returns.  Of two configurations of one name, one is in force.
Twice(cfgs) == {c.name : c \in {d \in cfgs : \E e \in cfgs \ {d} : e.name = d.name}}

Return(t) ==
    /\ InJob(t, "next") /\ job[t].cfgs = {}
    /\ Told(t, Manager)
    /\ job' = [job EXCEPT ![t] = NoJob]
    /\ excused' = excused \cup Twice(call[t].val)
    /\ UNCHANGED <<inited, loggers_, logger, mtx, ptr, joining, stuck, terminated,
                   complete>>

-----------------------------------------------------------------------------

Step(t) ==
    \/ Listen(t) \/ FindNewLogger(t) \/ SetDefaultFormatter(t) \/ ClearAppenders(t)
    \/ AddAppender(t) \/ Configured(t) \/ Return(t) \/ Joined(t)
    \/ \E c \in job[t].cfgs : RemoveLogger(t, c)

\* Assigning what several threads have set at once leaves in the table what
\* the listener made of one of the values.
AssignLoggers(t) ==
    /\ Assign(t)
    /\ excused' = IF ~call[t].alone /\ store[call[t].var].name = LoggersTag
                  THEN LoggerNames ELSE excused
    /\ UNCHANGED <<inited, loggers_, logger, mtx, job, ptr, joining, stuck,
                   terminated, complete>>

\* Steps of the configuration that do not concern the manager.
OtherStep(t) ==
    /\ Create(t) \/ LoadMember(t) \/ \E l \in Listeners \ {Manager} : Tell(t, l)
    /\ UNCHANGED managerVars

Next ==
    \/ /\ ~terminated
       /\ \E t \in Threads :
             \/ Step(t) \/ AssignLoggers(t) \/ OpenFails(t)
             \/ \E v \in held[t] : Ready(t) /\ InitConfig(t, v)
             \/ OtherStep(t)
             \/ Ready(t) /\ Calls(t) /\ UNCHANGED managerVars
    \/ /\ ~terminated
       /\ \E t \in Users :
             DropLogger(t) \/ Log(t) \/ \E n \in LoggerNames : FindLogger(t, n)
    \/ ~terminated /\ \E o \in LoggerIds : Writer(o)

Spec == Init /\ [][Next]_allVars

\* Threads that are not blocked are scheduled.
Fairness ==
    /\ \A t \in Threads :
          /\ WF_allVars(~terminated /\ (Step(t) \/ AssignLoggers(t)))
          /\ WF_allVars(~terminated /\ OtherStep(t))
    /\ WF_allVars(~terminated /\ \E o \in LoggerIds : Writer(o))

FairSpec == Spec /\ Fairness

-----------------------------------------------------------------------------
(* Properties.                                                             *)

\* The pattern of an appender is claimed where its configuration has none.  One
\* that is written for an appender is "optional" in config_init.h and meant to
\* be used instead of the default (log.h:341), but the listener never reads it.
AsWritten(o, c) ==
    LET made == logger[o].appenders
    IN  /\ logger[o].level = c.level /\ logger[o].capacity = c.capacity
        /\ logger[o].formatter = c.formatter
        /\ Len(made) = Len(c.appenders)
        /\ \A i \in DOMAIN c.appenders :
              /\ made[i].type = c.appenders[i].type /\ made[i].file = c.appenders[i].file
              /\ c.appenders[i].formatter = Empty => made[i].formatter = c.formatter

\* Between changes, the logger of every configuration in the variable has
\* the level, the capacity, the pattern and exactly the appenders that are
\* written there, those without a formatter of their own with the pattern of
\* the logger, whatever changes came before and whoever used the loggers
\* meanwhile; except a name that a user created between the removal and the
\* search of the listener, one configured twice, one that was configured
\* before there was a listener, and any after changes made at the same time.
\* Nothing is claimed of a formatter that is written for an appender.
ConfiguredAsWritten ==
    LET v == vars_[LoggersTag]
    IN  v # None =>
          (Manager \in store[v].listeners /\ Setting(v) = {} =>
             \A c \in store[v].val :
                 c.name \notin excused =>
                    /\ loggers_[c.name] # NoLogger
                    /\ AsWritten(loggers_[c.name], c))

\* A logger that was configured to the end keeps its settings and appenders
\* for those who still log to it, also while and after it is replaced.
CompleteIsKept ==
    [][\A o \in complete : logger'[o].state # "gone" =>
          /\ logger'[o].level = logger[o].level
          /\ logger'[o].formatter = logger[o].formatter
          /\ logger'[o].appenders = logger[o].appenders]_allVars

\* The mutex of the manager is released, also when the writer of a removed
\* logger has to be joined and when threads are stuck in other loggers.
ManagerIsFreed == mtx # NoThread ~> (mtx = NoThread \/ terminated)

\* SetValue returns, with the listener replacing any number of loggers, unless
\* a full queue has stopped a thread that holds the mutex of one of them.
SetValueEnds ==
    \A t \in Threads :
        call[t].op = "set" ~> (call[t].op # "set" \/ stuck # {} \/ terminated)
=============================================================================
