------------------------------- MODULE Config -------------------------------
(***************************************************************************)
(* The configuration of include/config.h and src/config/config.cpp: a      *)
(* table of variables that threads look up, creating the ones that do not  *)
(* exist, and variables whose listeners are told of every change.          *)
(*                                                                         *)
(* A critical section that calls nobody is one step.  SetValue is not: it  *)
(* tells the listeners one by one under a shared lock, releases it, and    *)
(* assigns under a unique lock.  The lock of the table is held over no     *)
(* call that could wait, so that it needs no state.                        *)
(*                                                                         *)
(* A lookup of a variable of another type throws and changes nothing; it   *)
(* is not an action.                                                       *)
(***************************************************************************)
EXTENDS Integers, Sequences, FiniteSets, Functions

CONSTANTS
    Threads,
    Names,              \* names of variables, numbered in their order as text
    Values(_),          \* the values a variable of this name may have
    DefaultOf(_),       \* the value it is created with
    Listeners,
    Throwing,           \* listeners that throw whenever they are called
    Documents,          \* YAML files: the text of each member, by its name;
                        \* members of no variable's name are skipped
    FromStr(_, _),      \* the value a text stands for, or Malformed
    Malformed,
    NoName, NoValue,
    MaxVars, MaxSets    \* bounds on the variables created and on changes

ASSUME BoundsAssumption   == MaxVars \in Nat /\ MaxSets \in Nat
ASSUME NamesAssumption    == Names \subseteq Nat
ASSUME DocumentAssumption == \A doc \in Documents : DOMAIN doc \subseteq Names
ASSUME ThrowingAssumption == Throwing \subseteq Listeners

None == 0               \* no variable: a null pointer

VARIABLES
    vars_,      \* the table: the variable registered under each name
    store,      \* every variable created, in the order of creation
    held,       \* the variables each thread has a pointer to
    call,       \* the call of Lookup or SetValue each thread is in
    load,       \* members that a thread in LoadYaml has still to set
    known,      \* history: the value each listener was told last
    raced,      \* history: who created a variable after its name was taken
    disputed,   \* history: variables that calls changed at the same time
    sets        \* history: changes begun, to bound them

configVars == <<vars_, store, held, call, load, known, raced, disputed, sets>>

Idle == [op |-> "idle", var |-> None, name |-> NoName, val |-> NoValue,
         todo |-> {}, told |-> FALSE, alone |-> TRUE]

VarIds == 1 .. Len(store)

ConfigInit ==
    /\ vars_ = [n \in Names |-> None] /\ store = <<>>
    /\ held = [t \in Threads |-> {}]
    /\ call = [t \in Threads |-> Idle] /\ load = [t \in Threads |-> <<>>]
    /\ known = [l \in Listeners |-> NoValue]
    /\ raced = {} /\ disputed = {} /\ sets = 0

\* The thread is in no call of this module.
Free(t) == call[t].op = "idle" /\ DOMAIN load[t] = {}

\* Threads in SetValue of v, and those of them that hold its lock, shared,
\* because listeners are still to be told.
Setting(v) == {t \in Threads : call[t].op = "set" /\ call[t].var = v}
Telling(v) == {t \in Setting(v) : call[t].todo # {}}

-----------------------------------------------------------------------------
(* Texts of numbers.                                                       *)

Digits == 0 .. 9
Blank  == 11
Plus   == 12
Minus  == 13

\* The end of the characters of C that stand at position p and behind it.
RunFrom(text, p, C) ==
    CHOOSE q \in p - 1 .. Len(text) :
        /\ \A i \in p .. q : text[i] \in C
        /\ q < Len(text) => text[q + 1] \notin C

\* operator>> passes over blanks, takes a sign and the digits behind it, and
\* leaves what follows them in the stream without an error.  It fails when
\* there is no digit or the number does not fit into the type; the types of
\* the program are unsigned, and a minus counts down from the greatest.
ToNumber(text, max) ==
    LET first  == RunFrom(text, 1, {Blank}) + 1
        signed == first <= Len(text) /\ text[first] \in {Plus, Minus}
        from   == IF signed THEN first + 1 ELSE first
        to     == RunFrom(text, from, Digits)
        val[i \in from - 1 .. Len(text)] ==
            IF i < from THEN 0 ELSE 10 * val[i - 1] + text[i]
    IN  IF to < from \/ val[to] > max THEN Malformed
        ELSE IF signed /\ text[first] = Minus THEN (max + 1 - val[to]) % (max + 1)
        ELSE val[to]

-----------------------------------------------------------------------------
(* The table.                                                              *)

\* A variable that is found is returned, ...
LookupFound(t, n) ==
    /\ Free(t) /\ vars_[n] # None
    /\ held' = [held EXCEPT ![t] = @ \cup {vars_[n]}]
    /\ UNCHANGED <<vars_, store, call, load, known, raced, disputed, sets>>

\* ... and one that is not will be created, after the lock has been released.
LookupMissing(t, n) ==
    /\ Free(t) /\ vars_[n] = None
    /\ Len(store) + Cardinality({u \in Threads : call[u].op = "create"}) < MaxVars
    /\ call' = [call EXCEPT ![t] = [Idle EXCEPT !.op = "create", !.name = n]]
    /\ UNCHANGED <<vars_, store, held, load, known, raced, disputed, sets>>

NewVar(n) == [name |-> n, val |-> DefaultOf(n), listeners |-> {}]

\* Defect: the variable of the later thread takes the place of the first.
CreateOverwrites(t) ==
    LET n == call[t].name
        v == Len(store) + 1
    IN  /\ call[t].op = "create"
        /\ store' = Append(store, NewVar(n))
        /\ vars_' = [vars_ EXCEPT ![n] = v]
        /\ held' = [held EXCEPT ![t] = @ \cup {v}]
        /\ raced' = IF vars_[n] = None THEN raced ELSE raced \cup {<<t, v>>}
        /\ call' = [call EXCEPT ![t] = Idle]
        /\ UNCHANGED <<load, known, disputed, sets>>

\* emplace does nothing when the name is taken in the meantime, and the caller
\* gets the variable it has made all the same.
Create(t) ==
    LET n == call[t].name
        v == Len(store) + 1
    IN  /\ call[t].op = "create"
        /\ store' = Append(store, NewVar(n))
        /\ vars_' = [vars_ EXCEPT ![n] = IF @ = None THEN v ELSE @]
        /\ held' = [held EXCEPT ![t] = @ \cup {v}]
        /\ raced' = IF vars_[n] = None THEN raced ELSE raced \cup {<<t, v>>}
        /\ call' = [call EXCEPT ![t] = Idle]
        /\ UNCHANGED <<load, known, disputed, sets>>

-----------------------------------------------------------------------------
(* A variable.                                                             *)

\* SetValue under the shared lock: listeners are told if the value changes.
Begin(t, v, x) ==
    /\ sets < MaxSets /\ sets' = sets + 1
    /\ call' = [u \in Threads |->
                   IF u = t
                   THEN [Idle EXCEPT !.op = "set", !.var = v, !.val = x,
                                     !.told = x # store[v].val,
                                     !.todo = IF x # store[v].val
                                              THEN store[v].listeners ELSE {},
                                     !.alone = Setting(v) = {}]
                   ELSE IF u \in Setting(v) THEN [call[u] EXCEPT !.alone = FALSE]
                   ELSE call[u]]

SetValue(t, v, x) ==
    /\ Free(t) /\ v \in held[t]
    /\ Begin(t, v, x)
    /\ UNCHANGED <<vars_, store, held, load, known, raced, disputed>>

\* Defect: the exception of a listener leaves the loop over the others.
ToldUntilThrown(t, l) ==
    /\ call' = [call EXCEPT ![t].todo = IF l \in Throwing THEN {} ELSE @ \ {l}]
    /\ known' = [known EXCEPT ![l] = call[t].val]
    /\ UNCHANGED <<vars_, store, held, load, raced, disputed, sets>>

\* The listener has returned or thrown; an exception is caught, and the
\* other listeners are called as well.
Told(t, l) ==
    /\ call' = [call EXCEPT ![t].todo = @ \ {l}]
    /\ known' = [known EXCEPT ![l] = call[t].val]
    /\ UNCHANGED <<vars_, store, held, load, raced, disputed, sets>>

\* A listener that only takes note of the value is called.
Tell(t, l) ==
    /\ call[t].op = "set" /\ l \in call[t].todo
    /\ Told(t, l)

\* Defect: the shared lock is kept until the value is assigned.
AssignUpgraded(t) ==
    LET v == call[t].var
    IN  /\ call[t].op = "set" /\ call[t].todo = {} /\ Setting(v) = {t}
        /\ store' = [store EXCEPT ![v].val = call[t].val]
        /\ call' = [call EXCEPT ![t] = Idle]
        /\ UNCHANGED <<vars_, held, load, known, raced, disputed, sets>>

\* The value is assigned under the unique lock.  A change that no other call
\* accompanied leaves the listeners in agreement.
Assign(t) ==
    LET v == call[t].var
    IN  /\ call[t].op = "set" /\ call[t].todo = {} /\ Telling(v) = {}
        /\ store' = [store EXCEPT ![v].val = call[t].val]
        /\ disputed' = CASE ~call[t].alone -> disputed \cup {v}
                         [] call[t].alone /\ call[t].told -> disputed \ {v}
                         [] OTHER -> disputed
        /\ call' = [call EXCEPT ![t] = Idle]
        /\ UNCHANGED <<vars_, held, load, known, raced, sets>>

\* AddListener waits for those who tell; a thread that has told and not yet
\* assigned will not tell the new listener.  A listener is added once.
AddListener(t, v, l) ==
    /\ Free(t) /\ v \in held[t] /\ Telling(v) = {}
    /\ \A w \in VarIds : l \notin store[w].listeners
    /\ store' = [store EXCEPT ![v].listeners = @ \cup {l}]
    /\ known' = [known EXCEPT ![l] = store[v].val]
    /\ call' = [u \in Threads |-> IF u \in Setting(v)
                                  THEN [call[u] EXCEPT !.alone = FALSE] ELSE call[u]]
    /\ UNCHANGED <<vars_, held, load, raced, disputed, sets>>

RemoveListener(t, v, l) ==
    /\ Free(t) /\ v \in held[t] /\ Telling(v) = {} /\ l \in store[v].listeners
    /\ store' = [store EXCEPT ![v].listeners = @ \ {l}]
    /\ UNCHANGED <<vars_, held, call, load, known, raced, disputed, sets>>

ClearListeners(t, v) ==
    /\ Free(t) /\ v \in held[t] /\ Telling(v) = {} /\ store[v].listeners # {}
    /\ store' = [store EXCEPT ![v].listeners = {}]
    /\ UNCHANGED <<vars_, held, call, load, known, raced, disputed, sets>>

-----------------------------------------------------------------------------
(* Loading a file.                                                         *)

\* The members are in the order of their names.
IsFirst(n, members) == \A m \in DOMAIN members : n <= m

LoadYaml(t, doc) ==
    /\ Free(t) /\ sets < MaxSets
    /\ load' = [load EXCEPT ![t] = doc]
    /\ UNCHANGED <<vars_, store, held, call, known, raced, disputed, sets>>

\* A member whose variable does not exist is skipped; a text that cannot be
\* converted throws, and the members behind it are not set.
LoadMember(t) ==
    \E n \in DOMAIN load[t] :
        LET v    == vars_[n]
            x    == FromStr(n, load[t][n])
            Keep(ms) == load' = [load EXCEPT ![t] = Restrict(@, ms)]
        IN  /\ call[t].op = "idle" /\ IsFirst(n, load[t])
            /\ CASE v = None ->
                      Keep(DOMAIN load[t] \ {n}) /\ UNCHANGED <<call, sets>>
                 [] v # None /\ x = Malformed ->
                      Keep({}) /\ UNCHANGED <<call, sets>>
                 [] OTHER -> Keep(DOMAIN load[t] \ {n}) /\ Begin(t, v, x)
            /\ UNCHANGED <<vars_, store, held, known, raced, disputed>>

-----------------------------------------------------------------------------

\* What a thread may begin, ...
Calls(t) ==
    \/ \E n \in Names : LookupFound(t, n) \/ LookupMissing(t, n)
    \/ \E doc \in Documents : LoadYaml(t, doc)
    \/ \E v \in held[t], x \in UNION {Values(n) : n \in Names} :
          x \in Values(store[v].name) /\ SetValue(t, v, x)

ListenerCalls(t) ==
    \E v \in held[t] :
        \/ \E l \in Listeners : AddListener(t, v, l) \/ RemoveListener(t, v, l)
        \/ ClearListeners(t, v)

\* ... and what it then goes on with.
ConfigStep(t) ==
    Create(t) \/ LoadMember(t) \/ Assign(t) \/ \E l \in Listeners : Tell(t, l)

ConfigNext == \E t \in Threads : Calls(t) \/ ListenerCalls(t) \/ ConfigStep(t)

ConfigSpec ==
    /\ ConfigInit /\ [][ConfigNext]_configVars
    /\ \A t \in Threads : WF_configVars(ConfigStep(t))

-----------------------------------------------------------------------------
(* Properties.                                                             *)

\* Two lookups of one name give one variable, whoever asks and whoever
\* created it, but for the creators that found the name free and then taken.
OneVariablePerName ==
    \A t, u \in Threads : \A v \in held[t], w \in held[u] :
        /\ store[v].name = store[w].name
        /\ {<<t, v>>, <<u, w>>} \cap raced = {}
        => v = w

\* Between calls of SetValue every listener was last told the value that the
\* variable has, whatever the other listeners throw, from the first change
\* that one thread makes alone after several threads made some at once.
ListenersKnow ==
    \A v \in VarIds \ disputed :
        Setting(v) = {} => \A l \in store[v].listeners : known[l] = store[v].val
=============================================================================
