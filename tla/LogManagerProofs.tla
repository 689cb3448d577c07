-------------------------- MODULE LogManagerProofs --------------------------
(* Proofs about Config, for any threads, names, values, listeners and      *)
(* files, and about LogManager, for any finite sets of threads and names   *)
(* of loggers, and any configurations.  The second part rests on the       *)
(* invariant of the first, which the composition keeps.                    *)
EXTENDS LogManager, SequenceTheorems, FiniteSetTheorems, TLAPS

-----------------------------------------------------------------------------
(* Config: the inductive invariant.                                        *)

\* Values that a program sets, a variable is created with or a file contains.
AllValues ==
    (UNION {Values(n) : n \in Names}) \cup {DefaultOf(n) : n \in Names}
        \cup UNION {{FromStr(n, doc[n]) : n \in DOMAIN doc} : doc \in Documents}

Variables == [name : Names, val : AllValues, listeners : SUBSET Listeners]

Calling == [op : {"idle", "create", "set"}, var : Nat, name : Names \cup {NoName},
            val : AllValues \cup {NoValue}, todo : SUBSET Listeners,
            told : BOOLEAN, alone : BOOLEAN]

Types ==
    /\ vars_ \in [Names -> Nat]
    /\ store \in Seq(Variables)
    /\ held \in [Threads -> SUBSET Nat]
    /\ call \in [Threads -> Calling]
    /\ DOMAIN load = Threads
    /\ known \in [Listeners -> AllValues \cup {NoValue}]

\* What is still to be loaded comes from a file.
LoadsFromFile ==
    \A t \in Threads : \A n \in DOMAIN load[t] :
        \E doc \in Documents : n \in DOMAIN doc /\ load[t][n] = doc[n]

\* A call that creates a variable has its name, and one that sets a variable
\* has a variable and a value of it.
CallHasObject ==
    \A t \in Threads :
        /\ call[t].op = "create" => call[t].name \in Names
        /\ call[t].op = "set" => call[t].var \in VarIds /\ call[t].val \in AllValues

\* The table refers to variables of the name.
Registered ==
    \A n \in Names : vars_[n] # None => vars_[n] \in VarIds /\ store[vars_[n]].name = n

\* A thread has the registered variable, or one that it created too late.
HoldsRegistered ==
    \A t \in Threads : \A v \in held[t] :
        /\ v \in VarIds
        /\ v = vars_[store[v].name] \/ <<t, v>> \in raced

\* A listener listens to one variable.
ListensToOne ==
    \A v, w \in VarIds : \A l \in Listeners :
        l \in store[v].listeners /\ l \in store[w].listeners => v = w

\* Only listeners of the variable are told; none is added or removed before.
TellsListeners ==
    \A t \in Threads : call[t].op = "set" => call[t].todo \subseteq store[call[t].var].listeners

\* A call counts as alone only while no other call sets the variable.
AloneIsAlone ==
    \A t, u \in Threads :
        call[t].op = "set" /\ call[u].op = "set" /\ call[t].var = call[u].var
            /\ call[t].alone => t = u

\* A call that is alone has told the new value to every listener that is not
\* on its list, or changes nothing and finds the listeners as they were.
AloneTells ==
    \A t \in Threads : call[t].op = "set" /\ call[t].alone =>
        LET v == call[t].var
        IN  IF call[t].told
            THEN \A l \in store[v].listeners \ call[t].todo : known[l] = call[t].val
            ELSE /\ call[t].val = store[v].val
                 /\ v \notin disputed =>
                      \A l \in store[v].listeners : known[l] = store[v].val

Inv ==
    /\ Types
    /\ LoadsFromFile
    /\ CallHasObject
    /\ Registered
    /\ HoldsRegistered
    /\ ListensToOne
    /\ TellsListeners
    /\ AloneIsAlone
    /\ AloneTells
    /\ ListenersKnow

-----------------------------------------------------------------------------
(* Values and records.                                                     *)

\* Where values come from.
LEMMA ValuesOfNames ==
  ASSUME NEW n \in Names
  PROVE  DefaultOf(n) \in AllValues /\ \A x \in Values(n) : x \in AllValues
  BY DEF AllValues

\* The members of a file have names and values.
LEMMA ValuesOfFiles ==
  ASSUME NEW doc \in Documents, NEW n \in DOMAIN doc
  PROVE  n \in Names /\ FromStr(n, doc[n]) \in AllValues
  BY DocumentAssumption DEF AllValues

\* A stored variable has a name and listeners.
LEMMA Stored ==
  ASSUME Types, NEW v \in VarIds
  PROVE  /\ store[v] \in Variables
         /\ store[v].name \in Names /\ store[v].listeners \subseteq Listeners
<1>1. store[v] \in Variables
  BY ElementOfSeq DEF Types, VarIds
<1> QED
  BY <1>1 DEF Variables

\* A variable of the store is replaced.
LEMMA Replaced ==
  ASSUME Types, NEW v \in VarIds, NEW r \in Variables, store' = [store EXCEPT ![v] = r]
  PROVE  /\ store' \in Seq(Variables) /\ VarIds' = VarIds
         /\ store'[v] = r /\ \A w \in VarIds \ {v} : store'[w] = store[w]
  BY DEF Types, VarIds

\* A thread that is in no call has the idle call.
LEMMA IdleIsCalling ==
  Idle \in Calling /\ Idle.op = "idle"
  BY DEF Idle, Calling, None

\* A call that is alone no more is still a call.
LEMMA NotAlone ==
  ASSUME NEW c \in Calling
  PROVE  [c EXCEPT !.alone = FALSE] \in Calling
<1>1. FALSE \in BOOLEAN
  OBVIOUS
<1> QED
  BY <1>1 DEF Calling

\* No call sets v.
LEMMA NobodySets ==
  ASSUME NEW v
  PROVE  Setting(v) = {} <=> \A t \in Threads : ~(call[t].op = "set" /\ call[t].var = v)
  BY DEF Setting

\* The lock of v is not held shared.
LEMMA NobodyTells ==
  ASSUME NEW v
  PROVE  Telling(v) = {} <=>
           \A t \in Threads : call[t].op = "set" /\ call[t].var = v => call[t].todo = {}
  BY DEF Telling, Setting

\* Nothing is registered, held or called at the start.
LEMMA InvInit == ConfigInit => Inv
<1> SUFFICES ASSUME ConfigInit PROVE Inv
  OBVIOUS
<1>1. store \in Seq(Variables) /\ VarIds = {}
  BY DEF ConfigInit, VarIds
<1>2. \A t \in Threads : call[t] = Idle
  BY DEF ConfigInit
<1>3. Types
  BY <1>1, IdleIsCalling DEF ConfigInit, Types, None
<1>4. LoadsFromFile /\ Registered /\ HoldsRegistered
  BY DEF ConfigInit, LoadsFromFile, Registered, HoldsRegistered
<1>5. CallHasObject /\ TellsListeners /\ AloneIsAlone /\ AloneTells
  BY <1>2, IdleIsCalling DEF CallHasObject, TellsListeners, AloneIsAlone, AloneTells
<1>6. ListensToOne /\ ListenersKnow
  BY <1>1 DEF ListensToOne, ListenersKnow
<1> QED
  BY <1>3, <1>4, <1>5, <1>6 DEF Inv

-----------------------------------------------------------------------------
(* The table.                                                              *)

\* Lookup finds the registered variable, or will create one.
LEMMA LookupStep ==
  ASSUME Inv, NEW t \in Threads, NEW n \in Names,
         LookupFound(t, n) \/ LookupMissing(t, n)
  PROVE  Inv'
<1>t. /\ Types /\ LoadsFromFile /\ CallHasObject /\ Registered /\ HoldsRegistered
      /\ ListensToOne /\ TellsListeners /\ AloneIsAlone /\ AloneTells /\ ListenersKnow
  BY DEF Inv
<1>1. CASE LookupFound(t, n)
  <2>1. /\ UNCHANGED <<vars_, store, call, load, known, raced, disputed>>
        /\ vars_[n] # None /\ held' = [held EXCEPT ![t] = @ \cup {vars_[n]}]
    BY <1>1 DEF LookupFound
  <2>2. VarIds' = VarIds
    BY <2>1 DEF VarIds
  <2>3. vars_[n] \in VarIds /\ store[vars_[n]].name = n /\ vars_[n] \in Nat
    BY <1>t, <2>1 DEF Registered, Types
  <2>4. held' \in [Threads -> SUBSET Nat]
        /\ \A u \in Threads : held'[u] = IF u = t THEN held[t] \cup {vars_[n]} ELSE held[u]
    BY <1>t, <2>1, <2>3 DEF Types
  <2>5. Types'
    BY <1>t, <2>1, <2>4 DEF Types
  <2>6. HoldsRegistered'
    BY <1>t, <2>1, <2>2, <2>3, <2>4 DEF HoldsRegistered
  <2>7. LoadsFromFile' /\ CallHasObject' /\ Registered'
    BY <1>t, <2>1, <2>2 DEF LoadsFromFile, CallHasObject, Registered
  <2>8. ListensToOne' /\ TellsListeners' /\ AloneIsAlone' /\ AloneTells'
    BY <1>t, <2>1, <2>2 DEF ListensToOne, TellsListeners, AloneIsAlone, AloneTells
  <2>9. ListenersKnow'
    BY <1>t, <2>1, <2>2 DEF ListenersKnow, Setting
  <2> QED
    BY <2>5, <2>6, <2>7, <2>8, <2>9 DEF Inv
<1>2. CASE LookupMissing(t, n)
  <2> DEFINE new == [Idle EXCEPT !.op = "create", !.name = n]
  <2>1. /\ UNCHANGED <<vars_, store, held, load, known, raced, disputed>>
        /\ call' = [call EXCEPT ![t] = new] /\ call[t].op = "idle"
    BY <1>2 DEF LookupMissing, Free
  <2>2. VarIds' = VarIds
    BY <2>1 DEF VarIds
  <2>3. new \in Calling /\ new.op = "create" /\ new.name = n
    BY IdleIsCalling DEF Idle, Calling, None
  <2>4. call' \in [Threads -> Calling]
        /\ \A u \in Threads : call'[u] = IF u = t THEN new ELSE call[u]
    BY <1>t, <2>1, <2>3 DEF Types
  <2> HIDE DEF new
  <2>5. Types'
    BY <1>t, <2>1, <2>4 DEF Types
  <2>6. LoadsFromFile' /\ Registered' /\ HoldsRegistered' /\ ListensToOne'
    BY <1>t, <2>1, <2>2 DEF LoadsFromFile, Registered, HoldsRegistered, ListensToOne
  <2>7. CallHasObject' /\ TellsListeners' /\ AloneIsAlone'
    BY <1>t, <2>1, <2>2, <2>3, <2>4 DEF CallHasObject, TellsListeners, AloneIsAlone
  <2>8. AloneTells'
    BY <1>t, <2>1, <2>2, <2>3, <2>4 DEF AloneTells
  <2>9. \A v \in VarIds : Setting(v)' = Setting(v)
    BY <2>1, <2>3, <2>4 DEF Setting
  <2>10. ListenersKnow'
    BY <1>t, <2>1, <2>2, <2>9 DEF ListenersKnow
  <2> QED
    BY <2>5, <2>6, <2>7, <2>8, <2>10 DEF Inv
<1> QED
  BY <1>1, <1>2

\* A new variable has no listeners; it is registered, or its creator raced.
LEMMA CreateStep ==
  ASSUME Inv, NEW t \in Threads, Create(t)
  PROVE  Inv'
<1>t. /\ Types /\ LoadsFromFile /\ CallHasObject /\ Registered /\ HoldsRegistered
      /\ ListensToOne /\ TellsListeners /\ AloneIsAlone /\ AloneTells /\ ListenersKnow
  BY DEF Inv
<1> DEFINE n == call[t].name
           v == Len(store) + 1
<1>1. /\ call[t].op = "create" /\ n \in Names
      /\ store' = Append(store, NewVar(n))
      /\ vars_' = [vars_ EXCEPT ![n] = IF @ = None THEN v ELSE @]
      /\ held' = [held EXCEPT ![t] = @ \cup {v}]
      /\ raced' = IF vars_[n] = None THEN raced ELSE raced \cup {<<t, v>>}
      /\ call' = [call EXCEPT ![t] = Idle]
      /\ UNCHANGED <<load, known, disputed>>
  BY <1>t DEF Create, CallHasObject
<1>2. NewVar(n) \in Variables /\ NewVar(n).name = n /\ NewVar(n).listeners = {}
  BY <1>1, ValuesOfNames DEF NewVar, Variables
<1> HIDE DEF n
<1>3. /\ store' \in Seq(Variables) /\ v \in Nat /\ v # None
      /\ VarIds' = VarIds \cup {v} /\ v \notin VarIds
      /\ store'[v] = NewVar(n) /\ \A w \in VarIds : store'[w] = store[w]
  BY <1>t, <1>1, <1>2 DEF Types, VarIds, None
<1> HIDE DEF v
<1>4. /\ vars_' \in [Names -> Nat]
      /\ \A m \in Names : vars_'[m] = IF m = n /\ vars_[m] = None THEN v ELSE vars_[m]
  BY <1>t, <1>1, <1>3 DEF Types
<1>5. /\ held' \in [Threads -> SUBSET Nat]
      /\ \A u \in Threads : held'[u] = IF u = t THEN held[t] \cup {v} ELSE held[u]
  BY <1>t, <1>1, <1>3 DEF Types
<1>6. /\ call' \in [Threads -> Calling]
      /\ \A u \in Threads : call'[u] = IF u = t THEN Idle ELSE call[u]
  BY <1>t, <1>1, IdleIsCalling DEF Types
<1>7. Types'
  BY <1>t, <1>1, <1>3, <1>4, <1>5, <1>6 DEF Types
<1>8. LoadsFromFile'
  BY <1>t, <1>1 DEF LoadsFromFile
<1>9. CallHasObject'
  BY <1>t, <1>3, <1>6, IdleIsCalling DEF CallHasObject
<1>10. Registered'
  BY <1>t, <1>2, <1>3, <1>4 DEF Registered
<1>11. HoldsRegistered'
  <2> SUFFICES ASSUME NEW u \in Threads, NEW w \in held'[u]
               PROVE  w \in VarIds' /\ (w = vars_'[store'[w].name] \/ <<u, w>> \in raced')
    BY DEF HoldsRegistered
  <2>1. CASE w \in held[u]
    <3>1. w \in VarIds /\ (w = vars_[store[w].name] \/ <<u, w>> \in raced) /\ w # None
      BY <1>t, <2>1 DEF HoldsRegistered, VarIds, None
    <3>2. store'[w] = store[w] /\ store[w].name \in Names
      BY <1>t, <1>3, <3>1, Stored
    <3> QED
      BY <1>1, <1>3, <1>4, <3>1, <3>2
  <2>2. CASE u = t /\ w = v
    BY ZenonT(60), <1>1, <1>2, <1>3, <1>4, <2>2
  <2> QED
    BY <1>5, <2>1, <2>2
<1>12. ListensToOne'
  BY <1>t, <1>2, <1>3 DEF ListensToOne
<1>13. TellsListeners' /\ AloneIsAlone'
  BY <1>t, <1>3, <1>6, IdleIsCalling DEF TellsListeners, AloneIsAlone, CallHasObject
<1>14. AloneTells'
  <2> SUFFICES ASSUME NEW u \in Threads, call'[u].op = "set", call'[u].alone
               PROVE  LET w == call'[u].var
                      IN  IF call'[u].told
                          THEN \A l \in store'[w].listeners \ call'[u].todo :
                                  known'[l] = call'[u].val
                          ELSE /\ call'[u].val = store'[w].val
                               /\ w \notin disputed' =>
                                    \A l \in store'[w].listeners : known'[l] = store'[w].val
    BY DEF AloneTells
  <2>1. call'[u] = call[u] /\ call[u].var \in VarIds
    BY <1>t, <1>6, IdleIsCalling DEF CallHasObject
  <2>2. store'[call[u].var] = store[call[u].var] /\ known' = known /\ disputed' = disputed
    BY <1>1, <1>3, <2>1
  <2> QED
    BY <1>t, <2>1, <2>2 DEF AloneTells
<1>15. \A w \in VarIds : Setting(w)' = Setting(w)
  BY <1>1, <1>6, IdleIsCalling DEF Setting
<1>16. ListenersKnow'
  <2> SUFFICES ASSUME NEW w \in VarIds' \ disputed', Setting(w)' = {},
                      NEW l \in store'[w].listeners
               PROVE  known'[l] = store'[w].val
    BY DEF ListenersKnow
  <2>1. CASE w \in VarIds
    BY <1>t, <1>1, <1>3, <1>15, <2>1 DEF ListenersKnow
  <2>2. CASE w = v
    BY <1>2, <1>3, <2>2
  <2> QED
    BY <1>3, <2>1, <2>2
<1> QED
  BY <1>7, <1>8, <1>9, <1>10, <1>11, <1>12, <1>13, <1>14, <1>16 DEF Inv

-----------------------------------------------------------------------------
(* A variable.                                                             *)

\* SetValue begins: it is alone if nobody else sets the variable, and those
\* who do are alone no more.  The calls of other variables are as they were.
LEMMA Begun ==
  ASSUME Types, NEW t \in Threads, NEW v \in VarIds, NEW x \in AllValues, Begin(t, v, x)
  PROVE  /\ call' \in [Threads -> Calling]
         /\ call'[t].op = "set" /\ call'[t].var = v /\ call'[t].val = x
         /\ call'[t].told = (x # store[v].val) /\ call'[t].alone = (Setting(v) = {})
         /\ call'[t].todo = IF x # store[v].val THEN store[v].listeners ELSE {}
         /\ \A u \in Threads \ {t} :
              /\ call'[u].op = call[u].op /\ call'[u].var = call[u].var
              /\ call'[u].name = call[u].name /\ call'[u].val = call[u].val
              /\ call'[u].todo = call[u].todo /\ call'[u].told = call[u].told
              /\ call'[u].alone => call[u].alone
              /\ call'[u].alone => ~(call[u].op = "set" /\ call[u].var = v)
<1> DEFINE new == [Idle EXCEPT !.op = "set", !.var = v, !.val = x,
                               !.told = x # store[v].val,
                               !.todo = IF x # store[v].val THEN store[v].listeners ELSE {},
                               !.alone = Setting(v) = {}]
<1>1. v \in Nat
  BY DEF VarIds, Types
<1>2. store[v].listeners \subseteq Listeners
  BY Stored
<1>3. (x # store[v].val) \in BOOLEAN /\ (Setting(v) = {}) \in BOOLEAN
  OBVIOUS
<1>4. /\ new \in Calling
      /\ new.op = "set" /\ new.var = v /\ new.val = x
      /\ new.told = (x # store[v].val) /\ new.alone = (Setting(v) = {})
      /\ new.todo = IF x # store[v].val THEN store[v].listeners ELSE {}
  BY <1>1, <1>2, <1>3 DEF Idle, Calling, None
<1>5. call' = [u \in Threads |-> IF u = t THEN new
                                 ELSE IF u \in Setting(v) THEN [call[u] EXCEPT !.alone = FALSE]
                                 ELSE call[u]]
  BY DEF Begin
<1> HIDE DEF new
<1>6. \A u \in Threads : [call[u] EXCEPT !.alone = FALSE] \in Calling
  BY NotAlone DEF Types
<1>7. call' \in [Threads -> Calling] /\ call'[t] = new
  BY <1>4, <1>5, <1>6 DEF Types
<1>8. ASSUME NEW u \in Threads \ {t}
      PROVE  /\ call'[u].op = call[u].op /\ call'[u].var = call[u].var
             /\ call'[u].name = call[u].name /\ call'[u].val = call[u].val
             /\ call'[u].todo = call[u].todo /\ call'[u].told = call[u].told
             /\ call'[u].alone => call[u].alone
             /\ call'[u].alone => ~(call[u].op = "set" /\ call[u].var = v)
  <2>1. call[u] \in Calling
    BY DEF Types
  <2>2. CASE u \in Setting(v)
    <3>1. call'[u] = [call[u] EXCEPT !.alone = FALSE]
      BY <1>5, <2>2
    <3> QED
      BY <2>1, <3>1 DEF Calling
  <2>3. CASE u \notin Setting(v)
    BY <1>5, <2>3 DEF Setting
  <2> QED
    BY <2>2, <2>3
<1> QED
  BY <1>4, <1>7, <1>8

\* Such a call keeps the invariant.
LEMMA BeginStep ==
  ASSUME Inv, NEW t \in Threads, NEW v \in VarIds, NEW x \in AllValues,
         call[t].op = "idle", Begin(t, v, x),
         UNCHANGED <<vars_, store, held, known, raced, disputed>>,
         DOMAIN load' = Threads, LoadsFromFile'
  PROVE  Inv'
<1>t. /\ Types /\ LoadsFromFile /\ CallHasObject /\ Registered /\ HoldsRegistered
      /\ ListensToOne /\ TellsListeners /\ AloneIsAlone /\ AloneTells /\ ListenersKnow
  BY DEF Inv
<1>1. VarIds' = VarIds
  BY DEF VarIds
<1>2. store[v].listeners \subseteq Listeners
  BY <1>t, Stored
<1>3. /\ call'[t].op = "set" /\ call'[t].var = v /\ call'[t].val = x
      /\ call'[t].told = (x # store[v].val) /\ call'[t].alone = (Setting(v) = {})
      /\ call'[t].todo = IF x # store[v].val THEN store[v].listeners ELSE {}
  BY <1>t, Begun
<1>4. call' \in [Threads -> Calling]
  BY <1>t, Begun
<1>5. \A u \in Threads \ {t} :
         /\ call'[u].op = call[u].op /\ call'[u].var = call[u].var
         /\ call'[u].name = call[u].name /\ call'[u].val = call[u].val
         /\ call'[u].todo = call[u].todo /\ call'[u].told = call[u].told
         /\ call'[u].alone => call[u].alone
         /\ call'[u].alone => ~(call[u].op = "set" /\ call[u].var = v)
  BY <1>t, Begun
<1>6. Types'
  BY <1>t, <1>4 DEF Types
<1>7. CallHasObject'
  BY <1>t, <1>1, <1>3, <1>5 DEF CallHasObject
<1>8. Registered' /\ HoldsRegistered' /\ ListensToOne'
  BY <1>t, <1>1 DEF Registered, HoldsRegistered, ListensToOne
<1>9. TellsListeners'
  BY <1>t, <1>1, <1>3, <1>5 DEF TellsListeners
<1>10. AloneIsAlone'
  <2> SUFFICES ASSUME NEW r \in Threads, NEW u \in Threads,
                      call'[r].op = "set", call'[u].op = "set",
                      call'[r].var = call'[u].var, call'[r].alone
               PROVE  r = u
    BY DEF AloneIsAlone
  <2>1. CASE r # t /\ u # t
    BY <1>t, <1>5, <2>1 DEF AloneIsAlone
  <2>2. CASE r = t /\ u # t
    <3>1. Setting(v) = {} /\ call[u].op = "set" /\ call[u].var = v
      BY <1>3, <1>5, <2>2
    <3> QED
      BY <3>1, NobodySets
  <2>3. CASE r # t /\ u = t
    BY <1>3, <1>5, <2>3
  <2> QED
    BY <2>1, <2>2, <2>3
<1>11. AloneTells'
  <2> SUFFICES ASSUME NEW u \in Threads, call'[u].op = "set", call'[u].alone
               PROVE  LET w == call'[u].var
                      IN  IF call'[u].told
                          THEN \A l \in store'[w].listeners \ call'[u].todo :
                                  known'[l] = call'[u].val
                          ELSE /\ call'[u].val = store'[w].val
                               /\ w \notin disputed' =>
                                    \A l \in store'[w].listeners : known'[l] = store'[w].val
    BY DEF AloneTells
  <2>1. CASE u # t
    BY <1>t, <1>5, <2>1 DEF AloneTells
  <2>2. CASE u = t
    <3>1. v \notin disputed => \A l \in store[v].listeners : known[l] = store[v].val
      BY <1>t, <1>3, <2>2 DEF ListenersKnow
    <3> QED
      BY <1>3, <2>2, <3>1
  <2> QED
    BY <2>1, <2>2
<1>12. ListenersKnow'
  <2> SUFFICES ASSUME NEW w \in VarIds' \ disputed', Setting(w)' = {},
                      NEW l \in store'[w].listeners
               PROVE  known'[l] = store'[w].val
    BY DEF ListenersKnow
  <2>1. \A u \in Threads : ~(call'[u].op = "set" /\ call'[u].var = w)
    BY DEF Setting
  <2>2. \A u \in Threads : ~(call[u].op = "set" /\ call[u].var = w)
    BY <1>5, <2>1
  <2>3. Setting(w) = {}
    BY <2>2, NobodySets
  <2> QED
    BY <1>t, <1>1, <2>3 DEF ListenersKnow
<1> QED
  BY <1>6, <1>7, <1>8, <1>9, <1>10, <1>11, <1>12 DEF Inv

\* A listener is told: it is one of this variable and of no other.
LEMMA TellStep ==
  ASSUME Inv, NEW t \in Threads, NEW l \in Listeners, Tell(t, l)
  PROVE  Inv'
<1>t. /\ Types /\ LoadsFromFile /\ CallHasObject /\ Registered /\ HoldsRegistered
      /\ ListensToOne /\ TellsListeners /\ AloneIsAlone /\ AloneTells /\ ListenersKnow
  BY DEF Inv
<1> DEFINE v == call[t].var
<1>1. /\ call[t].op = "set" /\ l \in call[t].todo
      /\ call' = [call EXCEPT ![t].todo = @ \ {l}]
      /\ known' = [known EXCEPT ![l] = call[t].val]
      /\ UNCHANGED <<vars_, store, held, load, raced, disputed>>
  BY DEF Tell, Told
<1>2. VarIds' = VarIds
  BY <1>1 DEF VarIds
<1>3. v \in VarIds /\ call[t].val \in AllValues /\ l \in store[v].listeners
  BY <1>t, <1>1 DEF CallHasObject, TellsListeners
<1>4. call[t] \in Calling /\ [call[t] EXCEPT !.todo = @ \ {l}] \in Calling
  BY <1>t DEF Types, Calling
<1>5. /\ call' \in [Threads -> Calling]
      /\ call'[t] = [call[t] EXCEPT !.todo = @ \ {l}]
      /\ \A u \in Threads \ {t} : call'[u] = call[u]
  BY <1>t, <1>1, <1>4 DEF Types
<1>6. \A u \in Threads :
         /\ call'[u].op = call[u].op /\ call'[u].var = call[u].var
         /\ call'[u].name = call[u].name /\ call'[u].val = call[u].val
         /\ call'[u].told = call[u].told /\ call'[u].alone = call[u].alone
         /\ call'[u].todo = IF u = t THEN call[u].todo \ {l} ELSE call[u].todo
  BY ZenonT(60), <1>4, <1>5 DEF Calling
<1>7. /\ known' \in [Listeners -> AllValues \cup {NoValue}]
      /\ known'[l] = call[t].val /\ \A k \in Listeners \ {l} : known'[k] = known[k]
  BY <1>t, <1>1, <1>3 DEF Types
<1>8. Types'
  BY <1>t, <1>1, <1>5, <1>7 DEF Types
<1>9. LoadsFromFile' /\ Registered' /\ HoldsRegistered' /\ ListensToOne'
  BY <1>t, <1>1, <1>2 DEF LoadsFromFile, Registered, HoldsRegistered, ListensToOne
<1>10. CallHasObject' /\ TellsListeners' /\ AloneIsAlone'
  BY <1>t, <1>1, <1>2, <1>6 DEF CallHasObject, TellsListeners, AloneIsAlone
\* Another variable does not notice.
<1>11. ASSUME NEW w \in VarIds, w # v, NEW k \in store[w].listeners
       PROVE  known'[k] = known[k]
  BY <1>t, <1>3, <1>7, <1>11, Stored DEF ListensToOne
<1>12. AloneTells'
  <2> SUFFICES ASSUME NEW u \in Threads, call'[u].op = "set", call'[u].alone
               PROVE  LET w == call'[u].var
                      IN  IF call'[u].told
                          THEN \A k \in store'[w].listeners \ call'[u].todo :
                                  known'[k] = call'[u].val
                          ELSE /\ call'[u].val = store'[w].val
                               /\ w \notin disputed' =>
                                    \A k \in store'[w].listeners : known'[k] = store'[w].val
    BY DEF AloneTells
  <2>1. call[u].op = "set" /\ call[u].alone /\ call[u].var \in VarIds
    BY <1>t, <1>6 DEF CallHasObject
  <2>2. CASE u = t /\ call[t].told
    <3>1. \A k \in store[v].listeners \ call[t].todo : known[k] = call[t].val
      BY <1>t, <2>1, <2>2 DEF AloneTells
    <3>2. store[v].listeners \subseteq Listeners
      BY <1>t, <1>3, Stored
    <3> QED
      BY <1>1, <1>6, <1>7, <2>2, <3>1, <3>2
  <2>3. CASE u = t /\ ~call[t].told
    BY <1>t, <1>1, <1>3, <1>6, <1>7, <2>1, <2>3, Stored DEF AloneTells
  <2>4. CASE u # t
    <3>1. call[u].var # v
      BY <1>t, <1>1, <2>1, <2>4 DEF AloneIsAlone
    <3> QED
      BY <1>t, <1>1, <1>6, <1>11, <2>1, <2>4, <3>1 DEF AloneTells
  <2> QED
    BY <2>2, <2>3, <2>4
<1>13. ListenersKnow'
  <2> SUFFICES ASSUME NEW w \in VarIds' \ disputed', Setting(w)' = {},
                      NEW k \in store'[w].listeners
               PROVE  known'[k] = store'[w].val
    BY DEF ListenersKnow
  <2>1. \A u \in Threads : ~(call'[u].op = "set" /\ call'[u].var = w)
    BY DEF Setting
  <2>2. \A u \in Threads : ~(call[u].op = "set" /\ call[u].var = w)
    BY <1>6, <2>1
  <2>3. Setting(w) = {} /\ w # v
    BY <1>1, <2>2, NobodySets
  <2> QED
    BY <1>t, <1>1, <1>2, <1>11, <2>3 DEF ListenersKnow
<1> QED
  BY <1>8, <1>9, <1>10, <1>12, <1>13 DEF Inv

\* The value is assigned.  If the call was alone and changed the value, it has
\* told every listener; if it was not, the variable is disputed.
LEMMA AssignStep ==
  ASSUME Inv, NEW t \in Threads, Assign(t)
  PROVE  Inv'
<1>t. /\ Types /\ LoadsFromFile /\ CallHasObject /\ Registered /\ HoldsRegistered
      /\ ListensToOne /\ TellsListeners /\ AloneIsAlone /\ AloneTells /\ ListenersKnow
  BY DEF Inv
<1> DEFINE v == call[t].var
<1>1. /\ call[t].op = "set" /\ call[t].todo = {}
      /\ store' = [store EXCEPT ![v].val = call[t].val]
      /\ disputed' = CASE ~call[t].alone -> disputed \cup {v}
                       [] call[t].alone /\ call[t].told -> disputed \ {v}
                       [] OTHER -> disputed
      /\ call' = [call EXCEPT ![t] = Idle]
      /\ UNCHANGED <<vars_, held, load, known, raced>>
  BY DEF Assign
<1>2. v \in VarIds /\ call[t].val \in AllValues /\ call[t] \in Calling
  BY <1>t, <1>1 DEF CallHasObject, Types
<1>3. store[v] \in Variables /\ [store[v] EXCEPT !.val = call[t].val] \in Variables
  BY <1>t, <1>2, Stored DEF Variables
<1>4. /\ store' \in Seq(Variables) /\ VarIds' = VarIds
      /\ store'[v] = [store[v] EXCEPT !.val = call[t].val]
      /\ \A w \in VarIds \ {v} : store'[w] = store[w]
  <2>1. store' = [store EXCEPT ![v] = [store[v] EXCEPT !.val = call[t].val]]
    BY <1>1
  <2> HIDE DEF v
  <2> QED
    BY <1>t, <1>2, <1>3, <2>1, Replaced
<1>5. /\ store'[v].val = call[t].val
      /\ \A w \in VarIds : /\ store'[w].name = store[w].name
                           /\ store'[w].listeners = store[w].listeners
  BY <1>3, <1>4 DEF Variables
<1>6. /\ call' \in [Threads -> Calling]
      /\ \A u \in Threads : call'[u] = IF u = t THEN Idle ELSE call[u]
  BY <1>t, <1>1, IdleIsCalling DEF Types
<1>7. \A w \in VarIds \ {v} : w \in disputed' <=> w \in disputed
  BY <1>1
<1>8. Types'
  BY <1>t, <1>1, <1>4, <1>6 DEF Types
<1>9. LoadsFromFile' /\ Registered' /\ HoldsRegistered' /\ ListensToOne'
  BY <1>t, <1>1, <1>4, <1>5 DEF LoadsFromFile, Registered, HoldsRegistered, ListensToOne
<1>10. CallHasObject' /\ TellsListeners' /\ AloneIsAlone'
  BY <1>t, <1>4, <1>5, <1>6, IdleIsCalling DEF CallHasObject, TellsListeners, AloneIsAlone
<1>11. AloneTells'
  <2> SUFFICES ASSUME NEW u \in Threads, call'[u].op = "set", call'[u].alone
               PROVE  LET w == call'[u].var
                      IN  IF call'[u].told
                          THEN \A k \in store'[w].listeners \ call'[u].todo :
                                  known'[k] = call'[u].val
                          ELSE /\ call'[u].val = store'[w].val
                               /\ w \notin disputed' =>
                                    \A k \in store'[w].listeners : known'[k] = store'[w].val
    BY DEF AloneTells
  <2>1. u # t /\ call'[u] = call[u] /\ call[u].var \in VarIds
    BY <1>t, <1>6, IdleIsCalling DEF CallHasObject
  <2>2. call[u].var # v
    BY <1>t, <1>1, <2>1 DEF AloneIsAlone
  <2>3. store'[call[u].var] = store[call[u].var]
    BY <1>4, <2>1, <2>2
  <2> QED
    BY <1>t, <1>1, <1>7, <2>1, <2>2, <2>3 DEF AloneTells
<1>12. ListenersKnow'
  <2> SUFFICES ASSUME NEW w \in VarIds' \ disputed', Setting(w)' = {},
                      NEW k \in store'[w].listeners
               PROVE  known'[k] = store'[w].val
    BY DEF ListenersKnow
  <2>1. CASE w # v
    <3>1. \A u \in Threads : ~(call'[u].op = "set" /\ call'[u].var = w)
      BY DEF Setting
    <3>2. \A u \in Threads : ~(call[u].op = "set" /\ call[u].var = w)
      BY <1>6, <2>1, <3>1
    <3>3. Setting(w) = {} /\ w \in VarIds \ disputed /\ store'[w] = store[w]
      BY <1>4, <1>7, <2>1, <3>2, NobodySets
    <3> QED
      BY <1>t, <1>1, <3>3 DEF ListenersKnow
  <2>2. CASE w = v
    <3>1. call[t].alone /\ k \in store[v].listeners
      BY <1>1, <1>2, <1>5, <2>2
    <3>2. CASE call[t].told
      BY <1>t, <1>1, <1>5, <2>2, <3>1, <3>2 DEF AloneTells
    <3>3. CASE ~call[t].told
      <4>1. v \notin disputed
        BY <1>1, <2>2, <3>1, <3>3
      <4> QED
        BY <1>t, <1>1, <1>5, <2>2, <3>1, <3>3, <4>1 DEF AloneTells
    <3> QED
      BY <3>2, <3>3
  <2> QED
    BY <2>1, <2>2
<1> QED
  BY <1>8, <1>9, <1>10, <1>11, <1>12 DEF Inv

\* The new listener is told the value that the variable has; a call that has
\* told the others and not yet assigned is alone no more.
LEMMA AddListenerStep ==
  ASSUME Inv, NEW t \in Threads, NEW v \in held[t], NEW l \in Listeners,
         AddListener(t, v, l)
  PROVE  Inv'
<1>t. /\ Types /\ LoadsFromFile /\ CallHasObject /\ Registered /\ HoldsRegistered
      /\ ListensToOne /\ TellsListeners /\ AloneIsAlone /\ AloneTells /\ ListenersKnow
  BY DEF Inv
<1>1. /\ \A w \in VarIds : l \notin store[w].listeners
      /\ store' = [store EXCEPT ![v].listeners = @ \cup {l}]
      /\ known' = [known EXCEPT ![l] = store[v].val]
      /\ call' = [u \in Threads |-> IF u \in Setting(v)
                                    THEN [call[u] EXCEPT !.alone = FALSE] ELSE call[u]]
      /\ UNCHANGED <<vars_, held, load, raced, disputed>>
  BY DEF AddListener
<1>2. v \in VarIds
  BY <1>t DEF HoldsRegistered
<1>3. store[v] \in Variables /\ store[v].val \in AllValues
      /\ [store[v] EXCEPT !.listeners = @ \cup {l}] \in Variables
  BY <1>t, <1>2, Stored DEF Variables
<1>4. /\ store' \in Seq(Variables) /\ VarIds' = VarIds
      /\ store'[v] = [store[v] EXCEPT !.listeners = @ \cup {l}]
      /\ \A w \in VarIds \ {v} : store'[w] = store[w]
  <2>1. store' = [store EXCEPT ![v] = [store[v] EXCEPT !.listeners = @ \cup {l}]]
    BY <1>1
  <2> QED
    BY <1>t, <1>2, <1>3, <2>1, Replaced
<1>5. /\ store'[v].listeners = store[v].listeners \cup {l}
      /\ \A w \in VarIds : store'[w].name = store[w].name /\ store'[w].val = store[w].val
  BY <1>3, <1>4 DEF Variables
<1>6. /\ known' \in [Listeners -> AllValues \cup {NoValue}]
      /\ known'[l] = store[v].val /\ \A k \in Listeners \ {l} : known'[k] = known[k]
  BY <1>t, <1>1, <1>3 DEF Types
<1>7. ASSUME NEW w \in VarIds, NEW k \in store[w].listeners PROVE known'[k] = known[k]
  BY <1>t, <1>1, <1>6, Stored
<1>8. call' \in [Threads -> Calling]
  BY <1>t, <1>1, NotAlone DEF Types
<1>9. ASSUME NEW u \in Threads
      PROVE  /\ call'[u].op = call[u].op /\ call'[u].var = call[u].var
             /\ call'[u].name = call[u].name /\ call'[u].val = call[u].val
             /\ call'[u].todo = call[u].todo /\ call'[u].told = call[u].told
             /\ call'[u].alone => call[u].alone
             /\ call'[u].alone => ~(call[u].op = "set" /\ call[u].var = v)
  <2>1. call[u] \in Calling
    BY <1>t DEF Types
  <2>2. CASE u \in Setting(v)
    <3>1. call'[u] = [call[u] EXCEPT !.alone = FALSE]
      BY <1>1, <2>2
    <3> QED
      BY <2>1, <3>1 DEF Calling
  <2>3. CASE u \notin Setting(v)
    BY <1>1, <2>3 DEF Setting
  <2> QED
    BY <2>2, <2>3
<1>10. Types'
  BY <1>t, <1>1, <1>4, <1>6, <1>8 DEF Types
<1>11. LoadsFromFile' /\ Registered' /\ HoldsRegistered'
  BY <1>t, <1>1, <1>4, <1>5 DEF LoadsFromFile, Registered, HoldsRegistered
<1>12. ListensToOne'
  <2>1. \A w \in VarIds, k \in Listeners :
           k \in store'[w].listeners => k \in store[w].listeners \/ (w = v /\ k = l)
    BY <1>4, <1>5
  <2> QED
    BY <1>t, <1>1, <1>2, <1>4, <2>1 DEF ListensToOne
<1>13. CallHasObject' /\ AloneIsAlone'
  BY <1>t, <1>4, <1>9 DEF CallHasObject, AloneIsAlone
<1>14. TellsListeners'
  <2>1. \A w \in VarIds : store[w].listeners \subseteq store'[w].listeners
    BY <1>4, <1>5
  <2> QED
    BY <1>t, <1>9, <2>1 DEF TellsListeners, CallHasObject
<1>15. AloneTells'
  <2> SUFFICES ASSUME NEW u \in Threads, call'[u].op = "set", call'[u].alone
               PROVE  LET w == call'[u].var
                      IN  IF call'[u].told
                          THEN \A k \in store'[w].listeners \ call'[u].todo :
                                  known'[k] = call'[u].val
                          ELSE /\ call'[u].val = store'[w].val
                               /\ w \notin disputed' =>
                                    \A k \in store'[w].listeners : known'[k] = store'[w].val
    BY DEF AloneTells
  <2>1. /\ call[u].op = "set" /\ call[u].alone
        /\ call[u].var \in VarIds \ {v} /\ call'[u].var = call[u].var
    BY <1>t, <1>9 DEF CallHasObject
  <2>2. store'[call[u].var] = store[call[u].var]
    BY <1>4, <2>1
  <2> QED
    BY <1>t, <1>1, <1>7, <1>9, <2>1, <2>2 DEF AloneTells
<1>16. ListenersKnow'
  <2> SUFFICES ASSUME NEW w \in VarIds' \ disputed', Setting(w)' = {},
                      NEW k \in store'[w].listeners
               PROVE  known'[k] = store'[w].val
    BY DEF ListenersKnow
  <2>1. \A u \in Threads : ~(call'[u].op = "set" /\ call'[u].var = w)
    BY DEF Setting
  <2>2. Setting(w) = {} /\ w \in VarIds \ disputed
    BY <1>1, <1>4, <1>9, <2>1, NobodySets
  <2>3. CASE k \in store[w].listeners
    BY <1>t, <1>5, <1>7, <2>2, <2>3 DEF ListenersKnow
  <2>4. CASE w = v /\ k = l
    BY <1>2, <1>5, <1>6, <2>4
  <2> QED
    BY <1>4, <1>5, <2>2, <2>3, <2>4
<1> QED
  BY <1>10, <1>11, <1>12, <1>13, <1>14, <1>15, <1>16 DEF Inv

\* Listeners leave while nobody is telling.
LEMMA LeaveStep ==
  ASSUME Inv, NEW t \in Threads, NEW v \in held[t],
         (\E l \in Listeners : RemoveListener(t, v, l)) \/ ClearListeners(t, v)
  PROVE  Inv'
<1>t. /\ Types /\ LoadsFromFile /\ CallHasObject /\ Registered /\ HoldsRegistered
      /\ ListensToOne /\ TellsListeners /\ AloneIsAlone /\ AloneTells /\ ListenersKnow
  BY DEF Inv
<1>1. PICK L \in SUBSET store[v].listeners :
        /\ Telling(v) = {}
        /\ store' = [store EXCEPT ![v].listeners = L]
        /\ UNCHANGED <<vars_, held, call, load, known, raced, disputed>>
  <2>1. CASE ClearListeners(t, v)
    BY <2>1 DEF ClearListeners
  <2>2. ASSUME NEW l \in Listeners, RemoveListener(t, v, l)
        PROVE  \E L \in SUBSET store[v].listeners :
                 /\ Telling(v) = {}
                 /\ store' = [store EXCEPT ![v].listeners = L]
                 /\ UNCHANGED <<vars_, held, call, load, known, raced, disputed>>
    <3>1. store[v].listeners \ {l} \in SUBSET store[v].listeners
      OBVIOUS
    <3> QED
      BY <2>2, <3>1 DEF RemoveListener
  <2> QED
    BY <2>1, <2>2
<1>2. v \in VarIds
  BY <1>t DEF HoldsRegistered
<1>3. store[v] \in Variables /\ [store[v] EXCEPT !.listeners = L] \in Variables
  BY <1>t, <1>2, Stored DEF Variables
<1>4. /\ store' \in Seq(Variables) /\ VarIds' = VarIds
      /\ store'[v] = [store[v] EXCEPT !.listeners = L]
      /\ \A w \in VarIds \ {v} : store'[w] = store[w]
  <2>1. store' = [store EXCEPT ![v] = [store[v] EXCEPT !.listeners = L]]
    BY <1>1
  <2> QED
    BY <1>t, <1>2, <1>3, <2>1, Replaced
<1>5. /\ \A w \in VarIds : /\ store'[w].name = store[w].name
                           /\ store'[w].val = store[w].val
                           /\ store'[w].listeners \subseteq store[w].listeners
  BY <1>3, <1>4 DEF Variables
<1>6. Types'
  BY <1>t, <1>1, <1>4 DEF Types
<1>7. LoadsFromFile' /\ Registered' /\ HoldsRegistered'
  BY <1>t, <1>1, <1>4, <1>5 DEF LoadsFromFile, Registered, HoldsRegistered
<1>8. ListensToOne' /\ CallHasObject' /\ AloneIsAlone'
  BY <1>t, <1>1, <1>4, <1>5 DEF ListensToOne, CallHasObject, AloneIsAlone
<1>9. TellsListeners'
  <2> SUFFICES ASSUME NEW u \in Threads, call[u].op = "set"
               PROVE  call[u].todo \subseteq store'[call[u].var].listeners
    BY <1>1 DEF TellsListeners
  <2>1. CASE call[u].var = v
    BY <1>1, <2>1, NobodyTells
  <2>2. CASE call[u].var # v
    BY <1>t, <1>4, <2>2 DEF TellsListeners, CallHasObject
  <2> QED
    BY <2>1, <2>2
<1>10. AloneTells'
  <2>1. \A u \in Threads : call[u].op = "set" => call[u].var \in VarIds
    BY <1>t DEF CallHasObject
  <2> QED
    BY <1>t, <1>1, <1>5, <2>1 DEF AloneTells
<1>11. ListenersKnow'
  BY <1>t, <1>1, <1>4, <1>5 DEF ListenersKnow, Setting
<1> QED
  BY <1>6, <1>7, <1>8, <1>9, <1>10, <1>11 DEF Inv

-----------------------------------------------------------------------------
(* Loading a file.                                                         *)

\* A step that changes only what is still to be loaded.
LEMMA LoadOnly ==
  ASSUME Inv, UNCHANGED <<vars_, store, held, call, known, raced, disputed>>,
         DOMAIN load' = Threads, LoadsFromFile'
  PROVE  Inv'
<1>1. VarIds' = VarIds /\ \A v \in VarIds : Setting(v)' = Setting(v)
  BY DEF VarIds, Setting
<1>2. Types'
  BY DEF Inv, Types
<1>3. CallHasObject' /\ Registered' /\ HoldsRegistered' /\ ListensToOne'
  BY <1>1 DEF Inv, CallHasObject, Registered, HoldsRegistered, ListensToOne
<1>4. TellsListeners' /\ AloneIsAlone' /\ AloneTells'
  BY DEF Inv, TellsListeners, AloneIsAlone, AloneTells
<1>5. ListenersKnow'
  BY <1>1 DEF Inv, ListenersKnow
<1> QED
  BY <1>2, <1>3, <1>4, <1>5 DEF Inv

\* LoadYaml takes the members of the file.
LEMMA LoadYamlStep ==
  ASSUME Inv, NEW t \in Threads, NEW doc \in Documents, LoadYaml(t, doc)
  PROVE  Inv'
<1>1. /\ UNCHANGED <<vars_, store, held, call, known, raced, disputed>>
      /\ load' = [load EXCEPT ![t] = doc]
  BY DEF LoadYaml
<1>2. DOMAIN load = Threads /\ LoadsFromFile
  BY DEF Inv, Types
<1>3. DOMAIN load' = Threads /\ \A u \in Threads : load'[u] = IF u = t THEN doc ELSE load[u]
  BY <1>1, <1>2
<1>4. LoadsFromFile'
  BY <1>2, <1>3 DEF LoadsFromFile
<1> QED
  BY <1>1, <1>3, <1>4, LoadOnly

\* The members that stay are members of the file.
LEMMA Kept ==
  ASSUME Inv, NEW t \in Threads, NEW ms, ms \subseteq DOMAIN load[t],
         load' = [load EXCEPT ![t] = Restrict(@, ms)]
  PROVE  DOMAIN load' = Threads /\ LoadsFromFile'
<1>1. DOMAIN load = Threads /\ LoadsFromFile
  BY DEF Inv, Types
<1>2. /\ DOMAIN load' = Threads
      /\ \A u \in Threads : load'[u] = IF u = t THEN [n \in ms |-> load[t][n]] ELSE load[u]
  BY <1>1 DEF Restrict
<1>3. ASSUME NEW u \in Threads, NEW n \in DOMAIN load'[u]
      PROVE  n \in DOMAIN load[u] /\ load'[u][n] = load[u][n]
  <2>1. CASE u = t
    <3>1. load'[u] = [m \in ms |-> load[t][m]]
      BY <1>2, <2>1
    <3>2. n \in ms
      BY <3>1
    <3> QED
      BY <2>1, <3>1, <3>2
  <2>2. CASE u # t
    BY <1>2, <2>2
  <2> QED
    BY <2>1, <2>2
<1> QED
  BY <1>1, <1>2, <1>3 DEF LoadsFromFile

\* A member of the file is passed over, ends the file, or begins SetValue of
\* the variable that is registered under its name.
LEMMA LoadMemberStep ==
  ASSUME Inv, NEW t \in Threads, LoadMember(t)
  PROVE  Inv'
<1>t. Types /\ LoadsFromFile /\ Registered
  BY DEF Inv
<1>1. PICK n \in DOMAIN load[t] :
        LET v == vars_[n]
            x == FromStr(n, load[t][n])
            Keep(ms) == load' = [load EXCEPT ![t] = Restrict(@, ms)]
        IN  /\ call[t].op = "idle" /\ IsFirst(n, load[t])
            /\ CASE v = None ->
                      Keep(DOMAIN load[t] \ {n}) /\ UNCHANGED <<call, sets>>
                 [] v # None /\ x = Malformed ->
                      Keep({}) /\ UNCHANGED <<call, sets>>
                 [] OTHER -> Keep(DOMAIN load[t] \ {n}) /\ Begin(t, v, x)
            /\ UNCHANGED <<vars_, store, held, known, raced, disputed>>
  BY DEF LoadMember
<1>2. n \in Names /\ FromStr(n, load[t][n]) \in AllValues
  <2>1. PICK doc \in Documents : n \in DOMAIN doc /\ load[t][n] = doc[n]
    BY <1>t DEF LoadsFromFile
  <2> QED
    BY <2>1, ValuesOfFiles
<1>3. PICK ms \in SUBSET DOMAIN load[t] : load' = [load EXCEPT ![t] = Restrict(@, ms)]
  BY <1>1
<1>4. DOMAIN load' = Threads /\ LoadsFromFile'
  BY <1>3, Kept
<1>5. CASE UNCHANGED call
  BY <1>1, <1>4, <1>5, LoadOnly
<1>6. CASE vars_[n] # None /\ Begin(t, vars_[n], FromStr(n, load[t][n]))
  <2>1. vars_[n] \in VarIds
    BY <1>t, <1>2, <1>6 DEF Registered
  <2>2. PICK w \in VarIds, x \in AllValues : w = vars_[n] /\ x = FromStr(n, load[t][n])
    BY <1>2, <2>1
  <2>3. Begin(t, w, x)
    BY <1>6, <2>2 DEF Begin, Setting
  <2> QED
    BY <1>1, <1>4, <2>3, BeginStep
<1> QED
  BY <1>1, <1>5, <1>6

-----------------------------------------------------------------------------
(* The theorems.                                                           *)

\* What a thread may begin keeps the invariant.
LEMMA CallsStep ==
  ASSUME Inv, NEW t \in Threads, Calls(t)
  PROVE  Inv'
<1>1. ASSUME NEW v \in held[t], NEW n \in Names, NEW x \in Values(n), SetValue(t, v, x)
      PROVE  Inv'
  <2>1. v \in VarIds /\ x \in AllValues
    BY ValuesOfNames DEF Inv, HoldsRegistered
  <2>2. DOMAIN load' = Threads /\ LoadsFromFile'
    BY <1>1 DEF SetValue, Inv, Types, LoadsFromFile
  <2> QED
    BY <1>1, <2>1, <2>2, BeginStep DEF SetValue, Free
<1> QED
  BY <1>1, LookupStep, LoadYamlStep DEF Calls

\* So does a step that leaves the configuration alone.
LEMMA Untouched == ASSUME Inv, UNCHANGED configVars PROVE Inv'
<1>1. DOMAIN load' = Threads /\ LoadsFromFile'
  BY DEF configVars, Inv, Types, LoadsFromFile
<1> QED
  BY <1>1, LoadOnly DEF configVars

\* Every step of every thread keeps the invariant.
LEMMA InvStep == Inv /\ [ConfigNext]_configVars => Inv'
<1> SUFFICES ASSUME Inv, [ConfigNext]_configVars PROVE Inv'
  OBVIOUS
<1>1. ASSUME NEW t \in Threads, ListenerCalls(t) PROVE Inv'
  BY <1>1, AddListenerStep, LeaveStep DEF ListenerCalls
<1>2. ASSUME NEW t \in Threads, ConfigStep(t) PROVE Inv'
  BY <1>2, CreateStep, LoadMemberStep, AssignStep, TellStep DEF ConfigStep
<1> QED
  BY <1>1, <1>2, CallsStep, Untouched DEF ConfigNext

\* The invariant holds in every reachable state.
THEOREM Invariance == ConfigSpec => []Inv
  BY InvInit, InvStep, PTL DEF ConfigSpec

\* Two lookups of one name give one variable, whoever asks and whoever created
\* it, but for the creators that found the name free and then taken.
THEOREM LookupsAgree == ConfigSpec => []OneVariablePerName
<1>1. Inv => OneVariablePerName
  <2> SUFFICES ASSUME Inv, NEW t \in Threads, NEW u \in Threads,
                      NEW v \in held[t], NEW w \in held[u],
                      store[v].name = store[w].name,
                      {<<t, v>>, <<u, w>>} \cap raced = {}
               PROVE  v = w
    BY DEF OneVariablePerName
  <2>1. v = vars_[store[v].name] /\ w = vars_[store[w].name]
    BY DEF Inv, HoldsRegistered
  <2> QED
    BY <2>1
<1> QED
  BY <1>1, Invariance, PTL

\* Between calls of SetValue every listener was last told the value that the
\* variable has, unless calls that changed it at once have left it disputed.
THEOREM ListenersAreTold == ConfigSpec => []ListenersKnow
<1>1. Inv => ListenersKnow
  BY DEF Inv
<1> QED
  BY <1>1, Invariance, PTL

-----------------------------------------------------------------------------
(* LogManager: the inductive invariant.                                    *)

LoggerRecords ==
    [name : LoggerNames, level : Levels \cup {DefaultLevel}, capacity : Nat,
     formatter : Strings, appenders : Seq(AppenderConfigs), queued : Int,
     hand : BOOLEAN, state : {"open", "closing", "gone"}]

Jobs ==
    [at : {"out", "next", "find", "formatter", "clear", "add"},
     cfgs : SUBSET LoggerConfigs, cfg : LoggerConfigs \cup {NoValue},
     logger : Nat, left : Seq(AppenderConfigs)]

ManagerTypes ==
    /\ loggers_ \in [LoggerNames -> Nat]
    /\ logger \in Seq(LoggerRecords)
    /\ job \in [Threads -> Jobs]
    /\ ptr \in [Threads -> Nat]
    /\ joining \in [Threads -> Nat]
    /\ terminated \in BOOLEAN

\* The listener runs inside a call of SetValue that has still to tell it.
JobInCall ==
    \A t \in Threads : job[t].at # "out" =>
        call[t].op = "set" /\ Manager \in call[t].todo

\* The configurations that the listener goes through are in the new value.
JobOfValue ==
    \A t \in Threads :
        /\ job[t].at # "out" => job[t].cfgs \subseteq call[t].val
        /\ job[t].at \in {"find", "formatter", "clear", "add"} =>
              job[t].cfg \in LoggerConfigs /\ job[t].cfg \in call[t].val

\* From the search on, the listener has the logger that it configures.
JobHasLogger ==
    \A t \in Threads :
        IF job[t].at \in {"formatter", "clear", "add"}
        THEN job[t].logger \in LoggerIds /\ logger[job[t].logger].name = job[t].cfg.name
        ELSE job[t].logger = NoLogger

\* The table has loggers under their names.
TableHasLoggers ==
    \A n \in LoggerNames : loggers_[n] # NoLogger =>
        loggers_[n] \in LoggerIds /\ logger[loggers_[n]].name = n

UsersHaveLoggers ==
    \A t \in Threads : ptr[t] # NoLogger => ptr[t] \in LoggerIds

\* Nobody refers to a logger that is being destroyed.
ReferredIsOpen ==
    \A o \in LoggerIds : logger[o].state # "open" =>
        /\ \A n \in LoggerNames : loggers_[n] # o
        /\ \A t \in Threads : ptr[t] # o /\ job[t].logger # o

\* A listener neither has nor will find a logger that was configured to the
\* end by one that was alone.
CompleteIsLeft ==
    /\ complete \subseteq LoggerIds
    /\ \A t \in Threads : job[t].logger \notin complete
    /\ \A t \in Threads : job[t].at = "find" => loggers_[job[t].cfg.name] \notin complete

\* The manager listens to a variable "loggers", and those hold configurations.
LoggersAreConfigs ==
    /\ \A m \in VarIds : Manager \in store[m].listeners => store[m].name = LoggersTag
    /\ \A m \in VarIds : store[m].name = LoggersTag => store[m].val \in SUBSET LoggerConfigs
    /\ \A t \in Threads :
          call[t].op = "set" /\ store[call[t].var].name = LoggersTag =>
              call[t].val \in SUBSET LoggerConfigs

\* What the listener makes of c: every appender has the pattern of the logger.
MadeFrom(o, c) ==
    /\ logger[o].level = c.level /\ logger[o].capacity = c.capacity
    /\ logger[o].formatter = c.formatter
    /\ logger[o].appenders =
          [i \in DOMAIN c.appenders |->
             NewAppender(c.appenders[i].type, c.appenders[i].file, c.formatter)]

Holds(c) == loggers_[c.name] # NoLogger /\ MadeFrom(loggers_[c.name], c)

\* Configurations that are in force, and are not excused.
InForce(cfgs) == \A c \in cfgs : c.name \notin excused => Holds(c)

\* What the listener of t has done with its present configuration.
PartlyConfigured(t) ==
    LET o == job[t].logger
        c == job[t].cfg
        a == logger[o].appenders
    IN  job[t].at # "find" =>
          /\ loggers_[c.name] = o
          /\ logger[o].level = c.level /\ logger[o].capacity = c.capacity
          /\ logger[o].formatter = IF job[t].at = "formatter" THEN Empty ELSE c.formatter
          /\ job[t].at = "add" =>
               /\ Len(a) + Len(job[t].left) = Len(c.appenders)
               /\ \A i \in 1 .. Len(a) :
                     a[i] = NewAppender(c.appenders[i].type, c.appenders[i].file, c.formatter)
               /\ \A i \in 1 .. Len(job[t].left) :
                     job[t].left[i] = c.appenders[Len(a) + i]

\* The configurations of the new value are waiting, at work or in force.
InProgress(t) ==
    \A c \in call[t].val :
        c.name \notin excused /\ c.name \notin Twice(call[t].val) /\ c \notin job[t].cfgs =>
            IF job[t].at # "next" /\ c = job[t].cfg THEN PartlyConfigured(t) ELSE Holds(c)

\* What the table of the manager has to do with the variable it listens to:
\* at rest, and in every phase of a change that one thread makes alone.
Faithful ==
    \A m \in VarIds : Manager \in store[m].listeners =>
        /\ Setting(m) = {} => InForce(store[m].val)
        /\ \A t \in Threads :
              call[t].op = "set" /\ call[t].var = m /\ call[t].alone /\ ~terminated =>
                  IF Manager \notin call[t].todo THEN InForce(call[t].val)
                  ELSE IF job[t].at = "out" THEN InForce(store[m].val)
                  ELSE InProgress(t)

ManagerInv ==
    /\ Inv
    /\ ManagerTypes
    /\ JobInCall
    /\ JobOfValue
    /\ JobHasLogger
    /\ TableHasLoggers
    /\ UsersHaveLoggers
    /\ ReferredIsOpen
    /\ CompleteIsLeft
    /\ LoggersAreConfigs
    /\ Faithful

-----------------------------------------------------------------------------
(* The configuration.                                                      *)

\* The steps that leave the configuration alone.
ManagerStep(t) ==
    \/ Listen(t) \/ FindNewLogger(t) \/ SetDefaultFormatter(t) \/ ClearAppenders(t)
    \/ AddAppender(t) \/ Configured(t) \/ Joined(t) \/ OpenFails(t)
    \/ \E c \in job[t].cfgs : RemoveLogger(t, c)

UserStep(t) == DropLogger(t) \/ Log(t) \/ \E n \in LoggerNames : FindLogger(t, n)

\* Steps of the configuration that the manager does not notice.
QuietStep(t) == (OtherStep(t) \/ Calls(t)) /\ UNCHANGED managerVars

\* Every step is one of these.
LEMMA Steps ==
  ASSUME [Next]_allVars
  PROVE  \/ \E t \in Threads : ~terminated /\ ManagerStep(t)
         \/ \E t \in Threads : ~terminated /\ UserStep(t)
         \/ \E o \in LoggerIds : ~terminated /\ Writer(o)
         \/ \E t \in Threads : ~terminated /\ QuietStep(t)
         \/ \E t \in Threads : ~terminated /\ Return(t)
         \/ \E t \in Threads : ~terminated /\ AssignLoggers(t)
         \/ \E t \in Threads : \E v \in held[t] : ~terminated /\ InitConfig(t, v)
         \/ UNCHANGED allVars
  BY ThreadsAssumption DEF Next, Step, ManagerStep, UserStep, QuietStep, OtherStep

\* A step of the manager, of a user or of a writer changes no configuration.
LEMMA Apart ==
  /\ \A t \in Threads : ManagerStep(t) => UNCHANGED configVars
  /\ \A t \in Threads : UserStep(t) => UNCHANGED configVars
  /\ \A o \in LoggerIds : Writer(o) => UNCHANGED configVars
<1>1. ASSUME NEW t \in Threads, ManagerStep(t) PROVE UNCHANGED configVars
  BY <1>1 DEF ManagerStep, Listen, FindNewLogger, SetDefaultFormatter, ClearAppenders,
     AddAppender, Configured, Joined, OpenFails, RemoveLogger
<1>2. ASSUME NEW t \in Threads, UserStep(t) PROVE UNCHANGED configVars
  BY <1>2 DEF UserStep, DropLogger, Log, FindLogger
<1>3. ASSUME NEW o \in LoggerIds, Writer(o) PROVE UNCHANGED configVars
  BY <1>3 DEF Writer
<1> QED
  BY <1>1, <1>2, <1>3

\* The composition keeps the invariant of the configuration.
LEMMA ConfigKept == ASSUME ManagerInv, [Next]_allVars PROVE Inv'
<1>i. Inv /\ JobInCall
  BY DEF ManagerInv
<1>1. CASE UNCHANGED configVars
  BY <1>i, <1>1, Untouched
<1>2. ASSUME NEW t \in Threads, QuietStep(t) PROVE Inv'
  BY <1>i, <1>2, CallsStep, CreateStep, LoadMemberStep, TellStep DEF QuietStep, OtherStep
<1>3. ASSUME NEW t \in Threads, Return(t) PROVE Inv'
  <2>1. Told(t, Manager) /\ job[t].at # "out"
    BY <1>3 DEF Return, InJob
  <2>2. Tell(t, Manager)
    BY <1>i, <2>1 DEF Tell, JobInCall
  <2> QED
    BY <1>i, <2>2, TellStep, ManagerAssumption
<1>4. ASSUME NEW t \in Threads, AssignLoggers(t) PROVE Inv'
  BY <1>i, <1>4, AssignStep DEF AssignLoggers
<1>5. ASSUME NEW t \in Threads, NEW v \in held[t], InitConfig(t, v) PROVE Inv'
  BY <1>i, <1>5, AddListenerStep, ManagerAssumption DEF InitConfig
<1> QED
  BY <1>1, <1>2, <1>3, <1>4, <1>5, Steps, Apart DEF allVars

-----------------------------------------------------------------------------
(* Loggers and references.                                                 *)

\* A logger has the fields of one.
LEMMA LoggerAt ==
  ASSUME ManagerTypes, NEW o \in LoggerIds
  PROVE  logger[o] \in LoggerRecords
  BY ElementOfSeq DEF ManagerTypes, LoggerIds

\* One logger is changed.
LEMMA LoggerSet ==
  ASSUME ManagerTypes, NEW o \in LoggerIds, NEW r \in LoggerRecords,
         logger' = [logger EXCEPT ![o] = r]
  PROVE  /\ logger' \in Seq(LoggerRecords) /\ LoggerIds' = LoggerIds
         /\ logger'[o] = r /\ \A p \in LoggerIds \ {o} : logger'[p] = logger[p]
  BY DEF ManagerTypes, LoggerIds

\* One logger is created.
LEMMA LoggerNew ==
  ASSUME ManagerTypes, NEW r \in LoggerRecords, logger' = Append(logger, r)
  PROVE  /\ logger' \in Seq(LoggerRecords)
         /\ Len(logger) + 1 \in Nat /\ Len(logger) + 1 # NoLogger
         /\ LoggerIds' = LoggerIds \cup {Len(logger) + 1} /\ Len(logger) + 1 \notin LoggerIds
         /\ logger'[Len(logger) + 1] = r /\ \A p \in LoggerIds : logger'[p] = logger[p]
  BY DEF ManagerTypes, LoggerIds, NoLogger

\* The last reference is the only one.
LEMMA LastIsOnly ==
  ASSUME NEW o, Last(o)
  PROVE  /\ \A t \in Threads : ptr[t] = o =>
              /\ \A n \in LoggerNames : loggers_[n] # o
              /\ \A u \in Threads : job[u].logger # o /\ (ptr[u] = o => u = t)
         /\ \A t \in Threads : job[t].logger = o =>
              /\ \A n \in LoggerNames : loggers_[n] # o
              /\ \A u \in Threads : ptr[u] # o /\ (job[u].logger = o => u = t)
         /\ \A n \in LoggerNames : loggers_[n] = o =>
              \A u \in Threads : ptr[u] # o /\ job[u].logger # o
<1> DEFINE T == {n \in LoggerNames : loggers_[n] = o}
           U == {t \in Threads : ptr[t] = o}
           J == {t \in Threads : job[t].logger = o}
<1>1. Cardinality(T) + Cardinality(U) + Cardinality(J) = 1
  BY DEF Last, References
<1>2. IsFiniteSet(T) /\ IsFiniteSet(U) /\ IsFiniteSet(J)
  BY FiniteAssumption, FS_Subset
<1> HIDE DEF T, U, J
<1>3. Cardinality(T) \in Nat /\ Cardinality(U) \in Nat /\ Cardinality(J) \in Nat
  BY <1>2, FS_CardinalityType
<1>4. ASSUME NEW S, IsFiniteSet(S), NEW x \in S, Cardinality(S) <= 1
      PROVE  Cardinality(S) = 1 /\ \A y \in S : y = x
  <2>1. Cardinality(S) \in Nat /\ Cardinality(S) # 0
    BY <1>4, FS_CardinalityType, FS_EmptySet
  <2>2. Cardinality(S) = 1
    BY <1>4, <2>1
  <2> QED
    BY <1>4, <2>2, FS_Singleton
<1>5. /\ U # {} => T = {} /\ J = {} /\ \A s, t \in U : s = t
      /\ J # {} => T = {} /\ U = {} /\ \A s, t \in J : s = t
      /\ T # {} => U = {} /\ J = {}
  <2>1. \A S \in {T, U, J} : IsFiniteSet(S) /\ Cardinality(S) \in Nat /\ Cardinality(S) <= 1
    BY <1>1, <1>2, <1>3
  <2>2. \A S \in {T, U, J} : S # {} => Cardinality(S) = 1 /\ \A x, y \in S : x = y
    BY <1>4, <2>1
  <2>3. \A S \in {T, U, J} : Cardinality(S) = 0 => S = {}
    BY <2>1, FS_EmptySet
  <2> QED
    BY <1>1, <1>3, <2>2, <2>3
<1> QED
  BY <1>5 DEF T, U, J

\* The logger p is in every respect that matters as it was, ...
Keeps(p) ==
    /\ logger'[p].level = logger[p].level /\ logger'[p].capacity = logger[p].capacity
    /\ logger'[p].formatter = logger[p].formatter
    /\ logger'[p].appenders = logger[p].appenders
    /\ logger'[p].state = logger[p].state

\* ... or it is being destroyed, and nobody refers to it.
Retires(p) ==
    /\ logger'[p].state # "open"
    /\ logger'[p].state # "gone" => /\ logger'[p].level = logger[p].level
                                    /\ logger'[p].formatter = logger[p].formatter
                                    /\ logger'[p].appenders = logger[p].appenders
    /\ \A n \in LoggerNames : loggers_'[n] # p
    /\ \A t \in Threads : ptr'[t] # p /\ job'[t].logger # p

\* No logger is changed by the step, though some may be created or destroyed.
Gentle ==
    /\ \A p \in LoggerIds : /\ p \in LoggerIds' /\ logger'[p].name = logger[p].name
                            /\ Keeps(p) \/ Retires(p)
    /\ \A p \in LoggerIds' \ LoggerIds : logger'[p].state = "open"

\* What a new logger has, and what is left of an old one.
LEMMA NewLoggerHas ==
  ASSUME NEW n \in LoggerNames, NEW l \in Levels \cup {DefaultLevel}, NEW k \in Nat,
         NEW r, r = NewLogger(n, l, k, <<>>)
  PROVE  /\ r \in LoggerRecords
         /\ r.name = n /\ r.level = l /\ r.capacity = k
         /\ r.formatter = Empty /\ r.appenders = <<>> /\ r.state = "open"
<1>1. <<>> \in Seq(AppenderConfigs)
  OBVIOUS
<1>2. FALSE \in BOOLEAN /\ 0 \in Int /\ Empty \in Strings
  BY StringsAssumption
<1>3. r \in LoggerRecords
  BY <1>1, <1>2 DEF NewLogger, LoggerRecords
<1> QED
  BY <1>3 DEF NewLogger

\* A destroyed logger is a record of a logger.
LEMMA GoneHas ==
  ASSUME NEW n \in LoggerNames
  PROVE  Gone(n) \in LoggerRecords /\ Gone(n).name = n /\ Gone(n).state = "gone"
<1> DEFINE r == NewLogger(n, DefaultLevel, 0, <<>>)
<1>1. r \in LoggerRecords /\ r.name = n
  <2>1. 0 \in Nat /\ DefaultLevel \in Levels \cup {DefaultLevel}
    OBVIOUS
  <2> HIDE DEF r
  <2> QED
    BY <2>1, NewLoggerHas DEF r
<1>2. Gone(n) = [r EXCEPT !.state = "gone"]
  BY DEF Gone
<1> HIDE DEF r
<1> QED
  BY <1>1, <1>2 DEF LoggerRecords

\* ReleasedBy destroys the logger if the reference is the last, and leaves
\* everything alone otherwise.
LEMMA Released ==
  ASSUME ManagerTypes, NEW t \in Threads, NEW o, o = NoLogger \/ o \in LoggerIds,
         ReleasedBy(t, o)
  PROVE  /\ logger' \in Seq(LoggerRecords) /\ LoggerIds' = LoggerIds
         /\ joining' \in [Threads -> Nat]
         /\ \A p \in LoggerIds : logger'[p].name = logger[p].name
         /\ \A p \in LoggerIds : p # o \/ ~Last(o) => logger'[p] = logger[p]
         /\ o # NoLogger /\ Last(o) =>
              /\ logger'[o].state # "open"
              /\ logger'[o].state # "gone" => /\ logger'[o].level = logger[o].level
                                              /\ logger'[o].formatter = logger[o].formatter
                                              /\ logger'[o].appenders = logger[o].appenders
<1>1. CASE o = NoLogger \/ ~Last(o)
  <2>1. logger' = logger /\ joining' = joining
    BY <1>1 DEF ReleasedBy
  <2>2. LoggerIds' = LoggerIds
    BY <2>1 DEF LoggerIds
  <2>3. NoLogger \notin LoggerIds
    BY DEF ManagerTypes, LoggerIds, NoLogger
  <2> QED
    BY <1>1, <2>1, <2>2, <2>3 DEF ManagerTypes
<1>2. CASE o # NoLogger /\ Last(o)
  <2> DEFINE r == IF logger[o].capacity = 0 THEN Gone(logger[o].name)
                  ELSE [logger[o] EXCEPT !.queued = 0, !.state = "closing"]
  <2>1. o \in LoggerIds /\ o \in Nat
    BY <1>2 DEF LoggerIds, NoLogger
  <2>2. logger[o] \in LoggerRecords
    BY <2>1, LoggerAt
  <2>3. logger' = [logger EXCEPT ![o] = r]
    BY <1>2 DEF ReleasedBy, Closed
  <2>4. /\ r \in LoggerRecords /\ r.name = logger[o].name /\ r.state # "open"
        /\ r.state # "gone" => /\ r.level = logger[o].level
                               /\ r.formatter = logger[o].formatter
                               /\ r.appenders = logger[o].appenders
    <3>1. CASE logger[o].capacity = 0
      BY <2>2, <3>1, GoneHas DEF LoggerRecords
    <3>2. CASE logger[o].capacity # 0
      <4>1. r = [logger[o] EXCEPT !.queued = 0, !.state = "closing"]
        BY <3>2
      <4>2. 0 \in Int
        OBVIOUS
      <4> HIDE DEF r
      <4> QED
        BY <2>2, <4>1, <4>2 DEF LoggerRecords
    <3> QED
      BY <3>1, <3>2
  <2> HIDE DEF r
  <2>5. /\ logger' \in Seq(LoggerRecords) /\ LoggerIds' = LoggerIds
        /\ logger'[o] = r /\ \A p \in LoggerIds \ {o} : logger'[p] = logger[p]
    BY <2>1, <2>3, <2>4, LoggerSet
  <2>6. joining' \in [Threads -> Nat]
    <3>1. (IF logger[o].capacity = 0 THEN NoLogger ELSE o) \in Nat
      BY <2>1 DEF NoLogger
    <3>2. joining' = [joining EXCEPT ![t] = IF logger[o].capacity = 0 THEN NoLogger ELSE o]
      BY <1>2 DEF ReleasedBy
    <3> QED
      BY <3>1, <3>2 DEF ManagerTypes
  <2> QED
    BY <1>2, <2>1, <2>4, <2>5, <2>6
<1> QED
  BY <1>1, <1>2

\* A logger that is found is the registered one, or a new one.
LEMMA Finds ==
  ASSUME ManagerTypes, NEW n \in LoggerNames, NEW l \in Levels \cup {DefaultLevel},
         NEW k \in Nat, Found(n, l, k)
  PROVE  /\ logger' \in Seq(LoggerRecords) /\ loggers_' \in [LoggerNames -> Nat]
         /\ LoggerIds \subseteq LoggerIds' /\ \A p \in LoggerIds : logger'[p] = logger[p]
         /\ \A m \in LoggerNames \ {n} : loggers_'[m] = loggers_[m]
         /\ loggers_[n] # NoLogger => loggers_'[n] = loggers_[n] /\ LoggerIds' = LoggerIds
         /\ loggers_[n] = NoLogger =>
              LET o == loggers_'[n]
              IN  /\ LoggerIds' = LoggerIds \cup {o} /\ o \notin LoggerIds /\ o # NoLogger
                  /\ logger'[o].name = n /\ logger'[o].level = l /\ logger'[o].capacity = k
                  /\ logger'[o].formatter = Empty /\ logger'[o].appenders = <<>>
                  /\ logger'[o].state = "open"
<1>1. CASE loggers_[n] # NoLogger
  BY <1>1 DEF Found, ManagerTypes, LoggerIds
<1>2. CASE loggers_[n] = NoLogger
  <2> DEFINE r == NewLogger(n, l, k, <<>>)
             o == Len(logger) + 1
  <2>1. logger' = Append(logger, r) /\ loggers_' = [loggers_ EXCEPT ![n] = o]
    BY <1>2 DEF Found
  <2>2. /\ r \in LoggerRecords
        /\ r.name = n /\ r.level = l /\ r.capacity = k
        /\ r.formatter = Empty /\ r.appenders = <<>> /\ r.state = "open"
    <3> HIDE DEF r
    <3> QED
      BY NewLoggerHas DEF r
  <2> HIDE DEF r
  <2>3. /\ logger' \in Seq(LoggerRecords) /\ o \in Nat /\ o # NoLogger
        /\ LoggerIds' = LoggerIds \cup {o} /\ o \notin LoggerIds
        /\ logger'[o] = r /\ \A p \in LoggerIds : logger'[p] = logger[p]
    BY <2>1, <2>2, LoggerNew
  <2> HIDE DEF o
  <2>4. /\ loggers_' \in [LoggerNames -> Nat] /\ loggers_'[n] = o
        /\ \A m \in LoggerNames \ {n} : loggers_'[m] = loggers_[m]
    BY <2>1, <2>3 DEF ManagerTypes
  <2> QED
    BY <1>2, <2>2, <2>3, <2>4
<1> QED
  BY <1>1, <1>2

\* The references are good.
RefInv == JobHasLogger /\ TableHasLoggers /\ UsersHaveLoggers /\ ReferredIsOpen

\* A user finds, uses or drops a logger: none that is configured changes, and
\* the table is at most extended by a new logger.
LEMMA UserRefs ==
  ASSUME ManagerInv, NEW t \in Threads, UserStep(t)
  PROVE  /\ ManagerTypes' /\ Gentle /\ RefInv'
         /\ UNCHANGED <<job, excused, complete, terminated>>
         /\ \A n \in LoggerNames : loggers_'[n] # loggers_[n] =>
               loggers_[n] = NoLogger /\ loggers_'[n] \notin LoggerIds
<1>t. /\ ManagerTypes /\ JobHasLogger /\ TableHasLoggers /\ UsersHaveLoggers
      /\ ReferredIsOpen
  BY DEF ManagerInv
<1>0. NoLogger \notin LoggerIds
  BY <1>t DEF ManagerTypes, LoggerIds, NoLogger
<1>1. CASE DropLogger(t)
  <2> DEFINE o == ptr[t]
  <2>1. /\ o \in LoggerIds /\ o # NoLogger /\ ReleasedBy(t, o)
        /\ ptr' = [ptr EXCEPT ![t] = NoLogger]
        /\ UNCHANGED <<loggers_, job, terminated, excused, complete>>
    BY <1>t, <1>1 DEF DropLogger, UsersHaveLoggers
  <2>2. /\ logger' \in Seq(LoggerRecords) /\ LoggerIds' = LoggerIds
        /\ joining' \in [Threads -> Nat]
        /\ \A p \in LoggerIds : logger'[p].name = logger[p].name
        /\ \A p \in LoggerIds : p # o \/ ~Last(o) => logger'[p] = logger[p]
        /\ Last(o) =>
             /\ logger'[o].state # "open"
             /\ logger'[o].state # "gone" => /\ logger'[o].level = logger[o].level
                                             /\ logger'[o].formatter = logger[o].formatter
                                             /\ logger'[o].appenders = logger[o].appenders
    BY <1>t, <2>1, Released
  <2>3. /\ ptr' \in [Threads -> Nat] /\ ptr'[t] = NoLogger
        /\ \A u \in Threads \ {t} : ptr'[u] = ptr[u]
    BY <1>t, <2>1 DEF ManagerTypes, NoLogger
  <2>4. ManagerTypes'
    BY <1>t, <2>1, <2>2, <2>3 DEF ManagerTypes
  <2>5. Last(o) => /\ \A n \in LoggerNames : loggers_[n] # o
                   /\ \A u \in Threads : job[u].logger # o /\ (ptr[u] = o => u = t)
    BY LastIsOnly
  <2> HIDE DEF o
  <2>6. Last(o) => Retires(o)
    BY <2>1, <2>2, <2>3, <2>5 DEF Retires
  <2>7. Gentle
    BY <2>2, <2>6 DEF Gentle, Keeps
  <2>8. RefInv'
    <3>1. JobHasLogger' /\ TableHasLoggers' /\ UsersHaveLoggers'
      BY ZenonT(60), <1>t, <2>1, <2>2, <2>3 DEF JobHasLogger, TableHasLoggers, UsersHaveLoggers
    <3>2. ReferredIsOpen'
      BY <1>0, <1>t, <2>1, <2>2, <2>3, <2>6 DEF ReferredIsOpen, Retires
    <3> QED
      BY <3>1, <3>2 DEF RefInv
  <2> QED
    BY <2>1, <2>4, <2>7, <2>8
<1>2. CASE Log(t)
  <2> DEFINE o == ptr[t]
  <2>1. /\ o \in LoggerIds
        /\ logger' = logger \/ logger' = [logger EXCEPT ![o].queued = @ + 1]
        /\ UNCHANGED <<loggers_, job, ptr, joining, terminated, excused, complete>>
    BY <1>t, <1>2 DEF Log, UsersHaveLoggers
  <2> HIDE DEF o
  <2>2. logger[o] \in LoggerRecords /\ [logger[o] EXCEPT !.queued = @ + 1] \in LoggerRecords
    BY <1>t, <2>1, LoggerAt DEF LoggerRecords
  <2>3. /\ logger' \in Seq(LoggerRecords) /\ LoggerIds' = LoggerIds
        /\ \A p \in LoggerIds : Keeps(p) /\ logger'[p].name = logger[p].name
    <3>1. CASE logger' = logger
      BY <1>t, <3>1 DEF ManagerTypes, LoggerIds, Keeps
    <3>2. CASE logger' = [logger EXCEPT ![o].queued = @ + 1]
      <4>1. logger' = [logger EXCEPT ![o] = [logger[o] EXCEPT !.queued = @ + 1]]
        BY <3>2
      <4>2. /\ logger' \in Seq(LoggerRecords) /\ LoggerIds' = LoggerIds
            /\ logger'[o] = [logger[o] EXCEPT !.queued = @ + 1]
            /\ \A p \in LoggerIds \ {o} : logger'[p] = logger[p]
        BY <1>t, <2>1, <2>2, <4>1, LoggerSet
      <4> QED
        BY ZenonT(60), <2>2, <4>2 DEF Keeps, LoggerRecords
    <3> QED
      BY <2>1, <3>1, <3>2
  <2>4. ManagerTypes' /\ Gentle
    BY <1>t, <2>1, <2>3 DEF ManagerTypes, Gentle
  <2>5. RefInv'
    BY <1>t, <2>1, <2>3 DEF RefInv, JobHasLogger, TableHasLoggers, UsersHaveLoggers,
       ReferredIsOpen, Keeps
  <2> QED
    BY <2>1, <2>4, <2>5
<1>3. ASSUME NEW n \in LoggerNames, FindLogger(t, n)
      PROVE  /\ ManagerTypes' /\ Gentle /\ RefInv'
             /\ UNCHANGED <<job, excused, complete, terminated>>
             /\ \A m \in LoggerNames : loggers_'[m] # loggers_[m] =>
                   loggers_[m] = NoLogger /\ loggers_'[m] \notin LoggerIds
  <2>1. /\ Found(n, DefaultLevel, 0) /\ ptr' = [ptr EXCEPT ![t] = loggers_'[n]]
        /\ UNCHANGED <<job, joining, terminated, excused, complete>>
    BY <1>3 DEF FindLogger
  <2>2. 0 \in Nat /\ DefaultLevel \in Levels \cup {DefaultLevel}
    OBVIOUS
  <2>3. /\ logger' \in Seq(LoggerRecords) /\ loggers_' \in [LoggerNames -> Nat]
        /\ LoggerIds \subseteq LoggerIds' /\ \A p \in LoggerIds : logger'[p] = logger[p]
        /\ \A m \in LoggerNames \ {n} : loggers_'[m] = loggers_[m]
        /\ loggers_[n] # NoLogger => loggers_'[n] = loggers_[n] /\ LoggerIds' = LoggerIds
        /\ loggers_[n] = NoLogger =>
             /\ LoggerIds' = LoggerIds \cup {loggers_'[n]} /\ loggers_'[n] \notin LoggerIds
             /\ loggers_'[n] # NoLogger
             /\ logger'[loggers_'[n]].name = n /\ logger'[loggers_'[n]].state = "open"
    BY <1>t, <2>1, <2>2, Finds
  <2>4. /\ ptr' \in [Threads -> Nat] /\ ptr'[t] = loggers_'[n]
        /\ \A u \in Threads \ {t} : ptr'[u] = ptr[u]
    BY <1>t, <2>1, <2>3 DEF ManagerTypes
  <2>5. ManagerTypes'
    BY <1>t, <2>1, <2>3, <2>4 DEF ManagerTypes
  <2>6. Gentle
    BY <2>3 DEF Gentle, Keeps
  <2>7. JobHasLogger' /\ TableHasLoggers'
    BY <1>t, <2>1, <2>3 DEF JobHasLogger, TableHasLoggers
  <2>8. UsersHaveLoggers'
    BY <1>t, <2>3, <2>4, <2>7 DEF UsersHaveLoggers, TableHasLoggers
  <2>9. ReferredIsOpen'
    <3> SUFFICES ASSUME NEW p \in LoggerIds', logger'[p].state # "open"
                 PROVE  /\ \A m \in LoggerNames : loggers_'[m] # p
                        /\ \A u \in Threads : ptr'[u] # p /\ job'[u].logger # p
      BY DEF ReferredIsOpen
    <3>1. p \in LoggerIds /\ logger[p].state # "open"
      BY <2>3
    <3>2. /\ \A m \in LoggerNames : loggers_[m] # p
          /\ \A u \in Threads : ptr[u] # p /\ job[u].logger # p
      BY <1>t, <3>1 DEF ReferredIsOpen
    <3>3. \A m \in LoggerNames : loggers_'[m] # p
      BY <2>3, <3>1, <3>2
    <3> QED
      BY <2>1, <2>4, <3>2, <3>3
  <2> QED
    BY <2>1, <2>3, <2>5, <2>6, <2>7, <2>8, <2>9 DEF RefInv
<1> QED
  BY <1>1, <1>2, <1>3 DEF UserStep

\* The writer of a logger pops, writes and exits: it changes nothing but the
\* events, and a logger that nobody refers to.
LEMMA WriterRefs ==
  ASSUME ManagerInv, NEW o \in LoggerIds, Writer(o)
  PROVE  /\ ManagerTypes' /\ Gentle /\ RefInv'
         /\ UNCHANGED <<loggers_, job, excused, complete, terminated>>
<1>t. /\ ManagerTypes /\ JobHasLogger /\ TableHasLoggers /\ UsersHaveLoggers
      /\ ReferredIsOpen
  BY DEF ManagerInv
<1>1. UNCHANGED <<loggers_, job, ptr, joining, terminated, excused, complete>>
  BY DEF Writer
<1>2. logger[o] \in LoggerRecords
  BY <1>t, LoggerAt
<1>3. PICK r \in LoggerRecords :
        /\ logger' = [logger EXCEPT ![o] = r] /\ r.name = logger[o].name
        /\ \/ /\ r.level = logger[o].level /\ r.capacity = logger[o].capacity
              /\ r.formatter = logger[o].formatter /\ r.appenders = logger[o].appenders
              /\ r.state = logger[o].state
           \/ logger[o].state # "open" /\ r.state = "gone"
  <2> DEFINE Good(r) ==
        /\ logger' = [logger EXCEPT ![o] = r] /\ r.name = logger[o].name
        /\ \/ /\ r.level = logger[o].level /\ r.capacity = logger[o].capacity
              /\ r.formatter = logger[o].formatter /\ r.appenders = logger[o].appenders
              /\ r.state = logger[o].state
           \/ logger[o].state # "open" /\ r.state = "gone"
  <2>1. CASE WriterPop(o)
    <3> DEFINE k == logger[o].queued - 1
               r == [logger[o] EXCEPT !.queued = k, !.hand = TRUE]
    <3>1. logger' = [logger EXCEPT ![o] = r]
      BY <1>2, <2>1 DEF WriterPop, LoggerRecords
    <3>2. TRUE \in BOOLEAN /\ k \in Int
      BY <1>2 DEF LoggerRecords
    <3> HIDE DEF k
    <3>3. r \in LoggerRecords /\ r.name = logger[o].name /\ r.state = logger[o].state
          /\ r.level = logger[o].level /\ r.capacity = logger[o].capacity
          /\ r.formatter = logger[o].formatter /\ r.appenders = logger[o].appenders
      BY <1>2, <3>2 DEF LoggerRecords
    <3> HIDE DEF r
    <3> QED
      BY <3>1, <3>3
  <2>2. CASE WriterLog(o)
    <3> DEFINE r == [logger[o] EXCEPT !.hand = FALSE]
    <3>1. logger' = [logger EXCEPT ![o] = r]
      BY <2>2 DEF WriterLog
    <3>2. FALSE \in BOOLEAN
      OBVIOUS
    <3>3. r \in LoggerRecords /\ r.name = logger[o].name /\ r.state = logger[o].state
          /\ r.level = logger[o].level /\ r.capacity = logger[o].capacity
          /\ r.formatter = logger[o].formatter /\ r.appenders = logger[o].appenders
      BY <1>2, <3>2 DEF LoggerRecords
    <3> QED
      BY <3>1, <3>3
  <2>3. CASE WriterExit(o)
    <3>1. logger' = [logger EXCEPT ![o] = Gone(logger[o].name)] /\ logger[o].state # "open"
      BY <2>3 DEF WriterExit
    <3>2. logger[o].name \in LoggerNames
      BY <1>2 DEF LoggerRecords
    <3>3. /\ Gone(logger[o].name) \in LoggerRecords /\ Gone(logger[o].name).state = "gone"
          /\ Gone(logger[o].name).name = logger[o].name
      BY <3>2, GoneHas
    <3> QED
      BY <3>1, <3>3
  <2> QED
    BY <2>1, <2>2, <2>3 DEF Writer
<1>4. /\ logger' \in Seq(LoggerRecords) /\ LoggerIds' = LoggerIds
      /\ logger'[o] = r /\ \A p \in LoggerIds \ {o} : logger'[p] = logger[p]
  BY <1>t, <1>3, LoggerSet
<1>5. ManagerTypes'
  BY <1>t, <1>1, <1>4 DEF ManagerTypes
<1>6. \A p \in LoggerIds : /\ logger'[p].name = logger[p].name
                           /\ logger'[p].state # "open" => logger[p].state # "open"
  BY <1>3, <1>4
<1>7. RefInv'
  BY <1>t, <1>1, <1>4, <1>6 DEF RefInv, JobHasLogger, TableHasLoggers, UsersHaveLoggers,
     ReferredIsOpen
<1>8. \A p \in LoggerIds : Keeps(p) \/ Retires(p)
  <2>1. \A p \in LoggerIds \ {o} : Keeps(p)
    BY <1>4 DEF Keeps
  <2>2. Keeps(o) \/ Retires(o)
    BY <1>1, <1>3, <1>4, <1>7 DEF Keeps, Retires, RefInv, ReferredIsOpen
  <2> QED
    BY <2>1, <2>2
<1> QED
  BY <1>1, <1>4, <1>5, <1>6, <1>7, <1>8 DEF Gentle


-----------------------------------------------------------------------------
(* The listener.                                                           *)

\* The configuration of a logger that was configured to the end stays.
CompleteStays ==
    \A o \in complete : logger'[o].state # "gone" =>
        /\ logger'[o].level = logger[o].level
        /\ logger'[o].formatter = logger[o].formatter
        /\ logger'[o].appenders = logger[o].appenders

\* What every step of a listener keeps, but for Faithful.
JobInv == ManagerTypes /\ RefInv /\ JobInCall /\ JobOfValue /\ CompleteIsLeft

\* The listener of t goes on to j.
LEMMA JobSet ==
  ASSUME ManagerTypes, NEW t \in Threads, NEW j \in Jobs, job' = [job EXCEPT ![t] = j]
  PROVE  /\ job' \in [Threads -> Jobs] /\ job'[t] = j
         /\ \A u \in Threads \ {t} : job'[u] = job[u]
  BY DEF ManagerTypes

\* The fields of a job.
LEMMA JobAt ==
  ASSUME ManagerTypes, NEW t \in Threads
  PROVE  /\ job[t] \in Jobs
         /\ job[t].at \in {"out", "next", "find", "formatter", "clear", "add"}
         /\ job[t].cfgs \subseteq LoggerConfigs /\ job[t].left \in Seq(AppenderConfigs)
  BY DEF ManagerTypes, Jobs

\* A configuration has the fields of one.
LEMMA ConfigHas ==
  ASSUME NEW c \in LoggerConfigs
  PROVE  /\ c.name \in LoggerNames /\ c.level \in Levels \cup {DefaultLevel}
         /\ c.capacity \in Nat /\ c.formatter \in Strings
         /\ c.appenders \in Seq(AppenderConfigs)
  BY DEF LoggerConfigs

\* While a listener runs, there is one variable that the manager listens to,
\* it is being set, and a call that is alone is the one of this listener.
LEMMA OneVariable ==
  ASSUME Inv, NEW t \in Threads, call[t].op = "set", Manager \in call[t].todo
  PROVE  /\ call[t].var \in VarIds /\ Manager \in store[call[t].var].listeners
         /\ \A m \in VarIds : Manager \in store[m].listeners => m = call[t].var
         /\ Setting(call[t].var) # {}
         /\ \A u \in Threads :
               call[u].op = "set" /\ call[u].var = call[t].var /\ (call[u].alone \/ call[t].alone)
                   => u = t
         /\ call[t].alone =>
               \A u \in Threads : call[u].op = "set" /\ Manager \in call[u].todo => u = t
<1>1. /\ CallHasObject /\ ListensToOne /\ TellsListeners /\ AloneIsAlone
      /\ Manager \in Listeners
  BY ManagerAssumption DEF Inv
<1>2. \A u \in Threads : call[u].op = "set" /\ Manager \in call[u].todo =>
         call[u].var \in VarIds /\ Manager \in store[call[u].var].listeners
  BY <1>1 DEF CallHasObject, TellsListeners
<1>3. \A m \in VarIds : Manager \in store[m].listeners => m = call[t].var
  BY <1>1, <1>2 DEF ListensToOne
<1>4. \A u \in Threads :
         call[u].op = "set" /\ call[u].var = call[t].var /\ (call[u].alone \/ call[t].alone)
             => u = t
  BY <1>1 DEF AloneIsAlone
<1>5. Setting(call[t].var) # {}
  BY DEF Setting
<1> QED
  BY <1>2, <1>3, <1>4, <1>5

\* A step of the listener of t that changes at most the logger it configures.
LEMMA Reconfigures ==
  ASSUME ManagerInv, NEW t \in Threads, NEW j \in Jobs, job' = [job EXCEPT ![t] = j],
         UNCHANGED <<configVars, loggers_, ptr, complete>>,
         joining' \in [Threads -> Nat], terminated' \in BOOLEAN,
         j.logger = job[t].logger,
         j.at \in {"formatter", "clear", "add"} <=> job[t].at \in {"formatter", "clear", "add"},
         j.at = "find" <=> job[t].at = "find",
         j.at \in {"find", "formatter", "clear", "add"} => j.cfg = job[t].cfg,
         j.at # "out" => /\ call[t].op = "set" /\ Manager \in call[t].todo
                         /\ j.cfgs \subseteq call[t].val,
         logger' \in Seq(LoggerRecords), LoggerIds' = LoggerIds,
         \A p \in LoggerIds : logger'[p].name = logger[p].name /\ logger'[p].state = logger[p].state,
         \A p \in LoggerIds : p # job[t].logger => logger'[p] = logger[p]
  PROVE  JobInv' /\ CompleteStays
<1>t. /\ ManagerTypes /\ JobInCall /\ JobOfValue /\ JobHasLogger /\ TableHasLoggers
      /\ UsersHaveLoggers /\ ReferredIsOpen /\ CompleteIsLeft
  BY DEF ManagerInv
<1>c. call' = call /\ loggers_' = loggers_ /\ ptr' = ptr /\ complete' = complete
  BY DEF configVars
<1>1. /\ job' \in [Threads -> Jobs] /\ job'[t] = j
      /\ \A u \in Threads \ {t} : job'[u] = job[u]
  BY <1>t, JobSet
<1>2. ManagerTypes'
  BY <1>t, <1>c, <1>1 DEF ManagerTypes
<1>3. \A u \in Threads : job'[u].logger = job[u].logger
  BY <1>1
<1>4. JobInCall'
  BY <1>t, <1>c, <1>1 DEF JobInCall
<1>5. JobOfValue'
  <2>1. \A u \in Threads \ {t} :
          /\ job'[u].at # "out" => job'[u].cfgs \subseteq call'[u].val
          /\ job'[u].at \in {"find", "formatter", "clear", "add"} =>
                job'[u].cfg \in LoggerConfigs /\ job'[u].cfg \in call'[u].val
    BY <1>t, <1>c, <1>1 DEF JobOfValue
  <2>2. /\ job'[t].at # "out" => job'[t].cfgs \subseteq call'[t].val
        /\ job'[t].at \in {"find", "formatter", "clear", "add"} =>
              job'[t].cfg \in LoggerConfigs /\ job'[t].cfg \in call'[t].val
    BY <1>t, <1>c, <1>1 DEF JobOfValue
  <2> QED
    BY <2>1, <2>2 DEF JobOfValue
<1>6. JobHasLogger'
  <2>1. \A u \in Threads : /\ job'[u].at \in {"formatter", "clear", "add"} <=>
                                job[u].at \in {"formatter", "clear", "add"}
                           /\ job'[u].at \in {"formatter", "clear", "add"} =>
                                job'[u].cfg = job[u].cfg
    BY <1>1
  <2> QED
    BY <1>t, <1>3, <2>1 DEF JobHasLogger
<1>7. TableHasLoggers' /\ UsersHaveLoggers'
  BY <1>t, <1>c DEF TableHasLoggers, UsersHaveLoggers
<1>8. ReferredIsOpen'
  BY <1>t, <1>c, <1>3 DEF ReferredIsOpen
<1>9. CompleteIsLeft'
  <2>1. \A u \in Threads : job'[u].at = "find" => job[u].at = "find" /\ job'[u].cfg = job[u].cfg
    BY <1>1
  <2> QED
    BY <1>t, <1>c, <1>3, <2>1 DEF CompleteIsLeft
<1>10. CompleteStays
  BY <1>t DEF CompleteIsLeft, CompleteStays
<1> QED
  BY <1>2, <1>4, <1>5, <1>6, <1>7, <1>8, <1>9, <1>10 DEF JobInv, RefInv


\* The listener begins, changes the logger that it configures or gives up; or
\* a thread has joined a writer.
LEMMA ReconfigureStep ==
  ASSUME ManagerInv, NEW t \in Threads,
         \/ Listen(t) \/ SetDefaultFormatter(t) \/ ClearAppenders(t) \/ AddAppender(t)
         \/ OpenFails(t) \/ Joined(t)
  PROVE  JobInv' /\ CompleteStays
<1>t. /\ ManagerTypes /\ JobInCall /\ JobOfValue /\ JobHasLogger /\ ReferredIsOpen
  BY DEF ManagerInv
<1>j. /\ job[t] \in Jobs /\ job[t].cfgs \subseteq LoggerConfigs
      /\ job[t].left \in Seq(AppenderConfigs)
      /\ job[t].at # "out" => /\ call[t].op = "set" /\ Manager \in call[t].todo
                              /\ job[t].cfgs \subseteq call[t].val
  BY <1>t, JobAt DEF JobInCall, JobOfValue
<1>s. /\ logger \in Seq(LoggerRecords) /\ joining \in [Threads -> Nat]
      /\ terminated \in BOOLEAN /\ TRUE \in BOOLEAN /\ job \in [Threads -> Jobs]
  BY <1>t DEF ManagerTypes
<1>1. CASE Listen(t)
  <2> DEFINE new == Changed(store[call[t].var].val, call[t].val)
             j   == [NoJob EXCEPT !.at = "next", !.cfgs = new]
  <2>1. /\ job' = [job EXCEPT ![t] = j] /\ job[t].at = "out"
        /\ call[t].op = "set" /\ Manager \in call[t].todo
        /\ UNCHANGED <<configVars, loggers_, logger, ptr, joining, terminated, complete>>
    BY <1>1 DEF Listen, InJob
  <2>2. new \subseteq call[t].val /\ new \subseteq LoggerConfigs
    <3>1. call[t].var \in VarIds /\ store[call[t].var].name = LoggersTag
      BY <2>1, OneVariable DEF ManagerInv, LoggersAreConfigs
    <3>2. call[t].val \in SUBSET LoggerConfigs
      BY <2>1, <3>1 DEF ManagerInv, LoggersAreConfigs
    <3> QED
      BY <3>2 DEF Changed
  <2> HIDE DEF new
  <2>3. j \in Jobs /\ j.logger = NoLogger /\ j.at = "next" /\ j.cfgs = new
    <3>1. <<>> \in Seq(AppenderConfigs) /\ 0 \in Nat
      OBVIOUS
    <3> QED
      BY <2>2, <3>1 DEF NoJob, Jobs, NoLogger
  <2> HIDE DEF j
  <2>4. job[t].logger = NoLogger /\ LoggerIds' = LoggerIds
    BY <1>t, <2>1 DEF JobHasLogger, LoggerIds
  <2> QED
    BY <1>s, <2>1, <2>2, <2>3, <2>4, Reconfigures
<1>2. CASE OpenFails(t) \/ Joined(t)
  <2>1. UNCHANGED <<configVars, loggers_, logger, job, ptr, complete>>
    BY <1>2 DEF OpenFails, Joined
  <2>2. joining' \in [Threads -> Nat]
    BY <1>s, <1>2 DEF OpenFails, Joined, NoLogger
  <2>3. terminated' \in BOOLEAN
    BY <1>s, <1>2 DEF OpenFails, Joined
  <2>4. job' = [job EXCEPT ![t] = job[t]]
    BY <1>s, <2>1
  <2>5. LoggerIds' = LoggerIds
    BY <2>1 DEF LoggerIds
  <2> QED
    BY <1>j, <1>s, <2>1, <2>2, <2>3, <2>4, <2>5, Reconfigures
<1>3. ASSUME job[t].at \in {"formatter", "clear", "add"},
             NEW j \in Jobs, job' = [job EXCEPT ![t] = j],
             j.at \in {"formatter", "clear", "add"}, j.cfgs = job[t].cfgs,
             j.cfg = job[t].cfg, j.logger = job[t].logger,
             NEW r \in LoggerRecords,
             logger' = [logger EXCEPT ![job[t].logger] = r],
             r.name = logger[job[t].logger].name, r.state = logger[job[t].logger].state,
             UNCHANGED <<configVars, loggers_, ptr, complete, joining>>,
             terminated' \in BOOLEAN
      PROVE  JobInv' /\ CompleteStays
  <2>1. job[t].logger \in LoggerIds
    BY <1>t, <1>3 DEF JobHasLogger
  <2>2. /\ logger' \in Seq(LoggerRecords) /\ LoggerIds' = LoggerIds
        /\ logger'[job[t].logger] = r
        /\ \A p \in LoggerIds \ {job[t].logger} : logger'[p] = logger[p]
    BY <1>t, <1>3, <2>1, LoggerSet
  <2> QED
    BY <1>j, <1>s, <1>3, <2>2, Reconfigures
<1> DEFINE o == job[t].logger
           c == job[t].cfg
<1>4. job[t].at \in {"formatter", "clear", "add"} =>
         /\ o \in LoggerIds /\ logger[o] \in LoggerRecords
         /\ c \in LoggerConfigs /\ c.formatter \in Strings
         /\ c.appenders \in Seq(AppenderConfigs)
         /\ logger[o].formatter \in Strings /\ logger[o].appenders \in Seq(AppenderConfigs)
  <2> SUFFICES ASSUME job[t].at \in {"formatter", "clear", "add"}
               PROVE  /\ o \in LoggerIds /\ logger[o] \in LoggerRecords
                      /\ c \in LoggerConfigs /\ c.formatter \in Strings
                      /\ c.appenders \in Seq(AppenderConfigs)
                      /\ logger[o].formatter \in Strings
                      /\ logger[o].appenders \in Seq(AppenderConfigs)
    OBVIOUS
  <2>1. o \in LoggerIds /\ c \in LoggerConfigs
    BY <1>t DEF JobHasLogger, JobOfValue
  <2>2. logger[o] \in LoggerRecords
    BY <1>t, <2>1, LoggerAt
  <2> QED
    BY <2>1, <2>2, ConfigHas DEF LoggerRecords
<1>5. CASE SetDefaultFormatter(t)
  <2> DEFINE f == c.formatter
             j == [job[t] EXCEPT !.at = "clear"]
  <2>1. /\ job[t].at = "formatter" /\ job' = [job EXCEPT ![t] = j]
        /\ UNCHANGED <<configVars, loggers_, ptr, joining, complete>>
    BY <1>5 DEF SetDefaultFormatter, InJob
  <2>2. /\ j \in Jobs /\ j.at = "clear" /\ j.cfgs = job[t].cfgs
        /\ j.cfg = job[t].cfg /\ j.logger = job[t].logger
    BY <1>j DEF Jobs
  <2> HIDE DEF j
  <2>3. CASE f = Empty \/ f \in BadPatterns
    <3>1. logger' = [logger EXCEPT ![o] = logger[o]] /\ terminated' \in BOOLEAN
      <4>1. logger' = logger /\ terminated' \in BOOLEAN
        BY <1>s, <1>5, <2>3 DEF SetDefaultFormatter
      <4>2. [logger EXCEPT ![o] = logger[o]] = logger
        BY <1>s
      <4> QED
        BY <4>1, <4>2
    <3> QED
      BY <1>3, <1>4, <2>1, <2>2, <3>1
  <2>4. CASE f # Empty /\ f \notin BadPatterns
    <3> DEFINE apps == SetFormatter(logger[o].appenders, f)
               r  == [logger[o] EXCEPT !.formatter = f, !.appenders = apps]
    <3>1. logger' = [logger EXCEPT ![o] = r] /\ terminated' = terminated
      <4>1. logger' = [logger EXCEPT ![o].formatter = f, ![o].appenders = SetFormatter(@, f)]
        BY <1>5, <2>4 DEF SetDefaultFormatter
      <4> QED
        BY ZenonT(60), <1>4, <1>5, <2>1, <2>4, <4>1 DEF SetDefaultFormatter, LoggerRecords
    <3>2. apps \in Seq(AppenderConfigs)
      <4>1. /\ logger[o].appenders \in Seq(AppenderConfigs) /\ f \in Strings
        BY <1>4, <2>1
      <4>2. \A i \in DOMAIN logger[o].appenders :
               [logger[o].appenders[i] EXCEPT !.formatter = f] \in AppenderConfigs
        <5>1. \A i \in DOMAIN logger[o].appenders : logger[o].appenders[i] \in AppenderConfigs
          BY <4>1
        <5> QED
          BY <4>1, <5>1 DEF AppenderConfigs
      <4>3. DOMAIN logger[o].appenders = 1 .. Len(logger[o].appenders)
            /\ Len(logger[o].appenders) \in Nat
        BY <4>1
      <4> QED
        BY <4>2, <4>3 DEF SetFormatter
    <3> HIDE DEF apps
    <3>3. r \in LoggerRecords /\ r.name = logger[o].name /\ r.state = logger[o].state
      BY <1>4, <2>1, <3>2 DEF LoggerRecords
    <3> HIDE DEF r
    <3> QED
      BY <1>3, <1>s, <2>1, <2>2, <3>1, <3>3
  <2> QED
    BY <2>3, <2>4
<1>6. CASE ClearAppenders(t)
  <2> DEFINE j == [job[t] EXCEPT !.at = "add", !.left = c.appenders]
             r == [logger[o] EXCEPT !.appenders = <<>>]
  <2>1. /\ job[t].at = "clear" /\ logger' = [logger EXCEPT ![o] = r]
        /\ UNCHANGED <<configVars, loggers_, ptr, joining, terminated, complete>>
    BY <1>6 DEF ClearAppenders, InJob
  <2>2. job' = [job EXCEPT ![t] = j]
    BY <1>j, <1>6 DEF ClearAppenders, Jobs
  <2>3. /\ j \in Jobs /\ j.at = "add" /\ j.cfgs = job[t].cfgs
        /\ j.cfg = job[t].cfg /\ j.logger = job[t].logger
    BY <1>j, <1>4, <2>1 DEF Jobs
  <2> HIDE DEF j
  <2>4. r \in LoggerRecords /\ r.name = logger[o].name /\ r.state = logger[o].state
    <3>1. <<>> \in Seq(AppenderConfigs)
      OBVIOUS
    <3> QED
      BY <1>4, <2>1, <3>1 DEF LoggerRecords
  <2> HIDE DEF r
  <2> QED
    BY <1>3, <1>s, <2>1, <2>2, <2>3, <2>4
<1>7. CASE AddAppender(t)
  <2> DEFINE a  == Head(job[t].left)
             apps == Append(logger[o].appenders, NewAppender(a.type, a.file, logger[o].formatter))
             j  == [job[t] EXCEPT !.left = Tail(@)]
             r  == [logger[o] EXCEPT !.appenders = apps]
  <2>1. /\ job[t].at = "add" /\ job[t].left # <<>>
        /\ job' = [job EXCEPT ![t] = j] /\ logger' = [logger EXCEPT ![o] = r]
        /\ UNCHANGED <<configVars, loggers_, ptr, joining, terminated, complete>>
    BY <1>7 DEF AddAppender, InJob
  <2>2. Tail(job[t].left) \in Seq(AppenderConfigs) /\ a \in AppenderConfigs
    BY <1>j, <2>1
  <2>3. /\ j \in Jobs /\ j.at = "add" /\ j.cfgs = job[t].cfgs
        /\ j.cfg = job[t].cfg /\ j.logger = job[t].logger
    BY <1>j, <2>1, <2>2 DEF Jobs
  <2> HIDE DEF j
  <2>4. NewAppender(a.type, a.file, logger[o].formatter) \in AppenderConfigs
    BY <1>4, <2>1, <2>2 DEF NewAppender, AppenderConfigs
  <2>5. apps \in Seq(AppenderConfigs)
    BY <1>4, <2>1, <2>4
  <2> HIDE DEF apps
  <2>6. r \in LoggerRecords /\ r.name = logger[o].name /\ r.state = logger[o].state
    BY <1>4, <2>1, <2>5 DEF LoggerRecords
  <2> HIDE DEF r
  <2> QED
    BY <1>3, <1>s, <2>1, <2>3, <2>6
<1> QED
  BY <1>1, <1>2, <1>5, <1>6, <1>7


\* The listener finds the logger: it exists because a user has made it, and
\* then it is not one that was configured to the end, or it is new.
LEMMA FindNewLoggerStep ==
  ASSUME ManagerInv, NEW t \in Threads, FindNewLogger(t)
  PROVE  JobInv' /\ CompleteStays
<1>t. /\ ManagerTypes /\ JobInCall /\ JobOfValue /\ JobHasLogger /\ TableHasLoggers
      /\ UsersHaveLoggers /\ ReferredIsOpen /\ CompleteIsLeft
  BY DEF ManagerInv
<1> DEFINE c == job[t].cfg
           n == c.name
           o == loggers_'[n]
           j == [job[t] EXCEPT !.at = "formatter", !.logger = o]
<1>1. /\ job[t].at = "find" /\ Found(n, c.level, c.capacity)
      /\ UNCHANGED <<configVars, ptr, joining, terminated, complete>>
  BY DEF FindNewLogger, InJob
<1>2. /\ c \in LoggerConfigs /\ n \in LoggerNames /\ c.level \in Levels \cup {DefaultLevel}
      /\ c.capacity \in Nat /\ c \in call[t].val
  BY <1>t, <1>1, ConfigHas DEF JobOfValue
<1>3. /\ logger' \in Seq(LoggerRecords) /\ loggers_' \in [LoggerNames -> Nat]
      /\ LoggerIds \subseteq LoggerIds' /\ \A p \in LoggerIds : logger'[p] = logger[p]
      /\ \A m \in LoggerNames \ {n} : loggers_'[m] = loggers_[m]
      /\ loggers_[n] # NoLogger => o = loggers_[n] /\ LoggerIds' = LoggerIds
      /\ loggers_[n] = NoLogger =>
           /\ LoggerIds' = LoggerIds \cup {o} /\ o \notin LoggerIds /\ o # NoLogger
           /\ logger'[o].name = n /\ logger'[o].state = "open"
  <2> HIDE DEF n, c
  <2> QED
    BY <1>t, <1>1, <1>2, Finds
<1>4. job' = [job EXCEPT ![t] = j]
  BY <1>t DEF FindNewLogger, ManagerTypes, Jobs
<1>5. /\ j \in Jobs /\ j.at = "formatter" /\ j.cfgs = job[t].cfgs /\ j.cfg = c
      /\ j.logger = o
  <2>1. o \in Nat
    BY <1>2, <1>3
  <2> HIDE DEF o
  <2> QED
    BY <1>t, <2>1, JobAt DEF Jobs
<1>c. call' = call /\ ptr' = ptr /\ complete' = complete
  BY <1>1 DEF configVars
<1> HIDE DEF j, o, n, c
<1>6. /\ job' \in [Threads -> Jobs] /\ job'[t] = j
      /\ \A u \in Threads \ {t} : job'[u] = job[u]
  BY <1>t, <1>4, <1>5, JobSet
<1>7. ManagerTypes'
  BY <1>t, <1>1, <1>3, <1>6 DEF ManagerTypes
<1>8. TableHasLoggers'
  BY <1>t, <1>2, <1>3 DEF TableHasLoggers, o
<1>9. JobHasLogger'
  <2>1. o \in LoggerIds' /\ logger'[o].name = n
    BY <1>2, <1>3, <1>8 DEF TableHasLoggers, o
  <2>2. \A u \in Threads \ {t} :
          IF job'[u].at \in {"formatter", "clear", "add"}
          THEN job'[u].logger \in LoggerIds' /\ logger'[job'[u].logger].name = job'[u].cfg.name
          ELSE job'[u].logger = NoLogger
    BY <1>t, <1>3, <1>6 DEF JobHasLogger
  <2> QED
    BY <1>5, <1>6, <2>1, <2>2 DEF JobHasLogger, n
<1>10. UsersHaveLoggers'
  BY <1>t, <1>c, <1>3 DEF UsersHaveLoggers
<1>11. ReferredIsOpen'
  <2> SUFFICES ASSUME NEW p \in LoggerIds', logger'[p].state # "open"
               PROVE  /\ \A m \in LoggerNames : loggers_'[m] # p
                      /\ \A u \in Threads : ptr'[u] # p /\ job'[u].logger # p
    BY DEF ReferredIsOpen
  <2>1. p \in LoggerIds /\ logger[p].state # "open"
    BY <1>3
  <2>2. /\ \A m \in LoggerNames : loggers_[m] # p
        /\ \A u \in Threads : ptr[u] # p /\ job[u].logger # p
    BY <1>t, <2>1 DEF ReferredIsOpen
  <2>3. \A m \in LoggerNames : loggers_'[m] # p
    BY <1>3, <2>1, <2>2 DEF o
  <2> QED
    BY <1>2, <1>c, <1>5, <1>6, <2>2, <2>3 DEF o
<1>12. JobInCall' /\ JobOfValue'
  <2>1. job[t].at # "out" /\ job[t].cfgs \subseteq call[t].val
    BY <1>t, <1>1 DEF JobOfValue
  <2>2. JobInCall'
    BY <1>t, <1>c, <1>6, <2>1 DEF JobInCall
  <2>3. \A u \in Threads \ {t} :
          /\ job'[u].at # "out" => job'[u].cfgs \subseteq call'[u].val
          /\ job'[u].at \in {"find", "formatter", "clear", "add"} =>
                job'[u].cfg \in LoggerConfigs /\ job'[u].cfg \in call'[u].val
    BY <1>t, <1>c, <1>6 DEF JobOfValue
  <2> QED
    BY <1>c, <1>2, <1>5, <1>6, <2>1, <2>2, <2>3 DEF JobOfValue
<1>13. CompleteIsLeft'
  <2>1. complete \subseteq LoggerIds' /\ o \notin complete
    <3>1. loggers_[n] \notin complete
      BY <1>t, <1>1 DEF CompleteIsLeft, n, c
    <3> QED
      BY <1>t, <1>3, <3>1 DEF CompleteIsLeft
  <2>2. \A u \in Threads : job'[u].logger \notin complete
    BY <1>t, <1>5, <1>6, <2>1 DEF CompleteIsLeft
  <2>3. ASSUME NEW u \in Threads, job'[u].at = "find"
        PROVE  loggers_'[job'[u].cfg.name] \notin complete
    <3>1. u # t /\ job'[u] = job[u]
      BY <1>5, <1>6, <2>3
    <3>2. job[u].cfg.name \in LoggerNames /\ loggers_[job[u].cfg.name] \notin complete
      BY <1>t, <2>3, <3>1, ConfigHas DEF JobOfValue, CompleteIsLeft
    <3> QED
      BY <1>3, <2>1, <3>1, <3>2 DEF o
  <2> QED
    BY <1>c, <2>1, <2>2, <2>3 DEF CompleteIsLeft
<1>14. CompleteStays
  BY <1>t, <1>3 DEF CompleteIsLeft, CompleteStays
<1> QED
  BY <1>7, <1>8, <1>9, <1>10, <1>11, <1>12, <1>13, <1>14 DEF JobInv, RefInv

\* The listener lets a logger go that is in its hands or in the table.
LEMMA ReleaseStep ==
  ASSUME ManagerInv, NEW t \in Threads,
         Configured(t) \/ \E c \in job[t].cfgs : RemoveLogger(t, c)
  PROVE  JobInv' /\ CompleteStays
<1>t. /\ ManagerTypes /\ JobInCall /\ JobOfValue /\ JobHasLogger /\ TableHasLoggers
      /\ UsersHaveLoggers /\ ReferredIsOpen /\ CompleteIsLeft /\ Inv
  BY DEF ManagerInv
<1>0. NoLogger \notin LoggerIds /\ NoLogger \in Nat
  BY <1>t DEF ManagerTypes, LoggerIds, NoLogger
<1>1. ASSUME NEW o, o = NoLogger \/ o \in LoggerIds, ReleasedBy(t, o),
             NEW j \in Jobs, job' = [job EXCEPT ![t] = j], j.logger = NoLogger,
             j.at \in {"next", "find"}, job[t].at # "out", j.cfgs \subseteq job[t].cfgs,
             j.at = "find" =>
               /\ j.cfg \in LoggerConfigs /\ j.cfg \in call[t].val
               /\ loggers_'[j.cfg.name] = NoLogger,
             loggers_' \in [LoggerNames -> Nat],
             \A n \in LoggerNames : loggers_'[n] = loggers_[n] \/ loggers_'[n] = NoLogger,
             Last(o) => /\ \A n \in LoggerNames : loggers_'[n] # o
                        /\ \A u \in Threads : ptr[u] # o /\ job'[u].logger # o,
             UNCHANGED <<configVars, ptr, terminated>>,
             complete \subseteq complete', complete' \subseteq LoggerIds,
             complete' = complete \/ \A u \in Threads \ {t} : job[u].at = "out"
      PROVE  JobInv' /\ CompleteStays
  <2>c. call' = call /\ ptr' = ptr
    BY <1>1 DEF configVars
  <2>1. /\ job' \in [Threads -> Jobs] /\ job'[t] = j
        /\ \A u \in Threads \ {t} : job'[u] = job[u]
    BY <1>t, <1>1, JobSet
  <2>2. /\ logger' \in Seq(LoggerRecords) /\ LoggerIds' = LoggerIds
        /\ joining' \in [Threads -> Nat]
        /\ \A p \in LoggerIds : logger'[p].name = logger[p].name
        /\ \A p \in LoggerIds : p # o \/ ~Last(o) => logger'[p] = logger[p]
        /\ o # NoLogger /\ Last(o) =>
             /\ logger'[o].state # "open"
             /\ logger'[o].state # "gone" => /\ logger'[o].level = logger[o].level
                                             /\ logger'[o].formatter = logger[o].formatter
                                             /\ logger'[o].appenders = logger[o].appenders
    BY <1>t, <1>1, Released
  <2>3. ManagerTypes'
    BY <1>t, <1>1, <2>1, <2>2 DEF ManagerTypes
  <2>4. JobHasLogger'
    BY <1>t, <1>1, <2>1, <2>2 DEF JobHasLogger
  <2>5. TableHasLoggers' /\ UsersHaveLoggers'
    BY <1>t, <1>1, <2>c, <2>2 DEF TableHasLoggers, UsersHaveLoggers
  <2>6. ReferredIsOpen'
    <3> SUFFICES ASSUME NEW p \in LoggerIds, logger'[p].state # "open"
                 PROVE  /\ \A m \in LoggerNames : loggers_'[m] # p
                        /\ \A u \in Threads : ptr'[u] # p /\ job'[u].logger # p
      BY <2>2 DEF ReferredIsOpen
    <3>1. CASE p = o /\ Last(o)
      BY <1>1, <2>c, <3>1
    <3>2. CASE ~(p = o /\ Last(o))
      <4>1. logger[p].state # "open"
        BY <2>2, <3>2
      <4>2. /\ \A m \in LoggerNames : loggers_[m] # p
            /\ \A u \in Threads : ptr[u] # p /\ job[u].logger # p
        BY <1>t, <4>1 DEF ReferredIsOpen
      <4> QED
        BY <1>0, <1>1, <2>c, <2>1, <4>2
    <3> QED
      BY <3>1, <3>2
  <2>7. JobInCall'
    BY <1>t, <1>1, <2>c, <2>1 DEF JobInCall
  <2>8. JobOfValue'
    <3>1. \A u \in Threads \ {t} :
            /\ job'[u].at # "out" => job'[u].cfgs \subseteq call'[u].val
            /\ job'[u].at \in {"find", "formatter", "clear", "add"} =>
                  job'[u].cfg \in LoggerConfigs /\ job'[u].cfg \in call'[u].val
      BY <1>t, <2>c, <2>1 DEF JobOfValue
    <3>2. job[t].cfgs \subseteq call[t].val
      BY <1>t, <1>1 DEF JobOfValue
    <3> QED
      BY <1>1, <2>c, <2>1, <3>1, <3>2 DEF JobOfValue
  <2>9. CompleteIsLeft'
    <3>1. NoLogger \notin complete'
      BY <1>0, <1>1
    <3>2. ASSUME NEW u \in Threads \ {t}
          PROVE  /\ job'[u].logger \notin complete'
                 /\ job'[u].at = "find" => loggers_'[job'[u].cfg.name] \notin complete'
      <4>1. CASE job[u].at = "out"
        BY <1>t, <2>1, <3>1, <4>1 DEF JobHasLogger
      <4>2. CASE complete' = complete
        <5>1. job'[u] = job[u] /\ job[u].logger \notin complete
          BY <1>t, <2>1 DEF CompleteIsLeft
        <5>2. ASSUME job[u].at = "find" PROVE loggers_'[job[u].cfg.name] \notin complete
          <6>1. job[u].cfg.name \in LoggerNames /\ loggers_[job[u].cfg.name] \notin complete
            BY <1>t, <5>2, ConfigHas DEF JobOfValue, CompleteIsLeft
          <6> QED
            BY <1>1, <3>1, <4>2, <6>1
        <5> QED
          BY <4>2, <5>1, <5>2
      <4> QED
        BY <1>1, <4>1, <4>2
    <3> QED
      BY <1>1, <2>1, <2>2, <3>1, <3>2 DEF CompleteIsLeft
  <2>10. CompleteStays
    BY <1>t, <1>0, <2>2 DEF CompleteIsLeft, CompleteStays
  <2> QED
    BY <2>3, <2>4, <2>5, <2>6, <2>7, <2>8, <2>9, <2>10 DEF JobInv, RefInv
<1>2. CASE Configured(t)
  <2> DEFINE o == job[t].logger
             j == [job[t] EXCEPT !.at = "next", !.logger = NoLogger, !.cfg = NoValue]
  <2>1. /\ job[t].at = "add" /\ ReleasedBy(t, o)
        /\ complete' = IF call[t].alone THEN complete \cup {o} ELSE complete
        /\ UNCHANGED <<configVars, ptr, terminated, loggers_>>
    BY <1>2 DEF Configured, InJob
  <2>2. o \in LoggerIds
    BY <1>t, <2>1 DEF JobHasLogger
  <2>3. job' = [job EXCEPT ![t] = j]
    BY <1>t, <1>2 DEF Configured, ManagerTypes, Jobs
  <2>4. j \in Jobs /\ j.logger = NoLogger /\ j.at = "next" /\ j.cfgs = job[t].cfgs
    BY <1>0, <1>t, JobAt DEF Jobs
  <2>5. Last(o) => /\ \A n \in LoggerNames : loggers_'[n] # o
                   /\ \A u \in Threads : ptr[u] # o /\ (u # t => job[u].logger # o)
    BY <2>1, LastIsOnly
  <2> HIDE DEF o, j
  <2>6. Last(o) => \A u \in Threads : job'[u].logger # o
    BY <1>t, <1>0, <2>2, <2>3, <2>4, <2>5, JobSet
  <2>7. complete' = complete \/ \A u \in Threads \ {t} : job[u].at = "out"
    <3>1. CASE call[t].alone
      <4>1. call[t].op = "set" /\ Manager \in call[t].todo
        BY <1>t, <2>1 DEF JobInCall
      <4>2. \A u \in Threads : call[u].op = "set" /\ Manager \in call[u].todo => u = t
        BY <1>t, <3>1, <4>1, OneVariable
      <4> QED
        BY <1>t, <4>2 DEF JobInCall
    <3> QED
      BY <2>1, <3>1
  <2>8. complete \subseteq complete' /\ complete' \subseteq LoggerIds
    BY <1>t, <2>1, <2>2 DEF CompleteIsLeft
  <2>9. loggers_' \in [LoggerNames -> Nat]
    BY <1>t, <2>1 DEF ManagerTypes
  <2> QED
    BY <1>1, <2>1, <2>2, <2>3, <2>4, <2>5, <2>6, <2>7, <2>8, <2>9
<1>3. ASSUME NEW c \in job[t].cfgs, RemoveLogger(t, c)
      PROVE  JobInv' /\ CompleteStays
  <2> DEFINE o == loggers_[c.name]
             j == [job[t] EXCEPT !.at = "find", !.cfg = c, !.cfgs = @ \ {c}]
  <2>1. /\ job[t].at = "next" /\ ReleasedBy(t, o)
        /\ loggers_' = [loggers_ EXCEPT ![c.name] = NoLogger]
        /\ UNCHANGED <<configVars, ptr, terminated, complete>>
    BY <1>3 DEF RemoveLogger, InJob
  <2>2. /\ c \in LoggerConfigs /\ c.name \in LoggerNames /\ c \in call[t].val
        /\ job[t].logger = NoLogger
    BY <1>t, <2>1, JobAt, ConfigHas DEF JobOfValue, JobHasLogger
  <2>3. o = NoLogger \/ o \in LoggerIds
    BY <1>t, <2>2 DEF TableHasLoggers
  <2>4. job' = [job EXCEPT ![t] = j]
    BY <1>t, <1>3 DEF RemoveLogger, ManagerTypes, Jobs
  <2>5. /\ j \in Jobs /\ j.logger = NoLogger /\ j.at = "find" /\ j.cfg = c
        /\ j.cfgs \subseteq job[t].cfgs
    BY <1>t, <2>2, JobAt DEF Jobs
  <2>6. /\ loggers_' \in [LoggerNames -> Nat] /\ loggers_'[c.name] = NoLogger
        /\ \A n \in LoggerNames \ {c.name} : loggers_'[n] = loggers_[n]
    BY <1>t, <1>0, <2>1, <2>2 DEF ManagerTypes
  <2>7. Last(o) => \A u \in Threads : ptr[u] # o /\ job[u].logger # o
    BY <2>2, LastIsOnly
  <2>8. o # NoLogger => \A n \in LoggerNames : loggers_'[n] # o
    BY <1>t, <2>2, <2>6 DEF TableHasLoggers
  <2>9. o # NoLogger \/ ~Last(o)
    BY <2>2, <2>7
  <2> HIDE DEF o, j
  <2>10. Last(o) => \A u \in Threads : job'[u].logger # o
    BY <1>t, <2>4, <2>5, <2>7, <2>9, JobSet
  <2>11. complete' \subseteq LoggerIds /\ complete' = complete
    BY <1>t, <2>1 DEF CompleteIsLeft
  <2>12. j.at = "find" =>
           /\ j.cfg \in LoggerConfigs /\ j.cfg \in call[t].val
           /\ loggers_'[j.cfg.name] = NoLogger
    BY <2>2, <2>5, <2>6
  <2>13. Last(o) => /\ \A n \in LoggerNames : loggers_'[n] # o
                    /\ \A u \in Threads : ptr[u] # o /\ job'[u].logger # o
    BY <2>7, <2>8, <2>9, <2>10
  <2>14. \A n \in LoggerNames : loggers_'[n] = loggers_[n] \/ loggers_'[n] = NoLogger
    BY <2>6
  <2> QED
    BY <1>1, <2>1, <2>3, <2>4, <2>5, <2>6, <2>11, <2>12, <2>13, <2>14
<1> QED
  BY <1>2, <1>3


-----------------------------------------------------------------------------
(* Steps of users, writers and the configuration.                          *)

\* Users and writers change no logger that was configured, and no listener.
LEMMA OutsideStep ==
  ASSUME ManagerInv, UNCHANGED configVars,
         (\E t \in Threads : UserStep(t)) \/ \E o \in LoggerIds : Writer(o)
  PROVE  JobInv' /\ CompleteStays
<1>t. JobInCall /\ JobOfValue /\ CompleteIsLeft
  BY DEF ManagerInv
<1>1. /\ ManagerTypes' /\ Gentle /\ RefInv'
      /\ UNCHANGED <<job, excused, complete, terminated>>
      /\ \A n \in LoggerNames : loggers_'[n] # loggers_[n] =>
            loggers_[n] = NoLogger /\ loggers_'[n] \notin LoggerIds
  BY UserRefs, WriterRefs
<1>2. call' = call
  BY DEF configVars
<1>3. JobInCall' /\ JobOfValue'
  BY <1>t, <1>1, <1>2 DEF JobInCall, JobOfValue
<1>4. CompleteIsLeft'
  <2>1. LoggerIds \subseteq LoggerIds'
    BY <1>1 DEF Gentle
  <2>2. ASSUME NEW u \in Threads, job[u].at = "find"
        PROVE  loggers_'[job[u].cfg.name] \notin complete
    <3>1. job[u].cfg.name \in LoggerNames /\ loggers_[job[u].cfg.name] \notin complete
      BY <1>t, <2>2, ConfigHas DEF JobOfValue, CompleteIsLeft
    <3> QED
      BY <1>t, <1>1, <3>1 DEF CompleteIsLeft
  <2> QED
    BY <1>t, <1>1, <2>1, <2>2 DEF CompleteIsLeft
<1>5. CompleteStays
  BY <1>t, <1>1 DEF CompleteStays, CompleteIsLeft, Gentle, Keeps, Retires
<1> QED
  BY <1>1, <1>3, <1>4, <1>5 DEF JobInv

\* Calls of SetValue that go on over the step: only the listener of the
\* manager takes itself from the list.
CallsGoOn ==
    \A u \in Threads : call[u].op = "set" =>
        /\ call'[u].op = "set" /\ call'[u].var = call[u].var /\ call'[u].val = call[u].val
        /\ Manager \in call'[u].todo <=> Manager \in call[u].todo
        /\ call'[u].alone => call[u].alone

\* Calls of SetValue that the step begins.
CallsBegin ==
    \A u \in Threads : call[u].op # "set" /\ call'[u].op = "set" =>
        /\ call'[u].var \in VarIds
        /\ call'[u].alone => Setting(call'[u].var) = {}
        /\ Manager \in store[call'[u].var].listeners =>
              Manager \in call'[u].todo \/ call'[u].val = store[call'[u].var].val
        /\ store[call'[u].var].name = LoggersTag => call'[u].val \in SUBSET LoggerConfigs

\* Variables are created at most.
VariablesStay ==
    /\ VarIds \subseteq VarIds' /\ \A v \in VarIds : store'[v] = store[v]
    /\ \A v \in VarIds' \ VarIds :
          /\ store'[v].listeners = {}
          /\ store'[v].name = LoggersTag => store'[v].val \in SUBSET LoggerConfigs

\* A call of SetValue that begins changes no variable and no other call.
LEMMA BeginIsQuiet ==
  ASSUME Inv, NEW t \in Threads, NEW v \in VarIds, NEW x \in AllValues,
         call[t].op = "idle", Begin(t, v, x), UNCHANGED store,
         store[v].name = LoggersTag => x \in SUBSET LoggerConfigs
  PROVE  CallsGoOn /\ CallsBegin /\ VariablesStay
<1>1. /\ call'[t].op = "set" /\ call'[t].var = v /\ call'[t].val = x
      /\ call'[t].alone = (Setting(v) = {})
      /\ call'[t].todo = IF x # store[v].val THEN store[v].listeners ELSE {}
  BY Begun DEF Inv
<1>2. \A u \in Threads \ {t} :
         /\ call'[u].op = call[u].op /\ call'[u].var = call[u].var
         /\ call'[u].val = call[u].val /\ call'[u].todo = call[u].todo
         /\ call'[u].alone => call[u].alone
  BY Begun DEF Inv
<1>3. CallsGoOn
  BY <1>2 DEF CallsGoOn
<1>4. CallsBegin
  BY <1>1, <1>2 DEF CallsBegin
<1>5. VariablesStay
  BY DEF VariablesStay, VarIds
<1> QED
  BY <1>3, <1>4, <1>5

\* Steps of the configuration that leave the manager alone.
LEMMA QuietIsQuiet ==
  ASSUME Inv, NEW t \in Threads, QuietStep(t)
  PROVE  CallsGoOn /\ CallsBegin /\ VariablesStay
<1>t. Types /\ LoadsFromFile /\ Registered /\ HoldsRegistered /\ CallHasObject
  BY DEF Inv
<1>c. call \in [Threads -> Calling]
  BY <1>t DEF Types
<1>1. CASE UNCHANGED <<call, store>>
  BY <1>1 DEF CallsGoOn, CallsBegin, VariablesStay, VarIds
<1>2. ASSUME NEW n \in Names, LookupMissing(t, n)
      PROVE  CallsGoOn /\ CallsBegin /\ VariablesStay
  <2>1. /\ call[t].op = "idle" /\ call' = [call EXCEPT ![t] = [Idle EXCEPT !.op = "create", !.name = n]]
        /\ store' = store
    BY <1>2 DEF LookupMissing, Free
  <2>2. call'[t].op = "create" /\ \A u \in Threads \ {t} : call'[u] = call[u]
    BY <1>c, <2>1 DEF Idle
  <2> QED
    BY <2>1, <2>2 DEF CallsGoOn, CallsBegin, VariablesStay, VarIds
<1>3. CASE Create(t)
  <2> DEFINE n == call[t].name
             r == NewVar(n)
  <2>1. /\ call[t].op = "create" /\ call' = [call EXCEPT ![t] = Idle]
        /\ store' = Append(store, r)
    BY <1>3 DEF Create
  <2>2. call'[t].op = "idle" /\ \A u \in Threads \ {t} : call'[u] = call[u]
    BY <1>c, <2>1 DEF Idle
  <2>3. /\ n \in Names /\ r \in Variables /\ r.listeners = {}
        /\ r.name = LoggersTag => r.val \in SUBSET LoggerConfigs
    <3>1. n \in Names /\ DefaultOf(n) \in AllValues
      BY <1>t, <2>1, ValuesOfNames DEF CallHasObject
    <3> HIDE DEF n
    <3> QED
      BY <3>1, LoggersAssumption DEF NewVar, Variables
  <2> HIDE DEF r
  <2>4. /\ VarIds' = VarIds \cup {Len(store) + 1} /\ store'[Len(store) + 1] = r
        /\ \A v \in VarIds : store'[v] = store[v]
    BY <1>t, <2>1, <2>3 DEF Types, VarIds
  <2> QED
    BY <2>1, <2>2, <2>3, <2>4 DEF CallsGoOn, CallsBegin, VariablesStay
<1>4. ASSUME NEW l \in Listeners \ {Manager}, Tell(t, l)
      PROVE  CallsGoOn /\ CallsBegin /\ VariablesStay
  <2>1. /\ call[t].op = "set" /\ store' = store
        /\ call' = [call EXCEPT ![t].todo = @ \ {l}]
    BY <1>4 DEF Tell, Told
  <2>2. /\ call'[t].op = "set" /\ call'[t].var = call[t].var /\ call'[t].val = call[t].val
        /\ call'[t].alone = call[t].alone /\ call'[t].todo = call[t].todo \ {l}
        /\ \A u \in Threads \ {t} : call'[u] = call[u]
    BY <1>c, <2>1 DEF Calling
  <2> QED
    BY <1>4, <2>1, <2>2 DEF CallsGoOn, CallsBegin, VariablesStay, VarIds
<1>5. ASSUME NEW v \in held[t], NEW n \in Names, NEW x \in Values(n),
             x \in Values(store[v].name), SetValue(t, v, x)
      PROVE  CallsGoOn /\ CallsBegin /\ VariablesStay
  <2>1. v \in VarIds /\ x \in AllValues
    BY <1>t, ValuesOfNames DEF HoldsRegistered
  <2>2. store[v].name = LoggersTag => x \in SUBSET LoggerConfigs
    BY <1>5, LoggersAssumption
  <2> QED
    BY <1>5, <2>1, <2>2, BeginIsQuiet DEF SetValue, Free
<1>6. CASE LoadMember(t)
  <2>1. PICK n \in DOMAIN load[t] :
          /\ call[t].op = "idle" /\ store' = store
          /\ \/ UNCHANGED call
             \/ /\ vars_[n] # None /\ FromStr(n, load[t][n]) # Malformed
                /\ Begin(t, vars_[n], FromStr(n, load[t][n]))
    BY <1>6 DEF LoadMember
  <2>2. CASE UNCHANGED call
    BY <1>1, <2>1, <2>2
  <2>3. CASE /\ vars_[n] # None /\ FromStr(n, load[t][n]) # Malformed
             /\ Begin(t, vars_[n], FromStr(n, load[t][n]))
    <3>1. PICK doc \in Documents : n \in DOMAIN doc /\ load[t][n] = doc[n]
      BY <1>t DEF LoadsFromFile
    <3>2. n \in Names /\ FromStr(n, load[t][n]) \in AllValues
      BY <3>1, ValuesOfFiles
    <3>3. n = LoggersTag => FromStr(n, load[t][n]) \in SUBSET LoggerConfigs
      BY <2>3, <3>1, LoggersAssumption
    <3>4. vars_[n] \in VarIds /\ store[vars_[n]].name = n
      BY <1>t, <2>3, <3>2 DEF Registered
    <3>5. PICK w \in VarIds, x \in AllValues : w = vars_[n] /\ x = FromStr(n, load[t][n])
      BY <3>2, <3>4
    <3>6. Begin(t, w, x)
      BY <2>3, <3>5 DEF Begin, Setting
    <3>7. store[w].name = LoggersTag => x \in SUBSET LoggerConfigs
      BY <3>3, <3>4, <3>5
    <3> QED
      BY <2>1, <3>6, <3>7, BeginIsQuiet
  <2> QED
    BY <2>1, <2>2, <2>3
<1>7. CASE Calls(t)
  <2>1. ASSUME NEW n \in Names, LookupFound(t, n) PROVE UNCHANGED <<call, store>>
    BY <2>1 DEF LookupFound
  <2>2. ASSUME NEW doc \in Documents, LoadYaml(t, doc) PROVE UNCHANGED <<call, store>>
    BY <2>2 DEF LoadYaml
  <2> QED
    BY <1>1, <1>2, <1>5, <1>7, <2>1, <2>2 DEF Calls
<1> QED
  BY <1>3, <1>4, <1>6, <1>7 DEF QuietStep, OtherStep


\* The listeners do not notice what happens to the configuration.
LEMMA JobsGoOn ==
  ASSUME ManagerInv, UNCHANGED <<loggers_, logger, job, ptr, joining, terminated, complete>>,
         \A u \in Threads : job[u].at # "out" =>
            /\ call'[u].op = "set" /\ Manager \in call'[u].todo
            /\ call'[u].val = call[u].val
  PROVE  JobInv' /\ CompleteStays
<1>t. /\ ManagerTypes /\ JobInCall /\ JobOfValue /\ JobHasLogger /\ TableHasLoggers
      /\ UsersHaveLoggers /\ ReferredIsOpen /\ CompleteIsLeft
  BY DEF ManagerInv
<1>1. LoggerIds' = LoggerIds
  BY DEF LoggerIds
<1>2. ManagerTypes' /\ RefInv'
  BY <1>t, <1>1 DEF ManagerTypes, RefInv, JobHasLogger, TableHasLoggers, UsersHaveLoggers,
     ReferredIsOpen
<1>3. JobInCall' /\ CompleteIsLeft' /\ CompleteStays
  BY <1>t, <1>1 DEF JobInCall, CompleteIsLeft, CompleteStays
<1>4. JobOfValue'
  <2> SUFFICES ASSUME NEW u \in Threads
               PROVE  /\ job[u].at # "out" => job[u].cfgs \subseteq call'[u].val
                      /\ job[u].at \in {"find", "formatter", "clear", "add"} =>
                            job[u].cfg \in LoggerConfigs /\ job[u].cfg \in call'[u].val
    BY DEF JobOfValue
  <2> QED
    BY <1>t DEF JobOfValue
<1> QED
  BY <1>2, <1>3, <1>4 DEF JobInv

\* Nor does what is configured depend on anything but these variables.
LEMMA SameForce ==
  ASSUME UNCHANGED <<loggers_, logger, job, excused>>
  PROVE  /\ \A cfgs : InForce(cfgs) => InForce(cfgs)'
         /\ \A u \in Threads : call'[u].val = call[u].val /\ InProgress(u) => InProgress(u)'
<1>1. \A c : Holds(c) => Holds(c)'
  BY DEF Holds, MadeFrom
<1>2. ASSUME NEW cfgs, InForce(cfgs) PROVE InForce(cfgs)'
  BY <1>1, <1>2 DEF InForce
<1>3. \A u \in Threads : PartlyConfigured(u) => PartlyConfigured(u)'
  BY DEF PartlyConfigured
<1>4. ASSUME NEW u \in Threads, call'[u].val = call[u].val, InProgress(u)
      PROVE  InProgress(u)'
  <2>1. Twice(call'[u].val) = Twice(call[u].val)
    BY <1>4
  <2> QED
    BY <1>1, <1>3, <1>4, <2>1 DEF InProgress
<1> QED
  BY <1>2, <1>4

\* A quiet step begins calls and creates variables at most.
LEMMA QuietKeeps ==
  ASSUME ManagerInv, NEW t \in Threads, QuietStep(t)
  PROVE  JobInv' /\ LoggersAreConfigs' /\ Faithful' /\ CompleteStays
<1>t. Inv /\ JobInCall /\ LoggersAreConfigs /\ Faithful /\ CallHasObject
  BY DEF ManagerInv, Inv
<1>1. CallsGoOn /\ CallsBegin /\ VariablesStay
  BY <1>t, QuietIsQuiet
<1>2. UNCHANGED <<loggers_, logger, job, ptr, joining, terminated, complete, excused>>
  BY DEF QuietStep, managerVars
<1>3. JobInv' /\ CompleteStays
  BY <1>t, <1>1, <1>2, JobsGoOn DEF JobInCall, CallsGoOn
<1>4. LoggersAreConfigs'
  <2>1. \A m \in VarIds' : Manager \in store'[m].listeners => store'[m].name = LoggersTag
    BY <1>t, <1>1 DEF LoggersAreConfigs, VariablesStay
  <2>2. \A m \in VarIds' : store'[m].name = LoggersTag => store'[m].val \in SUBSET LoggerConfigs
    BY <1>t, <1>1 DEF LoggersAreConfigs, VariablesStay
  <2>3. ASSUME NEW u \in Threads, call'[u].op = "set", store'[call'[u].var].name = LoggersTag
        PROVE  call'[u].val \in SUBSET LoggerConfigs
    <3>1. CASE call[u].op = "set"
      <4>1. call'[u].var = call[u].var /\ call'[u].val = call[u].val /\ call[u].var \in VarIds
        BY <1>t, <1>1, <3>1 DEF CallsGoOn, CallHasObject
      <4> QED
        BY <1>t, <1>1, <2>3, <3>1, <4>1 DEF LoggersAreConfigs, VariablesStay
    <3>2. CASE call[u].op # "set"
      BY <1>1, <2>3, <3>2 DEF CallsBegin, VariablesStay
    <3> QED
      BY <3>1, <3>2
  <2> QED
    BY <2>1, <2>2, <2>3 DEF LoggersAreConfigs
<1>5. Faithful'
  <2> SUFFICES ASSUME NEW m \in VarIds', Manager \in store'[m].listeners
               PROVE  /\ Setting(m)' = {} => InForce(store[m].val)'
                      /\ \A u \in Threads :
                            call'[u].op = "set" /\ call'[u].var = m /\ call'[u].alone
                                /\ ~terminated' =>
                              IF Manager \notin call'[u].todo THEN InForce(call[u].val)'
                              ELSE IF job'[u].at = "out" THEN InForce(store[m].val)'
                              ELSE InProgress(u)'
    BY DEF Faithful
  <2>1. m \in VarIds /\ Manager \in store[m].listeners /\ store'[m] = store[m]
    BY <1>1 DEF VariablesStay
  <2>2. Setting(m) = {} => InForce(store[m].val)'
    <3>1. Setting(m) = {} => InForce(store[m].val)
      BY <1>t, <2>1 DEF Faithful
    <3>2. ASSUME NEW x, x = store[m].val, InForce(x) PROVE InForce(store[m].val)'
      BY <1>2, <2>1, <3>2, SameForce DEF InForce, Holds, MadeFrom
    <3> QED
      BY <3>1, <3>2
  <2>3. Setting(m)' = {} => Setting(m) = {}
    BY <1>1 DEF Setting, CallsGoOn
  <2>4. ASSUME NEW u \in Threads, call'[u].op = "set", call'[u].var = m, call'[u].alone,
               ~terminated'
        PROVE  IF Manager \notin call'[u].todo THEN InForce(call[u].val)'
               ELSE IF job'[u].at = "out" THEN InForce(store[m].val)'
               ELSE InProgress(u)'
    <3>1. CASE call[u].op = "set"
      <4>1. /\ call[u].var = m /\ call'[u].val = call[u].val /\ call[u].alone
            /\ Manager \in call'[u].todo <=> Manager \in call[u].todo
        BY <1>1, <2>4, <3>1 DEF CallsGoOn
      <4>2. IF Manager \notin call[u].todo THEN InForce(call[u].val)
            ELSE IF job[u].at = "out" THEN InForce(store[m].val)
            ELSE InProgress(u)
        BY <1>t, <1>2, <2>1, <2>4, <3>1, <4>1 DEF Faithful
      <4>3. InForce(call[u].val) => InForce(call[u].val)'
        BY <1>2, <4>1 DEF InForce, Holds, MadeFrom
      <4>4. InForce(store[m].val) => InForce(store[m].val)'
        BY <1>2, <2>1 DEF InForce, Holds, MadeFrom
      <4> QED
        BY <1>2, <4>1, <4>2, <4>3, <4>4, SameForce
    <3>2. CASE call[u].op # "set"
      <4>1. /\ Setting(m) = {} /\ job[u].at = "out"
            /\ Manager \in call'[u].todo \/ call'[u].val = store[m].val
        BY <1>t, <1>1, <2>1, <2>4, <3>2 DEF CallsBegin, JobInCall
      <4>2. call'[u].val = store[m].val => InForce(call[u].val)'
        BY <2>1, <2>2, <4>1 DEF InForce
      <4> QED
        BY <1>2, <2>2, <4>1, <4>2
    <3> QED
      BY <3>1, <3>2
  <2> QED
    BY <2>2, <2>3, <2>4
<1> QED
  BY <1>3, <1>4, <1>5


\* The variable is assigned: what was set alone is in force, and what several
\* threads have set is excused.
LEMMA AssignLoggersStep ==
  ASSUME ManagerInv, NEW t \in Threads, AssignLoggers(t), ~terminated
  PROVE  JobInv' /\ LoggersAreConfigs' /\ Faithful' /\ CompleteStays
<1>t. /\ Inv /\ JobInCall /\ LoggersAreConfigs /\ Faithful /\ Types /\ CallHasObject
      /\ AloneIsAlone
  BY DEF ManagerInv, Inv
<1> DEFINE v == call[t].var
           x == call[t].val
<1>1. /\ call[t].op = "set" /\ call[t].todo = {} /\ call' = [call EXCEPT ![t] = Idle]
      /\ store' = [store EXCEPT ![v].val = x]
      /\ excused' = IF ~call[t].alone /\ store[v].name = LoggersTag THEN LoggerNames ELSE excused
      /\ UNCHANGED <<loggers_, logger, job, ptr, joining, terminated, complete>>
  BY DEF AssignLoggers, Assign
<1>2. v \in VarIds /\ x \in AllValues
  BY <1>t, <1>1 DEF CallHasObject
<1>3. call'[t].op = "idle" /\ \A u \in Threads \ {t} : call'[u] = call[u]
  BY <1>t, <1>1 DEF Types, Idle
<1> HIDE DEF v, x
<1>4. /\ VarIds' = VarIds /\ store'[v].val = x
      /\ \A w \in VarIds \ {v} : store'[w] = store[w]
      /\ \A w \in VarIds : /\ store'[w].listeners = store[w].listeners
                           /\ store'[w].name = store[w].name
  <2>1. store[v] \in Variables
    BY <1>t, <1>2, Stored
  <2>2. store' = [store EXCEPT ![v] = [store[v] EXCEPT !.val = x]]
    BY <1>1
  <2>3. [store[v] EXCEPT !.val = x] \in Variables
    BY <1>2, <2>1 DEF Variables
  <2>4. /\ VarIds' = VarIds /\ store'[v] = [store[v] EXCEPT !.val = x]
        /\ \A w \in VarIds \ {v} : store'[w] = store[w]
    BY <1>t, <1>2, <2>2, <2>3, Replaced
  <2> QED
    BY <2>1, <2>4 DEF Variables
<1>5. job[t].at = "out"
  BY <1>t, <1>1 DEF JobInCall
<1>6. JobInv' /\ CompleteStays
  BY <1>t, <1>1, <1>3, <1>5, JobsGoOn DEF JobInCall
<1>7. LoggersAreConfigs'
  <2>1. store[v].name = LoggersTag => x \in SUBSET LoggerConfigs
    BY <1>t, <1>1 DEF LoggersAreConfigs, v, x
  <2>2. \A m \in VarIds' : /\ Manager \in store'[m].listeners => store'[m].name = LoggersTag
                           /\ store'[m].name = LoggersTag => store'[m].val \in SUBSET LoggerConfigs
    BY <1>t, <1>4, <2>1 DEF LoggersAreConfigs
  <2>3. \A u \in Threads : call'[u].op = "set" =>
           u # t /\ call'[u] = call[u] /\ call[u].var \in VarIds
    BY <1>t, <1>3 DEF CallHasObject
  <2>4. \A u \in Threads : call'[u].op = "set" /\ store'[call'[u].var].name = LoggersTag =>
           call'[u].val \in SUBSET LoggerConfigs
    BY <1>t, <1>4, <2>3 DEF LoggersAreConfigs
  <2> QED
    BY <2>2, <2>4 DEF LoggersAreConfigs
<1>8. Faithful'
  <2> SUFFICES ASSUME NEW m \in VarIds, Manager \in store[m].listeners
               PROVE  /\ Setting(m)' = {} => InForce(store[m].val)'
                      /\ \A u \in Threads :
                            call'[u].op = "set" /\ call'[u].var = m /\ call'[u].alone =>
                              IF Manager \notin call'[u].todo THEN InForce(call[u].val)'
                              ELSE IF job[u].at = "out" THEN InForce(store[m].val)'
                              ELSE InProgress(u)'
    BY <1>1, <1>4 DEF Faithful
  <2>1. store[m].name = LoggersTag
    BY <1>t DEF LoggersAreConfigs
  <2>2. CASE excused' = LoggerNames
    <3>1. store'[m].val \in SUBSET LoggerConfigs
      BY <1>4, <1>7, <2>1 DEF LoggersAreConfigs
    <3>2. InForce(store[m].val)'
      BY <2>2, <3>1, ConfigHas DEF InForce
    <3>3. ASSUME NEW u \in Threads, call'[u].op = "set", call'[u].var = m
          PROVE  InForce(call[u].val)' /\ InProgress(u)'
      <4>1. call'[u].val \in SUBSET LoggerConfigs
        BY <1>4, <1>7, <2>1, <3>3 DEF LoggersAreConfigs
      <4> QED
        BY <2>2, <4>1, ConfigHas DEF InForce, InProgress
    <3> QED
      BY <3>2, <3>3
  <2>3. CASE excused' = excused /\ m = v /\ call[t].alone
    <3>1. InForce(x)
      BY <1>t, <1>1, <2>3 DEF Faithful, v, x
    <3>2. InForce(store[m].val)'
      BY <1>1, <1>4, <2>3, <3>1 DEF InForce, Holds, MadeFrom
    <3>3. \A u \in Threads : ~(call'[u].op = "set" /\ call'[u].var = m)
      BY <1>t, <1>1, <1>3, <2>3 DEF AloneIsAlone, v
    <3> QED
      BY <3>2, <3>3
  <2>4. CASE excused' = excused /\ m # v
    <3>1. store'[m] = store[m]
      BY <1>4, <2>4
    <3>2. Setting(m)' = {} => Setting(m) = {}
      BY <1>1, <1>3, <2>4 DEF Setting, v
    <3>3. InForce(store[m].val) => InForce(store[m].val)'
      BY <1>1, <2>4, <3>1 DEF InForce, Holds, MadeFrom
    <3>4. ASSUME NEW u \in Threads, call'[u].op = "set", call'[u].var = m, call'[u].alone
          PROVE  IF Manager \notin call'[u].todo THEN InForce(call[u].val)'
                 ELSE IF job[u].at = "out" THEN InForce(store[m].val)'
                 ELSE InProgress(u)'
      <4>1. u # t /\ call'[u] = call[u]
        BY <1>3, <3>4
      <4>2. IF Manager \notin call[u].todo THEN InForce(call[u].val)
            ELSE IF job[u].at = "out" THEN InForce(store[m].val)
            ELSE InProgress(u)
        BY <1>t, <3>4, <4>1 DEF Faithful
      <4>3. InForce(call[u].val) => InForce(call[u].val)'
        BY <1>1, <2>4, <4>1 DEF InForce, Holds, MadeFrom
      <4>4. InProgress(u) => InProgress(u)'
        BY <1>1, <2>4, <4>1, SameForce
      <4> QED
        BY <3>3, <4>1, <4>2, <4>3, <4>4
    <3>5. Setting(m) = {} => InForce(store[m].val)
      BY <1>t DEF Faithful
    <3> QED
      BY <3>2, <3>3, <3>4, <3>5
  <2> QED
    BY <1>1, <2>1, <2>2, <2>3, <2>4
<1> QED
  BY <1>6, <1>7, <1>8

\* InitConfig adds the listener, and excuses what was configured before.
LEMMA InitConfigStep ==
  ASSUME ManagerInv, NEW t \in Threads, NEW v \in held[t], InitConfig(t, v)
  PROVE  JobInv' /\ LoggersAreConfigs' /\ Faithful' /\ CompleteStays
<1>t. /\ Inv /\ JobInCall /\ LoggersAreConfigs /\ Types /\ CallHasObject
  BY DEF ManagerInv, Inv
<1>1. /\ v \in VarIds /\ store[v].name = LoggersTag
      /\ \A w \in VarIds : Manager \notin store[w].listeners
      /\ store' = [store EXCEPT ![v].listeners = @ \cup {Manager}]
      /\ call' = [u \in Threads |-> IF u \in Setting(v)
                                    THEN [call[u] EXCEPT !.alone = FALSE] ELSE call[u]]
      /\ excused' = {c.name : c \in store[v].val}
      /\ UNCHANGED <<loggers_, logger, job, ptr, joining, terminated, complete>>
  BY DEF InitConfig, AddListener
<1>2. \A u \in Threads :
         /\ call'[u].op = call[u].op /\ call'[u].var = call[u].var
         /\ call'[u].val = call[u].val /\ call'[u].todo = call[u].todo
         /\ call[u].op = "set" /\ call[u].var = v => ~call'[u].alone
  <2> SUFFICES ASSUME NEW u \in Threads
               PROVE  /\ call'[u].op = call[u].op /\ call'[u].var = call[u].var
                      /\ call'[u].val = call[u].val /\ call'[u].todo = call[u].todo
                      /\ call[u].op = "set" /\ call[u].var = v => ~call'[u].alone
    OBVIOUS
  <2>1. call[u] \in Calling
    BY <1>t DEF Types
  <2>2. CASE u \in Setting(v)
    <3>1. call'[u] = [call[u] EXCEPT !.alone = FALSE]
      BY <1>1, <2>2
    <3> QED
      BY <2>1, <3>1 DEF Calling
  <2>3. CASE u \notin Setting(v)
    BY <1>1, <2>3 DEF Setting
  <2> QED
    BY <2>2, <2>3
<1>3. /\ VarIds' = VarIds
      /\ \A w \in VarIds \ {v} : store'[w] = store[w]
      /\ \A w \in VarIds : store'[w].val = store[w].val /\ store'[w].name = store[w].name
  <2>1. store[v] \in Variables /\ Manager \in Listeners
    BY <1>t, <1>1, Stored, ManagerAssumption
  <2>2. store' = [store EXCEPT ![v] = [store[v] EXCEPT !.listeners = @ \cup {Manager}]]
    BY <1>1
  <2>3. [store[v] EXCEPT !.listeners = @ \cup {Manager}] \in Variables
    BY <2>1 DEF Variables
  <2>4. /\ VarIds' = VarIds /\ store'[v] = [store[v] EXCEPT !.listeners = @ \cup {Manager}]
        /\ \A w \in VarIds \ {v} : store'[w] = store[w]
    BY <1>t, <1>1, <2>2, <2>3, Replaced
  <2> QED
    BY <2>1, <2>4 DEF Variables
<1>4. JobInv' /\ CompleteStays
  BY <1>t, <1>1, <1>2, JobsGoOn DEF JobInCall
<1>5. LoggersAreConfigs'
  <2>1. \A u \in Threads : call[u].op = "set" => call[u].var \in VarIds
    BY <1>t DEF CallHasObject
  <2> QED
    BY <1>t, <1>1, <1>2, <1>3, <2>1 DEF LoggersAreConfigs
<1>6. Faithful'
  <2>1. \A m \in VarIds' : Manager \in store'[m].listeners => m = v
    BY <1>1, <1>3
  <2>2. InForce(store[v].val)'
    BY <1>1, <1>3 DEF InForce
  <2> QED
    BY <1>2, <2>1, <2>2 DEF Faithful
<1> QED
  BY <1>4, <1>5, <1>6

\* The listener returns: what it went through is in force.
LEMMA ReturnStep ==
  ASSUME ManagerInv, NEW t \in Threads, Return(t)
  PROVE  JobInv' /\ LoggersAreConfigs' /\ Faithful' /\ CompleteStays
<1>t. /\ Inv /\ ManagerTypes /\ JobInCall /\ JobOfValue /\ JobHasLogger /\ TableHasLoggers
      /\ UsersHaveLoggers /\ ReferredIsOpen /\ CompleteIsLeft /\ LoggersAreConfigs /\ Faithful
      /\ Types
  BY DEF ManagerInv, Inv
<1>1. /\ job[t].at = "next" /\ job[t].cfgs = {} /\ ~terminated
      /\ call' = [call EXCEPT ![t].todo = @ \ {Manager}] /\ store' = store
      /\ job' = [job EXCEPT ![t] = NoJob] /\ excused' = excused \cup Twice(call[t].val)
      /\ UNCHANGED <<loggers_, logger, ptr, joining, terminated, complete>>
  BY DEF Return, InJob, Told
<1>2. /\ \A u \in Threads \ {t} : call'[u] = call[u]
      /\ call'[t].op = call[t].op /\ call'[t].var = call[t].var /\ call'[t].val = call[t].val
      /\ call'[t].todo = call[t].todo \ {Manager} /\ call'[t].alone = call[t].alone
  BY <1>t, <1>1 DEF Types, Calling
<1>3. NoJob \in Jobs /\ NoJob.at = "out" /\ NoJob.logger = NoLogger
  <2>1. <<>> \in Seq(AppenderConfigs) /\ 0 \in Nat
    OBVIOUS
  <2> QED
    BY <2>1 DEF NoJob, Jobs, NoLogger
<1>4. /\ job' \in [Threads -> Jobs] /\ job'[t] = NoJob
      /\ \A u \in Threads \ {t} : job'[u] = job[u]
  BY <1>t, <1>1, <1>3, JobSet
<1>5. LoggerIds' = LoggerIds /\ VarIds' = VarIds /\ job[t].logger = NoLogger
  BY <1>t, <1>1 DEF LoggerIds, VarIds, JobHasLogger
<1>6. \A u \in Threads : job'[u].logger = job[u].logger
  BY <1>3, <1>4, <1>5
<1>7. ManagerTypes'
  BY <1>t, <1>1, <1>4 DEF ManagerTypes
<1>8. RefInv'
  <2>1. JobHasLogger'
    BY <1>t, <1>1, <1>3, <1>4, <1>5 DEF JobHasLogger
  <2>2. TableHasLoggers' /\ UsersHaveLoggers' /\ ReferredIsOpen'
    BY <1>t, <1>1, <1>5, <1>6 DEF TableHasLoggers, UsersHaveLoggers, ReferredIsOpen
  <2> QED
    BY <2>1, <2>2 DEF RefInv
<1>9. JobInCall' /\ JobOfValue'
  <2>1. \A u \in Threads : job'[u].at # "out" => u # t /\ job'[u] = job[u] /\ call'[u] = call[u]
    BY <1>2, <1>3, <1>4
  <2>2. \A u \in Threads : job'[u].at \in {"find", "formatter", "clear", "add"} =>
            job'[u].at # "out"
    OBVIOUS
  <2> QED
    BY <1>t, <2>1, <2>2 DEF JobInCall, JobOfValue
<1>10. CompleteIsLeft' /\ CompleteStays
  <2>1. \A u \in Threads : job'[u].at = "find" => u # t /\ job'[u] = job[u]
    BY <1>3, <1>4
  <2> QED
    BY <1>t, <1>1, <1>5, <1>6, <2>1 DEF CompleteIsLeft, CompleteStays
<1>11. LoggersAreConfigs'
  <2>1. \A u \in Threads : call'[u].op = call[u].op /\ call'[u].var = call[u].var
                              /\ call'[u].val = call[u].val
    BY <1>2
  <2> QED
    BY <1>t, <1>1, <1>5, <2>1 DEF LoggersAreConfigs
<1>12. Faithful'
  <2>1. call[t].op = "set" /\ Manager \in call[t].todo
    BY <1>t, <1>1 DEF JobInCall
  <2>2. /\ \A m \in VarIds : Manager \in store[m].listeners => m = call[t].var
        /\ call[t].var \in VarIds /\ Manager \in store[call[t].var].listeners
        /\ \A u \in Threads :
              call[u].op = "set" /\ call[u].var = call[t].var /\ call[u].alone => u = t
    BY <1>t, <2>1, OneVariable
  <2>3. call[t].alone => InForce(call[t].val)'
    <3> SUFFICES ASSUME call[t].alone, NEW c \in call[t].val, c.name \notin excused'
                 PROVE  Holds(c)'
      BY <1>2 DEF InForce
    <3>1. InProgress(t)
      BY <1>t, <1>1, <2>1, <2>2 DEF Faithful
    <3>2. Holds(c)
      BY <1>1, <3>1 DEF InProgress
    <3> QED
      BY <1>1, <3>2 DEF Holds, MadeFrom
  <2>4. Setting(call[t].var)' # {}
    BY <1>2, <2>1 DEF Setting
  <2>5. \A u \in Threads : /\ call'[u].op = call[u].op /\ call'[u].var = call[u].var
                           /\ call'[u].alone = call[u].alone
    BY <1>2
  <2> QED
    BY <1>1, <1>2, <1>5, <2>2, <2>3, <2>4, <2>5 DEF Faithful
<1> QED
  BY <1>7, <1>8, <1>9, <1>10, <1>11, <1>12 DEF JobInv


-----------------------------------------------------------------------------
(* The table is as the variable says.                                      *)

\* Users and writers leave in force what is in force.
LEMMA OutsideFaithful ==
  ASSUME ManagerInv, UNCHANGED configVars,
         (\E t \in Threads : UserStep(t)) \/ \E o \in LoggerIds : Writer(o)
  PROVE  Faithful'
<1>t. /\ Inv /\ JobInCall /\ JobOfValue /\ JobHasLogger /\ TableHasLoggers
      /\ LoggersAreConfigs /\ Faithful
  BY DEF ManagerInv
<1>0. NoLogger \notin LoggerIds
  BY DEF ManagerInv, ManagerTypes, LoggerIds, NoLogger
<1>1. /\ ManagerTypes' /\ Gentle /\ RefInv'
      /\ UNCHANGED <<job, excused, complete, terminated>>
      /\ \A n \in LoggerNames : loggers_'[n] # loggers_[n] =>
            loggers_[n] = NoLogger /\ loggers_'[n] \notin LoggerIds
  BY UserRefs, WriterRefs
<1>2. call' = call /\ store' = store
  BY DEF configVars
<1>3. ASSUME NEW c \in LoggerConfigs, Holds(c) PROVE Holds(c)'
  <2> DEFINE p == loggers_[c.name]
  <2>1. c.name \in LoggerNames /\ p \in LoggerIds /\ loggers_'[c.name] = p /\ p # NoLogger
    BY <1>t, <1>1, <1>3, ConfigHas DEF Holds, TableHasLoggers
  <2>2. Keeps(p)
    BY <1>1, <2>1 DEF Gentle, Retires
  <2> QED
    BY <1>3, <2>1, <2>2 DEF Holds, MadeFrom, Keeps
<1>4. ASSUME NEW cfgs \in SUBSET LoggerConfigs, InForce(cfgs) PROVE InForce(cfgs)'
  BY <1>1, <1>3, <1>4 DEF InForce
<1>5. ASSUME NEW t \in Threads, job[t].at \notin {"out", "next"}, PartlyConfigured(t)
      PROVE  PartlyConfigured(t)'
  <2>1. CASE job[t].at = "find"
    BY <1>1, <2>1 DEF PartlyConfigured
  <2>2. CASE job[t].at # "find"
    <3> DEFINE o == job[t].logger
               c == job[t].cfg
    <3>1. job[t].at \in {"formatter", "clear", "add"}
      BY <1>5, <2>2, JobAt DEF ManagerInv
    <3>2. /\ o \in LoggerIds /\ o # NoLogger /\ c \in LoggerConfigs /\ c.name \in LoggerNames
      BY <1>0, <1>t, <3>1, ConfigHas DEF JobHasLogger, JobOfValue
    <3>3. Keeps(o)
      BY <1>1, <3>2 DEF Gentle, Retires
    <3>4. loggers_[c.name] = o /\ loggers_'[c.name] = o
      BY <1>1, <1>5, <2>2, <3>2 DEF PartlyConfigured
    <3> QED
      BY <1>1, <1>5, <2>2, <3>3, <3>4 DEF PartlyConfigured, Keeps
  <2> QED
    BY <2>1, <2>2
<1>6. ASSUME NEW t \in Threads, call[t].val \in SUBSET LoggerConfigs, job[t].at # "out",
             InProgress(t)
      PROVE  InProgress(t)'
  <2> SUFFICES ASSUME NEW c \in call[t].val, c.name \notin excused,
                      c.name \notin Twice(call[t].val), c \notin job[t].cfgs
               PROVE  IF job[t].at # "next" /\ c = job[t].cfg THEN PartlyConfigured(t)'
                      ELSE Holds(c)'
    BY <1>1, <1>2 DEF InProgress
  <2>1. IF job[t].at # "next" /\ c = job[t].cfg THEN PartlyConfigured(t) ELSE Holds(c)
    BY <1>6 DEF InProgress
  <2> QED
    BY <1>3, <1>5, <1>6, <2>1
<1>7. ASSUME NEW m \in VarIds, Manager \in store[m].listeners
      PROVE  /\ Setting(m) = {} => InForce(store[m].val)'
             /\ \A t \in Threads :
                   call[t].op = "set" /\ call[t].var = m /\ call[t].alone /\ ~terminated =>
                       IF Manager \notin call[t].todo THEN InForce(call[t].val)'
                       ELSE IF job[t].at = "out" THEN InForce(store[m].val)'
                       ELSE InProgress(t)'
  <2>1. /\ Setting(m) = {} => InForce(store[m].val)
        /\ \A t \in Threads :
              call[t].op = "set" /\ call[t].var = m /\ call[t].alone /\ ~terminated =>
                  IF Manager \notin call[t].todo THEN InForce(call[t].val)
                  ELSE IF job[t].at = "out" THEN InForce(store[m].val)
                  ELSE InProgress(t)
    BY <1>t, <1>7 DEF Faithful
  <2>2. store[m].val \in SUBSET LoggerConfigs
    BY <1>t, <1>7 DEF LoggersAreConfigs
  <2>3. InForce(store[m].val) => InForce(store[m].val)'
    BY <1>1, <1>2, <1>3, <2>2 DEF InForce
  <2>4. ASSUME NEW t \in Threads, call[t].op = "set", call[t].var = m
        PROVE  /\ call[t].val \in SUBSET LoggerConfigs
               /\ InForce(call[t].val) => InForce(call[t].val)'
    <3>1. call[t].val \in SUBSET LoggerConfigs
      BY <1>t, <1>7, <2>4 DEF LoggersAreConfigs
    <3> QED
      BY <1>1, <1>2, <1>3, <3>1 DEF InForce
  <2> QED
    BY <1>6, <2>1, <2>3, <2>4
<1>8. VarIds' = VarIds /\ \A m : Setting(m)' = Setting(m)
  BY <1>2 DEF VarIds, Setting
<1> QED
  BY <1>1, <1>2, <1>7, <1>8 DEF Faithful

\* A listener at work is in the only call that matters.
LEMMA OneJob ==
  ASSUME ManagerInv, NEW t \in Threads, call[t].op = "set", Manager \in call[t].todo,
         UNCHANGED configVars, job'[t].at # "out",
         call[t].alone /\ ~terminated' => InProgress(t)'
  PROVE  Faithful'
<1>1. /\ \A m \in VarIds : Manager \in store[m].listeners => m = call[t].var
      /\ Setting(call[t].var) # {}
      /\ \A u \in Threads :
            call[u].op = "set" /\ call[u].var = call[t].var /\ call[u].alone => u = t
  BY OneVariable DEF ManagerInv
<1>2. call' = call /\ store' = store /\ VarIds' = VarIds
  BY DEF configVars, VarIds
<1>3. \A m : Setting(m)' = Setting(m)
  BY <1>2 DEF Setting
<1> QED
  BY <1>1, <1>2, <1>3 DEF Faithful

\* Of a name that is configured once, there is one configuration.
LEMMA OnceNamed ==
  ASSUME NEW V, NEW c \in V, NEW d \in V, d.name \notin Twice(V), c # d
  PROVE  c.name # d.name
  BY DEF Twice

\* What is in force stays so while its logger does.
LEMMA StillHolds ==
  ASSUME NEW d, Holds(d), loggers_'[d.name] = loggers_[d.name],
         logger'[loggers_[d.name]] = logger[loggers_[d.name]]
  PROVE  Holds(d)'
  BY DEF Holds, MadeFrom

\* The listener begins with what is new in the value.
LEMMA ListenFaithful ==
  ASSUME ManagerInv, NEW t \in Threads, Listen(t)
  PROVE  Faithful'
<1>1. /\ call[t].op = "set" /\ Manager \in call[t].todo /\ job[t].at = "out" /\ ~terminated
      /\ job' = [job EXCEPT ![t] = [NoJob EXCEPT !.at = "next",
                               !.cfgs = Changed(store[call[t].var].val, call[t].val)]]
      /\ UNCHANGED <<configVars, loggers_, logger, terminated, excused>>
  BY DEF Listen, InJob
<1>2. job'[t].at = "next" /\ job'[t].cfgs = call[t].val \ store[call[t].var].val
  BY <1>1 DEF ManagerInv, ManagerTypes, NoJob, Changed
<1>3. ASSUME call[t].alone PROVE InProgress(t)'
  <2>1. InForce(store[call[t].var].val)
    <3>1. call[t].var \in VarIds /\ Manager \in store[call[t].var].listeners
      BY <1>1, OneVariable DEF ManagerInv
    <3> QED
      BY <1>1, <1>3, <3>1 DEF ManagerInv, Faithful
  <2>2. call' = call
    BY <1>1 DEF configVars
  <2>3. \A c \in call[t].val : c.name \notin excused /\ c \notin job'[t].cfgs => Holds(c)'
    BY <1>1, <1>2, <2>1 DEF InForce, Holds, MadeFrom
  <2> QED
    BY <1>1, <1>2, <2>2, <2>3 DEF InProgress
<1> QED
  BY <1>1, <1>2, <1>3, OneJob

\* The old logger of a configuration leaves the table, and no other does.
LEMMA RemoveFaithful ==
  ASSUME ManagerInv, NEW t \in Threads, NEW c \in job[t].cfgs, RemoveLogger(t, c)
  PROVE  Faithful'
<1>t. /\ ManagerTypes /\ JobInCall /\ JobOfValue /\ TableHasLoggers
  BY DEF ManagerInv
<1> DEFINE o == loggers_[c.name]
           j == [job[t] EXCEPT !.at = "find", !.cfg = c, !.cfgs = @ \ {c}]
<1>1. /\ job[t].at = "next" /\ ReleasedBy(t, o) /\ ~terminated
      /\ loggers_' = [loggers_ EXCEPT ![c.name] = NoLogger]
      /\ UNCHANGED <<configVars, terminated, excused>>
  BY DEF RemoveLogger, InJob
<1>2. call[t].op = "set" /\ Manager \in call[t].todo /\ call' = call
  BY <1>t, <1>1 DEF JobInCall, configVars
<1>3. /\ c \in LoggerConfigs /\ c.name \in LoggerNames /\ c \in call[t].val
  BY <1>t, <1>1, JobAt, ConfigHas DEF JobOfValue
<1>4. job'[t].at = "find" /\ job'[t].cfg = c /\ job'[t].cfgs = job[t].cfgs \ {c}
  BY <1>t DEF RemoveLogger, ManagerTypes, Jobs
<1>5. o = NoLogger \/ o \in LoggerIds
  BY <1>t, <1>3 DEF TableHasLoggers
<1>6. \A p \in LoggerIds : p # o => logger'[p] = logger[p]
  <2> HIDE DEF o
  <2> QED
    BY <1>t, <1>1, <1>5, Released
<1>7. ASSUME call[t].alone PROVE InProgress(t)'
  <2> SUFFICES ASSUME NEW d \in call[t].val, d.name \notin excused,
                      d.name \notin Twice(call[t].val), d \notin job'[t].cfgs
               PROVE  IF job'[t].at # "next" /\ d = job'[t].cfg THEN PartlyConfigured(t)'
                      ELSE Holds(d)'
    BY <1>1, <1>2 DEF InProgress
  <2>1. CASE d = c
    BY <1>4, <2>1 DEF PartlyConfigured
  <2>2. CASE d # c
    <3>1. d \notin job[t].cfgs /\ d.name # c.name
      BY <1>3, <1>4, <2>2, OnceNamed
    <3>2. InProgress(t)
      BY <1>1, <1>2, <1>7, OneVariable DEF ManagerInv, Faithful
    <3>3. Holds(d)
      BY <1>1, <3>1, <3>2 DEF InProgress
    <3>4. d \in LoggerConfigs /\ d.name \in LoggerNames
      <4>1. call[t].val \in SUBSET LoggerConfigs
        BY <1>2, OneVariable DEF ManagerInv, LoggersAreConfigs
      <4> QED
        BY <4>1, ConfigHas
    <3>5. loggers_'[d.name] = loggers_[d.name]
      BY <1>1, <3>1
    <3>6. loggers_[d.name] \in LoggerIds /\ loggers_[d.name] # o
      BY <1>t, <1>3, <1>5, <3>1, <3>3, <3>4 DEF Holds, TableHasLoggers
    <3>7. Holds(d)'
      BY <1>6, <3>3, <3>5, <3>6, StillHolds
    <3> QED
      BY <1>4, <2>2, <3>7
  <2> QED
    BY <2>1, <2>2
<1> QED
  BY <1>1, <1>2, <1>4, <1>7, OneJob


\* A configuration that a listener at work, alone, has begun with or is
\* through with.
LEMMA AtWork ==
  ASSUME ManagerInv, NEW t \in Threads, job[t].at \notin {"out", "next"}, ~terminated,
         call[t].alone, NEW d \in call[t].val, d.name \notin Twice(call[t].val),
         d \notin job[t].cfgs
  PROVE  /\ d \in LoggerConfigs /\ d.name \in LoggerNames
         /\ d.name \notin excused => IF d = job[t].cfg THEN PartlyConfigured(t) ELSE Holds(d)
         /\ Holds(d) => /\ loggers_[d.name] \in LoggerIds
                        /\ logger[loggers_[d.name]].name = d.name
         /\ d # job[t].cfg => d.name # job[t].cfg.name
<1>1. call[t].op = "set" /\ Manager \in call[t].todo
  BY DEF ManagerInv, JobInCall
<1>2. d \in LoggerConfigs /\ d.name \in LoggerNames
  <2>1. call[t].val \in SUBSET LoggerConfigs
    BY <1>1, OneVariable DEF ManagerInv, LoggersAreConfigs
  <2> QED
    BY <2>1, ConfigHas
<1>3. InProgress(t)
  BY <1>1, OneVariable DEF ManagerInv, Faithful
<1>4. d.name \notin excused => IF d = job[t].cfg THEN PartlyConfigured(t) ELSE Holds(d)
  BY <1>3 DEF InProgress
<1>5. Holds(d) => loggers_[d.name] \in LoggerIds /\ logger[loggers_[d.name]].name = d.name
  BY <1>2 DEF ManagerInv, Holds, TableHasLoggers
<1>6. job[t].cfg \in call[t].val
  BY JobAt DEF ManagerInv, JobOfValue
<1> QED
  BY <1>2, <1>4, <1>5, <1>6, OnceNamed

\* A logger that the listener has just created is as new ones are, and one
\* that a user has created is excused.
LEMMA FindFaithful ==
  ASSUME ManagerInv, NEW t \in Threads, FindNewLogger(t)
  PROVE  Faithful'
<1>t. /\ ManagerTypes /\ JobInCall /\ JobOfValue /\ TableHasLoggers
  BY DEF ManagerInv
<1> DEFINE c == job[t].cfg
           n == c.name
           o == loggers_'[n]
<1>1. /\ job[t].at = "find" /\ Found(n, c.level, c.capacity) /\ ~terminated
      /\ excused' = IF loggers_[n] = NoLogger THEN excused \ {n} ELSE excused \cup {n}
      /\ UNCHANGED <<configVars, terminated>>
  BY DEF FindNewLogger, InJob
<1>2. call[t].op = "set" /\ Manager \in call[t].todo /\ call' = call
  BY <1>t, <1>1 DEF JobInCall, configVars
<1>3. /\ c \in LoggerConfigs /\ n \in LoggerNames /\ c.level \in Levels \cup {DefaultLevel}
      /\ c.capacity \in Nat
  BY <1>t, <1>1, ConfigHas DEF JobOfValue
<1>4. /\ job'[t].at = "formatter" /\ job'[t].cfg = c /\ job'[t].cfgs = job[t].cfgs
      /\ job'[t].logger = o
  BY <1>t DEF FindNewLogger, ManagerTypes, Jobs
<1> HIDE DEF n, c
<1>5. /\ \A p \in LoggerIds : logger'[p] = logger[p]
      /\ \A m \in LoggerNames \ {n} : loggers_'[m] = loggers_[m]
      /\ loggers_[n] = NoLogger =>
           /\ logger'[o].level = c.level /\ logger'[o].capacity = c.capacity
           /\ logger'[o].formatter = Empty
  BY <1>t, <1>1, <1>3, Finds
<1> HIDE DEF o
<1>6. ASSUME call[t].alone PROVE InProgress(t)'
  <2> SUFFICES ASSUME NEW d \in call[t].val, d.name \notin excused',
                      d.name \notin Twice(call[t].val), d \notin job[t].cfgs
               PROVE  IF d = c THEN PartlyConfigured(t)' ELSE Holds(d)'
    BY <1>1, <1>2, <1>4 DEF InProgress
  <2>1. CASE d = c
    <3>1. loggers_[n] = NoLogger
      BY <1>1, <2>1 DEF n
    <3> QED
      BY <1>4, <1>5, <2>1, <3>1 DEF PartlyConfigured, o, n
  <2>2. CASE d # c
    <3>1. d.name # n /\ d.name \in LoggerNames
      BY <1>1, <1>6, <2>2, AtWork DEF n, c
    <3>2. Holds(d) /\ loggers_[d.name] \in LoggerIds
      BY <1>1, <1>6, <2>2, <3>1, AtWork DEF n, c
    <3>3. Holds(d)'
      BY <1>5, <3>1, <3>2, StillHolds
    <3> QED
      BY <2>2, <3>3
  <2> QED
    BY <2>1, <2>2
<1> QED
  BY <1>1, <1>2, <1>4, <1>6, OneJob

\* A step that changes the logger of the present configuration leaves the
\* others in force.
LEMMA ReconfigureFaithful ==
  ASSUME ManagerInv, NEW t \in Threads, job[t].at \in {"formatter", "clear", "add"},
         ~terminated, UNCHANGED <<configVars, loggers_, excused>>,
         job'[t].at \in {"formatter", "clear", "add"},
         job'[t].cfg = job[t].cfg, job'[t].cfgs = job[t].cfgs,
         \A p \in LoggerIds : p # job[t].logger => logger'[p] = logger[p],
         PartlyConfigured(t) /\ ~terminated' => PartlyConfigured(t)'
  PROVE  Faithful'
<1>1. call[t].op = "set" /\ Manager \in call[t].todo /\ call' = call
  BY DEF ManagerInv, JobInCall, configVars
<1>2. ASSUME call[t].alone, ~terminated' PROVE InProgress(t)'
  <2> SUFFICES ASSUME NEW d \in call[t].val, d.name \notin excused,
                      d.name \notin Twice(call[t].val), d \notin job[t].cfgs
               PROVE  IF d = job[t].cfg THEN PartlyConfigured(t)' ELSE Holds(d)'
    BY <1>1 DEF InProgress
  <2>1. CASE d = job[t].cfg
    BY <1>2, <2>1, AtWork
  <2>2. CASE d # job[t].cfg
    <3>1. /\ Holds(d) /\ loggers_[d.name] \in LoggerIds
          /\ logger[loggers_[d.name]].name = d.name /\ d.name # job[t].cfg.name
      BY <1>2, <2>2, AtWork
    <3>2. logger[job[t].logger].name = job[t].cfg.name
      BY DEF ManagerInv, JobHasLogger
    <3>3. Holds(d)'
      BY <3>1, <3>2, StillHolds
    <3> QED
      BY <2>2, <3>3
  <2> QED
    BY <2>1, <2>2
<1> QED
  BY <1>1, <1>2, OneJob

\* One logger is replaced, whatever by.
LEMMA LoggerReplaced ==
  ASSUME ManagerTypes, NEW o \in LoggerIds, NEW r, logger' = [logger EXCEPT ![o] = r]
  PROVE  logger'[o] = r /\ \A p \in LoggerIds : p # o => logger'[p] = logger[p]
  BY DEF ManagerTypes, LoggerIds

\* Of all the appenders, some are made with pattern f and the others are left.
Divided(made, left, all, f) ==
    /\ made \in Seq(AppenderConfigs) /\ left \in Seq(AppenderConfigs)
    /\ all \in Seq(AppenderConfigs) /\ Len(made) + Len(left) = Len(all)
    /\ \A i \in 1 .. Len(made) : made[i] = NewAppender(all[i].type, all[i].file, f)
    /\ \A i \in 1 .. Len(left) : left[i] = all[Len(made) + i]

\* One more appender is made from the head of those that are left.
LEMMA OneMore ==
  ASSUME NEW made, NEW left, NEW all, NEW f, Divided(made, left, all, f), left # <<>>,
         NEW a \in AppenderConfigs, a = NewAppender(Head(left).type, Head(left).file, f)
  PROVE  Divided(Append(made, a), Tail(left), all, f)
<1>0. /\ made \in Seq(AppenderConfigs) /\ left \in Seq(AppenderConfigs)
      /\ all \in Seq(AppenderConfigs) /\ Len(made) + Len(left) = Len(all)
      /\ \A i \in 1 .. Len(made) : made[i] = NewAppender(all[i].type, all[i].file, f)
      /\ \A i \in 1 .. Len(left) : left[i] = all[Len(made) + i]
  BY DEF Divided
<1>1. /\ Len(made) \in Nat /\ Len(left) \in Nat /\ Len(left) > 0 /\ Head(left) = left[1]
      /\ Len(Tail(left)) = Len(left) - 1 /\ Len(Append(made, a)) = Len(made) + 1
      /\ \A i \in 1 .. Len(left) - 1 : Tail(left)[i] = left[i + 1]
      /\ \A i \in 1 .. Len(made) : Append(made, a)[i] = made[i]
      /\ Append(made, a)[Len(made) + 1] = a
      /\ Append(made, a) \in Seq(AppenderConfigs) /\ Tail(left) \in Seq(AppenderConfigs)
  BY <1>0
<1>2. Head(left) = all[Len(made) + 1]
  BY <1>0, <1>1
<1>3. \A i \in 1 .. Len(Append(made, a)) :
         Append(made, a)[i] = NewAppender(all[i].type, all[i].file, f)
  <2> TAKE i \in 1 .. Len(Append(made, a))
  <2>1. i \in 1 .. Len(made) \/ i = Len(made) + 1
    BY <1>1
  <2> QED
    BY <1>0, <1>1, <1>2, <2>1
<1>4. \A i \in 1 .. Len(Tail(left)) : Tail(left)[i] = all[Len(Append(made, a)) + i]
  <2> TAKE i \in 1 .. Len(Tail(left))
  <2>1. i + 1 \in 1 .. Len(left) /\ Len(made) + (i + 1) = Len(Append(made, a)) + i
    BY <1>1
  <2> QED
    BY <1>0, <1>1, <2>1
<1> QED
  BY <1>0, <1>1, <1>3, <1>4 DEF Divided

\* The pattern is set, the appenders are cleared, and those of the
\* configuration are added one by one.
LEMMA ChangeFaithful ==
  ASSUME ManagerInv, NEW t \in Threads,
         SetDefaultFormatter(t) \/ ClearAppenders(t) \/ AddAppender(t)
  PROVE  Faithful'
<1>t. ManagerTypes /\ JobOfValue /\ JobHasLogger
  BY DEF ManagerInv
<1> DEFINE o == job[t].logger
           c == job[t].cfg
<1>1. job[t].at \in {"formatter", "clear", "add"} /\ ~terminated
  BY DEF SetDefaultFormatter, ClearAppenders, AddAppender, InJob
<1>2. /\ o \in LoggerIds /\ logger[o] \in LoggerRecords /\ c \in LoggerConfigs
      /\ c.appenders \in Seq(AppenderConfigs) /\ logger[o].appenders \in Seq(AppenderConfigs)
  <2>1. o \in LoggerIds /\ c \in LoggerConfigs
    BY <1>t, <1>1 DEF JobHasLogger, JobOfValue
  <2> QED
    BY <1>t, <2>1, LoggerAt, ConfigHas DEF LoggerRecords
<1>3. job[t] \in Jobs /\ job[t].left \in Seq(AppenderConfigs) /\ job \in [Threads -> Jobs]
  BY <1>t, JobAt DEF ManagerTypes
<1>4. UNCHANGED <<configVars, loggers_, excused>>
  BY DEF SetDefaultFormatter, ClearAppenders, AddAppender
<1>5. CASE SetDefaultFormatter(t)
  <2>1. /\ job[t].at = "formatter" /\ job' = [job EXCEPT ![t].at = "clear"]
        /\ IF c.formatter = Empty THEN UNCHANGED logger
           ELSE IF c.formatter \in BadPatterns THEN terminated' = TRUE /\ UNCHANGED logger
           ELSE logger' = [logger EXCEPT ![o].formatter = c.formatter,
                              ![o].appenders = SetFormatter(@, c.formatter)]
    BY <1>5 DEF SetDefaultFormatter, InJob
  <2>2. /\ job'[t].at = "clear" /\ job'[t].cfg = c /\ job'[t].cfgs = job[t].cfgs
        /\ job'[t].logger = o
    BY <1>3, <2>1 DEF Jobs
  <2>3. \A p \in LoggerIds : p # o => logger'[p] = logger[p]
    BY <1>t, <2>1 DEF ManagerTypes, LoggerIds
  <2>4. ASSUME PartlyConfigured(t), ~terminated' PROVE PartlyConfigured(t)'
    <3>1. /\ loggers_[c.name] = o /\ logger[o].level = c.level
          /\ logger[o].capacity = c.capacity /\ logger[o].formatter = Empty
      BY <2>1, <2>4 DEF PartlyConfigured
    <3>2. /\ logger'[o].level = logger[o].level /\ logger'[o].capacity = logger[o].capacity
          /\ logger'[o].formatter = c.formatter
      <4>1. CASE c.formatter = Empty
        BY <2>1, <3>1, <4>1
      <4>2. CASE c.formatter # Empty
        <5>1. logger' = [logger EXCEPT ![o].formatter = c.formatter,
                            ![o].appenders = SetFormatter(@, c.formatter)]
          BY <2>1, <2>4, <4>2
        <5> QED
          BY <1>t, <1>2, <5>1 DEF ManagerTypes, LoggerIds, LoggerRecords
      <4> QED
        BY <4>1, <4>2
    <3> QED
      BY <1>4, <2>2, <3>1, <3>2 DEF PartlyConfigured
  <2> QED
    BY <1>1, <1>4, <2>2, <2>3, <2>4, ReconfigureFaithful
<1>6. CASE ClearAppenders(t)
  <2>1. /\ job[t].at = "clear"
        /\ job' = [job EXCEPT ![t].at = "add", ![t].left = c.appenders]
        /\ logger' = [logger EXCEPT ![o] = [logger[o] EXCEPT !.appenders = <<>>]]
    BY <1>6 DEF ClearAppenders, InJob
  <2>2. /\ job'[t].at = "add" /\ job'[t].cfg = c /\ job'[t].cfgs = job[t].cfgs
        /\ job'[t].logger = o /\ job'[t].left = c.appenders
    BY <1>3, <2>1 DEF Jobs
  <2>3. /\ \A p \in LoggerIds : p # o => logger'[p] = logger[p]
        /\ logger'[o] = [logger[o] EXCEPT !.appenders = <<>>]
    <3> DEFINE r == [logger[o] EXCEPT !.appenders = <<>>]
    <3>1. logger' = [logger EXCEPT ![o] = r]
      BY <2>1
    <3> HIDE DEF r, o
    <3>2. logger'[o] = r /\ \A p \in LoggerIds : p # o => logger'[p] = logger[p]
      BY <1>t, <1>2, <3>1, LoggerReplaced
    <3> QED
      BY <3>2 DEF r
  <2>4. ASSUME PartlyConfigured(t) PROVE PartlyConfigured(t)'
    <3>1. /\ loggers_[c.name] = o /\ logger[o].level = c.level
          /\ logger[o].capacity = c.capacity /\ logger[o].formatter = c.formatter
      BY <2>1, <2>4 DEF PartlyConfigured
    <3>2. /\ logger'[o].level = logger[o].level /\ logger'[o].capacity = logger[o].capacity
          /\ logger'[o].formatter = logger[o].formatter /\ logger'[o].appenders = <<>>
      BY <1>2, <2>3 DEF LoggerRecords
    <3>3. /\ Len(logger'[o].appenders) = 0 /\ Len(c.appenders) \in Nat
          /\ \A i \in 1 .. Len(c.appenders) : 0 + i = i
      BY <1>2, <3>2
    <3>4. /\ Len(logger'[o].appenders) + Len(job'[t].left) = Len(c.appenders)
          /\ 1 .. Len(logger'[o].appenders) = {}
          /\ \A i \in 1 .. Len(job'[t].left) :
                job'[t].left[i] = c.appenders[Len(logger'[o].appenders) + i]
      BY <2>2, <3>3
    <3> QED
      BY <1>4, <2>2, <3>1, <3>2, <3>4 DEF PartlyConfigured
  <2> QED
    BY <1>1, <1>4, <2>2, <2>3, <2>4, ReconfigureFaithful
<1>7. CASE AddAppender(t)
  <2> DEFINE L  == job[t].left
             apps == logger[o].appenders
             a  == NewAppender(Head(L).type, Head(L).file, logger[o].formatter)
  <2>1. /\ job[t].at = "add" /\ L # <<>>
        /\ job' = [job EXCEPT ![t].left = Tail(L)]
        /\ logger' = [logger EXCEPT ![o] = [logger[o] EXCEPT !.appenders = Append(apps, a)]]
    BY <1>7 DEF AddAppender, InJob
  <2>2. /\ job'[t].at = "add" /\ job'[t].cfg = c /\ job'[t].cfgs = job[t].cfgs
        /\ job'[t].logger = o /\ job'[t].left = Tail(L)
    BY <1>3, <2>1 DEF Jobs
  <2>3. /\ \A p \in LoggerIds : p # o => logger'[p] = logger[p]
        /\ logger'[o] = [logger[o] EXCEPT !.appenders = Append(apps, a)]
    <3> DEFINE r == [logger[o] EXCEPT !.appenders = Append(apps, a)]
    <3>1. logger' = [logger EXCEPT ![o] = r]
      BY <2>1
    <3> HIDE DEF r, o
    <3>2. logger'[o] = r /\ \A p \in LoggerIds : p # o => logger'[p] = logger[p]
      BY <1>t, <1>2, <3>1, LoggerReplaced
    <3> QED
      BY <3>2 DEF r
  <2>4. ASSUME PartlyConfigured(t) PROVE PartlyConfigured(t)'
    <3>1. /\ loggers_[c.name] = o /\ logger[o].level = c.level
          /\ logger[o].capacity = c.capacity /\ logger[o].formatter = c.formatter
          /\ Len(apps) + Len(L) = Len(c.appenders)
          /\ \A i \in 1 .. Len(apps) :
                apps[i] = NewAppender(c.appenders[i].type, c.appenders[i].file, c.formatter)
          /\ \A i \in 1 .. Len(L) : L[i] = c.appenders[Len(apps) + i]
      BY <2>1, <2>4 DEF PartlyConfigured
    <3>2. /\ logger'[o].level = logger[o].level /\ logger'[o].capacity = logger[o].capacity
          /\ logger'[o].formatter = logger[o].formatter /\ logger'[o].appenders = Append(apps, a)
      BY <1>2, <2>3 DEF LoggerRecords
    <3>3. /\ Len(Append(apps, a)) + Len(Tail(L)) = Len(c.appenders)
          /\ \A i \in 1 .. Len(Append(apps, a)) : Append(apps, a)[i] =
                NewAppender(c.appenders[i].type, c.appenders[i].file, c.formatter)
          /\ \A i \in 1 .. Len(Tail(L)) : Tail(L)[i] = c.appenders[Len(Append(apps, a)) + i]
      <4>1. a \in AppenderConfigs
        <5>1. Head(L) \in AppenderConfigs /\ logger[o].formatter \in Strings
          BY <1>2, <1>3, <2>1 DEF LoggerRecords
        <5> QED
          BY <5>1 DEF NewAppender, AppenderConfigs
      <4>2. a = NewAppender(Head(L).type, Head(L).file, c.formatter)
        BY <3>1
      <4> DEFINE f == c.formatter
                 C == c.appenders
      <4>3. L # <<>> /\ Divided(apps, L, C, f)
        BY <1>2, <1>3, <2>1, <3>1 DEF Divided
      <4> HIDE DEF apps, L, a, f, C
      <4>4. Divided(Append(apps, a), Tail(L), C, f)
        <5>1. a = NewAppender(Head(L).type, Head(L).file, f)
          BY <4>2 DEF f
        <5> QED
          BY <4>1, <4>3, <5>1, OneMore
      <4> QED
        BY <4>4 DEF f, C, Divided
    <3> QED
      BY ZenonT(60), <1>4, <2>2, <3>1, <3>2, <3>3 DEF PartlyConfigured
  <2> QED
    BY <1>1, <1>4, <2>2, <2>3, <2>4, ReconfigureFaithful
<1> QED
  BY <1>5, <1>6, <1>7


\* When all its appenders are made, the logger is as it is written.
LEMMA ConfiguredFaithful ==
  ASSUME ManagerInv, NEW t \in Threads, Configured(t)
  PROVE  Faithful'
<1>t. ManagerTypes /\ JobInCall /\ JobOfValue /\ JobHasLogger
  BY DEF ManagerInv
<1> DEFINE o == job[t].logger
           c == job[t].cfg
<1>1. /\ job[t].at = "add" /\ job[t].left = <<>> /\ ~terminated /\ ReleasedBy(t, o)
      /\ job' = [job EXCEPT ![t].at = "next", ![t].logger = NoLogger, ![t].cfg = NoValue]
      /\ UNCHANGED <<configVars, loggers_, terminated, excused>>
  BY DEF Configured, InJob
<1>2. call[t].op = "set" /\ Manager \in call[t].todo /\ call' = call
  BY <1>t, <1>1 DEF JobInCall, configVars
<1>3. /\ o \in LoggerIds /\ logger[o].name = c.name /\ c \in LoggerConfigs
      /\ c.name \in LoggerNames /\ c.appenders \in Seq(AppenderConfigs)
      /\ logger[o].appenders \in Seq(AppenderConfigs)
  <2>1. o \in LoggerIds /\ logger[o].name = c.name /\ c \in LoggerConfigs
    BY <1>t, <1>1 DEF JobHasLogger, JobOfValue
  <2> QED
    BY <1>t, <2>1, LoggerAt, ConfigHas DEF LoggerRecords
<1>4. job'[t].at = "next" /\ job'[t].cfgs = job[t].cfgs
  BY <1>t, <1>1 DEF ManagerTypes, Jobs
<1>5. \A p \in LoggerIds : p # o \/ ~Last(o) => logger'[p] = logger[p]
  <2> HIDE DEF o
  <2> QED
    BY <1>t, <1>1, <1>3, Released
<1>6. ASSUME PartlyConfigured(t), NEW d, d = c PROVE Holds(d)'
  <2> DEFINE a == logger[o].appenders
             C == d.appenders
  <2>1. /\ loggers_[d.name] = o /\ logger[o].level = d.level
        /\ logger[o].capacity = d.capacity /\ logger[o].formatter = d.formatter
        /\ Len(a) + Len(job[t].left) = Len(C)
        /\ \A i \in 1 .. Len(a) : a[i] = NewAppender(C[i].type, C[i].file, d.formatter)
    BY <1>1, <1>6 DEF PartlyConfigured
  <2>2. ~Last(o)
    BY <1>3, <1>6, <2>1, LastIsOnly
  <2>3. logger'[o] = logger[o] /\ o # NoLogger
    BY <1>3, <1>5, <2>2 DEF LoggerIds, NoLogger
  <2>4. a = [i \in DOMAIN C |-> NewAppender(C[i].type, C[i].file, d.formatter)]
    <3>1. Len(a) = Len(C)
      <4>1. Len(job[t].left) = 0 /\ Len(a) \in Nat
        BY <1>1, <1>3
      <4> QED
        BY <2>1, <4>1
    <3>2. a \in Seq(AppenderConfigs) /\ C \in Seq(AppenderConfigs)
      BY <1>3, <1>6
    <3> HIDE DEF a, C
    <3>3. DOMAIN C = 1 .. Len(C) /\ a = [i \in 1 .. Len(a) |-> a[i]]
      BY <3>2
    <3> QED
      BY <2>1, <3>1, <3>3
  <2> QED
    BY <1>1, <2>1, <2>3, <2>4 DEF Holds, MadeFrom
<1>7. ASSUME call[t].alone PROVE InProgress(t)'
  <2> SUFFICES ASSUME NEW d \in call[t].val, d.name \notin excused,
                      d.name \notin Twice(call[t].val), d \notin job[t].cfgs
               PROVE  Holds(d)'
    BY <1>1, <1>2, <1>4 DEF InProgress
  <2>1. CASE d = c
    <3>1. PartlyConfigured(t)
      BY <1>1, <1>7, <2>1, AtWork
    <3> QED
      BY <1>6, <2>1, <3>1
  <2>2. CASE d # c
    <3>1. /\ Holds(d) /\ loggers_[d.name] \in LoggerIds
          /\ logger[loggers_[d.name]].name = d.name /\ d.name # c.name
      BY <1>1, <1>7, <2>2, AtWork
    <3>2. loggers_[d.name] # o
      BY <1>3, <3>1
    <3> QED
      BY <1>1, <1>5, <3>1, <3>2, StillHolds
  <2> QED
    BY <2>1, <2>2
<1> QED
  BY <1>1, <1>2, <1>4, <1>7, OneJob

\* To join a writer changes nothing, and an exception ends everything.
LEMMA RestFaithful ==
  ASSUME ManagerInv, NEW t \in Threads, Joined(t) \/ OpenFails(t)
  PROVE  Faithful'
<1>1. /\ UNCHANGED <<loggers_, logger, job, excused>>
      /\ call' = call /\ store' = store /\ VarIds' = VarIds
      /\ terminated' = terminated \/ terminated'
  BY DEF Joined, OpenFails, configVars, VarIds
<1>2. \A m : Setting(m)' = Setting(m)
  BY <1>1 DEF Setting
<1>3. \A m \in VarIds : InForce(store[m].val) => InForce(store[m].val)'
  BY <1>1 DEF InForce, Holds, MadeFrom
<1>4. \A u \in Threads : /\ InForce(call[u].val) => InForce(call[u].val)'
                         /\ InProgress(u) => InProgress(u)'
  <2>1. \A u \in Threads : InForce(call[u].val) => InForce(call[u].val)'
    BY <1>1 DEF InForce, Holds, MadeFrom
  <2> QED
    BY <1>1, <2>1, SameForce
<1>5. Faithful /\ (~terminated' => ~terminated)
  BY <1>1 DEF ManagerInv
<1> QED
  BY <1>1, <1>2, <1>3, <1>4, <1>5 DEF Faithful

-----------------------------------------------------------------------------
(* The theorems.                                                           *)

\* At the start there is the root logger, and no variable.
LEMMA ManagerInit == Init => ManagerInv
<1> SUFFICES ASSUME Init PROVE ManagerInv
  OBVIOUS
<1>1. Inv
  BY InvInit DEF Init
<1>2. VarIds = {} /\ \A t \in Threads : call[t].op # "set"
  BY DEF Init, ConfigInit, VarIds, Idle
<1> DEFINE made == <<NewAppender(StdOut, Empty, Empty)>>
           r    == NewLogger(RootName, DefaultLevel, 0, made)
<1>3. made \in Seq(AppenderConfigs)
  BY StringsAssumption DEF NewAppender, AppenderConfigs, AppenderTypes
<1> HIDE DEF made
<1>4. r \in LoggerRecords /\ r.name = RootName /\ r.state = "open"
  <2>1. FALSE \in BOOLEAN /\ 0 \in Int /\ 0 \in Nat
    OBVIOUS
  <2> QED
    BY <1>3, <2>1, RootAssumption, StringsAssumption DEF NewLogger, LoggerRecords
<1> HIDE DEF r
<1>5. logger = <<r>>
  BY DEF Init, r, made
<1>6. logger \in Seq(LoggerRecords) /\ LoggerIds = {1} /\ logger[1] = r
  BY <1>4, <1>5 DEF LoggerIds
<1>7. NoJob \in Jobs /\ NoJob.at = "out" /\ NoJob.logger = NoLogger
  <2>1. <<>> \in Seq(AppenderConfigs) /\ 0 \in Nat
    OBVIOUS
  <2> QED
    BY <2>1 DEF NoJob, Jobs, NoLogger
<1>8. job \in [Threads -> Jobs] /\ \A t \in Threads : job[t] = NoJob
  BY <1>7 DEF Init
<1>9. ManagerTypes
  BY <1>6, <1>8 DEF Init, ManagerTypes, NoLogger
<1>10. JobInCall /\ JobOfValue /\ JobHasLogger
  BY <1>7, <1>8 DEF JobInCall, JobOfValue, JobHasLogger
<1>11. TableHasLoggers /\ UsersHaveLoggers
  BY <1>4, <1>6 DEF Init, TableHasLoggers, UsersHaveLoggers
<1>12. ReferredIsOpen
  BY <1>4, <1>6 DEF ReferredIsOpen
<1>13. CompleteIsLeft
  BY DEF Init, CompleteIsLeft
<1>14. LoggersAreConfigs /\ Faithful
  BY <1>2 DEF LoggersAreConfigs, Faithful
<1> QED
  BY <1>1, <1>9, <1>10, <1>11, <1>12, <1>13, <1>14 DEF ManagerInv

\* The configuration of the variables is not touched.
LEMMA ConfigsUntouched ==
  ASSUME LoggersAreConfigs, UNCHANGED configVars
  PROVE  LoggersAreConfigs'
  BY DEF LoggersAreConfigs, configVars, VarIds

\* Every step keeps the invariant, and every configured logger.
LEMMA ManagerNext ==
  ASSUME ManagerInv, [Next]_allVars
  PROVE  ManagerInv' /\ CompleteStays
<1>1. Inv'
  BY ConfigKept
<1>2. JobInv' /\ LoggersAreConfigs' /\ Faithful' /\ CompleteStays
  <2>t. LoggersAreConfigs
    BY DEF ManagerInv
  <2>1. ASSUME NEW t \in Threads, ManagerStep(t)
        PROVE  JobInv' /\ LoggersAreConfigs' /\ Faithful' /\ CompleteStays
    <3>1. JobInv' /\ CompleteStays
      BY <2>1, ReconfigureStep, FindNewLoggerStep, ReleaseStep DEF ManagerStep
    <3>2. Faithful'
      BY <2>1, ListenFaithful, FindFaithful, ChangeFaithful, ConfiguredFaithful, RestFaithful,
         RemoveFaithful DEF ManagerStep
    <3> QED
      BY <2>t, <2>1, <3>1, <3>2, Apart, ConfigsUntouched
  <2>2. ASSUME \/ \E t \in Threads : UserStep(t)
               \/ \E o \in LoggerIds : Writer(o)
        PROVE  JobInv' /\ LoggersAreConfigs' /\ Faithful' /\ CompleteStays
    <3>1. UNCHANGED configVars
      BY <2>2, Apart
    <3> QED
      BY <2>t, <2>2, <3>1, OutsideStep, OutsideFaithful, ConfigsUntouched
  <2>3. CASE UNCHANGED allVars
    <3>1. /\ UNCHANGED configVars
          /\ UNCHANGED <<loggers_, logger, job, ptr, joining, terminated, complete, excused>>
      BY <2>3 DEF allVars, managerVars
    <3>2. call' = call /\ store' = store /\ VarIds' = VarIds
      BY <3>1 DEF configVars, VarIds
    <3>3. JobInv' /\ CompleteStays
      BY <3>1, <3>2, JobsGoOn DEF ManagerInv, JobInCall
    <3>4. Faithful'
      <4>1. \A m : Setting(m)' = Setting(m)
        BY <3>2 DEF Setting
      <4>2. \A m \in VarIds : InForce(store[m].val) => InForce(store[m].val)'
        BY <3>1, <3>2 DEF InForce, Holds, MadeFrom
      <4>3. \A u \in Threads : InForce(call[u].val) => InForce(call[u].val)'
        BY <3>1, <3>2 DEF InForce, Holds, MadeFrom
      <4>4. \A u \in Threads : InProgress(u) => InProgress(u)'
        BY <3>1, <3>2, SameForce
      <4>5. Faithful
        BY DEF ManagerInv
      <4> QED
        BY <3>1, <3>2, <4>1, <4>2, <4>3, <4>4, <4>5 DEF Faithful
    <3> QED
      BY <2>t, <3>1, <3>3, <3>4, ConfigsUntouched
  <2> QED
    BY <2>1, <2>2, <2>3, Steps, QuietKeeps, ReturnStep, AssignLoggersStep, InitConfigStep
<1> QED
  BY <1>1, <1>2 DEF ManagerInv, JobInv, RefInv

\* The invariant holds in every reachable state of the composition.
THEOREM ManagerInvariance == Spec => []ManagerInv
<1>1. ManagerInv /\ [Next]_allVars => ManagerInv'
  BY ManagerNext
<1> QED
  BY <1>1, ManagerInit, PTL DEF Spec

\* Between changes the logger of every configuration in the variable has the
\* level, the capacity, the pattern and exactly the appenders written there,
\* whoever used, found or dropped loggers meanwhile, unless it is excused.
THEOREM LoggersAsWritten == Spec => []ConfiguredAsWritten
<1>1. ManagerInv => ConfiguredAsWritten
  <2> SUFFICES ASSUME ManagerInv, vars_[LoggersTag] # None,
                      Manager \in store[vars_[LoggersTag]].listeners,
                      Setting(vars_[LoggersTag]) = {},
                      NEW c \in store[vars_[LoggersTag]].val, c.name \notin excused
               PROVE  loggers_[c.name] # NoLogger /\ AsWritten(loggers_[c.name], c)
    BY DEF ConfiguredAsWritten
  <2>1. vars_[LoggersTag] \in VarIds
    BY ManagerAssumption DEF ManagerInv, Inv, Registered
  <2>2. loggers_[c.name] # NoLogger /\ MadeFrom(loggers_[c.name], c)
    BY <2>1 DEF ManagerInv, Faithful, InForce, Holds
  <2>3. c.appenders \in Seq(AppenderConfigs)
    <3>1. store[vars_[LoggersTag]].val \in SUBSET LoggerConfigs
      BY <2>1 DEF ManagerInv, LoggersAreConfigs
    <3> QED
      BY <3>1 DEF LoggerConfigs
  <2> DEFINE C == c.appenders
             made == logger[loggers_[c.name]].appenders
  <2>4. made = [i \in DOMAIN C |-> NewAppender(C[i].type, C[i].file, c.formatter)]
    BY <2>2 DEF MadeFrom
  <2>5. /\ Len(made) = Len(C)
        /\ \A i \in DOMAIN C :
              /\ made[i].type = C[i].type /\ made[i].file = C[i].file
              /\ made[i].formatter = c.formatter
    <3> HIDE DEF made, C
    <3> QED
      BY <2>3, <2>4 DEF NewAppender, C
  <2> QED
    BY <2>2, <2>5 DEF MadeFrom, AsWritten
<1> QED
  BY <1>1, ManagerInvariance, PTL

\* A logger that was configured to the end keeps its level, its pattern and
\* its appenders for those who still log to it, also while it is replaced.
THEOREM ConfiguredStays == Spec => CompleteIsKept
<1>1. ManagerInv /\ [Next]_allVars => CompleteStays
  BY ManagerNext
<1>2. CompleteStays => (\A o \in complete : logger'[o].state # "gone" =>
                           /\ logger'[o].level = logger[o].level
                           /\ logger'[o].formatter = logger[o].formatter
                           /\ logger'[o].appenders = logger[o].appenders)
  BY DEF CompleteStays
<1> QED
  BY <1>1, <1>2, ManagerInvariance, PTL DEF Spec, CompleteIsKept
=============================================================================
