---------------------------- MODULE ThreadProofs ----------------------------
(***************************************************************************)
(* The threads of a GSP and of a channel daemon, for any number of them: a *)
(* stop leaves no call asleep (GameThreads), a prepared statement is used  *)
(* by one Statement object at a time (StatementCache), and no frontend     *)
(* sleeps through a change of its channel (ChannelThreads).  Also what a   *)
(* REST client gets while the game goes on (Rest).                         *)
(***************************************************************************)
EXTENDS GameThreads, StatementCache, ChannelThreads, Rest, NumberProofs, SequenceTheorems,
        FunctionTheorems, FiniteSetTheorems, TLAPS

----------------------------------------------------------------------------
(* GameThreads.                                                            *)

Hash == BlockHash \cup {NullHash}

MainState ==
    {"connect", "connected", "begin", "components up", "starting", "waiting", "joining",
     "untrack", "notify", "stopped", "game ends", "done", "aborted", "terminated"}

Call == [pc    : {"poll", "enter", "sleep", "woken", "reply", "backoff"},
         known : Hash \cup (Nat \X Hash),
         reply : Hash \cup (Nat \X Hash)]

ThreadsTypeOK ==
    /\ game \in [mut : Poller \cup {NoOwner}, block : Hash, version : Nat, zmq : BOOLEAN,
                 changes : Nat]
    /\ main \in MainState
    /\ loop \in [running : BOOLEAN, shouldStop : BOOLEAN, asked : BOOLEAN]
    /\ call \in [Poller -> Call]
    /\ errors \in Nat

\* Game::Stop has reset the flag of the listener, and has taken the mutex
\* after that.
FlagReset == main \in {"joining", "untrack", "notify", "stopped", "game ends", "done"}
Joined == main \in {"untrack", "notify", "stopped", "game ends", "done"}

(***************************************************************************)
(* A call that has looked at the flag holds the mutex until it sleeps.  So *)
(* once HasStopped got the mutex, calls that found the listener running    *)
(* are asleep, where the notification finds them, and others do not wait.  *)
(***************************************************************************)
ThreadsInv ==
    /\ ThreadsTypeOK
    /\ \A p \in Poller : call[p].pc = "enter" <=> game.mut = p
    /\ FlagReset => ~game.zmq
    /\ Joined => Free
    /\ StopWakesAll

LEMMA WokenType ==
    ASSUME ThreadsTypeOK, NEW ps
    PROVE  /\ Woken(ps) \in [Poller -> Call]
           /\ \A p \in Poller : /\ Woken(ps)[p].pc = "enter" <=> call[p].pc = "enter"
                                /\ Woken(ps)[p].pc = "sleep" => call[p].pc = "sleep" /\ p \notin ps
  BY DEF ThreadsTypeOK, Woken, Call

LEMMA CurrentType ==
    ASSUME ThreadsTypeOK, NEW p \in Poller
    PROVE  Current(p) \in Hash \cup (Nat \X Hash) /\ FirstKnown(p) \in Hash \cup (Nat \X Hash)
  BY DEF ThreadsTypeOK, Current, FirstKnown, Hash

LEMMA ThreadsInitInv == ThreadsInit => ThreadsInv
  BY ThreadsAssumption
     DEF ThreadsInit, ThreadsInv, ThreadsTypeOK, StopWakesAll, FlagReset, Joined, Free,
         Hash, MainState, Call, FirstKnown

\* One call goes on, with the mutex for it to keep, to give back or to leave.
LEMMA OneCall ==
    ASSUME ThreadsInv, NEW p \in Poller, NEW c \in Call,
           call' = [call EXCEPT ![p] = c],
           game' = [game EXCEPT !.mut = IF c.pc = "enter" THEN p
                                        ELSE IF call[p].pc = "enter" THEN NoOwner
                                        ELSE game.mut],
           c.pc = "enter" => Free /\ game.zmq,
           c.pc = "sleep" => call[p].pc = "enter",
           main' = main, loop' = loop, errors' \in Nat
    PROVE  ThreadsInv'
  <1> USE ThreadsAssumption DEF ThreadsInv
  <1>1. /\ call \in [Poller -> Call] /\ call' \in [Poller -> Call]
        /\ call'[p] = c /\ \A q \in Poller \ {p} : call'[q] = call[q]
    BY DEF ThreadsTypeOK
  <1>2. game'.mut = (IF c.pc = "enter" THEN p ELSE IF call[p].pc = "enter" THEN NoOwner
                     ELSE game.mut) /\ game'.zmq = game.zmq
    BY DEF ThreadsTypeOK
  <1>3. ThreadsTypeOK'
    <2> DEFINE m == IF c.pc = "enter" THEN p ELSE IF call[p].pc = "enter" THEN NoOwner
                    ELSE game.mut
    <2>1. m \in Poller \cup {NoOwner}
      BY DEF ThreadsTypeOK
    <2> HIDE DEF m
    <2>2. [game EXCEPT !.mut = m] \in [mut : Poller \cup {NoOwner}, block : Hash,
                                       version : Nat, zmq : BOOLEAN, changes : Nat]
      BY <2>1 DEF ThreadsTypeOK
    <2> QED
      BY <1>1, <2>2 DEF ThreadsTypeOK, m
  <1>4. (\A q \in Poller : call[q].pc = "enter" <=> game.mut = q)'
    BY <1>1, <1>2 DEF Free
  <1>5. (FlagReset => ~game.zmq)' /\ (Joined => Free)'
    BY <1>2 DEF FlagReset, Joined, Free
  <1>6. StopWakesAll'
    BY <1>1, <1>2 DEF StopWakesAll, Joined, Free
  <1> QED
    BY <1>3, <1>4, <1>5, <1>6

\* A step of a polling thread.
LEMMA PollerStepInv ==
    ASSUME ThreadsInv, NEW p \in Poller, PollerStep(p)
    PROVE  ThreadsInv'
  <1>0. /\ call \in [Poller -> Call] /\ call[p] \in Call
        /\ game \in [mut : Poller \cup {NoOwner}, block : Hash, version : Nat,
                     zmq : BOOLEAN, changes : Nat]
        /\ errors \in Nat
    BY DEF ThreadsInv, ThreadsTypeOK
  <1>1. Current(p) \in Hash \cup (Nat \X Hash) /\ FirstKnown(p) \in Hash \cup (Nat \X Hash)
    BY CurrentType DEF ThreadsInv
  <1>2. call[p].pc = "enter" <=> game.mut = p
    BY DEF ThreadsInv
  <1>3. CASE CallStart(p)
    <2>1. CASE ReturnsAtOnce(p) \/ ~game.zmq
      <3> DEFINE c == [call[p] EXCEPT !.pc = "reply", !.reply = Current(p)]
      <3>1. c \in Call /\ c.pc = "reply"
        BY <1>0, <1>1 DEF Call
      <3>2. call' = [call EXCEPT ![p] = c] /\ game' = game
        BY <1>0, <1>3, <2>1 DEF CallStart
      <3> HIDE DEF c
      <3> QED
        BY <1>0, <1>3, <3>1, <3>2, OneCall DEF CallStart
    <2>2. CASE ~(ReturnsAtOnce(p) \/ ~game.zmq)
      <3> DEFINE c == [call[p] EXCEPT !.pc = "enter"]
      <3>1. c \in Call /\ c.pc = "enter"
        BY <1>0 DEF Call
      <3>2. call' = [call EXCEPT ![p] = c] /\ game' = [game EXCEPT !.mut = p]
        BY <1>0, <1>3, <2>2 DEF CallStart
      <3> HIDE DEF c
      <3> QED
        BY <1>0, <1>3, <2>2, <3>1, <3>2, OneCall DEF CallStart
    <2> QED
      BY <2>1, <2>2
  <1>4. CASE Sleep(p)
    <2> DEFINE c == [call[p] EXCEPT !.pc = "sleep"]
    <2>1. c \in Call /\ c.pc = "sleep"
      BY <1>0 DEF Call
    <2>2. call' = [call EXCEPT ![p] = c] /\ game' = [game EXCEPT !.mut = NoOwner]
      BY <1>0, <1>4 DEF Sleep
    <2> HIDE DEF c
    <2> QED
      BY <1>0, <1>4, <2>1, <2>2, OneCall DEF Sleep
  <1>5. CASE Timeout(p) \/ CallFinish(p) \/ Push(p) \/ PushFails(p) \/ CallFails(p) \/ Retry(p)
    <2>1. \E c \in Call : /\ call' = [call EXCEPT ![p] = c]
                          /\ c.pc \notin {"enter", "sleep"}
      <3> DEFINE next == [pc : {"woken", "reply", "poll", "backoff"},
                          known : Hash \cup (Nat \X Hash), reply : Hash \cup (Nat \X Hash)]
      <3>1. \A c \in next : c \in Call /\ c.pc \notin {"enter", "sleep"}
        BY DEF Call
      <3>2. /\ [call[p] EXCEPT !.pc = "woken"] \in next
            /\ [call[p] EXCEPT !.pc = "reply", !.reply = Current(p)] \in next
            /\ [pc |-> "poll", known |-> call[p].reply, reply |-> FirstKnown(p)] \in next
            /\ [call[p] EXCEPT !.pc = "backoff", !.reply = FirstKnown(p)] \in next
            /\ [call[p] EXCEPT !.pc = "backoff"] \in next
            /\ [call[p] EXCEPT !.pc = "poll"] \in next
        BY <1>0, <1>1 DEF Call
      <3> HIDE DEF next
      <3>3. \E c \in next : call' = [call EXCEPT ![p] = c]
        BY <1>0, <1>5, <3>2 DEF Timeout, CallFinish, Push, PushFails, CallFails, Retry
      <3> QED
        BY <3>1, <3>3
    <2>2. call[p].pc # "enter" /\ game' = game /\ main' = main /\ loop' = loop
      BY <1>5 DEF Timeout, CallFinish, Push, PushFails, CallFails, Retry
    <2>3. errors' \in Nat
      BY <1>0, <1>5 DEF Timeout, CallFinish, Push, PushFails, CallFails, Retry
    <2>4. game = [game EXCEPT !.mut = game.mut]
      BY <1>0
    <2> QED
      BY <2>1, <2>2, <2>3, <2>4, OneCall
  <1> QED
    BY <1>3, <1>4, <1>5, PollerStep(p) DEF PollerStep

\* Calls are left alone, or some are woken up, without the mutex being taken.
LEMMA CallsWoken ==
    ASSUME ThreadsInv, NEW ps, call' = call \/ call' = Woken(ps),
           game' \in [mut : {game.mut}, block : Hash, version : Nat, zmq : BOOLEAN,
                      changes : Nat],
           main' \in MainState, errors' \in Nat,
           loop' \in [running : BOOLEAN, shouldStop : BOOLEAN, asked : BOOLEAN],
           FlagReset' => ~game'.zmq,
           Joined' => Joined \/ Free,
           main' \in {"stopped", "game ends", "done"} =>
              main \in {"stopped", "game ends", "done"} \/ (call' = Woken(ps) /\ Poller \subseteq ps)
    PROVE  ThreadsInv'
  <1>1. /\ call \in [Poller -> Call] /\ call' \in [Poller -> Call]
        /\ \A p \in Poller : /\ call'[p].pc = "enter" <=> call[p].pc = "enter"
                             /\ call'[p].pc = "sleep" => call[p].pc = "sleep"
    <2>1. ThreadsTypeOK /\ call \in [Poller -> Call]
      BY DEF ThreadsInv, ThreadsTypeOK
    <2>2. /\ Woken(ps) \in [Poller -> Call]
          /\ \A p \in Poller : /\ Woken(ps)[p].pc = "enter" <=> call[p].pc = "enter"
                               /\ Woken(ps)[p].pc = "sleep" => call[p].pc = "sleep"
      BY <2>1, WokenType
    <2>3. CASE call' = call
      BY <2>1, <2>3
    <2>4. CASE call' = Woken(ps)
      BY <2>1, <2>2, <2>4
    <2> QED
      BY <2>3, <2>4
  <1>2. game'.mut = game.mut
    OBVIOUS
  <1>3. ThreadsTypeOK'
    BY <1>1, <1>2 DEF ThreadsInv, ThreadsTypeOK
  <1>4. (Joined => Free)' /\ (\A p \in Poller : call[p].pc = "enter" <=> game.mut = p)'
    BY <1>1, <1>2 DEF ThreadsInv, Free
  <1>5. StopWakesAll'
    <2>1. \A p \in Poller : Woken(ps)[p].pc = "sleep" => p \notin ps
      BY WokenType DEF ThreadsInv
    <2> QED
      BY <1>1, <2>1 DEF ThreadsInv, StopWakesAll
  <1> QED
    BY <1>3, <1>4, <1>5 DEF ThreadsInv

\* The process is terminated: no call waits for it any more.
LEMMA TerminateInv ==
    ASSUME ThreadsInv, Terminate
    PROVE  ThreadsInv'
  <1>1. call' \in [Poller -> Call] /\ \A p \in Poller : call'[p].pc = "enter" => call[p].pc = "enter"
    BY DEF ThreadsInv, ThreadsTypeOK, Terminate, Call
  <1>2. \A p \in Poller : call[p].pc = "enter" => call'[p].pc = "enter"
    BY DEF ThreadsInv, ThreadsTypeOK, Terminate, Call
  <1>3. errors' \in Nat /\ main' \in MainState /\ game' = game /\ loop' = loop
    <2>1. errors \in Nat /\ errors' = errors + 1
      BY DEF ThreadsInv, ThreadsTypeOK, Terminate
    <2> QED  BY <2>1 DEF Terminate, MainState
  <1>4. ThreadsTypeOK'
    BY <1>1, <1>3, Zenon DEF ThreadsInv, ThreadsTypeOK
  <1> QED
    BY <1>1, <1>2, <1>4 DEF ThreadsInv, StopWakesAll, FlagReset, Joined, Free, Terminate

\* A step of the main thread, or one that speaks to it.
LEMMA MainStepInv ==
    ASSUME ThreadsInv, MainStep \/ WaitForSpaceXpanse(FALSE) \/ Stop
    PROVE  ThreadsInv'
  <1>0. /\ game \in [mut : Poller \cup {NoOwner}, block : Hash, version : Nat,
                     zmq : BOOLEAN, changes : Nat]
        /\ game \in [mut : {game.mut}, block : Hash, version : Nat, zmq : BOOLEAN,
                     changes : Nat]
        /\ loop \in [running : BOOLEAN, shouldStop : BOOLEAN, asked : BOOLEAN]
        /\ main \in MainState /\ errors \in Nat
        /\ FlagReset => ~game.zmq
    BY DEF ThreadsInv, ThreadsTypeOK
  <1> USE DEF FlagReset, Joined, MainState
  <1>1. ASSUME NEW answers \in BOOLEAN, WaitForSpaceXpanse(answers)
        PROVE  ThreadsInv'
    BY <1>0, <1>1, CallsWoken DEF WaitForSpaceXpanse
  <1>2. ASSUME NEW core, SQLiteMain(core) \/ \E type \in {"lmdb", "other"} : DefaultMain(core, type)
        PROVE  ThreadsInv'
    BY <1>0, <1>2, CallsWoken DEF SQLiteMain, DefaultMain
  <1>3. CASE StartComponents
    BY <1>0, <1>3, CallsWoken DEF StartComponents
  <1>4. CASE RunMainLoop
    BY <1>0, <1>4, CallsWoken DEF RunMainLoop
  <1>5. CASE Start
    <2>1. PICK b \in StartBlocks : game' = [game EXCEPT !.zmq = TRUE, !.block = b]
      BY <1>5 DEF Start
    <2>2. b \in Hash
      BY ThreadsAssumption DEF Hash
    <2>3. game' \in [mut : {game.mut}, block : Hash, version : Nat, zmq : BOOLEAN,
                     changes : Nat]
      BY <1>0, <2>1, <2>2
    <2> QED
      BY <1>0, <1>5, <2>3, CallsWoken DEF Start
  <1>6. CASE ZmqStop
    <2>1. /\ game' \in [mut : {game.mut}, block : Hash, version : Nat, zmq : BOOLEAN,
                        changes : Nat]
          /\ ~game'.zmq
      BY <1>0, <1>6 DEF ZmqStop
    <2> QED
      BY <1>0, <1>6, <2>1, CallsWoken DEF ZmqStop
  <1>7. CASE HasStopped \/ UntrackGame \/ StopComponents \/ DestroyGame
    BY <1>0, <1>7, CallsWoken DEF HasStopped, UntrackGame, StopComponents, DestroyGame
  <1>8. CASE NotifyStopped
    <2>1. /\ game' \in [mut : {game.mut}, block : Hash, version : Nat, zmq : BOOLEAN,
                        changes : Nat]
          /\ game'.zmq = game.zmq
      BY <1>0, <1>8 DEF NotifyStopped
    <2>2. Poller \subseteq NotifyStateChange \cup NotifyPendingStateChange
      BY DEF NotifyStateChange, NotifyPendingStateChange
    <2> QED
      BY <1>0, <1>8, <2>1, <2>2, CallsWoken DEF NotifyStopped
  <1>9. CASE Stop
    BY <1>0, <1>9, CallsWoken DEF Stop
  <1> QED
    BY <1>1, <1>2, <1>3, <1>4, <1>5, <1>6, <1>7, <1>8, <1>9 DEF MainStep

\* A notification of the ZMQ listener.
LEMMA ListenerInv ==
    ASSUME ThreadsInv,
           ChangePending \/ \E b \in BlockHash, c \in BOOLEAN : ChangeBlock(b, c)
    PROVE  ThreadsInv'
  <1>0. /\ game \in [mut : Poller \cup {NoOwner}, block : Hash, version : Nat,
                     zmq : BOOLEAN, changes : Nat]
        /\ loop \in [running : BOOLEAN, shouldStop : BOOLEAN, asked : BOOLEAN]
        /\ main \in MainState /\ errors \in Nat
        /\ FlagReset => ~game.zmq
    BY DEF ThreadsInv, ThreadsTypeOK
  <1>1. ASSUME game' \in [mut : {game.mut}, block : Hash, version : Nat, zmq : BOOLEAN,
                          changes : Nat],
               game'.zmq = game.zmq,
               NEW ps, call' = Woken(ps), UNCHANGED <<main, loop, errors>>
        PROVE  ThreadsInv'
    BY <1>0, <1>1, CallsWoken DEF FlagReset, Joined
  <1>2. CASE ChangePending
    <2> DEFINE v == game.version + 1  k == game.changes + 1
    <2>0. v \in Nat /\ k \in Nat
      BY <1>0
    <2> HIDE DEF v, k
    <2>1. /\ [game EXCEPT !.version = v, !.changes = k]
               \in [mut : {game.mut}, block : Hash, version : Nat, zmq : BOOLEAN, changes : Nat]
          /\ [game EXCEPT !.version = v, !.changes = k].zmq = game.zmq
      BY <1>0, <2>0
    <2> USE DEF v, k
    <2> QED
      BY <1>1, <1>2, <2>1 DEF ChangePending
  <1>3. ASSUME NEW b \in BlockHash, NEW c \in BOOLEAN, ChangeBlock(b, c)
        PROVE  ThreadsInv'
    <2> DEFINE v == IF c THEN game.version ELSE game.version + 1
               k == game.changes + 1
    <2>1. v \in Nat /\ b \in Hash /\ k \in Nat
      BY <1>0 DEF Hash
    <2>2. game' = [game EXCEPT !.block = b, !.changes = k, !.version = v]
      BY <1>0, <1>3 DEF ChangeBlock
    <2> HIDE DEF v, k
    <2>3. /\ game' \in [mut : {game.mut}, block : Hash, version : Nat, zmq : BOOLEAN,
                        changes : Nat]
          /\ game'.zmq = game.zmq
      BY <1>0, <2>1, <2>2
    <2> QED
      BY <1>1, <1>3, <2>3 DEF ChangeBlock
  <1> QED
    BY <1>2, <1>3

\* After Game::Stop nobody sleeps in WaitForChange or WaitForPendingChange,
\* however many threads call them.
THEOREM StopWakesEveryCall == ThreadsSpec => []StopWakesAll
  <1>1. ThreadsInit => ThreadsInv
    BY ThreadsInitInv
  <1>2. ThreadsInv /\ [ThreadsNext]_threadVars => ThreadsInv'
    <2> SUFFICES ASSUME ThreadsInv, [ThreadsNext]_threadVars
                 PROVE  ThreadsInv'
      OBVIOUS
    <2>1. CASE ThreadsNext
      BY <2>1, PollerStepInv, MainStepInv, ListenerInv, TerminateInv
         DEF ThreadsNext, StartFails, UntrackGameFails
    <2>2. CASE UNCHANGED threadVars
      BY <2>2 DEF threadVars, ThreadsInv, ThreadsTypeOK, StopWakesAll, FlagReset, Joined, Free
    <2> QED
      BY <2>1, <2>2
  <1>3. ThreadsInv => StopWakesAll
    BY DEF ThreadsInv
  <1> QED
    BY <1>1, <1>2, <1>3, PTL DEF ThreadsSpec

----------------------------------------------------------------------------
(* StatementCache.                                                         *)

Stmt == [bound : Values \cup {Unbound}, at : Nat]

CacheEntry == [sql : Sqls, used : BOOLEAN, stmt : Stmt]

EntriesOf(sql) == {e \in DOMAIN cache : cache[e].sql = sql}
PreparingFor(sql) == {h \in Handles : Preparing(h) /\ handle[h].sql = sql}

StatementsTypeOK ==
    /\ cache \in Seq(CacheEntry)
    /\ handle \in [Handles -> [entry : Nat, sql : Sqls \cup {NoSql}]]
    /\ view \in [Handles -> Stmt]
    /\ stmtAbort = FALSE

\* A Statement object and its entry agree.
HolderInv(h) ==
    IF Holds(h)
    THEN /\ handle[h].entry \in DOMAIN cache
         /\ cache[handle[h].entry].used
         /\ cache[handle[h].entry].sql = handle[h].sql
         /\ cache[handle[h].entry].stmt = view[h]
    ELSE view[h] = NewStmt

(***************************************************************************)
(* An entry is only made after no free one was found.  At that moment, all *)
(* entries of the SQL string are held, so that with those being prepared   *)
(* they are at most as many as the Statement objects (EntriesCounted).     *)
(***************************************************************************)
EntriesCounted(sql) ==
    Cardinality(EntriesOf(sql)) + Cardinality(PreparingFor(sql)) <= Cardinality(Handles)

StatementsInv ==
    /\ StatementsTypeOK
    /\ \A h \in Handles : HolderInv(h)
    /\ \A g, h \in Handles : Holds(h) /\ g # h => handle[g].entry # handle[h].entry
    /\ \A e \in DOMAIN cache : cache[e].used => \E h \in Handles : handle[h].entry = e
    /\ \A sql \in Sqls : EntriesCounted(sql)

\* What the cache has of one SQL string is finite.
LEMMA EntriesFinite ==
    ASSUME StatementsTypeOK, NEW sql
    PROVE  /\ IsFiniteSet(EntriesOf(sql)) /\ Cardinality(EntriesOf(sql)) \in Nat
           /\ IsFiniteSet(PreparingFor(sql)) /\ Cardinality(PreparingFor(sql)) \in Nat
           /\ Cardinality(Handles) \in Nat
  <1>1. DOMAIN cache = 1 .. Len(cache) /\ Len(cache) \in Nat
    BY DEF StatementsTypeOK
  <1>2. IsFiniteSet(1 .. Len(cache))
    BY <1>1, FS_Interval
  <1>3. EntriesOf(sql) \subseteq 1 .. Len(cache) /\ PreparingFor(sql) \subseteq Handles
    BY <1>1 DEF EntriesOf, PreparingFor
  <1> QED
    BY <1>2, <1>3, StatementsAssumption, FS_Subset, FS_CardinalityType

\* Things that each have a holder of their own among the holders that are not
\* set aside.
LEMMA HoldersCount ==
    ASSUME NEW H, IsFiniteSet(H), NEW P \in SUBSET H, NEW E, NEW f \in Injection(E, H \ P)
    PROVE  Cardinality(E) + Cardinality(P) <= Cardinality(H)
  <1>1. IsFiniteSet(P) /\ Cardinality(P) \in Nat /\ Cardinality(H) \in Nat
    BY FS_Subset, FS_CardinalityType
  <1>2. /\ IsFiniteSet(H \ P)
        /\ Cardinality(H \ P) = Cardinality(H) - Cardinality(H \cap P)
    BY FS_Difference
  <1>3. H \cap P = P
    OBVIOUS
  <1>4. Cardinality(E) <= Cardinality(H \ P) /\ Cardinality(E) \in Nat
    BY <1>2, FS_Injection, FS_CardinalityType
  <1> QED
    BY <1>1, <1>2, <1>3, <1>4

\* A step that adds no entry and starts no preparation keeps the count.
LEMMA CountKept ==
    ASSUME StatementsInv, StatementsTypeOK',
           DOMAIN cache' = DOMAIN cache,
           \A e \in DOMAIN cache : cache'[e].sql = cache[e].sql,
           \A h \in Handles : /\ Preparing(h)' <=> Preparing(h)
                              /\ Preparing(h) => handle'[h].sql = handle[h].sql
    PROVE  \A sql \in Sqls : EntriesCounted(sql)'
  <1> SUFFICES ASSUME NEW sql \in Sqls PROVE EntriesCounted(sql)'
    OBVIOUS
  <1>1. EntriesOf(sql)' = EntriesOf(sql)
    BY DEF EntriesOf
  <1>2. PreparingFor(sql)' = PreparingFor(sql)
    BY DEF PreparingFor
  <1> QED
    BY <1>1, <1>2 DEF StatementsInv, EntriesCounted

LEMMA StatementsInitInv == StatementsInit => StatementsInv
  <1> SUFFICES ASSUME StatementsInit PROVE StatementsInv
    OBVIOUS
  <1>1. StatementsTypeOK
    BY DEF StatementsInit, StatementsTypeOK, EmptyStatement, NewStmt, Stmt
  <1>2. \A h \in Handles : ~Holds(h) /\ ~Preparing(h) /\ view[h] = NewStmt
    BY DEF StatementsInit, Holds, Preparing, EmptyStatement
  <1>3. ASSUME NEW sql \in Sqls
        PROVE  EntriesCounted(sql)
    <2>1. EntriesOf(sql) = {} /\ PreparingFor(sql) = {}
      BY <1>2 DEF StatementsInit, EntriesOf, PreparingFor
    <2>2. Cardinality(Handles) \in Nat
      BY StatementsAssumption, FS_CardinalityType
    <2> QED
      BY <2>1, <2>2, FS_EmptySet DEF EntriesCounted
  <1> QED
    BY <1>1, <1>2, <1>3 DEF StatementsInv, StatementsInit, HolderInv

\* PrepareRo finds a free entry.
LEMMA ReuseInv ==
    ASSUME StatementsInv, NEW h \in Handles, NEW sql \in Sqls, PrepareRo(h, sql),
           FreeEntries(sql) # {}
    PROVE  StatementsInv'
  <1>1. /\ cache \in Seq(CacheEntry)
        /\ handle \in [Handles -> [entry : Nat, sql : Sqls \cup {NoSql}]]
        /\ view \in [Handles -> Stmt]
        /\ NewStmt \in Stmt
    BY DEF StatementsInv, StatementsTypeOK, NewStmt, Stmt
  <1>2. PICK e \in FreeEntries(sql) :
             /\ cache' = Reused(e)
             /\ handle' = [handle EXCEPT ![h] = [entry |-> e, sql |-> sql]]
             /\ view' = [view EXCEPT ![h] = NewStmt]
             /\ stmtAbort' = stmtAbort
    BY DEF PrepareRo
  <1>3. /\ e \in DOMAIN cache /\ e \in Nat \ {0} /\ cache[e] \in CacheEntry
        /\ cache[e].sql = sql /\ ~cache[e].used
    BY <1>1 DEF FreeEntries
  <1> DEFINE new == [cache[e] EXCEPT !.used = TRUE, !.stmt = NewStmt]
  <1>4. /\ new \in CacheEntry /\ new.sql = sql /\ new.used /\ new.stmt = NewStmt
        /\ cache' = [cache EXCEPT ![e] = new]
    BY <1>1, <1>2, <1>3 DEF Reused, CacheEntry
  <1>5. /\ cache' \in Seq(CacheEntry) /\ DOMAIN cache' = DOMAIN cache
        /\ cache'[e] = new /\ \A x \in DOMAIN cache \ {e} : cache'[x] = cache[x]
    <2> HIDE DEF new
    <2> QED  BY <1>1, <1>3, <1>4, ExceptSeq
  <1>6. /\ handle'[h] = [entry |-> e, sql |-> sql] /\ view'[h] = NewStmt
        /\ \A g \in Handles \ {h} : handle'[g] = handle[g] /\ view'[g] = view[g]
    BY <1>1, <1>2
  <1>7. Empty(h) /\ ~Holds(h) /\ ~Preparing(h) /\ Holds(h)' /\ ~Preparing(h)'
    BY <1>3, <1>6 DEF PrepareRo, Empty, Holds, Preparing, EmptyStatement
  <1>8. \A g \in Handles \ {h} : (Holds(g)' <=> Holds(g)) /\ (Preparing(g)' <=> Preparing(g))
    BY <1>6 DEF Holds, Preparing
  <1> HIDE DEF new
  <1>9. StatementsTypeOK'
    BY <1>1, <1>2, <1>3, <1>5 DEF StatementsInv, StatementsTypeOK
  <1>10. \A g \in Handles : Holds(g) => handle[g].entry # e
    BY <1>3 DEF StatementsInv, HolderInv
  <1>11. \A g \in Handles : HolderInv(g)'
    BY <1>3, <1>4, <1>5, <1>6, <1>7, <1>8, <1>10 DEF StatementsInv, HolderInv
  <1>12. (\A g, k \in Handles : Holds(k) /\ g # k => handle[g].entry # handle[k].entry)'
    BY <1>3, <1>6, <1>7, <1>8, <1>10 DEF StatementsInv, Holds
  <1>13. (\A x \in DOMAIN cache : cache[x].used => \E g \in Handles : handle[g].entry = x)'
    BY <1>3, <1>4, <1>5, <1>6, <1>7, <1>10 DEF StatementsInv, Empty, EmptyStatement
  <1>14. \A s \in Sqls : EntriesCounted(s)'
    <2>1. \A x \in DOMAIN cache : cache'[x].sql = cache[x].sql
      BY <1>3, <1>4, <1>5
    <2>2. \A g \in Handles : /\ Preparing(g)' <=> Preparing(g)
                             /\ Preparing(g) => handle'[g].sql = handle[g].sql
      BY <1>6, <1>7, <1>8
    <2> QED
      BY <1>5, <1>9, <2>1, <2>2, CountKept
  <1> QED
    BY <1>9, <1>11, <1>12, <1>13, <1>14 DEF StatementsInv

\* PrepareRo finds no free entry: all entries of the string are held by others.
LEMMA PrepareInv ==
    ASSUME StatementsInv, NEW h \in Handles, NEW sql \in Sqls, PrepareRo(h, sql),
           FreeEntries(sql) = {}
    PROVE  StatementsInv'
  <1>1. /\ cache \in Seq(CacheEntry)
        /\ handle \in [Handles -> [entry : Nat, sql : Sqls \cup {NoSql}]]
        /\ view \in [Handles -> Stmt]
        /\ NewStmt \in Stmt
    BY DEF StatementsInv, StatementsTypeOK, NewStmt, Stmt
  <1>2. /\ cache' = cache
        /\ handle' = [handle EXCEPT ![h].sql = sql]
        /\ view' = [view EXCEPT ![h] = NewStmt]
        /\ stmtAbort' = stmtAbort
    BY DEF PrepareRo
  <1>3. handle[h].entry = 0 /\ handle[h].sql = NoSql /\ ~Holds(h) /\ ~Preparing(h)
    BY DEF PrepareRo, Empty, EmptyStatement, Holds, Preparing
  <1>4. /\ handle'[h] = [entry |-> 0, sql |-> sql] /\ view'[h] = NewStmt
        /\ \A g \in Handles \ {h} : handle'[g] = handle[g] /\ view'[g] = view[g]
    BY <1>1, <1>2, <1>3
  <1>5. \A g \in Handles : handle'[g].entry = handle[g].entry /\ (Holds(g)' <=> Holds(g))
    BY <1>3, <1>4 DEF Holds
  <1>6. StatementsTypeOK'
    BY <1>1, <1>2 DEF StatementsInv, StatementsTypeOK
  <1>7. \A g \in Handles : HolderInv(g)'
    BY <1>2, <1>3, <1>4, <1>5 DEF StatementsInv, HolderInv
  <1>8. (\A g, k \in Handles : Holds(k) /\ g # k => handle[g].entry # handle[k].entry)'
    BY <1>5 DEF StatementsInv
  <1>9. (\A x \in DOMAIN cache : cache[x].used => \E g \in Handles : handle[g].entry = x)'
    BY <1>2, <1>5 DEF StatementsInv
  <1>10. ASSUME NEW s \in Sqls
         PROVE  EntriesCounted(s)'
    <2> DEFINE E == EntriesOf(s)  P == PreparingFor(s)
    <2>1. E' = E
      BY <1>2 DEF EntriesOf
    <2>2. CASE s # sql
      <3>1. P' = P
        BY <1>3, <1>4, <1>5, <2>2 DEF PreparingFor, Preparing
      <3> QED
        BY <2>1, <3>1 DEF StatementsInv, EntriesCounted
    <2>3. CASE s = sql
      <3> DEFINE holder == [e \in E |-> CHOOSE g \in Handles : handle[g].entry = e]
                 Q == P'
      <3>1. ASSUME NEW e \in E
            PROVE  holder[e] \in Handles \ Q /\ handle[holder[e]].entry = e
        <4>1. e \in DOMAIN cache /\ e \in Nat \ {0} /\ cache[e].used
          BY <1>1, <2>3 DEF EntriesOf, FreeEntries
        <4>2. \E g \in Handles : handle[g].entry = e
          BY <4>1 DEF StatementsInv
        <4>3. holder[e] \in Handles /\ handle[holder[e]].entry = e
          BY <4>2
        <4>4. ASSUME NEW g \in Handles, handle[g].entry = e
              PROVE  g \notin Q
          <5>1. handle'[g].entry # 0
            BY <1>5, <4>1, <4>4
          <5> QED
            BY <5>1 DEF PreparingFor, Preparing, Holds
        <4> HIDE DEF holder, Q
        <4> QED
          BY <4>3, <4>4
      <3>2. Q \in SUBSET Handles
        BY DEF PreparingFor
      <3>3. holder \in [E -> Handles \ Q]
        BY <3>1
      <3> HIDE DEF holder, E, P, Q
      <3>4. \A e, x \in E : holder[e] = holder[x] => e = x
        BY <3>1
      <3>5. holder \in Injection(E, Handles \ Q)
        BY <3>3, <3>4, Fun_IsInj
      <3>6. Cardinality(E) + Cardinality(Q) <= Cardinality(Handles)
        BY <3>2, <3>5, StatementsAssumption, HoldersCount
      <3> QED
        BY <2>1, <3>6 DEF EntriesCounted, E, P, Q
    <2> QED
      BY <2>2, <2>3
  <1> QED
    BY <1>6, <1>7, <1>8, <1>9, <1>10 DEF StatementsInv

\* What was prepared is counted as an entry from now on.
LEMMA EmplaceInv ==
    ASSUME StatementsInv, NEW h \in Handles, EmplaceStatement(h)
    PROVE  StatementsInv'
  <1> DEFINE n == Len(cache) + 1  new == CachedStatement(handle[h].sql)
  <1>1. /\ cache \in Seq(CacheEntry)
        /\ handle \in [Handles -> [entry : Nat, sql : Sqls \cup {NoSql}]]
        /\ view \in [Handles -> Stmt]
        /\ NewStmt \in Stmt
        /\ n \in Nat \ {0} /\ n \notin DOMAIN cache
    BY DEF StatementsInv, StatementsTypeOK, NewStmt, Stmt
  <1>2. /\ cache' = Append(cache, new)
        /\ handle' = [handle EXCEPT ![h].entry = n]
        /\ view' = view /\ stmtAbort' = stmtAbort
    BY DEF EmplaceStatement
  <1>3. ~Holds(h) /\ Preparing(h) /\ handle[h].sql \in Sqls
    BY <1>1 DEF EmplaceStatement, Preparing
  <1>4. new \in CacheEntry /\ new = [sql |-> handle[h].sql, used |-> TRUE, stmt |-> NewStmt]
    BY <1>1, <1>3 DEF CachedStatement, CacheEntry
  <1>5. /\ cache' \in Seq(CacheEntry) /\ DOMAIN cache' = DOMAIN cache \cup {n}
        /\ cache'[n] = new /\ \A e \in DOMAIN cache : cache'[e] = cache[e]
    <2> HIDE DEF new
    <2>1. /\ cache' \in Seq(CacheEntry) /\ Len(cache') = n
          /\ \A i \in 1 .. Len(cache) : cache'[i] = cache[i]
          /\ cache'[n] = new
      BY <1>1, <1>2, <1>4, AppendProperties
    <2>2. DOMAIN cache = 1 .. Len(cache) /\ DOMAIN cache' = 1 .. n /\ Len(cache) \in Nat
      BY <1>1, <2>1
    <2> QED
      BY <2>1, <2>2
  <1>6. /\ handle'[h] = [entry |-> n, sql |-> handle[h].sql]
        /\ \A g \in Handles \ {h} : handle'[g] = handle[g]
    BY <1>1, <1>2
  <1>7. Holds(h)' /\ ~Preparing(h)'
        /\ \A g \in Handles \ {h} : (Holds(g)' <=> Holds(g)) /\ (Preparing(g)' <=> Preparing(g))
    BY <1>1, <1>6 DEF Holds, Preparing
  <1>8. \A g \in Handles : handle[g].entry # n
    BY <1>1 DEF StatementsInv, HolderInv, Holds
  <1>9. StatementsTypeOK'
    <2> HIDE DEF n, new
    <2> QED  BY <1>1, <1>2, <1>5 DEF StatementsInv, StatementsTypeOK
  <1> HIDE DEF n
  <1>10. \A g \in Handles : HolderInv(g)'
    <2>1. HolderInv(h)'
      BY <1>2, <1>3, <1>4, <1>5, <1>6, <1>7 DEF StatementsInv, HolderInv
    <2>2. \A g \in Handles \ {h} : HolderInv(g)'
      BY <1>2, <1>5, <1>6, <1>7 DEF StatementsInv, HolderInv
    <2> QED
      BY <2>1, <2>2
  <1>11. (\A g, k \in Handles : Holds(k) /\ g # k => handle[g].entry # handle[k].entry)'
    BY <1>6, <1>7, <1>8 DEF StatementsInv
  <1>12. (\A x \in DOMAIN cache : cache[x].used => \E g \in Handles : handle[g].entry = x)'
    <2>1. handle'[h].entry = n
      BY <1>6
    <2>2. ASSUME NEW x \in DOMAIN cache, cache[x].used
          PROVE  \E g \in Handles : handle'[g].entry = x
      <3>1. PICK g \in Handles : handle[g].entry = x
        BY <2>2 DEF StatementsInv
      <3>2. g # h
        BY <1>1, <1>3, <2>2, <3>1 DEF Holds
      <3> QED
        BY <1>6, <3>1, <3>2
    <2> QED
      BY <1>5, <2>1, <2>2
  <1>13. ASSUME NEW s \in Sqls
         PROVE  EntriesCounted(s)'
    <2> DEFINE E == EntriesOf(s)  P == PreparingFor(s)
    <2>0. /\ IsFiniteSet(E) /\ Cardinality(E) \in Nat
          /\ IsFiniteSet(P) /\ Cardinality(P) \in Nat
          /\ Cardinality(E) + Cardinality(P) <= Cardinality(Handles)
          /\ Cardinality(Handles) \in Nat
      BY EntriesFinite DEF StatementsInv, EntriesCounted
    <2>1. CASE s # handle[h].sql
      <3>1. E' = E
        BY <1>1, <1>4, <1>5, <2>1 DEF EntriesOf
      <3>2. P' = P
        BY <1>6, <1>7, <2>1 DEF PreparingFor
      <3> QED
        BY <2>0, <3>1, <3>2 DEF EntriesCounted
    <2>2. CASE s = handle[h].sql
      <3>1. E' = E \cup {n} /\ n \notin E
        BY <1>1, <1>4, <1>5, <2>2 DEF EntriesOf
      <3>2. P' = P \ {h} /\ h \in P
        BY <1>3, <1>6, <1>7, <2>2 DEF PreparingFor
      <3> HIDE DEF E, P
      <3>3. Cardinality(E') = Cardinality(E) + 1 /\ Cardinality(P') = Cardinality(P) - 1
        BY <2>0, <3>1, <3>2, FS_AddElement, FS_RemoveElement
      <3> QED
        BY <2>0, <3>3 DEF EntriesCounted, E, P
    <2> QED
      BY <2>1, <2>2
  <1> QED
    BY <1>9, <1>10, <1>11, <1>12, <1>13 DEF StatementsInv

\* Bind, Step or Reset: the holder changes its statement and knows it.
LEMMA UseInv ==
    ASSUME StatementsInv, NEW h \in Handles, Holds(h), NEW s \in Stmt,
           cache' = [cache EXCEPT ![handle[h].entry].stmt = s],
           view' = [view EXCEPT ![h] = s],
           handle' = handle, stmtAbort' = FALSE
    PROVE  StatementsInv'
  <1> DEFINE e == handle[h].entry  new == [cache[e] EXCEPT !.stmt = s]
  <1>1. /\ cache \in Seq(CacheEntry)
        /\ handle \in [Handles -> [entry : Nat, sql : Sqls \cup {NoSql}]]
        /\ view \in [Handles -> Stmt]
        /\ e \in DOMAIN cache /\ cache[e] \in CacheEntry
    BY DEF StatementsInv, StatementsTypeOK, HolderInv
  <1>2. /\ new \in CacheEntry /\ new.sql = cache[e].sql /\ new.stmt = s
        /\ (new.used <=> cache[e].used)
    BY <1>1 DEF CacheEntry
  <1>3. cache' = [cache EXCEPT ![e] = new]
    BY <1>1
  <1>4. /\ cache' \in Seq(CacheEntry) /\ DOMAIN cache' = DOMAIN cache
        /\ cache'[e] = new /\ \A x \in DOMAIN cache \ {e} : cache'[x] = cache[x]
    <2>1. e \in 1 .. Len(cache) /\ DOMAIN cache = 1 .. Len(cache)
      BY <1>1
    <2> HIDE DEF new, e
    <2>2. new \in CacheEntry /\ cache \in Seq(CacheEntry)
      BY <1>1, <1>2
    <2>3. /\ [cache EXCEPT ![e] = new] \in Seq(CacheEntry)
          /\ Len([cache EXCEPT ![e] = new]) = Len(cache)
          /\ \A x \in 1 .. Len(cache) :
                [cache EXCEPT ![e] = new][x] = IF x = e THEN new ELSE cache[x]
      BY ONLY <2>1, <2>2, ExceptSeq
    <2>4. /\ cache' \in Seq(CacheEntry) /\ Len(cache') = Len(cache)
          /\ \A x \in 1 .. Len(cache) : cache'[x] = IF x = e THEN new ELSE cache[x]
      BY ONLY <1>3, <2>3
    <2> QED
      BY <2>1, <2>4
  <1>5. view'[h] = s /\ \A g \in Handles \ {h} : view'[g] = view[g]
    BY <1>1
  <1>6. \A g \in Handles : (Holds(g)' <=> Holds(g)) /\ (Preparing(g)' <=> Preparing(g))
    BY DEF Holds, Preparing
  <1>7. StatementsTypeOK'
    BY <1>1, <1>4 DEF StatementsInv, StatementsTypeOK
  <1>8. \A g \in Handles \ {h} : Holds(g) => handle[g].entry # e
    BY DEF StatementsInv
  <1> HIDE DEF new, e
  <1>9. \A g \in Handles : HolderInv(g)'
    <2>1. HolderInv(h)'
      BY <1>2, <1>4, <1>5, <1>6 DEF StatementsInv, HolderInv, e
    <2>2. \A g \in Handles \ {h} : HolderInv(g)'
      BY <1>4, <1>5, <1>6, <1>8 DEF StatementsInv, HolderInv
    <2> QED
      BY <2>1, <2>2
  <1>10. (\A g, k \in Handles : Holds(k) /\ g # k => handle[g].entry # handle[k].entry)'
    BY <1>6 DEF StatementsInv
  <1>11. (\A x \in DOMAIN cache : cache[x].used => \E g \in Handles : handle[g].entry = x)'
    BY <1>2, <1>4 DEF StatementsInv
  <1>12. \A q \in Sqls : EntriesCounted(q)'
    <2>1. \A x \in DOMAIN cache : cache'[x].sql = cache[x].sql
      BY <1>2, <1>4
    <2> QED
      BY <1>4, <1>6, <1>7, <2>1, CountKept
  <1> QED
    BY <1>7, <1>9, <1>10, <1>11, <1>12 DEF StatementsInv

\* What operator= and the destructor do with the entry that is given up.
LEMMA ReleasedFacts ==
    ASSUME StatementsInv, NEW h \in Handles, Holds(h)
    PROVE  /\ Released(cache, h) \in Seq(CacheEntry)
           /\ DOMAIN Released(cache, h) = DOMAIN cache
           /\ handle[h].entry \in DOMAIN cache
           /\ ~Released(cache, h)[handle[h].entry].used
           /\ \A x \in DOMAIN cache : /\ Released(cache, h)[x].sql = cache[x].sql
                                      /\ Released(cache, h)[x].stmt = cache[x].stmt
           /\ \A x \in DOMAIN cache \ {handle[h].entry} : Released(cache, h)[x] = cache[x]
  <1> DEFINE e == handle[h].entry  new == [cache[e] EXCEPT !.used = FALSE]
             freed == Released(cache, h)
  <1>1. cache \in Seq(CacheEntry) /\ e \in DOMAIN cache /\ cache[e] \in CacheEntry
    BY DEF StatementsInv, StatementsTypeOK, HolderInv
  <1>2. new \in CacheEntry /\ new.sql = cache[e].sql /\ new.stmt = cache[e].stmt /\ ~new.used
    BY <1>1 DEF CacheEntry
  <1>3. freed = [cache EXCEPT ![e] = new]
    BY <1>1 DEF Released
  <1>4. e \in 1 .. Len(cache) /\ DOMAIN cache = 1 .. Len(cache)
    BY <1>1
  <1> HIDE DEF new, e, freed
  <1>5. /\ [cache EXCEPT ![e] = new] \in Seq(CacheEntry)
        /\ Len([cache EXCEPT ![e] = new]) = Len(cache)
        /\ \A x \in 1 .. Len(cache) :
              [cache EXCEPT ![e] = new][x] = IF x = e THEN new ELSE cache[x]
    BY ONLY <1>1, <1>2, <1>4, ExceptSeq
  <1>6. /\ freed \in Seq(CacheEntry) /\ Len(freed) = Len(cache)
        /\ \A x \in 1 .. Len(cache) : freed[x] = IF x = e THEN new ELSE cache[x]
    BY ONLY <1>3, <1>5
  <1>7. DOMAIN freed = DOMAIN cache
    BY <1>4, <1>6
  <1> QED
    BY <1>1, <1>2, <1>4, <1>6, <1>7 DEF e, freed

LEMMA DestroyInv ==
    ASSUME StatementsInv, NEW h \in Handles, DestroyStatement(h)
    PROVE  StatementsInv'
  <1>1. /\ handle \in [Handles -> [entry : Nat, sql : Sqls \cup {NoSql}]]
        /\ view \in [Handles -> Stmt]
        /\ NewStmt \in Stmt /\ EmptyStatement \in [entry : Nat, sql : Sqls \cup {NoSql}]
    BY DEF StatementsInv, StatementsTypeOK, NewStmt, Stmt, EmptyStatement
  <1>2. /\ Holds(h)
        /\ cache' = Released(cache, h) /\ stmtAbort' = stmtAbort
        /\ handle' = [handle EXCEPT ![h] = EmptyStatement]
        /\ view' = [view EXCEPT ![h] = NewStmt]
    BY DEF DestroyStatement
  <1> DEFINE e == handle[h].entry
  <1>3. /\ cache' \in Seq(CacheEntry) /\ DOMAIN cache' = DOMAIN cache
        /\ e \in DOMAIN cache /\ ~cache'[e].used
        /\ \A x \in DOMAIN cache : cache'[x].sql = cache[x].sql
        /\ \A x \in DOMAIN cache \ {e} : cache'[x] = cache[x]
    BY <1>2, ReleasedFacts
  <1>4. /\ handle'[h].entry = 0 /\ handle'[h].sql = NoSql /\ view'[h] = NewStmt
        /\ \A g \in Handles \ {h} : handle'[g] = handle[g] /\ view'[g] = view[g]
    BY <1>1, <1>2 DEF EmptyStatement
  <1>5. ~Holds(h)' /\ ~Preparing(h)' /\ ~Preparing(h)
    BY <1>2, <1>4 DEF Holds, Preparing
  <1>6. \A g \in Handles \ {h} : (Holds(g)' <=> Holds(g)) /\ (Preparing(g)' <=> Preparing(g))
    BY <1>4 DEF Holds, Preparing
  <1>7. StatementsTypeOK'
    BY <1>1, <1>2, <1>3 DEF StatementsInv, StatementsTypeOK
  <1>8. \A g \in Handles \ {h} : handle[g].entry # e
    BY <1>2 DEF StatementsInv
  <1> HIDE DEF e
  <1>9. \A g \in Handles : HolderInv(g)'
    BY <1>3, <1>4, <1>5, <1>6, <1>8 DEF StatementsInv, HolderInv
  <1>10. (\A g, k \in Handles : Holds(k) /\ g # k => handle[g].entry # handle[k].entry)'
    BY <1>4, <1>5, <1>6 DEF StatementsInv, Holds
  <1>11. (\A x \in DOMAIN cache : cache[x].used => \E g \in Handles : handle[g].entry = x)'
    BY <1>3, <1>4 DEF StatementsInv, e
  <1>12. \A q \in Sqls : EntriesCounted(q)'
    BY <1>3, <1>4, <1>5, <1>6, <1>7, CountKept
  <1> QED
    BY <1>7, <1>9, <1>10, <1>11, <1>12 DEF StatementsInv

LEMMA TwoUpdates ==
    ASSUME NEW S, NEW T, NEW f \in [S -> T], NEW a \in S, NEW b \in S,
           NEW x \in T, NEW y \in T
    PROVE  [f EXCEPT ![a] = x, ![b] = y] \in [S -> T]
  OBVIOUS

\* The target gives up what it held and takes over the entry of the source.
LEMMA MoveInv ==
    ASSUME StatementsInv, NEW from \in Handles, NEW to \in Handles, MoveStatement(from, to)
    PROVE  StatementsInv'
  <1>1. /\ cache \in Seq(CacheEntry)
        /\ handle \in [Handles -> [entry : Nat, sql : Sqls \cup {NoSql}]]
        /\ view \in [Handles -> Stmt]
        /\ NewStmt \in Stmt /\ EmptyStatement \in [entry : Nat, sql : Sqls \cup {NoSql}]
    BY DEF StatementsInv, StatementsTypeOK, NewStmt, Stmt, EmptyStatement
  <1>2. /\ from # to /\ Holds(from) /\ ~Preparing(to)
        /\ cache' = Released(cache, to) /\ stmtAbort' = stmtAbort
        /\ handle' = [handle EXCEPT ![to] = handle[from], ![from] = EmptyStatement]
        /\ view' = [view EXCEPT ![to] = view[from], ![from] = NewStmt]
    BY DEF MoveStatement
  <1>3. /\ cache' \in Seq(CacheEntry) /\ DOMAIN cache' = DOMAIN cache
        /\ \A x \in DOMAIN cache : cache'[x].sql = cache[x].sql
        /\ \A x \in DOMAIN cache : x # handle[to].entry => cache'[x] = cache[x]
        /\ \A x \in DOMAIN cache : x = handle[to].entry => ~cache'[x].used
    <2>1. CASE Holds(to)
      BY <1>2, <2>1, ReleasedFacts
    <2>2. CASE ~Holds(to)
      BY <1>1, <1>2, <2>2 DEF Released, Holds
    <2> QED
      BY <2>1, <2>2
  <1>4. /\ handle'[to] = handle[from] /\ view'[to] = view[from]
        /\ handle'[from].entry = 0 /\ handle'[from].sql = NoSql /\ view'[from] = NewStmt
        /\ \A g \in Handles \ {from, to} : handle'[g] = handle[g] /\ view'[g] = view[g]
    BY <1>1, <1>2 DEF EmptyStatement
  <1>5. /\ ~Holds(from)' /\ ~Preparing(from)' /\ ~Preparing(from)
        /\ Holds(to)' /\ ~Preparing(to)' /\ ~Preparing(to)
    BY <1>2, <1>4 DEF Holds, Preparing
  <1>6. \A g \in Handles \ {from, to} :
            (Holds(g)' <=> Holds(g)) /\ (Preparing(g)' <=> Preparing(g))
    BY <1>4 DEF Holds, Preparing
  <1>7. StatementsTypeOK'
    <2> DEFINE Handle == [entry : Nat, sql : Sqls \cup {NoSql}]
    <2>0. handle \in [Handles -> Handle] /\ handle[from] \in Handle /\ EmptyStatement \in Handle
          /\ view[from] \in Stmt
      BY <1>1
    <2>1. handle' \in [Handles -> Handle]
      <3> HIDE DEF Handle
      <3> QED  BY <1>2, <2>0, TwoUpdates
    <2>2. view' \in [Handles -> Stmt]
      BY <1>1, <1>2, <2>0, TwoUpdates
    <2> QED
      BY <1>2, <1>3, <2>1, <2>2 DEF StatementsInv, StatementsTypeOK
  <1>8. \A g \in Handles \ {to} : Holds(g) => handle[g].entry # handle[to].entry
    BY DEF StatementsInv
  <1>9. \A g \in Handles : HolderInv(g)'
    <2>1. HolderInv(from)'
      BY <1>4, <1>5 DEF HolderInv
    <2>2. HolderInv(to)'
      BY <1>2, <1>3, <1>4, <1>5, <1>8 DEF StatementsInv, HolderInv
    <2>3. \A g \in Handles \ {from, to} : HolderInv(g)'
      BY <1>3, <1>4, <1>6, <1>8 DEF StatementsInv, HolderInv
    <2> QED
      BY <2>1, <2>2, <2>3
  <1>10. (\A g, k \in Handles : Holds(k) /\ g # k => handle[g].entry # handle[k].entry)'
    <2> SUFFICES ASSUME NEW g \in Handles, NEW k \in Handles, Holds(k)', g # k
                 PROVE  handle'[g].entry # handle'[k].entry
      OBVIOUS
    <2>1. k # from /\ handle'[k].entry # 0
      BY <1>5 DEF Holds
    <2>2. CASE g = from
      BY <1>4, <2>1, <2>2
    <2>0. \A a, b \in Handles : Holds(b) /\ a # b => handle[a].entry # handle[b].entry
      BY DEF StatementsInv
    <2>3. CASE k = to /\ g # from
      <3>1. handle[g].entry # handle[from].entry
        BY <1>2, <2>0, <2>3
      <3>2. handle'[g] = handle[g] /\ handle'[k] = handle[from]
        BY <1>4, <2>3
      <3> QED
        BY <3>1, <3>2
    <2>4. CASE g = to
      <3>1. k \in Handles \ {from, to} /\ Holds(k)
        BY <1>6, <2>1, <2>4
      <3>2. handle[from].entry # handle[k].entry
        BY <2>0, <3>1
      <3>3. handle'[k] = handle[k] /\ handle'[g] = handle[from]
        BY <1>4, <2>4, <3>1
      <3> QED
        BY <3>2, <3>3
    <2>5. CASE g \notin {from, to} /\ k # to
      BY <1>4, <1>6, <2>1, <2>5 DEF StatementsInv
    <2> QED
      BY <2>2, <2>3, <2>4, <2>5
  <1>11. (\A x \in DOMAIN cache : cache[x].used => \E g \in Handles : handle[g].entry = x)'
    <2> SUFFICES ASSUME NEW x \in DOMAIN cache, cache'[x].used
                 PROVE  \E g \in Handles : handle'[g].entry = x
      BY <1>3
    <2>1. x # handle[to].entry /\ cache[x].used
      BY <1>3
    <2>2. PICK g \in Handles : handle[g].entry = x
      BY <2>1 DEF StatementsInv
    <2> QED
      BY <1>4, <2>1, <2>2
  <1>12. \A q \in Sqls : EntriesCounted(q)'
    BY <1>3, <1>4, <1>5, <1>6, <1>7, CountKept
  <1> QED
    BY <1>7, <1>9, <1>10, <1>11, <1>12 DEF StatementsInv

\* sqlite3_step leaves a statement at one of its rows, or behind the last one.
LEMMA NextRowType ==
    ASSUME NEW s \in Stmt, s.bound # Unbound => s.bound \in Values
    PROVE  NextRow(s) \in Stmt
  <1> DEFINE rows == IF s.bound = Unbound THEN 0 ELSE RowsFor[s.bound]
             k == IF s.at > rows THEN 1 ELSE s.at + 1
  <1>1. s.at \in Nat /\ rows \in Nat
    BY StatementsAssumption DEF Stmt
  <1>2. k \in Nat
    <2> HIDE DEF rows
    <2> QED  BY <1>1
  <1>3. NextRow(s) = [s EXCEPT !.at = k]
    BY DEF NextRow
  <1> HIDE DEF k
  <1> QED
    BY <1>2, <1>3 DEF Stmt

\* Bind, Step and Reset are the three uses of a statement.  The holder's view
\* is right, so that Bind never finds the statement running.
LEMMA UsedInv ==
    ASSUME StatementsInv, NEW h \in Handles,
           \/ \E val \in Values : Bind(h, val)
           \/ Step(h) \/ ResetStatement(h)
    PROVE  StatementsInv'
  <1> DEFINE e == handle[h].entry  v == view[h]
  <1>1. /\ cache \in Seq(CacheEntry)
        /\ view \in [Handles -> Stmt]
        /\ v \in Stmt /\ v = [bound |-> v.bound, at |-> v.at]
        /\ v.bound \in Values \cup {Unbound} /\ v.at \in Nat
        /\ stmtAbort = FALSE
    BY DEF StatementsInv, StatementsTypeOK, Stmt
  <1>2. /\ Holds(h) /\ handle' = handle
        /\ e \in DOMAIN cache /\ cache[e] \in CacheEntry /\ cache[e].stmt = v
    <2>1. Holds(h) /\ handle' = handle
      BY DEF Bind, Step, ResetStatement
    <2>2. e \in DOMAIN cache /\ cache[e].stmt = v
      BY <2>1 DEF StatementsInv, HolderInv
    <2> QED
      BY <1>1, <2>1, <2>2
  <1>3. CASE \E val \in Values : Bind(h, val)
    <2>1. PICK val \in Values : Bind(h, val)
      BY <1>3
    <2> DEFINE s == [v EXCEPT !.bound = val]
    <2>2. s \in Stmt
      BY <1>1 DEF Stmt
    <2>3. cache' = [cache EXCEPT ![handle[h].entry].stmt = s]
      BY <1>1, <1>2, <2>1 DEF Bind
    <2>4. view' = [view EXCEPT ![h] = s]
      BY <1>1, <2>1 DEF Bind
    <2>5. stmtAbort' = FALSE
      BY <1>1, <1>2, <2>1 DEF Bind
    <2> HIDE DEF s, e, v
    <2> QED
      BY <1>2, <2>2, <2>3, <2>4, <2>5, UseInv
  <1>4. CASE Step(h)
    <2> DEFINE s == NextRow(v)
    <2>2. s \in Stmt
      BY <1>1, NextRowType
    <2>3. cache' = [cache EXCEPT ![handle[h].entry].stmt = s]
      BY <1>1, <1>2, <1>4 DEF Step
    <2>4. view' = [view EXCEPT ![h] = s] /\ stmtAbort' = FALSE
      BY <1>1, <1>4 DEF Step
    <2> HIDE DEF s, e, v
    <2> QED
      BY <1>2, <2>2, <2>3, <2>4, UseInv
  <1>5. CASE ResetStatement(h)
    <2> DEFINE s == [v EXCEPT !.at = 0]
    <2>2. s \in Stmt
      BY <1>1 DEF Stmt
    <2>3. cache' = [cache EXCEPT ![handle[h].entry].stmt = s]
      BY <1>1, <1>2, <1>5 DEF ResetStatement
    <2>4. view' = [view EXCEPT ![h] = s] /\ stmtAbort' = FALSE
      BY <1>1, <1>5 DEF ResetStatement
    <2> HIDE DEF s, e, v
    <2> QED
      BY <1>2, <2>2, <2>3, <2>4, UseInv
  <1> QED
    BY <1>3, <1>4, <1>5

\* With no Statement object left, no entry is reserved.
LEMMA ClearInv ==
    ASSUME StatementsInv, ClearStatementCache
    PROVE  StatementsInv'
  <1>1. /\ cache' = <<>> /\ handle' = handle /\ view' = view
        /\ \A h \in Handles : handle[h].entry = 0 /\ handle[h].sql = NoSql
    BY DEF ClearStatementCache, Empty, EmptyStatement
  <1>2. \A e \in DOMAIN cache : ~cache[e].used
    <2>1. cache \in Seq(CacheEntry)
      BY DEF StatementsInv, StatementsTypeOK
    <2>2. \A e \in DOMAIN cache : e # 0
      BY <2>1
    <2> QED
      BY <1>1, <2>2 DEF StatementsInv
  <1>3. stmtAbort' = FALSE
    BY <1>2 DEF ClearStatementCache, StatementsInv, StatementsTypeOK
  <1>4. StatementsTypeOK' /\ DOMAIN cache' = {}
    BY <1>1, <1>3 DEF StatementsInv, StatementsTypeOK
  <1>5. \A h \in Handles : ~Holds(h) /\ ~Holds(h)' /\ ~Preparing(h)'
    BY <1>1 DEF Holds, Preparing
  <1>6. ASSUME NEW sql \in Sqls
        PROVE  EntriesCounted(sql)'
    <2>1. EntriesOf(sql)' = {} /\ PreparingFor(sql)' = {}
      BY <1>4, <1>5 DEF EntriesOf, PreparingFor
    <2>2. Cardinality(Handles) \in Nat
      BY StatementsAssumption, FS_CardinalityType
    <2> QED
      BY <2>1, <2>2, FS_EmptySet DEF EntriesCounted
  <1>7. \A h \in Handles : HolderInv(h)'
    BY <1>1, <1>5 DEF StatementsInv, HolderInv
  <1> QED
    BY <1>4, <1>5, <1>6, <1>7 DEF StatementsInv

LEMMA StatementsNextInv == StatementsInv /\ StatementsNext => StatementsInv'
  <1> SUFFICES ASSUME StatementsInv, StatementsNext PROVE StatementsInv'
    OBVIOUS
  <1>1. CASE \E h \in Handles, sql \in Sqls : PrepareRo(h, sql)
    BY <1>1, ReuseInv, PrepareInv
  <1>2. CASE \E h \in Handles : EmplaceStatement(h)
    BY <1>2, EmplaceInv
  <1>3. CASE \E h \in Handles : Step(h) \/ ResetStatement(h)
    BY <1>3, UsedInv
  <1>4. CASE \E h \in Handles, val \in Values : Bind(h, val)
    BY <1>4, UsedInv
  <1>5. CASE \E h \in Handles : DestroyStatement(h)
    BY <1>5, DestroyInv
  <1>6. CASE \E h, to \in Handles : MoveStatement(h, to)
    BY <1>6, MoveInv
  <1>7. CASE ClearStatementCache
    BY <1>7, ClearInv
  <1> QED
    BY <1>1, <1>2, <1>3, <1>4, <1>5, <1>6, <1>7 DEF StatementsNext

\* What StatementsExclusive says follows from the invariant.
LEMMA StatementsInvExclusive == StatementsInv => StatementsExclusive
  <1> SUFFICES ASSUME StatementsInv PROVE StatementsExclusive
    OBVIOUS
  <1>1. ~stmtAbort
    BY DEF StatementsInv, StatementsTypeOK
  <1>2. ASSUME NEW h \in Handles, Holds(h)
        PROVE  /\ cache[handle[h].entry].used
               /\ cache[handle[h].entry].sql = handle[h].sql
               /\ Get(cache[handle[h].entry].stmt) = Get(view[h])
               /\ \A g \in Handles \ {h} : handle[g].entry # handle[h].entry
    BY <1>2 DEF StatementsInv, HolderInv
  <1>3. ASSUME NEW sql \in Sqls
        PROVE  Cardinality({e \in DOMAIN cache : cache[e].sql = sql}) <= Cardinality(Handles)
    <2>1. Cardinality(EntriesOf(sql)) + Cardinality(PreparingFor(sql)) <= Cardinality(Handles)
      BY DEF StatementsInv, EntriesCounted
    <2>2. /\ Cardinality(EntriesOf(sql)) \in Nat /\ Cardinality(PreparingFor(sql)) \in Nat
          /\ Cardinality(Handles) \in Nat
      BY EntriesFinite DEF StatementsInv
    <2>3. Cardinality(EntriesOf(sql)) <= Cardinality(Handles)
      BY <2>1, <2>2
    <2> QED
      BY <2>3 DEF EntriesOf
  <1> QED
    BY <1>1, <1>2, <1>3 DEF StatementsExclusive, StatementsInv

\* However the threads interleave, a prepared statement has one user, who finds
\* it as they left it, and the cache does not outgrow the Statement objects
\* (SQLiteDatabase::PrepareRo, Statement::Clear).
THEOREM OneUserPerStatement == StatementsSpec => []StatementsExclusive
  <1>1. StatementsInv /\ [StatementsNext]_cacheVars => StatementsInv'
    <2>1. CASE StatementsNext
      BY <2>1, StatementsNextInv
    <2>2. CASE UNCHANGED cacheVars
      BY <2>2 DEF cacheVars, StatementsInv, StatementsTypeOK, HolderInv, EntriesCounted,
                  EntriesOf, PreparingFor, Holds, Preparing
    <2> QED
      BY <2>1, <2>2
  <1> QED
    BY <1>1, StatementsInitInv, StatementsInvExclusive, PTL DEF StatementsSpec

----------------------------------------------------------------------------
(* ChannelThreads.                                                         *)

Frontend == [pc : {"idle", "waiting", "woken"}, arg : Nat, known : Nat]

WaitingAt(fr) == {f \in Frontends : fr[f].pc \in {"waiting", "woken"}}

\* Of the manager, what waiting frontends see; it counts what is behind the lock.
WaitInv ==
    /\ manager \in [version : Nat, block : {manager.block},
                    stopped : BOOLEAN, waiting : Nat, fed : {manager.fed}]
    /\ front \in [Frontends -> Frontend]
    /\ NoMissedChange

LEMMA WaitInitInv == DaemonInit => WaitInv
  <1> SUFFICES ASSUME DaemonInit PROVE WaitInv
    OBVIOUS
  <1>1. front \in [Frontends -> Frontend] /\ \A f \in Frontends : front[f].pc = "idle"
    BY DEF DaemonInit, Frontend
  <1>2. {f \in Frontends : front[f].pc \in {"waiting", "woken"}} = {}
    BY <1>1
  <1>3. manager.waiting = 0
    BY DEF DaemonInit, SynchronisedChannelManager
  <1> QED
    BY <1>1, <1>2, <1>3, FS_EmptySet DEF DaemonInit, SynchronisedChannelManager, WaitInv, NoMissedChange

\* NotifyAll leaves nobody asleep, and everybody counted.
LEMMA Notified ==
    ASSUME WaitInv, NotifyAll
    PROVE  /\ front' \in [Frontends -> Frontend]
           /\ \A f \in Frontends : front'[f].pc # "waiting"
           /\ WaitingAt(front') = WaitingAt(front)
  BY DEF WaitInv, NotifyAll, Frontend, WaitingAt

\* A change of the manager that all frontends are told of.
LEMMA ToldInv ==
    ASSUME WaitInv, NotifyAll, manager'.waiting = manager.waiting,
           manager' \in [version : Nat, block : {manager'.block},
                         stopped : BOOLEAN, waiting : Nat, fed : {manager'.fed}]
    PROVE  WaitInv'
  BY Notified DEF WaitInv, NoMissedChange, WaitingAt

\* An update of the manager, whatever it is about.
LEMMA UpdateInv ==
    ASSUME WaitInv, NotifyAll, NEW block, NEW fed,
           manager' = [version |-> manager.version + 1, block |-> block,
                       stopped |-> manager.stopped, waiting |-> manager.waiting, fed |-> fed]
    PROVE  WaitInv'
  <1>1. manager.version \in Nat /\ manager.stopped \in BOOLEAN /\ manager.waiting \in Nat
    BY DEF WaitInv
  <1> QED
    BY <1>1, ToldInv

LEMMA ManagerIs ==
    ASSUME WaitInv
    PROVE  /\ manager = [version |-> manager.version, block |-> manager.block,
                         stopped |-> manager.stopped, waiting |-> manager.waiting,
                         fed |-> manager.fed]
           /\ manager.version \in Nat
  BY DEF WaitInv

LEMMA UpdatedManager ==
    ASSUME WaitInv, NotifyAll, NEW x,
           \/ manager' = NewVersion(manager)
           \/ manager' = [NewVersion(manager) EXCEPT !.block = x]
           \/ manager' = [NewVersion(manager) EXCEPT !.fed = x]
    PROVE  WaitInv'
  <1> DEFINE v == manager.version
             b == manager.block
             s == manager.stopped
             w == manager.waiting
             fed == manager.fed
  <1>1. manager = [version |-> v, block |-> b, stopped |-> s, waiting |-> w,
                   fed |-> fed]
        /\ v \in Nat
    BY ManagerIs
  <1>2. \A block, got :
          manager' = [version |-> v + 1, block |-> block, stopped |-> s,
                      waiting |-> w, fed |-> got] => WaitInv'
    BY UpdateInv
  <1>3. NewVersion(manager) = [manager EXCEPT !.version = v + 1]
    BY DEF NewVersion
  <1> HIDE DEF v, b, s, w, fed
  <1> DEFINE n == [version |-> v + 1, block |-> b, stopped |-> s, waiting |-> w,
                   fed |-> fed]
  <1>4. NewVersion(manager) = n
    BY <1>1, <1>3
  <1>5. /\ [n EXCEPT !.block = x] = [version |-> v + 1, block |-> x,
                                     stopped |-> s, waiting |-> w, fed |-> fed]
        /\ [n EXCEPT !.fed = x] = [version |-> v + 1, block |-> b,
                                   stopped |-> s, waiting |-> w, fed |-> x]
    OBVIOUS
  <1>6. \E block, got :
          manager' = [version |-> v + 1, block |-> block, stopped |-> s,
                      waiting |-> w, fed |-> got]
    BY <1>4, <1>5, Zenon
  <1> QED
    BY <1>2, <1>6

\* A step that does not touch what frontends see.
LEMMA UnseenInv ==
    ASSUME WaitInv, front' = front,
           \/ manager' = manager
           \/ \E x : manager' = [manager EXCEPT !.fed = x]
    PROVE  WaitInv'
  BY DEF WaitInv, NoMissedChange

LEMMA WaitStartInv ==
    ASSUME WaitInv, NEW f \in Frontends, NEW known \in {0, front[f].known},
           WaitForChange(f, known)
    PROVE  WaitInv'
  <1> DEFINE returns == (known # 0 /\ known # manager.version) \/ manager.stopped
             W == WaitingAt(front)
  <1>1. known \in Nat /\ front[f].pc = "idle" /\ f \notin W
    <2>1. front[f] \in Frontend
      BY DEF WaitInv
    <2>2. front[f].known \in Nat
      BY <2>1 DEF Frontend
    <2>3. front[f].pc = "idle"
      BY DEF WaitForChange
    <2> QED  BY <2>2, <2>3 DEF WaitingAt
  <1>2. CASE returns
    <2>1. front' = [front EXCEPT ![f] = ToJson(f)] /\ manager' = manager
      BY <1>2 DEF WaitForChange
    <2>2. ToJson(f) \in Frontend /\ ToJson(f).pc = "idle"
      BY DEF ToJson, WaitInv, Frontend
    <2>3. front' \in [Frontends -> Frontend] /\ front'[f].pc = "idle"
          /\ \A g \in Frontends \ {f} : front'[g] = front[g]
      BY <2>1, <2>2 DEF WaitInv
    <2>4. WaitingAt(front') = W
      BY <1>1, <2>3 DEF WaitingAt
    <2> QED  BY <2>1, <2>3, <2>4 DEF WaitInv, NoMissedChange, WaitingAt
  <1>3. CASE ~returns
    <2> DEFINE c == [front[f] EXCEPT !.pc = "waiting", !.arg = known]
    <2>1. front' = [front EXCEPT ![f] = c]
          /\ manager' = [manager EXCEPT !.waiting = @ + 1]
      BY <1>3 DEF WaitForChange
    <2>2. c \in Frontend /\ c.pc = "waiting" /\ c.arg = known
      BY <1>1 DEF WaitInv, Frontend
    <2> HIDE DEF c
    <2>3. front' \in [Frontends -> Frontend] /\ front'[f] = c
          /\ \A g \in Frontends \ {f} : front'[g] = front[g]
      BY <2>1, <2>2 DEF WaitInv
    <2>4. WaitingAt(front') = W \cup {f}
      BY <2>2, <2>3 DEF WaitingAt
    <2>5. IsFiniteSet(W) /\ Cardinality(W) = manager.waiting
      BY DaemonAssumption, FS_Subset DEF WaitingAt, WaitInv, NoMissedChange
    <2>6. Cardinality(W \cup {f}) = manager.waiting + 1
      BY <1>1, <2>5, FS_AddElement
    <2>7. /\ manager' \in [version : Nat, block : {manager'.block}, stopped : BOOLEAN,
                           waiting : Nat, fed : {manager'.fed}]
          /\ manager'.waiting = manager.waiting + 1
          /\ manager'.version = manager.version /\ manager'.stopped = manager.stopped
      BY <2>1 DEF WaitInv
    <2>8. \A g \in Frontends : front'[g].pc = "waiting" =>
             ~manager'.stopped /\ front'[g].arg \in {0, manager'.version}
      BY <1>3, <2>2, <2>3, <2>7 DEF WaitInv, NoMissedChange
    <2>9. manager'.waiting = Cardinality(WaitingAt(front'))
      BY <2>4, <2>6, <2>7
    <2> QED  BY <2>3, <2>7, <2>8, <2>9 DEF WaitInv, NoMissedChange, WaitingAt
  <1> QED
    BY <1>2, <1>3

LEMMA WaitEndInv ==
    ASSUME WaitInv, NEW f \in Frontends, FrontendThread(f)
    PROVE  WaitInv'
  <1> DEFINE W == WaitingAt(front)
  <1>1. CASE WaitTimeout(f)
    <2>1. front' \in [Frontends -> Frontend] /\ front'[f].pc = "woken"
          /\ (\A g \in Frontends \ {f} : front'[g] = front[g])
          /\ f \in W /\ manager' = manager
      BY <1>1 DEF WaitTimeout, WaitInv, Frontend, WaitingAt
    <2>2. WaitingAt(front') = W
      BY <2>1 DEF WaitingAt
    <2> QED  BY <2>1, <2>2 DEF WaitInv, NoMissedChange, WaitingAt
  <1>2. CASE WaitReturns(f)
    <2>1. front' = [front EXCEPT ![f] = ToJson(f)]
          /\ manager' = [manager EXCEPT !.waiting = @ - 1] /\ front[f].pc = "woken" /\ f \in W
      BY <1>2 DEF WaitReturns, WaitingAt
    <2>2. ToJson(f) \in Frontend /\ ToJson(f).pc = "idle"
      BY DEF ToJson, WaitInv, Frontend
    <2>3. front' \in [Frontends -> Frontend] /\ front'[f].pc = "idle"
          /\ \A g \in Frontends \ {f} : front'[g] = front[g]
      BY <2>1, <2>2 DEF WaitInv
    <2>4. WaitingAt(front') = W \ {f}
      BY <2>3 DEF WaitingAt
    <2>5. IsFiniteSet(W) /\ Cardinality(W) = manager.waiting
      BY DaemonAssumption, FS_Subset DEF WaitingAt, WaitInv, NoMissedChange
    <2>6. Cardinality(W \ {f}) = manager.waiting - 1
      BY <2>1, <2>5, FS_RemoveElement
    <2>7. Cardinality(W \ {f}) \in Nat
      BY <2>5, FS_RemoveElement, FS_CardinalityType
    <2>8. /\ manager' \in [version : Nat, block : {manager'.block}, stopped : BOOLEAN,
                           waiting : Nat, fed : {manager'.fed}]
          /\ manager'.waiting = manager.waiting - 1
          /\ manager'.version = manager.version /\ manager'.stopped = manager.stopped
      BY <2>1, <2>6, <2>7 DEF WaitInv
    <2>9. manager'.waiting = Cardinality(WaitingAt(front'))
      BY <2>4, <2>6, <2>8
    <2> QED  BY <2>3, <2>8, <2>9 DEF WaitInv, NoMissedChange, WaitingAt
  <1> QED
    BY <1>1, <1>2 DEF FrontendThread

LEMMA WaitNextInv ==
    ASSUME WaitInv, [DaemonNext]_daemonVars
    PROVE  WaitInv'
  <1>1. CASE UNCHANGED daemonVars
    BY <1>1, UnseenInv DEF daemonVars
  <1>2. CASE \E next \in GspStates : GspChanges(next)
    BY <1>2, UnseenInv DEF GspChanges
  <1>3. CASE (\E kind \in Kinds \ {"own"} : PeerSends(kind)) \/ ServerRestarts \/ RequestStop
             \/ GspFails \/ ReceiveFails \/ InitialiseFails \/ UpdateFails
    BY <1>3, UnseenInv DEF PeerSends, ServerRestarts, RequestStop, GspFails, ReceiveFails,
                           InitialiseFails, UpdateFails
  <1>4. CASE FrontendMove
    BY <1>4, UpdatedManager DEF FrontendMove, StateChanged
  <1>5. CASE MainThread
    <2>1. CASE StopUpdates
      BY <2>1, ToldInv DEF StopUpdates, WaitInv
    <2>2. CASE ~StopUpdates
      BY <1>5, <2>2, UnseenInv
         DEF MainThread, DaemonStart, InitialiseSequence, DaemonStop, JoinFeeder,
             JoinReceiver, Destroy
    <2> QED  BY <2>1, <2>2
  <1>6. CASE FeederThread
    <2>1. CASE \E automoves \in BOOLEAN : FeedBlock(automoves)
      BY <2>1, UpdatedManager DEF FeedBlock, StateChanged
    <2>2. CASE UpdateOnce \/ FeederLoop \/ WaitForBlock
      BY <2>2, UnseenInv DEF UpdateOnce, FeederLoop, WaitForBlock
    <2> QED  BY <1>6, <2>1, <2>2 DEF FeederThread
  <1>7. CASE ReceiverThread
    <2>1. CASE \E automoves \in BOOLEAN : FeedMessage(automoves)
      <3>1. ASSUME NotifyAll, NEW fed, manager' = [NewVersion(manager) EXCEPT !.fed = fed]
            PROVE  WaitInv'
        BY <3>1, UpdatedManager
      <3>2. CASE front' = front /\ (manager' = manager \/ \E fed : manager' = [manager EXCEPT !.fed = fed])
        BY <3>2, UnseenInv
      <3> QED  BY <2>1, <3>1, <3>2 DEF FeedMessage, StateChanged
    <2>2. CASE ReceiverLoop \/ GetMessages \/ BatchDone
      BY <2>2, UnseenInv DEF ReceiverLoop, GetMessages, BatchDone
    <2> QED  BY <1>7, <2>1, <2>2 DEF ReceiverThread
  <1>8. CASE \E f \in Frontends : FrontendThread(f)
                                  \/ \E known \in {0, front[f].known} : WaitForChange(f, known)
    BY <1>8, WaitStartInv, WaitEndInv
  <1>9. CASE FrontendMoveFails
    BY <1>9, UnseenInv DEF FrontendMoveFails
  <1> QED
    BY <1>1, <1>2, <1>3, <1>4, <1>5, <1>6, <1>7, <1>8, <1>9 DEF DaemonNext

\* However blocks, messages, moves and a stop come between the calls of any
\* number of frontends, none of them sleeps through a change, and the destructor
\* of the manager counts them right (SynchronisedChannelManager::WaitForChange).
THEOREM NoChangeIsMissed == DaemonSpec => []NoMissedChange
  <1>1. WaitInv => NoMissedChange
    BY DEF WaitInv
  <1> QED
    BY <1>1, WaitInitInv, WaitNextInv, PTL DEF DaemonSpec

(***************************************************************************)
(* The messages a channel daemon receives.                                 *)
(***************************************************************************)
Message == [id : Nat, kind : Kinds]

Increasing(q) == \A i, j \in DOMAIN q : i < j => q[i].id < q[j].id

\* What has been decoded of the first n messages of a response.
Decoding(msgs, n, q) ==
    /\ q \in Seq(Message)
    /\ \A k \in 1 .. Len(q) : \E i \in 1 .. n : q[k] = msgs[i]
    /\ \A k, l \in 1 .. Len(q) : k < l => q[k].id < q[l].id
    /\ \A i \in 1 .. n : msgs[i].kind # "junk" => \E k \in 1 .. Len(q) : q[k] = msgs[i]

LEMMA DecodingStep ==
    ASSUME NEW msgs \in Seq(Message), Increasing(msgs), NEW n \in 1 .. Len(msgs),
           NEW q, Decoding(msgs, n - 1, q)
    PROVE  /\ msgs[n].kind = "junk" => Decoding(msgs, n, q)
           /\ msgs[n].kind # "junk" => Decoding(msgs, n, Append(q, msgs[n]))
  <1>1. /\ q \in Seq(Message) /\ msgs[n] \in Message /\ Len(q) \in Nat
        /\ DOMAIN msgs = 1 .. Len(msgs) /\ Len(msgs) \in Nat
    BY LenProperties, ElementOfSeq DEF Decoding
  <1>2. \A i \in 1 .. (n - 1) : i \in 1 .. n /\ i \in DOMAIN msgs /\ i < n
    BY <1>1
  <1>3. \A i \in 1 .. n : i \in 1 .. (n - 1) \/ i = n
    BY <1>1
  <1>4. CASE msgs[n].kind = "junk"
    BY <1>1, <1>2, <1>3, <1>4 DEF Decoding
  <1>5. CASE msgs[n].kind # "junk"
    <2> DEFINE r == Append(q, msgs[n])
    <2>1. /\ r \in Seq(Message) /\ Len(r) = Len(q) + 1 /\ r[Len(r)] = msgs[n]
          /\ \A k \in 1 .. Len(q) : r[k] = q[k]
      BY <1>1, AppendProperties
    <2> HIDE DEF r
    <2>2. \A k \in 1 .. Len(r) : k \in 1 .. Len(q) \/ k = Len(r)
      BY <1>1, <2>1
    <2>3. \A k \in 1 .. Len(q) : k \in 1 .. Len(r)
      BY <1>1, <2>1
    <2>4. n \in 1 .. n /\ Len(r) \in 1 .. Len(r)
      BY <1>1, <2>1
    <2>5. \A k \in 1 .. Len(r) : \E i \in 1 .. n : r[k] = msgs[i]
      <3> TAKE k \in 1 .. Len(r)
      <3>1. CASE k = Len(r)
        BY <2>1, <2>4, <3>1
      <3>2. CASE k \in 1 .. Len(q)
        <4>1. PICK i \in 1 .. (n - 1) : q[k] = msgs[i]
          BY <3>2 DEF Decoding
        <4> QED  BY <1>2, <2>1, <3>2, <4>1
      <3> QED  BY <2>2, <3>1, <3>2
    <2>6. \A k \in 1 .. Len(q) : q[k].id < msgs[n].id
      <3> TAKE k \in 1 .. Len(q)
      <3>1. PICK i \in 1 .. (n - 1) : q[k] = msgs[i]
        BY DEF Decoding
      <3>2. i \in DOMAIN msgs /\ n \in DOMAIN msgs /\ i < n
        BY <1>1, <1>2
      <3> QED  BY <3>1, <3>2 DEF Increasing
    <2>7. \A k, l \in 1 .. Len(r) : k < l => r[k].id < r[l].id
      <3> SUFFICES ASSUME NEW k \in 1 .. Len(r), NEW l \in 1 .. Len(r), k < l
                   PROVE  r[k].id < r[l].id
        OBVIOUS
      <3>1. k \in 1 .. Len(q)
        BY <1>1, <2>1
      <3>2. CASE l = Len(r)
        BY <2>1, <2>6, <3>1, <3>2
      <3>3. CASE l \in 1 .. Len(q)
        BY <2>1, <3>1, <3>3 DEF Decoding
      <3> QED  BY <2>2, <3>2, <3>3
    <2>8. \A i \in 1 .. n : msgs[i].kind # "junk" => \E k \in 1 .. Len(r) : r[k] = msgs[i]
      BY <1>3, <2>1, <2>3, <2>4 DEF Decoding
    <2> QED
      BY <1>5, <2>1, <2>5, <2>7, <2>8 DEF Decoding, r
  <1> QED
    BY <1>4, <1>5

\* The messages of a response that are not junk, all of them in their order.
LEMMA DecodedMessagesAre ==
    ASSUME NEW msgs \in Seq(Message), Increasing(msgs)
    PROVE  Decoding(msgs, Len(msgs), DecodedMessages(msgs))
  <1> DEFINE n == Len(msgs)
             step == [p \in Seq(Message) \X (1 .. n) |->
                        IF msgs[p[2]].kind = "junk" THEN p[1] ELSE Append(p[1], msgs[p[2]])]
             Is(f) == f = [i \in 0 .. n |->
                             IF i = 0 THEN <<>>
                             ELSE IF msgs[i].kind = "junk" THEN f[i - 1]
                                                           ELSE Append(f[i - 1], msgs[i])]
             decoded == CHOOSE f : Is(f)
  <1>1. n \in Nat /\ \A i \in 1 .. n : msgs[i] \in Message
    BY LenProperties, ElementOfSeq
  <1>2. step \in [Seq(Message) \X (1 .. n) -> Seq(Message)]
    <2>1. \A q \in Seq(Message), m \in Message : Append(q, m) \in Seq(Message)
      BY AppendProperties
    <2> QED  BY <1>1, <2>1
  <1>3. \A q \in Seq(Message), i \in 1 .. n :
           step[<<q, i>>] = IF msgs[i].kind = "junk" THEN q ELSE Append(q, msgs[i])
    OBVIOUS
  <1>4. <<>> \in Seq(Message)
    BY EmptySeq
  <1> HIDE DEF step, n
  <1>5. PICK f \in [0 .. n -> Seq(Message)] :
           f[0] = <<>> /\ \A i \in 1 .. n : f[i] = step[<<f[i - 1], i>>]
    <2> DEFINE T == Seq(Message)
               none == <<>>
    <2>1. n \in Nat /\ none \in T /\ step \in [T \X (1 .. n) -> T]
      BY <1>1, <1>2, <1>4
    <2>2. \E f : Taken(f, n, T, none, step)
      <3> HIDE DEF T, none
      <3> QED  BY <2>1, StepsTaken
    <2> QED  BY <2>2 DEF Taken
  <1>6. \A i \in 1 .. n : f[i] = IF msgs[i].kind = "junk" THEN f[i - 1]
                                                          ELSE Append(f[i - 1], msgs[i])
    <2>1. \A i \in 1 .. n : i - 1 \in 0 .. n
      BY <1>1
    <2> QED  BY <1>3, <1>5, <2>1
  <1>7. Is(f)
    <2>1. \A i \in 0 .. n : i = 0 \/ i \in 1 .. n
      BY <1>1
    <2> QED  BY <1>5, <1>6, <2>1
  <1>8. Is(decoded)
    <2> HIDE DEF Is
    <2> QED  BY <1>7
  <1>9. DecodedMessages(msgs) = decoded[n]
    BY DEF DecodedMessages, n
  <1> HIDE DEF decoded
  <1>10. decoded[0] = <<>>
         /\ \A i \in 1 .. n : decoded[i] = IF msgs[i].kind = "junk" THEN decoded[i - 1]
                                           ELSE Append(decoded[i - 1], msgs[i])
    <2>1. 0 \in 0 .. n /\ \A i \in 1 .. n : i \in 0 .. n /\ i # 0
      BY <1>1
    <2> QED  BY <1>8, <2>1
  <1> DEFINE R == [i \in 0 .. n |-> {q \in Seq(Message) : Decoding(msgs, i, q)}]
  <1>11. \A i \in 0 .. n : \A q : q \in R[i] <=> Decoding(msgs, i, q)
    BY DEF Decoding
  <1>12. Decoding(msgs, 0, decoded[0])
    <2>1. decoded[0] \in Seq(Message) /\ Len(decoded[0]) = 0
      BY <1>4, <1>10, EmptySeq
    <2> QED  BY <2>1 DEF Decoding
  <1> HIDE DEF R
  <1>13. decoded[0] \in R[0]
    <2>1. 0 \in 0 .. n
      BY <1>1
    <2> QED  BY <1>11, <1>12, <2>1
  <1>14. \A i \in 1 .. n : decoded[i - 1] \in R[i - 1] => decoded[i] \in R[i]
    <2> TAKE i \in 1 .. n
    <2>1. i \in 0 .. n /\ i - 1 \in 0 .. n /\ i \in 1 .. Len(msgs)
      BY <1>1 DEF n
    <2>2. Decoding(msgs, i - 1, decoded[i - 1]) => Decoding(msgs, i, decoded[i])
      BY <1>10, <2>1, DecodingStep
    <2> QED  BY <1>11, <2>1, <2>2
  <1>15. \A i \in 0 .. n : decoded[i] \in R[i]
    BY <1>1, <1>13, <1>14, StepsKeep
  <1>16. n \in 0 .. n
    BY <1>1
  <1> QED
    BY <1>9, <1>11, <1>15, <1>16 DEF n

DaemonState == {"ready", "getseq", "running", "join feeder", "join receiver", "stop updates",
                "listening stops", "gone", "terminated"}

ReceiverState == {"off", "loop", "receive", "feed", "done"}

\* What has been received and what is still to be handed on, of all messages
\* sent so far; what the server has beyond seq is newer.
Received(fed, batch, seq, messages, sent) ==
    /\ \A i \in DOMAIN fed : fed[i] <= sent
    /\ \A i, j \in DOMAIN fed : i < j => fed[i] < fed[j]
    /\ \A i \in DOMAIN batch : batch[i].id <= sent
    /\ Increasing(batch)
    /\ \A i \in DOMAIN fed, j \in DOMAIN batch : fed[i] < batch[j].id
    /\ \A k \in DOMAIN messages : k > seq =>
          /\ \A i \in DOMAIN fed : fed[i] < messages[k].id
          /\ \A j \in DOMAIN batch : batch[j].id < messages[k].id

\* While the server is not restarted, its messages are numbered from one on,
\* and of those from first on up to seq none is missing.
Complete(fed, batch, seq, first, messages, sent, on) ==
    /\ Len(messages) = sent
    /\ \A i \in DOMAIN messages : messages[i].id = i
    /\ \A j \in DOMAIN batch : batch[j].id \in DOMAIN messages /\ messages[batch[j].id] = batch[j]
    /\ on => /\ seq <= Len(messages)
             /\ \A i \in (first + 1) .. seq : messages[i].kind \in {"state", "own"} =>
                   \/ \E k \in DOMAIN fed : fed[k] = i
                   \/ \E k \in DOMAIN batch : batch[k].id = i

ReceiveTypeOK ==
    /\ daemon \in [pc : DaemonState, shouldStop : BOOLEAN, asked : BOOLEAN]
    /\ server \in [messages : Seq(Message), sent : Nat, restarted : BOOLEAN]
    /\ receiver \in [pc : ReceiverState, seq : Nat, batch : Seq(Message),
                     stopLoop : BOOLEAN, first : Nat]
    /\ manager.fed \in Seq(Nat)

ReceiveInv ==
    /\ ReceiveTypeOK
    /\ daemon.pc \in {"ready", "getseq"} => receiver.pc = "off"
    /\ receiver.pc # "feed" => receiver.batch = <<>>
    /\ Increasing(server.messages)
    /\ \A i \in DOMAIN server.messages : server.messages[i].id <= server.sent
    /\ Received(manager.fed, receiver.batch, receiver.seq, server.messages, server.sent)
    /\ ~server.restarted =>
          Complete(manager.fed, receiver.batch, receiver.seq, receiver.first,
                   server.messages, server.sent, receiver.pc # "off")

LEMMA ReceiveInitInv == DaemonInit => ReceiveInv
  <1> SUFFICES ASSUME DaemonInit PROVE ReceiveInv
    OBVIOUS
  <1>1. <<>> \in Seq(Message) /\ <<>> \in Seq(Nat) /\ Len(<<>>) = 0 /\ DOMAIN <<>> = {}
    BY EmptySeq
  <1>2. receiver = [pc |-> "off", seq |-> 0, batch |-> <<>>, stopLoop |-> FALSE, first |-> 0]
    BY DEF DaemonInit, RpcBroadcast, ReceivingBroadcast
  <1>3. daemon.pc = "ready" /\ daemon \in [pc : DaemonState, shouldStop : BOOLEAN, asked : BOOLEAN]
    BY DEF DaemonInit, ChannelDaemon, DaemonState
  <1>4. server.messages = <<>> /\ server.sent = 0
        /\ server \in [messages : Seq(Message), sent : Nat, restarted : BOOLEAN]
    BY <1>1 DEF DaemonInit, BroadcastServer
  <1>5. manager.fed = <<>>
    BY DEF DaemonInit, SynchronisedChannelManager
  <1>6. ReceiveTypeOK
    BY <1>1, <1>2, <1>3, <1>4, <1>5 DEF ReceiveTypeOK, ReceiverState
  <1>7. receiver.pc = "off" /\ receiver.batch = <<>>
    BY <1>2
  <1> QED
    BY <1>1, <1>3, <1>4, <1>5, <1>6, <1>7 DEF ReceiveInv, Received, Complete, Increasing

\* A step of the others.
LEMMA ReceiveFrame ==
    ASSUME ReceiveInv, server' = server, receiver' = receiver, manager'.fed = manager.fed,
           daemon' \in [pc : DaemonState, shouldStop : BOOLEAN, asked : BOOLEAN],
           daemon'.pc \in {"ready", "getseq"} => daemon.pc \in {"ready", "getseq"}
    PROVE  ReceiveInv'
  BY DEF ReceiveInv, ReceiveTypeOK, Received, Complete, Increasing

LEMMA FedKept ==
    ASSUME WaitInv
    PROVE  /\ NewVersion(manager).fed = manager.fed
           /\ \A b : [NewVersion(manager) EXCEPT !.block = b].fed = manager.fed
           /\ \A q : [NewVersion(manager) EXCEPT !.fed = q].fed = q
           /\ \A q : [manager EXCEPT !.fed = q].fed = q
           /\ \A w : [manager EXCEPT !.waiting = w].fed = manager.fed
           /\ \A s : [manager EXCEPT !.stopped = s].fed = manager.fed
  <1> DEFINE v == manager.version + 1
  <1>1. NewVersion(manager) = [manager EXCEPT !.version = v]
    BY DEF NewVersion
  <1>2. "fed" \in DOMAIN manager
    BY DEF WaitInv
  <1> HIDE DEF v
  <1> QED
    BY <1>1, <1>2

AppendSent(m, sent, kind) == Append(m, [id |-> sent + 1, kind |-> kind])

\* A message more at the server is newer than all that have been received.
LEMMA SentKeeps ==
    ASSUME NEW m, NEW sent, m \in Seq(Message), sent \in Nat, NEW kind \in Kinds,
           Increasing(m), \A i \in DOMAIN m : m[i].id <= sent,
           NEW fed, NEW batch, NEW seq, NEW first, NEW on, fed \in Seq(Nat),
           batch \in Seq(Message), seq \in Nat, first \in Nat, on \in BOOLEAN,
           Received(fed, batch, seq, m, sent)
    PROVE  LET q == AppendSent(m, sent, kind)
           IN  /\ q \in Seq(Message) /\ Increasing(q) /\ \A i \in DOMAIN q : q[i].id <= sent + 1
               /\ Received(fed, batch, seq, q, sent + 1)
               /\ Complete(fed, batch, seq, first, m, sent, on) =>
                     Complete(fed, batch, seq, first, q, sent + 1, on)
  <1> DEFINE new == [id |-> sent + 1, kind |-> kind]
             q == AppendSent(m, sent, kind)
  <1>1. new \in Message /\ new.id = sent + 1 /\ new.kind = kind /\ q = Append(m, new)
    BY DEF Message, AppendSent
  <1> HIDE DEF new, q
  <1>2. /\ q \in Seq(Message) /\ Len(q) = Len(m) + 1 /\ Len(m) \in Nat
        /\ (\A i \in 1 .. Len(m) : q[i] = m[i]) /\ q[Len(m) + 1] = new
        /\ DOMAIN m = 1 .. Len(m) /\ DOMAIN q = 1 .. (Len(m) + 1)
    BY <1>1, AppendProperties, LenProperties
  <1>3. /\ \A i \in DOMAIN q : i \in DOMAIN m \/ i = Len(m) + 1
        /\ \A i \in DOMAIN m : i \in DOMAIN q /\ q[i] = m[i]
    BY <1>2
  <1>4. \A i \in DOMAIN m : m[i].id \in Nat /\ m[i].id <= sent
    <2>1. \A i \in DOMAIN m : m[i] \in Message
      BY <1>2, ElementOfSeq
    <2> QED  BY <2>1 DEF Message
  <1>5. Increasing(q) /\ \A i \in DOMAIN q : q[i].id <= sent + 1
    <2>1. \A i \in DOMAIN q : q[i].id <= sent + 1
      BY <1>1, <1>2, <1>3, <1>4
    <2>2. ASSUME NEW i \in DOMAIN q, NEW j \in DOMAIN q, i < j
          PROVE  q[i].id < q[j].id
      <3>1. i \in DOMAIN m
        BY <1>2, <2>2
      <3>2. CASE j \in DOMAIN m
        BY <1>3, <2>2, <3>1, <3>2 DEF Increasing
      <3>3. CASE j = Len(m) + 1
        BY <1>1, <1>2, <1>3, <1>4, <3>1, <3>3
      <3> QED  BY <1>3, <3>2, <3>3
    <2> QED  BY <2>1, <2>2 DEF Increasing
  <1>6. /\ \A i \in DOMAIN fed : fed[i] \in Nat
        /\ \A i \in DOMAIN batch : batch[i].id \in Nat
    <2>1. \A i \in DOMAIN fed : fed[i] \in Nat
      BY LenProperties, ElementOfSeq
    <2>2. \A i \in DOMAIN batch : batch[i] \in Message
      BY LenProperties, ElementOfSeq
    <2> QED  BY <2>1, <2>2 DEF Message
  <1>7. Received(fed, batch, seq, q, sent + 1)
    <2>1. \A i \in DOMAIN fed : fed[i] <= sent + 1 /\ fed[i] < sent + 1
      BY <1>6 DEF Received
    <2>2. \A i \in DOMAIN batch : batch[i].id <= sent + 1 /\ batch[i].id < sent + 1
      BY <1>6 DEF Received
    <2>3. ASSUME NEW k \in DOMAIN q, k > seq
          PROVE  /\ \A i \in DOMAIN fed : fed[i] < q[k].id
                 /\ \A j \in DOMAIN batch : batch[j].id < q[k].id
      <3>1. CASE k \in DOMAIN m
        BY <1>3, <2>3, <3>1 DEF Received
      <3>2. CASE k = Len(m) + 1
        BY <1>1, <1>2, <2>1, <2>2, <3>2
      <3> QED  BY <1>3, <3>1, <3>2
    <2> QED  BY <2>1, <2>2, <2>3 DEF Received
  <1>8. ASSUME Complete(fed, batch, seq, first, m, sent, on)
        PROVE  Complete(fed, batch, seq, first, q, sent + 1, on)
    <2>1. Len(q) = sent + 1
      BY <1>2, <1>8 DEF Complete
    <2>2. \A i \in DOMAIN q : q[i].id = i
      BY <1>1, <1>2, <1>3, <1>8 DEF Complete
    <2>3. ASSUME on PROVE seq <= Len(q) /\ seq <= Len(m)
      BY <1>2, <1>8, <2>3 DEF Complete
    <2>4. ASSUME on, NEW i \in (first + 1) .. seq, q[i].kind \in {"state", "own"}
          PROVE  \/ \E k \in DOMAIN fed : fed[k] = i
                 \/ \E k \in DOMAIN batch : batch[k].id = i
      <3>1. i \in DOMAIN m
        BY <1>2, <2>3, <2>4
      <3>2. m[i].kind \in {"state", "own"}
        BY <1>3, <2>4, <3>1
      <3> QED  BY <1>8, <2>4, <3>2 DEF Complete
    <2>5. \A j \in DOMAIN batch : batch[j].id \in DOMAIN q /\ q[batch[j].id] = batch[j]
      BY <1>3, <1>8 DEF Complete
    <2> QED  BY <2>1, <2>2, <2>3, <2>4, <2>5 DEF Complete
  <1> QED
    BY <1>2, <1>5, <1>7, <1>8 DEF q

LEMMA ServerSent ==
    ASSUME ReceiveInv, NEW kind \in Kinds, server' = Sent(kind)
    PROVE  /\ server'.messages = AppendSent(server.messages, server.sent, kind)
           /\ server'.sent = server.sent + 1 /\ server'.restarted = server.restarted
           /\ server'.messages \in Seq(Message) =>
                 server' \in [messages : Seq(Message), sent : Nat, restarted : BOOLEAN]
  <1> DEFINE q == AppendSent(server.messages, server.sent, kind)
  <1>1. server' = [server EXCEPT !.messages = q, !.sent = server.sent + 1]
    BY DEF Sent, AppendSent
  <1>2. server \in [messages : Seq(Message), sent : Nat, restarted : BOOLEAN]
    BY DEF ReceiveInv, ReceiveTypeOK
  <1> HIDE DEF q
  <1>3. server' = [messages |-> q, sent |-> server.sent + 1, restarted |-> server.restarted]
    BY <1>1, <1>2
  <1> QED
    BY <1>2, <1>3 DEF q

\* A step of the others, perhaps with a message.
LEMMA SentInv ==
    ASSUME ReceiveInv, NEW kind \in Kinds, server' \in {server, Sent(kind)},
           receiver' = receiver, manager'.fed = manager.fed,
           daemon' \in [pc : DaemonState, shouldStop : BOOLEAN, asked : BOOLEAN],
           daemon'.pc \in {"ready", "getseq"} => daemon.pc \in {"ready", "getseq"}
    PROVE  ReceiveInv'
  <1>1. CASE server' = server
    BY <1>1, ReceiveFrame
  <1>2. CASE server' = Sent(kind)
    <2> DEFINE m == server.messages
               q == server'.messages
               fed == manager.fed
               batch == receiver.batch
               seq == receiver.seq
               first == receiver.first
               on == receiver.pc # "off"
    <2>1. /\ m \in Seq(Message) /\ server.sent \in Nat /\ fed \in Seq(Nat)
          /\ batch \in Seq(Message) /\ seq \in Nat /\ first \in Nat /\ on \in BOOLEAN
      BY DEF ReceiveInv, ReceiveTypeOK
    <2>2. /\ Increasing(m) /\ \A i \in DOMAIN m : m[i].id <= server.sent
          /\ Received(fed, batch, seq, m, server.sent)
          /\ ~server.restarted => Complete(fed, batch, seq, first, m, server.sent, on)
      BY DEF ReceiveInv
    <2>3. /\ q = AppendSent(m, server.sent, kind)
          /\ server'.sent = server.sent + 1 /\ server'.restarted = server.restarted
      BY <1>2, ServerSent
    <2> HIDE DEF m, q, fed, batch, seq, first, on
    <2>4. /\ q \in Seq(Message) /\ Increasing(q) /\ \A i \in DOMAIN q : q[i].id <= server.sent + 1
          /\ Received(fed, batch, seq, q, server.sent + 1)
          /\ Complete(fed, batch, seq, first, m, server.sent, on) =>
                Complete(fed, batch, seq, first, q, server.sent + 1, on)
      BY <2>1, <2>2, <2>3, SentKeeps
    <2>5. server' \in [messages : Seq(Message), sent : Nat, restarted : BOOLEAN]
      BY <1>2, <2>4, ServerSent DEF q
    <2>6. ReceiveTypeOK'
      BY <2>5 DEF ReceiveInv, ReceiveTypeOK
    <2> QED
      BY <2>2, <2>3, <2>4, <2>6 DEF ReceiveInv, q, fed, batch, seq, first, on
  <1> QED
    BY <1>1, <1>2

LEMMA GetMessagesInv ==
    ASSUME ReceiveInv, GetMessages
    PROVE  ReceiveInv'
  <1> DEFINE m == server.messages
             fed == manager.fed
             seq == receiver.seq
             first == receiver.first
             resp == ServerReceive(seq)
             q == DecodedMessages(resp.messages)
  <1>1. /\ m \in Seq(Message) /\ seq \in Nat /\ fed \in Seq(Nat) /\ Len(m) \in Nat
        /\ DOMAIN m = 1 .. Len(m) /\ first \in Nat
        /\ \A i \in DOMAIN m : m[i] \in Message
    <2>1. m \in Seq(Message) /\ seq \in Nat /\ fed \in Seq(Nat) /\ first \in Nat
      BY DEF ReceiveInv, ReceiveTypeOK
    <2> QED  BY <2>1, LenProperties, ElementOfSeq
  <1>2. resp.messages = SubSeq(m, seq + 1, Len(m)) /\ resp.seq = Len(m)
    BY DEF ServerReceive
  <1> DEFINE got == SubSeq(m, seq + 1, Len(m))
  <1>3. server' = server /\ manager' = manager /\ daemon' = daemon /\ receiver.pc = "receive"
        /\ receiver.batch = <<>>
    BY DEF GetMessages, ReceiveInv
  <1>4. receiver' = [receiver EXCEPT !.seq = Len(m), !.batch = q,
                                     !.pc = IF got = <<>> THEN "loop" ELSE "feed"]
    BY <1>2 DEF GetMessages, UpdateSequence
  <1>5. /\ got \in Seq(Message)
        /\ Len(got) = IF seq + 1 <= Len(m) THEN Len(m) - seq ELSE 0
        /\ \A i \in 1 .. Len(got) : got[i] = m[seq + i]
        /\ Len(got) \in Nat /\ DOMAIN got = 1 .. Len(got)
    <2>1. CASE seq + 1 <= Len(m)
      <3>1. \A i \in (seq + 1) .. Len(m) : i \in 1 .. Len(m)
        BY <1>1
      <3>3. got \in Seq(Message) /\ Len(got) = Len(m) - seq
            /\ \A i \in 1 .. (Len(m) - seq) : got[i] = m[seq + i]
        <4> DEFINE a == seq + 1
                   z == Len(m)
        <4>1. a \in Int /\ z \in Int /\ \A i \in a .. z : m[i] \in Message
          BY <1>1, <3>1
        <4>2. a <= z /\ z - a + 1 = Len(m) - seq
              /\ \A i \in 1 .. (Len(m) - seq) : a + i - 1 = seq + i
          <5>1. seq \in Int /\ z \in Int
            BY <1>1
          <5> HIDE DEF seq, z
          <5>2. z - (seq + 1) + 1 = z - seq /\ \A i \in Int : (seq + 1) + i - 1 = seq + i
            BY <5>1
          <5> QED  BY <2>1, <5>1, <5>2 DEF z
        <4> SUFFICES SubSeq(m, a, z) \in Seq(Message) /\ Len(SubSeq(m, a, z)) = Len(m) - seq
                     /\ \A i \in 1 .. (Len(m) - seq) : SubSeq(m, a, z)[i] = m[seq + i]
          OBVIOUS
        <4> HIDE DEF a, z, m
        <4>3. SubSeq(m, a, z) \in Seq(Message)
              /\ Len(SubSeq(m, a, z)) = (IF a <= z THEN z - a + 1 ELSE 0)
              /\ \A i \in 1 .. (z - a + 1) : SubSeq(m, a, z)[i] = m[a + i - 1]
          BY <4>1, SubSeqProperties
        <4> QED  BY <4>2, <4>3
      <3> HIDE DEF got
      <3> QED  BY <1>1, <2>1, <3>3, LenProperties
    <2>2. CASE ~(seq + 1 <= Len(m))
      <3>1. got = <<>>
        BY <1>1, <2>2, SubSeqEmpty
      <3> HIDE DEF got
      <3> QED  BY <1>1, <2>2, <3>1, EmptySeq
    <2> QED  BY <2>1, <2>2
  <1> HIDE DEF got
  <1>6. \A i \in 1 .. Len(got) : seq + i \in DOMAIN m /\ seq + i > seq
    BY <1>1, <1>5
  <1>7. Increasing(got)
    <2> SUFFICES ASSUME NEW i \in DOMAIN got, NEW j \in DOMAIN got, i < j
                 PROVE  got[i].id < got[j].id
      BY DEF Increasing
    <2>1. seq + i < seq + j /\ seq + i \in DOMAIN m /\ seq + j \in DOMAIN m
      BY <1>1, <1>5, <1>6
    <2> QED  BY <1>5, <2>1 DEF ReceiveInv, Increasing
  <1>8. Decoding(got, Len(got), q)
    BY <1>2, <1>5, <1>7, DecodedMessagesAre DEF got
  <1> HIDE DEF q
  <1>9. q \in Seq(Message) /\ DOMAIN q = 1 .. Len(q)
    BY <1>8, LenProperties DEF Decoding
  <1>10. \A k \in DOMAIN q : \E i \in DOMAIN m : i > seq /\ q[k] = m[i]
    <2> TAKE k \in DOMAIN q
    <2>1. PICK i \in 1 .. Len(got) : q[k] = got[i]
      BY <1>8, <1>9 DEF Decoding
    <2> QED  BY <1>5, <1>6, <2>1
  <1>11. got = <<>> => q = <<>>
    <2> SUFFICES ASSUME got = <<>>, q # <<>> PROVE FALSE
      OBVIOUS
    <2>1. Len(got) = 0 /\ 1 \in 1 .. Len(q)
      BY <1>5, <1>9, EmptySeq, LenProperties
    <2>2. \E i \in 1 .. Len(got) : q[1] = got[i]
      BY <1>8, <2>1 DEF Decoding
    <2> QED  BY <2>1, <2>2
  <1>12. /\ receiver'.pc = IF got = <<>> THEN "loop" ELSE "feed"
        /\ receiver'.batch = q /\ receiver'.seq = Len(m) /\ receiver'.first = receiver.first
        /\ receiver' \in [pc : ReceiverState, seq : Nat,
                          batch : Seq(Message), stopLoop : BOOLEAN, first : Nat]
    <2> HIDE DEF m, seq
    <2> QED  BY <1>1, <1>4, <1>9 DEF ReceiveInv, ReceiveTypeOK, ReceiverState
  <1>13. Received(fed, q, Len(m), m, server.sent)
    <2>1. Received(fed, receiver.batch, seq, m, server.sent)
      BY DEF ReceiveInv
    <2>2. /\ \A i \in DOMAIN fed : fed[i] <= server.sent
          /\ \A i, j \in DOMAIN fed : i < j => fed[i] < fed[j]
      BY <2>1 DEF Received
    <2>3. \A k \in DOMAIN q : q[k].id <= server.sent
      BY <1>10 DEF ReceiveInv
    <2>4. Increasing(q)
      BY <1>8, <1>9 DEF Increasing, Decoding
    <2>5. \A i \in DOMAIN fed, j \in DOMAIN q : fed[i] < q[j].id
      BY <1>10, <2>1 DEF Received
    <2>6. \A k \in DOMAIN m : ~(k > Len(m))
      BY <1>1
    <2> HIDE DEF fed, m
    <2> QED  BY <2>2, <2>3, <2>4, <2>5, <2>6 DEF Received
  <1>14. ASSUME Complete(fed, receiver.batch, seq, first, m, server.sent, TRUE)
         PROVE  Complete(fed, q, Len(m), first, m, server.sent, TRUE)
    <2>1. Len(m) = server.sent /\ (\A i \in DOMAIN m : m[i].id = i) /\ seq <= Len(m)
      BY <1>14 DEF Complete
    <2>2. ASSUME NEW i \in (first + 1) .. Len(m), m[i].kind \in {"state", "own"}
          PROVE  \/ \E k \in DOMAIN fed : fed[k] = i
                 \/ \E k \in DOMAIN q : q[k].id = i
      <3>1. CASE i <= seq
        <4>1. i \in (first + 1) .. seq
          BY <1>1, <3>1
        <4>2. DOMAIN receiver.batch = {}
          BY <1>3, EmptySeq
        <4> QED  BY <1>14, <2>2, <4>1, <4>2 DEF Complete
      <3>2. CASE i > seq
        <4> DEFINE j == i - seq
        <4>1. j \in 1 .. Len(got) /\ seq + j = i /\ i \in DOMAIN m
          BY <1>1, <1>5, <3>2
        <4>2. got[j] = m[i] /\ got[j].kind # "junk"
          BY <1>5, <2>2, <4>1
        <4>3. PICK k \in 1 .. Len(q) : q[k] = got[j]
          BY <1>8, <4>1, <4>2 DEF Decoding
        <4> QED  BY <1>9, <2>1, <4>1, <4>2, <4>3
      <3> QED  BY <1>1, <3>1, <3>2
    <2>3. \A k \in DOMAIN q : q[k].id \in DOMAIN m /\ m[q[k].id] = q[k]
      BY <1>10, <2>1
    <2>4. Len(m) <= Len(m)
      BY <1>1
    <2>5. \A i \in (first + 1) .. Len(m) :
             m[i].kind \in {"state", "own"}
                 => \/ \E k \in DOMAIN fed : fed[k] = i
                    \/ \E k \in DOMAIN q : q[k].id = i
      BY <2>2
    <2> HIDE DEF fed, m, seq, first, q
    <2> QED  BY <2>1, <2>3, <2>4, <2>5, Zenon DEF Complete
  <1>15. ~server.restarted => Complete(fed, receiver.batch, seq, first, m, server.sent, TRUE)
    BY <1>3 DEF ReceiveInv
  <1>16. /\ receiver'.pc # "off"
         /\ receiver'.pc # "feed" => receiver'.batch = <<>>
    BY <1>11, <1>12
  <1>17. ReceiveTypeOK'
    BY <1>3, <1>12 DEF ReceiveInv, ReceiveTypeOK
  <1>18. daemon.pc \notin {"ready", "getseq"}
    BY <1>3 DEF ReceiveInv
  <1>19. (receiver'.pc # "off") = TRUE
    BY <1>16
  <1> QED
    BY <1>3, <1>12, <1>13, <1>14, <1>15, <1>16, <1>17, <1>18, <1>19 DEF ReceiveInv

LEMMA FeedMessageInv ==
    ASSUME WaitInv, ReceiveInv, NEW automoves \in BOOLEAN, FeedMessage(automoves)
    PROVE  ReceiveInv'
  <1> DEFINE b == receiver.batch
             fed == manager.fed
             seq == receiver.seq
             first == receiver.first
             m == server.messages
             msg == Head(b)
             t == Tail(b)
             f == IF msg.kind = "large" THEN fed ELSE Append(fed, msg.id)
  <1>1. /\ b \in Seq(Message) /\ b # <<>> /\ fed \in Seq(Nat)
        /\ receiver.pc = "feed" /\ server' \in {server, Sent("own")} /\ daemon' = daemon
        /\ receiver' = [receiver EXCEPT !.batch = t]
    BY DEF FeedMessage, Broadcast, ReceiveInv, ReceiveTypeOK
  <1>2. /\ Len(b) \in Nat /\ Len(b) # 0 /\ DOMAIN b = 1 .. Len(b)
        /\ msg = b[1] /\ msg \in Message /\ t \in Seq(Message)
        /\ Len(t) = Len(b) - 1 /\ DOMAIN t = 1 .. (Len(b) - 1)
        /\ \A i \in 1 .. (Len(b) - 1) : t[i] = b[i + 1]
    <2>1. Len(b) \in Nat /\ DOMAIN b = 1 .. Len(b) /\ Len(b) # 0
      BY <1>1, LenProperties, EmptySeq
    <2>2. msg = b[1] /\ t \in Seq(Message) /\ Len(t) = Len(b) - 1
          /\ \A i \in 1 .. Len(t) : t[i] = b[i + 1]
      BY <1>1, HeadTailProperties
    <2>3. DOMAIN t = 1 .. Len(t)
      BY <2>2, LenProperties
    <2>4. b[1] \in Message
      BY <1>1, <2>1, ElementOfSeq
    <2> HIDE DEF msg, t, b
    <2> QED  BY <2>1, <2>2, <2>3, <2>4
  <1>3. manager'.fed = f
    <2>1. CASE IsNewState(msg)
      <3>1. manager' = [NewVersion(manager) EXCEPT !.fed = Append(NewVersion(manager).fed, msg.id)]
        BY <2>1 DEF FeedMessage
      <3>2. manager'.fed = Append(fed, msg.id)
        BY <3>1, FedKept
      <3> QED  BY <2>1, <3>2 DEF IsNewState
    <2>2. CASE msg.kind = "large"
      BY <2>2 DEF FeedMessage, IsNewState
    <2>3. CASE ~IsNewState(msg) /\ msg.kind # "large"
      <3>1. manager' = [manager EXCEPT !.fed = Append(fed, msg.id)]
        BY <2>3 DEF FeedMessage
      <3> QED  BY <2>3, <3>1, FedKept
    <2> QED  BY <2>1, <2>2, <2>3
  <1>4. /\ receiver'.pc = "feed" /\ receiver'.batch = t /\ receiver'.seq = seq
        /\ receiver'.first = receiver.first
        /\ receiver' \in [pc : ReceiverState, seq : Nat,
                          batch : Seq(Message), stopLoop : BOOLEAN, first : Nat]
    <2> HIDE DEF t
    <2> QED  BY <1>1, <1>2 DEF ReceiveInv, ReceiveTypeOK
  <1>5. msg.id \in Nat
    BY <1>2 DEF Message
  <1>6. /\ Append(fed, msg.id) \in Seq(Nat)
        /\ Len(Append(fed, msg.id)) = Len(fed) + 1 /\ Len(fed) \in Nat
        /\ DOMAIN fed = 1 .. Len(fed) /\ DOMAIN Append(fed, msg.id) = 1 .. (Len(fed) + 1)
        /\ \A i \in 1 .. Len(fed) : Append(fed, msg.id)[i] = fed[i]
        /\ Append(fed, msg.id)[Len(fed) + 1] = msg.id
    <2> HIDE DEF fed, msg
    <2> QED  BY <1>1, <1>5, AppendProperties, LenProperties
  <1>7. Received(fed, b, seq, m, server.sent)
    BY DEF ReceiveInv
  <1>8. f \in Seq(Nat)
    BY <1>1, <1>6
  <1> HIDE DEF b, seq, m, fed, first
  \* What is fed after the step is what was fed before and the first of the batch.
  <1>9. \A i \in DOMAIN f : (i \in DOMAIN fed /\ f[i] = fed[i]) \/ (i = Len(fed) + 1 /\ f[i] = b[1].id)
    BY <1>2, <1>6
  <1>10. /\ \A i \in DOMAIN fed : i \in DOMAIN f /\ f[i] = fed[i]
         /\ b[1].kind # "large" => Len(fed) + 1 \in DOMAIN f /\ f[Len(fed) + 1] = b[1].id
    BY <1>2, <1>6
  <1> HIDE DEF f, t, msg
  <1>11. 1 \in DOMAIN b /\ \A i \in DOMAIN t : i + 1 \in DOMAIN b /\ 1 < i + 1 /\ t[i] = b[i + 1]
    BY <1>2
  <1>12. Received(f, t, seq, m, server.sent)
    <2>1. \A i \in DOMAIN f : f[i] <= server.sent
      BY <1>7, <1>9, <1>11 DEF Received
    <2>2. \A i, j \in DOMAIN f : i < j => f[i] < f[j]
      <3> SUFFICES ASSUME NEW i \in DOMAIN f, NEW j \in DOMAIN f, i < j
                   PROVE  f[i] < f[j]
        OBVIOUS
      <3>1. i \in DOMAIN fed
        BY <1>6, <1>9
      <3>2. f[i] = fed[i]
        BY <1>10, <3>1
      <3>3. CASE j \in DOMAIN fed /\ f[j] = fed[j]
        BY <1>7, <3>1, <3>2, <3>3 DEF Received
      <3>4. CASE f[j] = b[1].id
        BY <1>7, <1>11, <3>1, <3>2, <3>4 DEF Received
      <3> QED  BY <1>9, <3>3, <3>4
    <2>3. \A i \in DOMAIN t : t[i].id <= server.sent
      BY <1>7, <1>11 DEF Received
    <2>4. Increasing(t)
      <3> SUFFICES ASSUME NEW i \in DOMAIN t, NEW j \in DOMAIN t, i < j
                   PROVE  t[i].id < t[j].id
        BY DEF Increasing
      <3>1. i + 1 < j + 1
        BY <1>2
      <3> QED  BY <1>7, <1>11, <3>1 DEF Received, Increasing
    <2>5. \A i \in DOMAIN f, j \in DOMAIN t : f[i] < t[j].id
      <3> TAKE i \in DOMAIN f, j \in DOMAIN t
      <3>1. b[1].id < t[j].id
        BY <1>7, <1>11 DEF Received, Increasing
      <3>2. i \in DOMAIN fed => fed[i] < t[j].id
        BY <1>7, <1>11 DEF Received
      <3> QED  BY <1>9, <3>1, <3>2
    <2>6. \A k \in DOMAIN m : k > seq =>
            /\ \A i \in DOMAIN f : f[i] < m[k].id
            /\ \A j \in DOMAIN t : t[j].id < m[k].id
      <3> SUFFICES ASSUME NEW k \in DOMAIN m, k > seq
                   PROVE  /\ \A i \in DOMAIN f : f[i] < m[k].id
                          /\ \A j \in DOMAIN t : t[j].id < m[k].id
        OBVIOUS
      <3>1. /\ \A i \in DOMAIN fed : fed[i] < m[k].id
            /\ \A j \in DOMAIN b : b[j].id < m[k].id
        BY <1>7 DEF Received
      <3> QED  BY <1>9, <1>11, <3>1
    <2> QED  BY <2>1, <2>2, <2>3, <2>4, <2>5, <2>6 DEF Received
  <1>13. ASSUME Complete(fed, b, seq, first, m, server.sent, TRUE)
         PROVE  Complete(f, t, seq, first, m, server.sent, TRUE)
    <2>1. ASSUME NEW i \in (first + 1) .. seq, m[i].kind \in {"state", "own"}
          PROVE  \/ \E k \in DOMAIN f : f[k] = i
                 \/ \E k \in DOMAIN t : t[k].id = i
      <3>1. CASE \E k \in DOMAIN fed : fed[k] = i
        BY <1>10, <3>1
      <3>2. ASSUME NEW k \in DOMAIN b, b[k].id = i
            PROVE  \/ \E l \in DOMAIN f : f[l] = i
                   \/ \E l \in DOMAIN t : t[l].id = i
        <4>1. CASE k = 1
          <5>3. b[1].kind # "large"
            BY <1>13, <2>1, <3>2, <4>1 DEF Complete
          <5> QED  BY <1>10, <3>2, <4>1, <5>3
        <4>2. CASE k # 1
          <5>1. k - 1 \in DOMAIN t /\ (k - 1) + 1 = k
            BY <1>2, <4>2
          <5>2. t[k - 1] = b[k]
            BY <1>11, <5>1
          <5> QED  BY <3>2, <5>1, <5>2
        <4> QED  BY <4>1, <4>2
      <3> QED  BY <1>13, <2>1, <3>1, <3>2 DEF Complete
    <2>2. \A j \in DOMAIN t : t[j].id \in DOMAIN m /\ m[t[j].id] = t[j]
      BY <1>11, <1>13 DEF Complete
    <2> QED  BY <1>13, <2>1, <2>2 DEF Complete
  <1>14. ~server.restarted => Complete(fed, b, seq, first, m, server.sent, TRUE)
    BY <1>1 DEF ReceiveInv, fed, b, seq, first, m
  <1>15. (receiver'.pc # "off") = TRUE /\ daemon.pc \notin {"ready", "getseq"}
    BY <1>1, <1>4 DEF ReceiveInv
  <1>16. CASE server' = server
    <2>1. ReceiveTypeOK'
      BY <1>1, <1>3, <1>4, <1>8, <1>16 DEF ReceiveInv, ReceiveTypeOK
    <2> QED
      BY <1>1, <1>3, <1>4, <1>12, <1>13, <1>14, <1>15, <1>16, <2>1 DEF ReceiveInv, m, seq, first
  <1>17. CASE server' = Sent("own")
    <2> DEFINE q == server'.messages
    <2>1. /\ m \in Seq(Message) /\ server.sent \in Nat /\ seq \in Nat /\ first \in Nat
          /\ Increasing(m) /\ \A i \in DOMAIN m : m[i].id <= server.sent
          /\ "own" \in Kinds /\ TRUE \in BOOLEAN
      BY DEF ReceiveInv, ReceiveTypeOK, Kinds, m, seq, first
    <2>2. /\ q = AppendSent(m, server.sent, "own")
          /\ server'.sent = server.sent + 1 /\ server'.restarted = server.restarted
      BY <1>17, <2>1, ServerSent DEF m
    <2> HIDE DEF q
    <2>3. /\ q \in Seq(Message) /\ Increasing(q) /\ \A i \in DOMAIN q : q[i].id <= server.sent + 1
          /\ Received(f, t, seq, q, server.sent + 1)
          /\ Complete(f, t, seq, first, m, server.sent, TRUE) =>
                Complete(f, t, seq, first, q, server.sent + 1, TRUE)
      BY <1>2, <1>8, <1>12, <2>1, <2>2, SentKeeps
    <2>4. server' \in [messages : Seq(Message), sent : Nat, restarted : BOOLEAN]
      BY <1>17, <2>1, <2>3, ServerSent DEF q
    <2>5. ReceiveTypeOK'
      BY <1>1, <1>3, <1>4, <1>8, <2>4 DEF ReceiveInv, ReceiveTypeOK
    <2> QED
      BY <1>1, <1>3, <1>4, <1>13, <1>14, <1>15, <2>2, <2>3, <2>5 DEF ReceiveInv, q, seq, first
  <1> QED
    BY <1>1, <1>16, <1>17

LEMMA ReceiveMainInv ==
    ASSUME WaitInv, ReceiveInv, MainThread
    PROVE  ReceiveInv'
  <1>1. daemon \in [pc : DaemonState, shouldStop : BOOLEAN, asked : BOOLEAN]
        /\ server.messages \in Seq(Message) /\ server.sent \in Nat
    BY DEF ReceiveInv, ReceiveTypeOK
  <1>2. CASE DaemonStart
    BY <1>1, <1>2, ReceiveFrame DEF DaemonStart, DaemonState
  <1>3. CASE DaemonStop \/ JoinReceiver \/ Destroy
    BY <1>1, <1>3, ReceiveFrame DEF DaemonStop, JoinReceiver, Destroy, DaemonState
  <1>4. CASE StopUpdates
    BY <1>1, <1>4, ReceiveFrame, FedKept DEF StopUpdates, DaemonState
  <1>5. CASE InitialiseSequence
    <2> DEFINE m == server.messages
    <2>1. Len(m) \in Nat /\ DOMAIN m = 1 .. Len(m)
      BY <1>1, LenProperties
    <2>2. receiver' = [receiver EXCEPT !.pc = "loop", !.seq = Len(m), !.first = server.sent]
          /\ daemon.pc = "getseq" /\ daemon' = [daemon EXCEPT !.pc = "running"]
          /\ server' = server /\ manager' = manager
      BY <1>5 DEF InitialiseSequence
    <2>3. receiver.pc = "off" /\ receiver.batch = <<>>
      BY <2>2 DEF ReceiveInv
    <2>4. receiver'.batch = <<>> /\ receiver'.pc = "loop" /\ receiver'.seq = Len(m)
          /\ receiver'.first = server.sent
          /\ receiver' \in [pc : ReceiverState, seq : Nat,
                            batch : Seq(Message), stopLoop : BOOLEAN, first : Nat]
      BY <1>1, <2>1, <2>2, <2>3 DEF ReceiveInv, ReceiveTypeOK, ReceiverState
    <2>5. daemon' \in [pc : DaemonState, shouldStop : BOOLEAN, asked : BOOLEAN]
          /\ daemon'.pc = "running"
      BY <1>1, <2>2 DEF DaemonState
    <2>6. Received(manager.fed, <<>>, Len(m), m, server.sent)
      <3>1. \A k \in DOMAIN m : ~(k > Len(m))
        BY <2>1
      <3> QED  BY <2>3, <3>1 DEF ReceiveInv, Received
    <2>7. ~server.restarted => Complete(manager.fed, <<>>, Len(m), server.sent, m, server.sent, TRUE)
      <3> SUFFICES ASSUME ~server.restarted
                   PROVE  Complete(manager.fed, <<>>, Len(m), server.sent, m, server.sent, TRUE)
        OBVIOUS
      <3>1. Len(m) = server.sent /\ \A i \in DOMAIN m : m[i].id = i
        BY DEF ReceiveInv, Complete
      <3>2. (server.sent + 1) .. Len(m) = {} /\ DOMAIN <<>> = {} /\ Len(m) <= Len(m)
        BY <1>1, <2>1, <3>1
      <3> QED  BY <3>1, <3>2 DEF Complete
    <2>8. ReceiveTypeOK'
      BY <2>2, <2>4, <2>5 DEF ReceiveInv, ReceiveTypeOK
    <2>9. (receiver'.pc # "off") = TRUE
      BY <2>4
    <2> QED
      BY <2>2, <2>4, <2>5, <2>6, <2>7, <2>8, <2>9 DEF ReceiveInv
  <1>6. CASE JoinFeeder
    <2>1. receiver' = [receiver EXCEPT !.stopLoop = TRUE] /\ daemon.pc = "join feeder"
          /\ daemon' = [daemon EXCEPT !.pc = "join receiver"]
          /\ server' = server /\ manager' = manager
      BY <1>6 DEF JoinFeeder
    <2>2. receiver'.batch = receiver.batch /\ receiver'.pc = receiver.pc
          /\ receiver'.seq = receiver.seq /\ receiver'.first = receiver.first
          /\ receiver' \in [pc : ReceiverState, seq : Nat,
                            batch : Seq(Message), stopLoop : BOOLEAN, first : Nat]
      BY <2>1 DEF ReceiveInv, ReceiveTypeOK
    <2>3. daemon' \in [pc : DaemonState, shouldStop : BOOLEAN, asked : BOOLEAN]
          /\ daemon'.pc = "join receiver"
      BY <1>1, <2>1 DEF DaemonState
    <2>4. ReceiveTypeOK'
      BY <2>1, <2>2, <2>3 DEF ReceiveInv, ReceiveTypeOK
    <2>5. (receiver'.pc # "off") = (receiver.pc # "off")
      BY <2>2
    <2> QED
      BY <2>1, <2>2, <2>3, <2>4, <2>5 DEF ReceiveInv
  <1> QED
    BY <1>2, <1>3, <1>4, <1>5, <1>6 DEF MainThread

LEMMA ReceiveNextInv ==
    ASSUME WaitInv, ReceiveInv, [DaemonNext]_daemonVars
    PROVE  ReceiveInv'
  <1>0. daemon \in [pc : DaemonState, shouldStop : BOOLEAN, asked : BOOLEAN]
    BY DEF ReceiveInv, ReceiveTypeOK
  <1>1. CASE UNCHANGED daemonVars
    BY <1>0, <1>1, ReceiveFrame DEF daemonVars
  <1>2. CASE \E next \in GspStates : GspChanges(next)
    BY <1>0, <1>2, ReceiveFrame DEF GspChanges
  <1>3. CASE \E kind \in Kinds \ {"own"} : PeerSends(kind)
    BY <1>0, <1>3, SentInv DEF PeerSends
  <1>4. CASE ServerRestarts
    <2>1. server' = [server EXCEPT !.messages = <<>>, !.restarted = TRUE]
          /\ receiver' = receiver /\ manager' = manager /\ daemon' = daemon
      BY <1>4 DEF ServerRestarts
    <2>2. server'.messages = <<>> /\ server'.restarted /\ server'.sent = server.sent
          /\ server' \in [messages : Seq(Message), sent : Nat, restarted : BOOLEAN]
      <3>1. <<>> \in Seq(Message)
        BY EmptySeq
      <3> QED  BY <2>1, <3>1 DEF ReceiveInv, ReceiveTypeOK
    <2>3. DOMAIN <<>> = {}
      OBVIOUS
    <2> QED  BY <2>1, <2>2, <2>3 DEF ReceiveInv, ReceiveTypeOK, Received, Increasing
  <1>5. CASE FrontendMove
    <2>1. "own" \in Kinds
      BY DEF Kinds
    <2> QED  BY <1>0, <1>5, <2>1, SentInv, FedKept DEF FrontendMove
  <1>6. CASE RequestStop
    BY <1>0, <1>6, ReceiveFrame DEF RequestStop
  <1>7. CASE GspFails \/ ReceiveFails \/ InitialiseFails
    BY <1>0, <1>7, ReceiveFrame DEF GspFails, ReceiveFails, InitialiseFails, DaemonState
  <1>8. CASE FeederThread
    <2>1. CASE \E automoves \in BOOLEAN : FeedBlock(automoves)
      <3>1. /\ server' \in {server, Sent("own")} /\ "own" \in Kinds
            /\ receiver' = receiver /\ daemon' = daemon
        BY <2>1 DEF FeedBlock, Broadcast, Kinds
      <3>2. manager'.fed = manager.fed
        BY <2>1, FedKept DEF FeedBlock
      <3> QED  BY <1>0, <3>1, <3>2, SentInv
    <2>2. CASE UpdateOnce \/ FeederLoop \/ WaitForBlock
      BY <1>0, <2>2, ReceiveFrame DEF UpdateOnce, FeederLoop, WaitForBlock
    <2> QED  BY <1>8, <2>1, <2>2 DEF FeederThread
  <1>9. CASE ReceiverThread
    <2>1. CASE BatchDone \/ ReceiverLoop
      <3>1. PICK pc \in {"loop", "receive", "done"} : receiver' = [receiver EXCEPT !.pc = pc]
        BY <2>1 DEF BatchDone, ReceiverLoop
      <3>2. /\ server' = server /\ manager' = manager /\ daemon' = daemon
            /\ receiver.pc \in {"feed", "loop"} /\ receiver.batch = <<>>
        BY <2>1 DEF BatchDone, ReceiverLoop, ReceiveInv
      <3>3. receiver'.batch = receiver.batch /\ receiver'.pc = pc
            /\ receiver'.seq = receiver.seq /\ receiver'.first = receiver.first
            /\ receiver' \in [pc : ReceiverState, seq : Nat,
                              batch : Seq(Message), stopLoop : BOOLEAN, first : Nat]
        BY <3>1 DEF ReceiveInv, ReceiveTypeOK, ReceiverState
      <3>4. (receiver'.pc # "off") = TRUE /\ (receiver.pc # "off") = TRUE
            /\ daemon.pc \notin {"ready", "getseq"}
        BY <3>2, <3>3 DEF ReceiveInv
      <3>5. ReceiveTypeOK'
        BY <3>2, <3>3 DEF ReceiveInv, ReceiveTypeOK
      <3> QED
        BY <3>2, <3>3, <3>4, <3>5 DEF ReceiveInv
    <2> QED  BY <1>9, <2>1, GetMessagesInv, FeedMessageInv DEF ReceiverThread
  <1>10. ASSUME NEW f \in Frontends,
                FrontendThread(f) \/ \E known \in {0, front[f].known} : WaitForChange(f, known)
         PROVE  ReceiveInv'
    <2>1. CASE WaitTimeout(f)
      BY <1>0, <2>1, ReceiveFrame DEF WaitTimeout
    <2>2. CASE WaitReturns(f)
      BY <1>0, <2>2, ReceiveFrame, FedKept DEF WaitReturns
    <2>3. CASE \E known \in {0, front[f].known} : WaitForChange(f, known)
      <3>1. manager' = manager \/ manager' = [manager EXCEPT !.waiting = @ + 1]
        BY <2>3 DEF WaitForChange
      <3>2. manager'.fed = manager.fed
        BY <3>1, FedKept
      <3> QED  BY <1>0, <2>3, <3>2, ReceiveFrame DEF WaitForChange
    <2> QED  BY <1>10, <2>1, <2>2, <2>3 DEF FrontendThread
  <1>11. CASE UpdateFails \/ FrontendMoveFails
    <2>1. /\ server' \in {server, Sent("own")} /\ "own" \in Kinds /\ receiver' = receiver
          /\ manager'.fed = manager.fed
      BY <1>11, FedKept DEF UpdateFails, FrontendMoveFails, SendFails, Kinds
    <2>2. daemon' = daemon \/ daemon' = [daemon EXCEPT !.pc = "terminated"]
      BY <1>11 DEF UpdateFails, FrontendMoveFails
    <2>3. /\ daemon' \in [pc : DaemonState, shouldStop : BOOLEAN, asked : BOOLEAN]
          /\ daemon'.pc \in {"ready", "getseq"} => daemon.pc \in {"ready", "getseq"}
      BY <1>0, <2>2 DEF DaemonState
    <2> QED  BY <2>1, <2>3, SentInv
  <1> QED
    BY <1>1, <1>2, <1>3, <1>4, <1>5, <1>6, <1>7, <1>8, <1>9, <1>10, <1>11, ReceiveMainInv
       DEF DaemonNext

LEMMA ReceiveInOrder ==
    ASSUME ReceiveInv
    PROVE  MessagesInOrder
  <1> DEFINE fed == manager.fed
             b == receiver.batch
             ids == [i \in DOMAIN b |-> b[i].id]
             got == fed \o ids
  <1>1. fed \in Seq(Nat) /\ b \in Seq(Message)
    BY DEF ReceiveInv, ReceiveTypeOK
  <1>2. /\ Len(fed) \in Nat /\ DOMAIN fed = 1 .. Len(fed)
        /\ Len(b) \in Nat /\ DOMAIN b = 1 .. Len(b)
        /\ \A i \in DOMAIN b : b[i] \in Message
    BY <1>1, LenProperties, ElementOfSeq
  <1>3. Received(fed, b, receiver.seq, server.messages, server.sent)
    BY DEF ReceiveInv
  <1>4. ids \in [1 .. Len(b) -> Nat]
    BY <1>2 DEF Message
  <1>5. \A i \in DOMAIN b : ids[i] = b[i].id
    OBVIOUS
  <1> HIDE DEF ids
  <1>6. ids \in Seq(Nat) /\ Len(ids) = Len(b)
    BY <1>2, <1>4, FunctionIsSequence
  <1>7. /\ got \in Seq(Nat) /\ Len(got) = Len(fed) + Len(b) /\ DOMAIN got = 1 .. (Len(fed) + Len(b))
        /\ \A i \in 1 .. (Len(fed) + Len(b)) :
              got[i] = IF i <= Len(fed) THEN fed[i] ELSE ids[i - Len(fed)]
    <2> HIDE DEF fed
    <2>1. got \in Seq(Nat) /\ Len(got) = Len(fed) + Len(ids)
          /\ \A i \in 1 .. (Len(fed) + Len(ids)) :
                got[i] = IF i <= Len(fed) THEN fed[i] ELSE ids[i - Len(fed)]
      BY <1>1, <1>6, ConcatProperties
    <2> HIDE DEF got
    <2>2. DOMAIN got = 1 .. Len(got)
      BY <2>1, LenProperties
    <2> QED  BY <1>6, <2>1, <2>2
  <1> HIDE DEF fed, b, got
  <1>8. \A i \in DOMAIN got : \/ i \in DOMAIN fed /\ got[i] = fed[i]
                              \/ /\ i - Len(fed) \in DOMAIN b /\ i > Len(fed)
                                 /\ got[i] = b[i - Len(fed)].id
    BY <1>2, <1>5, <1>7
  <1>9. ASSUME NEW i \in DOMAIN got, NEW j \in DOMAIN got, i < j
        PROVE  got[i] < got[j]
    <2>1. i \in Int /\ j \in Int /\ i - Len(fed) < j - Len(fed)
      BY <1>2, <1>7, <1>9
    <2>2. CASE i \in DOMAIN fed /\ got[i] = fed[i]
      BY <1>3, <1>8, <1>9, <2>2 DEF Received
    <2>3. CASE /\ i - Len(fed) \in DOMAIN b /\ i > Len(fed)
               /\ got[i] = b[i - Len(fed)].id
      <3>1. ~(j \in DOMAIN fed)
        BY <1>2, <1>9, <2>1, <2>3
      <3>2. j - Len(fed) \in DOMAIN b /\ got[j] = b[j - Len(fed)].id
        BY <1>8, <3>1
      <3> QED  BY <1>3, <2>1, <2>3, <3>2 DEF Received, Increasing
    <2> QED  BY <1>8, <2>2, <2>3
  <1>10. ASSUME ~server.restarted, receiver.pc # "off",
                NEW i \in (receiver.first + 1) .. receiver.seq,
                server.messages[i].kind \in {"state", "own"}
         PROVE  Contains(got, i)
    <2>1. Complete(fed, b, receiver.seq, receiver.first, server.messages, server.sent,
                   receiver.pc # "off")
      BY <1>10 DEF ReceiveInv, fed, b
    <2>2. CASE \E k \in DOMAIN fed : fed[k] = i
      <3>1. PICK k \in DOMAIN fed : fed[k] = i
        BY <2>2
      <3>2. k \in 1 .. Len(got) /\ got[k] = fed[k]
        BY <1>2, <1>7
      <3> QED  BY <3>1, <3>2 DEF Contains
    <2>3. CASE \E k \in DOMAIN b : b[k].id = i
      <3>1. PICK k \in DOMAIN b : b[k].id = i
        BY <2>3
      <3>2. Len(fed) + k \in 1 .. Len(got) /\ got[Len(fed) + k] = b[k].id
        <4> DEFINE l == Len(fed) + k
        <4>1. l \in 1 .. (Len(fed) + Len(b)) /\ ~(l <= Len(fed)) /\ l - Len(fed) = k
          BY <1>2
        <4> HIDE DEF l
        <4>2. got[l] = ids[k]
          BY <1>7, <4>1
        <4> QED  BY <1>5, <1>7, <4>1, <4>2 DEF l
      <3> QED  BY <3>1, <3>2 DEF Contains
    <2> QED  BY <1>10, <2>1, <2>2, <2>3 DEF Complete
  <1> QED
    BY <1>9, <1>10 DEF MessagesInOrder, got, fed, b, ids

\* Whatever a peer sends and whenever the broadcast server is restarted, the
\* manager of a channel gets messages in the order they were sent and none
\* twice; and it misses none while the server is not restarted
\* (RpcBroadcast::GetMessages, ReceivingOffChainBroadcast::FeedMessage).
THEOREM MessagesComeInOrder == DaemonSpec => []MessagesInOrder
  <1>1. WaitInv /\ ReceiveInv /\ [DaemonNext]_daemonVars => (WaitInv /\ ReceiveInv)'
    BY WaitNextInv, ReceiveNextInv
  <1> QED
    BY <1>1, WaitInitInv, ReceiveInitInv, ReceiveInOrder, PTL DEF DaemonSpec

----------------------------------------------------------------------------
(* Rest.                                                                   *)

ContentType == [name : {"text/plain", "application/json"}, gzip : BOOLEAN, given : BOOLEAN]
Text == ({"state", "ok", "not ok", "only GET", "not found"} \X Nat) \cup {NoText}
Piece == [text : Text, part : 1..2, gzip : BOOLEAN]

RequestType == [phase : {"new", "transfer", "ok", "failed"}, path : Paths \cup {""},
                type : ContentType, data : Seq(Piece), json : Text \cup {NoJson}, errors : Nat]
AnswerType == [code : Nat, type : ContentType, body : Seq(Piece), sent : Nat, text : Text]

RestTypeOK ==
    /\ request \in RequestType /\ answer \in AnswerType
    /\ state \in [version : Nat, upToDate : BOOLEAN]
    /\ api \in [up : BOOLEAN, gzip : BOOLEAN]

\* What RestApi answers, and what may come instead.
OwnAnswer(a, path) ==
    /\ a.body = Pieces(a.text, a.type.gzip)
    /\ a.code = 200 => path # "/other" /\ (path = "/healthz" => a.text = <<"ok", 0>>)

OtherAnswer(a) ==
    \/ ~a.type.given
    \/ a.type = Json /\ a.body = Pieces(NoText, FALSE)
    \/ a.type.gzip /\ Len(a.body) = 1

\* What has come is what has been sent of the answer, and no more.
TransferInv ==
    request.phase = "transfer" =>
        /\ Len(request.data) = answer.sent /\ answer.sent <= Len(answer.body)
        /\ \A i \in 1..answer.sent : request.data[i] = answer.body[i]
        /\ OwnAnswer(answer, request.path) \/ OtherAnswer(answer)

RestInv == RestTypeOK /\ TransferInv /\ AnswersAreWhole

LEMMA PiecesType ==
    ASSUME NEW text \in Text, NEW gzip \in BOOLEAN
    PROVE  /\ Pieces(text, gzip) \in Seq(Piece) /\ Len(Pieces(text, gzip)) = 2
           /\ \A i \in 1..2 : Pieces(text, gzip)[i] = [text |-> text, part |-> i, gzip |-> gzip]
  <1> DEFINE s == [part \in 1..2 |-> [text |-> text, part |-> part, gzip |-> gzip]]
  <1>1. s \in [1..2 -> Piece]
    BY DEF Piece
  <1>2. s \in Seq(Piece) /\ Len(s) = 2
    BY <1>1
  <1> QED
    BY <1>2 DEF Pieces

LEMMA TypesAre ==
    /\ TextPlain \in ContentType /\ TextPlain.given /\ ~TextPlain.gzip
    /\ TextPlain.name = "text/plain"
    /\ Json \in ContentType /\ Json.given /\ ~Json.gzip /\ Json.name = "application/json"
  BY DEF TextPlain, Json, ContentType

LEMMA RestInitInv == RestInit => RestInv
  <1> SUFFICES ASSUME RestInit PROVE RestInv
    OBVIOUS
  <1>1. <<>> \in Seq(Piece) /\ NoText \in Text
    BY DEF Text
  <1>2. RestTypeOK
    <2>1. NewRequest \in RequestType
      BY <1>1, TypesAre DEF NewRequest, RequestType
    <2>2. answer \in AnswerType
      BY <1>1, TypesAre DEF RestInit, AnswerType
    <2> QED  BY <2>1, <2>2 DEF RestInit, RestTypeOK
  <1>3. request.phase = "new"
    BY DEF RestInit, NewRequest
  <1> QED
    BY <1>2, <1>3 DEF RestInv, TransferInv, AnswersAreWhole

IsAnswer(a, code, text) ==
    /\ a \in AnswerType
    /\ a.code = code /\ a.sent = 0 /\ a.text = text /\ Len(a.body) = 2
    /\ a.body = Pieces(a.text, a.type.gzip)

LEMMA AnswerIs ==
    ASSUME NEW code \in Nat, NEW type \in ContentType, NEW text \in Text, NEW gzip \in BOOLEAN
    PROVE  IsAnswer(Answer(code, type, text, gzip), code, text)
  <1> DEFINE t == [type EXCEPT !.gzip = gzip]
  <1>1. t \in ContentType /\ t.gzip = gzip
    BY DEF ContentType
  <1> HIDE DEF t
  <1> DEFINE b == Pieces(text, gzip)
  <1>2. b \in Seq(Piece) /\ Len(b) = 2
    BY PiecesType
  <1> HIDE DEF b
  <1>3. Answer(code, type, text, gzip) =
          [code |-> code, type |-> t, body |-> b, sent |-> 0, text |-> text]
    BY DEF Answer, t, b
  <1> QED
    BY <1>1, <1>2, <1>3 DEF b, IsAnswer, AnswerType

LEMMA HandleRequestIs ==
    ASSUME RestTypeOK, NEW path \in Paths
    PROVE  \E code, text : /\ IsAnswer(HandleRequest(path, "GET"), code, text)
                           /\ OwnAnswer(HandleRequest(path, "GET"), path)
  <1>0. state.version \in Nat /\ state.upToDate \in BOOLEAN /\ api.gzip \in BOOLEAN
    BY DEF RestTypeOK
  <1> DEFINE ok == <<"ok", 0>>
  <1>1. ASSUME NEW code \in Nat, NEW type \in ContentType, NEW text \in Text,
               NEW gzip \in BOOLEAN, HandleRequest(path, "GET") = Answer(code, type, text, gzip),
               code = 200 => path # "/other" /\ (path = "/healthz" => text = ok)
        PROVE  /\ IsAnswer(HandleRequest(path, "GET"), code, text)
               /\ OwnAnswer(HandleRequest(path, "GET"), path)
    <2>1. IsAnswer(HandleRequest(path, "GET"), code, text)
      BY <1>1, AnswerIs
    <2> QED  BY <1>1, <2>1 DEF IsAnswer, OwnAnswer
  <1> DEFINE no == FALSE
  <1>5. no \in BOOLEAN
    OBVIOUS
  <1>2. CASE path = "/state"
    <2> DEFINE x == <<"state", state.version>>
    <2>1. HandleRequest(path, "GET") = Answer(200, Json, x, api.gzip)
      BY <1>2 DEF HandleRequest, HandleState
    <2>2. x \in Text
      BY <1>0 DEF Text
    <2> HIDE DEF x
    <2> QED  BY <1>0, <1>1, <1>2, <2>1, <2>2, TypesAre
  <1>3. CASE path = "/healthz"
    <2> DEFINE y == <<"not ok", 0>>
    <2>1. ok \in Text /\ y \in Text
      BY DEF Text
    <2>2. CASE state.upToDate
      <3>1. HandleRequest(path, "GET") = Answer(200, TextPlain, ok, no)
        BY <1>3, <2>2 DEF HandleRequest, HandleHealthz
      <3> HIDE DEF ok, no
      <3>2. path # "/other" /\ ok \in Text /\ no \in BOOLEAN /\ TextPlain \in ContentType
        BY <1>3, <1>5, <2>1, TypesAre
      <3>3. /\ IsAnswer(HandleRequest(path, "GET"), 200, ok)
            /\ OwnAnswer(HandleRequest(path, "GET"), path)
        BY <1>1, <3>1, <3>2
      <3> QED  BY <3>3
    <2>3. CASE ~state.upToDate
      <3>1. HandleRequest(path, "GET") = Answer(500, TextPlain, y, no)
        BY <1>3, <2>3 DEF HandleRequest, HandleHealthz
      <3> HIDE DEF y, no
      <3> QED  BY <1>1, <1>5, <2>1, <3>1, TypesAre
    <2> QED  BY <2>2, <2>3
  <1>4. CASE path = "/other"
    <2> DEFINE x == <<"not found", 0>>
    <2>1. x \in Text
      BY DEF Text
    <2>2. HandleRequest(path, "GET") = Answer(404, TextPlain, x, no)
      BY <1>4 DEF HandleRequest
    <2> HIDE DEF x, no
    <2> QED  BY <1>1, <1>5, <2>1, <2>2, TypesAre
  <1> QED
    BY <1>2, <1>3, <1>4 DEF Paths

LEMMA SendInv ==
    ASSUME RestInv, NEW path \in Paths, Send(path)
    PROVE  RestInv'
  <1> DEFINE c == Cleared(request)
  <1>0. request \in RequestType /\ <<>> \in Seq(Piece)
    BY DEF RestInv, RestTypeOK
  <1>1. c \in RequestType /\ c.data = <<>>
    BY <1>0 DEF Cleared, RequestType
  <1> HIDE DEF c
  <1>2. CASE api.up
    <2>1. request' = [c EXCEPT !.phase = "transfer", !.path = path]
          /\ answer' = HandleRequest(path, "GET") /\ state' = state /\ api' = api
      BY <1>2 DEF Send, c
    <2> DEFINE a == HandleRequest(path, "GET")
    <2>2. a \in AnswerType /\ a.sent = 0 /\ Len(a.body) = 2 /\ OwnAnswer(a, path)
      BY HandleRequestIs DEF RestInv, IsAnswer
    <2> HIDE DEF a
    <2>3. request' \in RequestType /\ request'.phase = "transfer" /\ request'.path = path
          /\ request'.data = <<>>
      BY <1>1, <2>1 DEF RequestType
    <2>5. RestTypeOK'
      BY <2>1, <2>2, <2>3 DEF RestInv, RestTypeOK, a
    <2>4. TransferInv'
      BY <2>1, <2>2, <2>3 DEF TransferInv, a
    <2> QED  BY <2>3, <2>4, <2>5 DEF RestInv, AnswersAreWhole
  <1>3. CASE ~api.up
    <2>1. request' = [c EXCEPT !.phase = "failed", !.path = path, !.errors = @ + 1]
          /\ answer' = answer /\ state' = state /\ api' = api
      BY <1>3 DEF Send, c
    <2>2. c.errors \in Nat
      BY <1>1 DEF RequestType
    <2>6. c.errors + 1 \in Nat /\ c.errors + 1 > 0
      BY <2>2
    <2>3. request' = [c EXCEPT !.phase = "failed", !.path = path, !.errors = c.errors + 1]
      BY <2>1
    <2>4. request' \in RequestType /\ request'.phase = "failed" /\ request'.errors > 0
      BY <1>1, <2>3, <2>6 DEF RequestType
    <2>5. RestTypeOK'
      BY <2>1, <2>4 DEF RestInv, RestTypeOK
    <2> QED  BY <2>4, <2>5 DEF RestInv, TransferInv, AnswersAreWhole
  <1> QED
    BY <1>2, <1>3

\* Neither the request nor its answer is touched.
LEMMA ElsewhereInv ==
    ASSUME RestInv, request' = request, answer' = answer,
           state' \in [version : Nat, upToDate : BOOLEAN], api' \in [up : BOOLEAN, gzip : BOOLEAN]
    PROVE  RestInv'
  BY DEF RestInv, RestTypeOK, TransferInv, AnswersAreWhole, OwnAnswer, OtherAnswer

LEMMA WriteCallbackInv ==
    ASSUME RestInv, WriteCallback
    PROVE  RestInv'
  <1>1. /\ request \in RequestType /\ answer \in AnswerType /\ request.phase = "transfer"
        /\ answer.sent < Len(answer.body)
    BY DEF RestInv, RestTypeOK, WriteCallback
  <1> DEFINE d == request.data
             b == answer.body
             n == answer.sent
             e == Append(d, b[n + 1])
  <1>2. d \in Seq(Piece) /\ b \in Seq(Piece) /\ n \in Nat
    BY <1>1 DEF RequestType, AnswerType
  <1>3. n + 1 \in 1..Len(b) /\ n + 1 \in Nat
    BY <1>1, <1>2
  <1>4. b[n + 1] \in Piece
    BY <1>2, <1>3
  <1>5. Len(d) = n /\ \A i \in 1..n : d[i] = b[i]
    BY <1>1 DEF RestInv, TransferInv
  <1>6. e \in Seq(Piece) /\ Len(e) = n + 1 /\ \A i \in 1..(n + 1) : e[i] = b[i]
    BY <1>2, <1>4, <1>5
  <1>7. request' = [request EXCEPT !.data = e] /\ answer' = [answer EXCEPT !.sent = n + 1]
        /\ state' = state /\ api' = api
    BY DEF WriteCallback
  <1> HIDE DEF e, d, b, n
  <1>8. /\ request' \in RequestType /\ request'.data = e /\ request'.phase = "transfer"
        /\ request'.path = request.path
    BY <1>1, <1>6, <1>7 DEF RequestType
  <1>9. /\ answer' \in AnswerType /\ answer'.sent = n + 1 /\ answer'.body = answer.body
        /\ answer'.code = answer.code /\ answer'.type = answer.type /\ answer'.text = answer.text
    BY <1>1, <1>3, <1>7 DEF AnswerType
  <1>10. RestTypeOK'
    BY <1>7, <1>8, <1>9 DEF RestInv, RestTypeOK
  <1>11. OwnAnswer(answer', request'.path) \/ OtherAnswer(answer')
    BY <1>1, <1>8, <1>9 DEF RestInv, TransferInv, OwnAnswer, OtherAnswer
  <1>12. /\ Len(request'.data) = answer'.sent /\ answer'.sent <= Len(answer'.body)
         /\ \A i \in 1..answer'.sent : request'.data[i] = answer'.body[i]
    BY <1>3, <1>6, <1>8, <1>9 DEF b
  <1>13. TransferInv'
    BY <1>11, <1>12 DEF TransferInv
  <1> QED
    BY <1>8, <1>10, <1>13 DEF RestInv, AnswersAreWhole

LEMMA FailsIs ==
    ASSUME NEW r \in RequestType
    PROVE  Fails(r) \in RequestType /\ Fails(r).phase = "failed" /\ Fails(r).errors > 0
  <1>1. r.errors \in Nat
    BY DEF RequestType
  <1> DEFINE n == r.errors + 1
  <1>2. n \in Nat /\ n > 0
    BY <1>1
  <1>3. Fails(r) = [r EXCEPT !.phase = "failed", !.errors = n]
    BY DEF Fails
  <1> HIDE DEF n
  <1> QED
    BY <1>2, <1>3 DEF RequestType

\* A request that fails, wherever.
LEMMA FailedInv ==
    ASSUME RestInv, request' \in RequestType, request'.phase = "failed", request'.errors > 0,
           answer' = answer, state' = state, api' = api
    PROVE  RestInv'
  BY DEF RestInv, RestTypeOK, TransferInv, AnswersAreWhole

LEMMA OtherServerInv ==
    ASSUME RestInv, NEW type \in ContentType, NEW body \in Seq(Piece), OtherServer(type, body),
           \/ ~type.given
           \/ type = Json /\ body = Pieces(NoText, FALSE)
           \/ type.gzip /\ Len(body) = 1
    PROVE  RestInv'
  <1>1. /\ request \in RequestType /\ answer \in AnswerType /\ request.phase = "transfer"
        /\ answer.sent = 0 /\ NoText \in Text
    BY DEF RestInv, RestTypeOK, OtherServer, Text
  <1>2. answer' = [answer EXCEPT !.code = 200, !.type = type, !.body = body, !.text = NoText]
        /\ request' = request /\ state' = state /\ api' = api
    BY DEF OtherServer
  <1>3. /\ answer' \in AnswerType /\ answer'.sent = 0 /\ answer'.body = body
        /\ answer'.type = type
    <2> DEFINE ok == 200
    <2>1. ok \in Nat
      OBVIOUS
    <2>2. answer' = [answer EXCEPT !.code = ok, !.type = type, !.body = body, !.text = NoText]
      BY <1>2
    <2> HIDE DEF ok
    <2>3. answer' = [code |-> ok, type |-> type, body |-> body, sent |-> answer.sent,
                     text |-> NoText]
      BY <1>1, <2>2 DEF AnswerType
    <2> QED  BY <1>1, <2>1, <2>3 DEF AnswerType
  <1>4. OtherAnswer(answer')
    BY <1>3 DEF OtherAnswer
  <1>5. Len(request.data) = 0 /\ Len(body) \in Nat
    BY <1>1 DEF RestInv, TransferInv
  <1>8. /\ Len(request'.data) = answer'.sent /\ answer'.sent <= Len(answer'.body)
        /\ \A i \in 1..answer'.sent : request'.data[i] = answer'.body[i]
    BY <1>2, <1>3, <1>5
  <1>6. TransferInv'
    BY <1>4, <1>8 DEF TransferInv
  <1>7. RestTypeOK'
    BY <1>2, <1>3 DEF RestInv, RestTypeOK
  <1> QED
    BY <1>1, <1>2, <1>6, <1>7 DEF RestInv, AnswersAreWhole

\* ProcessGzip on what has come: plain data as it was, or the answer in the
\* plain, or a failure.
LEMMA ProcessGzipIs ==
    ASSUME NEW r \in RequestType, r.phase = "transfer"
    PROVE  LET g == ProcessGzip(r)
           IN  /\ g \in RequestType
               /\ g.phase = "failed" => g.errors > 0
               /\ g.phase # "failed" =>
                     /\ g.phase = "transfer" /\ g.path = r.path /\ g.type.name = r.type.name
                     /\ ~g.type.gzip
                     /\ ~r.type.gzip => g = r
                     /\ r.type.gzip =>
                           /\ Len(r.data) = 2 /\ \A i \in DOMAIN r.data : r.data[i].gzip
                           /\ g.data = [i \in DOMAIN r.data |-> [r.data[i] EXCEPT !.gzip = FALSE]]
  <1>1. r.data \in Seq(Piece) /\ r.type \in ContentType
    BY DEF RequestType
  <1>2. CASE ~r.type.gzip
    <2>1. ProcessGzip(r) = r
      BY <1>2 DEF ProcessGzip
    <2> QED  BY <1>2, <2>1
  <1> DEFINE bad == ~Whole(r.data) \/ \E i \in DOMAIN r.data : ~r.data[i].gzip
  <1>3. CASE r.type.gzip /\ bad
    <2>1. ProcessGzip(r) = Fails(r)
      BY <1>3 DEF ProcessGzip
    <2> QED  BY <2>1, FailsIs
  <1>4. CASE r.type.gzip /\ ~bad
    <2> DEFINE d == [i \in DOMAIN r.data |-> [r.data[i] EXCEPT !.gzip = FALSE]]
               t == [r.type EXCEPT !.gzip = FALSE]
    <2>1. ProcessGzip(r) = [r EXCEPT !.type.gzip = FALSE, !.data = d]
      BY <1>4 DEF ProcessGzip
    <2>2. \A x \in Piece : [x EXCEPT !.gzip = FALSE] \in Piece
      BY DEF Piece
    <2>3. DOMAIN r.data = 1..Len(r.data) /\ Len(r.data) \in Nat /\ \A i \in DOMAIN r.data : r.data[i] \in Piece
      BY <1>1
    <2>4. d \in [1..Len(r.data) -> Piece]
      BY <2>2, <2>3
    <2>5. d \in Seq(Piece)
      BY <2>3, <2>4
    <2>6. t \in ContentType /\ t.name = r.type.name /\ ~t.gzip
      BY <1>1 DEF ContentType
    <2>7. ProcessGzip(r) = [r EXCEPT !.type = t, !.data = d]
      BY <2>1 DEF RequestType
    <2>8. Len(r.data) = 2 /\ \A i \in DOMAIN r.data : r.data[i].gzip
      BY <1>4 DEF Whole
    <2>9. d = [i \in DOMAIN r.data |-> [r.data[i] EXCEPT !.gzip = FALSE]]
      OBVIOUS
    <2> HIDE DEF d, t
    <2>10. /\ ProcessGzip(r) \in RequestType /\ ProcessGzip(r).type = t /\ ProcessGzip(r).data = d
           /\ ProcessGzip(r).phase = "transfer" /\ ProcessGzip(r).path = r.path
      BY <2>5, <2>6, <2>7 DEF RequestType
    <2> QED  BY <1>4, <2>6, <2>8, <2>9, <2>10
  <1> QED
    BY <1>2, <1>3, <1>4

LEMMA GunzipIs ==
    ASSUME NEW text, NEW gzip, NEW no, NEW d, d = Pieces(text, gzip)
    PROVE  [i \in DOMAIN d |-> [d[i] EXCEPT !.gzip = no]] = Pieces(text, no)
  <1>1. \A i \in 1..2 : [[text |-> text, part |-> i, gzip |-> gzip] EXCEPT !.gzip = no]
                          = [text |-> text, part |-> i, gzip |-> no]
    OBVIOUS
  <1> QED
    BY <1>1 DEF Pieces

LEMMA SendReturnsInv ==
    ASSUME RestInv, SendReturns
    PROVE  RestInv'
  <1>1. /\ request \in RequestType /\ answer \in AnswerType /\ request.phase = "transfer"
        /\ answer' = answer /\ state' = state /\ api' = api
    BY DEF RestInv, RestTypeOK, SendReturns
  <1>2. CASE answer.code # 200 \/ ~answer.type.given
    <2>1. request' = Fails(request)
      BY <1>2 DEF SendReturns
    <2> QED  BY <1>1, <2>1, FailsIs, FailedInv
  <1>3. CASE answer.code = 200 /\ answer.type.given
    <2> DEFINE r == [request EXCEPT !.type = answer.type]
               g == ProcessGzip(r)
               done == ProcessJson(g)
               b == answer.body
    <2>1. /\ r \in RequestType /\ r.phase = "transfer" /\ r.path = request.path
          /\ r.type = answer.type /\ r.data = request.data
      BY <1>1 DEF RequestType, AnswerType
    <2>2. request' = IF done.phase = "failed" THEN done ELSE [done EXCEPT !.phase = "ok"]
      BY <1>3 DEF SendReturns, ProcessData
    <2> HIDE DEF r
    <2>3. /\ g \in RequestType
          /\ g.phase = "failed" => g.errors > 0
          /\ g.phase # "failed" =>
                /\ g.phase = "transfer" /\ g.path = r.path /\ g.type.name = r.type.name
                /\ ~g.type.gzip
                /\ ~r.type.gzip => g = r
                /\ r.type.gzip =>
                      /\ Len(r.data) = 2 /\ \A i \in DOMAIN r.data : r.data[i].gzip
                      /\ g.data = [i \in DOMAIN r.data |-> [r.data[i] EXCEPT !.gzip = FALSE]]
      BY <2>1, ProcessGzipIs
    <2> HIDE DEF g
    <2>4. r.data = b
      <3>1. r.data \in Seq(Piece) /\ b \in Seq(Piece)
        BY <1>1, <2>1 DEF RequestType, AnswerType
      <3>2. Len(r.data) = Len(b) /\ \A i \in 1..Len(b) : r.data[i] = b[i]
        BY <1>1, <2>1 DEF RestInv, TransferInv, SendReturns
      <3> QED  BY <3>1, <3>2
    <2>7. ASSUME OwnAnswer(answer, request.path), g.phase # "failed"
          PROVE  g.data = Pieces(answer.text, FALSE)
      <3> DEFINE text == answer.text
                 gzip == answer.type.gzip
                 d == r.data
                 e == g.data
      <3>1. text \in Text /\ gzip \in BOOLEAN
        BY <1>1 DEF AnswerType, ContentType
      <3>2. d = Pieces(text, gzip)
        BY <2>4, <2>7 DEF OwnAnswer
      <3>3. /\ gzip => e = [i \in DOMAIN d |-> [d[i] EXCEPT !.gzip = FALSE]]
            /\ ~gzip => e = d
        BY <2>1, <2>3, <2>7
      <3>4. e = Pieces(text, FALSE)
        <4> DEFINE no == FALSE
        <4>1. gzip \in BOOLEAN /\ no = FALSE
          BY <3>1
        <4>2. gzip => e = [i \in DOMAIN d |-> [d[i] EXCEPT !.gzip = no]]
          BY <3>3
        <4> HIDE DEF text, gzip, d, e, no
        <4>3. CASE gzip
          <5>1. [i \in DOMAIN d |-> [d[i] EXCEPT !.gzip = no]] = Pieces(text, no)
            BY <3>2, GunzipIs
          <5> QED  BY <4>1, <4>2, <4>3, <5>1
        <4>4. CASE ~gzip
          <5>1. gzip = no
            BY <4>1, <4>4
          <5> QED  BY <3>2, <3>3, <4>1, <4>4, <5>1
        <4> QED  BY <4>3, <4>4
      <3> QED  BY <3>4
    <2>5. CASE done.phase = "failed"
      <3>1. request' \in RequestType /\ request'.phase = "failed" /\ request'.errors > 0
        <4>1. CASE g.phase = "failed"
          BY <2>2, <2>3, <2>5, <4>1 DEF ProcessJson
        <4>2. CASE g.phase # "failed" /\ done = Fails(g)
          BY <2>2, <2>3, <2>5, <4>2, FailsIs
        <4>3. CASE g.phase # "failed" /\ done # Fails(g)
          <5>1. done = g \/ done = [g EXCEPT !.json = g.data[1].text]
            BY <4>3 DEF ProcessJson
          <5>2. done.phase = g.phase
            BY <2>3, <5>1 DEF RequestType
          <5> QED  BY <2>5, <4>3, <5>2
        <4> QED  BY <4>1, <4>2, <4>3
      <3> QED  BY <1>1, <3>1, FailedInv
    <2>6. CASE done.phase # "failed"
      <3>1. g.phase # "failed" /\ done # Fails(g)
        BY <2>3, <2>6, FailsIs DEF ProcessJson
      <3>2. /\ g.phase = "transfer" /\ g.path = request.path /\ g.type.name = answer.type.name
            /\ ~g.type.gzip
        BY <2>1, <2>3, <3>1
      <3>3. CASE g.type.name # "application/json"
        <4>1. done = g
          BY <3>3 DEF ProcessJson
        <4>2. answer.type # Json
          BY <3>2, <3>3, TypesAre
        <4>3. OwnAnswer(answer, request.path)
          <5>1. ~(answer.type.gzip /\ Len(b) = 1)
            BY <2>1, <2>3, <2>4, <3>1
          <5> QED  BY <1>1, <1>3, <4>2, <5>1 DEF RestInv, TransferInv, OtherAnswer
        <4>4. g.data = Pieces(answer.text, FALSE)
          BY <2>7, <3>1, <4>3
        <4>5. request' = [g EXCEPT !.phase = "ok"]
          BY <2>2, <2>6, <4>1
        <4>6. /\ request' \in RequestType /\ request'.phase = "ok" /\ request'.data = g.data
              /\ request'.type = g.type /\ request'.path = g.path
          BY <2>3, <4>5 DEF RequestType
        <4>7. AnswersAreWhole'
          BY <1>1, <1>3, <3>2, <3>3, <4>3, <4>4, <4>6 DEF AnswersAreWhole, OwnAnswer
        <4> QED  BY <1>1, <4>6, <4>7 DEF RestInv, RestTypeOK, TransferInv
      <3>4. CASE g.type.name = "application/json"
        <4> DEFINE x == g.data[1].text
        <4>1. /\ Whole(g.data) /\ g.data = Pieces(x, FALSE) /\ x # NoText
              /\ done = [g EXCEPT !.json = x]
          BY <3>1, <3>4 DEF ProcessJson
        <4>2. x \in Text
          <5>1. g.data \in Seq(Piece) /\ Len(g.data) = 2
            BY <2>3, <4>1 DEF RequestType, Whole
          <5>2. g.data[1] \in Piece
            BY <5>1
          <5> QED  BY <5>2 DEF Piece
        <4>3. OwnAnswer(answer, request.path)
          <5>1. ~(answer.type.gzip /\ Len(b) = 1)
            BY <2>1, <2>3, <2>4, <3>1
          <5>2. ASSUME answer.type = Json, b = Pieces(NoText, FALSE) PROVE FALSE
            <6>1. g.data = Pieces(NoText, FALSE)
              BY <2>1, <2>3, <2>4, <3>1, <5>2, TypesAre
            <6>2. g.data[1].text = NoText
              <7>1. Pieces(NoText, FALSE)[1].text = NoText
                BY DEF Pieces
              <7> QED  BY <6>1, <7>1
            <6> QED  BY <4>1, <6>2
          <5> QED  BY <1>1, <1>3, <5>1, <5>2 DEF RestInv, TransferInv, OtherAnswer
        <4>4. g.data = Pieces(answer.text, FALSE)
          BY <2>7, <3>1, <4>3
        <4>5. x = answer.text
          <5>1. Pieces(answer.text, FALSE)[1].text = answer.text
            BY DEF Pieces
          <5> QED  BY <4>4, <5>1
        <4> HIDE DEF x
        <4>6. /\ done \in RequestType /\ done.json = x /\ done.data = g.data
              /\ done.type = g.type /\ done.path = g.path
          BY <2>3, <4>1, <4>2 DEF RequestType
        <4> HIDE DEF done
        <4>7. request' = [done EXCEPT !.phase = "ok"]
          BY <2>2, <2>6
        <4>8. /\ request' \in RequestType /\ request'.phase = "ok" /\ request'.data = g.data
              /\ request'.type = g.type /\ request'.path = g.path /\ request'.json = x
          BY <4>6, <4>7 DEF RequestType
        <4>9. AnswersAreWhole'
          BY <1>1, <1>3, <3>2, <4>3, <4>4, <4>5, <4>8 DEF AnswersAreWhole, OwnAnswer
        <4> QED  BY <1>1, <4>8, <4>9 DEF RestInv, RestTypeOK, TransferInv
      <3> QED  BY <3>3, <3>4
    <2> QED  BY <2>5, <2>6
  <1>4. answer.type.given \in BOOLEAN
    BY <1>1 DEF AnswerType, ContentType
  <1> QED
    BY <1>2, <1>3, <1>4

LEMMA RestNextInv ==
    ASSUME RestInv, [RestNext]_restVars
    PROVE  RestInv'
  <1>0. state.version \in Nat /\ api \in [up : BOOLEAN, gzip : BOOLEAN]
        /\ state \in [version : Nat, upToDate : BOOLEAN]
    BY DEF RestInv, RestTypeOK
  <1>1. CASE UNCHANGED restVars
    BY <1>0, <1>1, ElsewhereInv DEF restVars
  <1>2. CASE StartApi \/ StopApi
    BY <1>0, <1>2, ElsewhereInv DEF StartApi, StopApi
  <1>3. CASE \E upToDate \in BOOLEAN : GameChanges(upToDate)
    BY <1>0, <1>3, ElsewhereInv DEF GameChanges
  <1>4. CASE \E path \in Paths : Send(path)
    BY <1>4, SendInv
  <1>5. CASE WriteCallback
    BY <1>5, WriteCallbackInv
  <1>6. CASE TransferFails
    BY <1>6, FailsIs, FailedInv DEF TransferFails, RestInv, RestTypeOK
  <1>7. CASE SendReturns
    BY <1>7, SendReturnsInv
  <1> DEFINE plain == Pieces(NoText, FALSE)
             text == <<"state", 0>>
             yes == TRUE
             zipped == Pieces(text, yes)
             cut == SubSeq(zipped, 1, 1)
             untyped == [Json EXCEPT !.given = FALSE]
             gz == [Json EXCEPT !.gzip = TRUE]
  <1>8. plain \in Seq(Piece)
    BY PiecesType DEF Text
  <1>9. untyped \in ContentType /\ ~untyped.given /\ gz \in ContentType /\ gz.gzip
    BY TypesAre DEF ContentType
  <1>10. cut \in Seq(Piece) /\ Len(cut) = 1
    <2>1. text \in Text /\ yes \in BOOLEAN
      BY DEF Text
    <2> HIDE DEF text, yes
    <2>2. zipped \in Seq(Piece) /\ Len(zipped) = 2
      BY <2>1, PiecesType
    <2> HIDE DEF zipped
    <2> QED  BY <2>2
  <1>11. CASE OtherServer(untyped, plain)
    <2> HIDE DEF untyped, plain
    <2> QED  BY <1>8, <1>9, <1>11, OtherServerInv
  <1>12. CASE OtherServer(Json, plain)
    <2>1. plain = Pieces(NoText, FALSE)
      OBVIOUS
    <2> HIDE DEF plain
    <2> QED  BY <1>8, <1>12, <2>1, TypesAre, OtherServerInv
  <1>13. CASE OtherServer(gz, cut)
    <2> HIDE DEF gz, cut
    <2> QED  BY <1>9, <1>10, <1>13, OtherServerInv
  <1> QED
    BY <1>1, <1>2, <1>3, <1>4, <1>5, <1>6, <1>7, <1>11, <1>12, <1>13 DEF RestNext

\* For any number of requests by one object, changes of the game and restarts
\* of the server: a request that succeeds has what the server answered it with,
\* whole and in the plain (RestClient::Request::Send, ProcessData).
THEOREM AnswersComeWhole == RestSpec => []AnswersAreWhole
  <1>1. RestInv => AnswersAreWhole
    BY DEF RestInv
  <1> QED
    BY <1>1, RestInitInv, RestNextInv, PTL DEF RestSpec
=============================================================================
