---------------------------- MODULE SessionProofs ----------------------------
(***************************************************************************)
(* Theorems about Session for every set of sessions and requests: types,   *)
(* mutual exclusion, the finality of closing, the order of the files, and  *)
(* the implementation of SessionTurns.                                     *)
(***************************************************************************)
EXTENDS Session, TLAPS

\* A request that works on a session found it in memory, and it was not
\* closed while a run is prepared or under way.
WorksOnLiveSession ==
  \A r \in Requests :
    /\ pc[r] \in InLock => Known(target[r])
    /\ pc[r] \in {"resuming", "received", "running"} => status[target[r]] # "closed"

\* The runs of a session never outnumber its messages, with one message to
\* spare while its run is not yet recorded; meta.json lags behind memory.
Ahead ==
  /\ \A s \in Sessions : meta[s].runs <= runs[s] /\ runs[s] <= messages[s]
  /\ \A r \in Requests : pc[r] = "received" => runs[target[r]] < messages[target[r]]

Places == InLock \cup {"new", "creating", "tasked", "done", "lost"}
Results == {"none", "ok", "busy", "closed", "notfound", "failed"}

\* The inductive invariant.
IInv == TypeOK /\ LockDiscipline /\ WorksOnLiveSession /\ Ahead

-----------------------------------------------------------------------------

LEMMA InitIInv == Init => IInv
  <1> SUFFICES ASSUME Init PROVE IInv
    OBVIOUS
  <1> USE SessionAssumption DEF Init
  <1>1. TypeOK
    BY DEF TypeOK, Metas, NoMeta, InLock, Modes, Statuses
  <1>2. LockDiscipline /\ WorksOnLiveSession /\ Ahead
    BY DEF LockDiscipline, WorksOnLiveSession, Ahead, NoMeta, InLock
  <1> QED BY <1>1, <1>2 DEF IInv

\* A write of meta.json keeps it well-formed and no further than memory.
LEMMA WriteMetaLags ==
  ASSUME TypeOK, TypeOK', NEW s \in Sessions,
         \A q \in Sessions : meta[q].runs <= runs[q],
         \A q \in Sessions : runs[q] <= runs'[q],
         WriteMeta(s) \/ WriteMetaFails(s)
  PROVE  \A q \in Sessions : meta'[q].runs <= runs'[q]
  <1>1. CASE WriteMeta(s)
    BY <1>1 DEF WriteMeta, Snapshot, TypeOK, Metas
  <1>2. CASE WriteMetaFails(s)
    BY <1>2 DEF WriteMetaFails, Torn, NoMeta, TypeOK, Metas
  <1> QED BY <1>1, <1>2

\* A snapshot of a known session is a possible content of meta.json.
LEMMA WriteMetaType ==
  ASSUME NEW s \in Sessions, meta \in [Sessions -> Metas],
         status'[s] \in Statuses, runs'[s] \in Nat, contextPct'[s] \in Nat,
         WriteMeta(s) \/ WriteMetaFails(s), faulty \subseteq Sessions
  PROVE  meta' \in [Sessions -> Metas] /\ faulty' \subseteq Sessions
  BY DEF WriteMeta, WriteMetaFails, Snapshot, Torn, NoMeta, Metas, Statuses

LEMMA TypeStep == IInv /\ [Next]_vars => TypeOK'
  <1> SUFFICES ASSUME IInv, [Next]_vars PROVE TypeOK'
    OBVIOUS
  <1> USE DEF memory
  <1> TypeOK BY DEF IInv
  <1>1. CASE UNCHANGED vars
    BY <1>1 DEF vars, TypeOK
  <1>2. CASE Crash
    BY <1>2 DEF Crash, TypeOK, InLock
  <1>3. CASE Restart
    BY <1>3 DEF Restart, TypeOK
  <1>4. ASSUME NEW r \in Requests, Create(r) PROVE TypeOK'
    <2>1. meta' \in [Sessions -> Metas] /\ faulty' \subseteq Sessions
      BY <1>4, WriteMetaType DEF Create, TypeOK, Statuses
    <2> QED BY <1>4, <2>1 DEF Create, Goto, Return, TypeOK, Statuses
  <1>5. ASSUME NEW r \in Requests, SendMessage(r) PROVE TypeOK'
    BY <1>5 DEF SendMessage, Refuse, Refused, Acquire, AppendMessage, Goto,
         Return, TypeOK, InLock
  <1>6. ASSUME NEW r \in Requests, Close(r) PROVE TypeOK'
    <2>1. CASE Refuse(r, target[r]) /\ UNCHANGED <<target, background>>
      BY <2>1 DEF Refuse, Refused, Return, TypeOK
    <2>2. CASE /\ UNCHANGED <<target, background>>
               /\ status' = [status EXCEPT ![target[r]] = "closed"]
               /\ UNCHANGED <<up, mode, runs, contextPct, messages>>
               /\ \/ WriteMeta(target[r]) /\ Acquire(target[r], r) /\ Goto(r, "closing")
                  \/ WriteMetaFails(target[r]) /\ Return(r, "failed") /\ UNCHANGED owner
      <3>1. meta' \in [Sessions -> Metas] /\ faulty' \subseteq Sessions
        BY <2>2, WriteMetaType DEF TypeOK, Statuses
      <3>2. /\ owner' \in [Sessions -> Requests \cup {Nobody}]
            /\ status' \in [Sessions -> Statuses \cup {"none", "gone"}]
        BY <2>2 DEF Acquire, TypeOK, Statuses
      <3>3. pc' \in [Requests -> Places] /\ result' \in [Requests -> Results]
        BY <2>2 DEF Goto, Return, TypeOK, InLock, Places, Results
      <3> QED BY <2>2, <3>1, <3>2, <3>3 DEF TypeOK, Places, Results
    <2> QED BY <1>6, <2>1, <2>2 DEF Close
  <1>7. ASSUME NEW r \in Requests, Compact(r) PROVE TypeOK'
    BY <1>7 DEF Compact, Refuse, Refused, Acquire, Goto, Return, TypeOK, InLock
  <1>8. ASSUME NEW r \in Requests, Usage(r) PROVE TypeOK'
    <2>1. status[target[r]] \in Statuses
      BY <1>8 DEF IInv, WorksOnLiveSession, Usage, Holds, InLock, Known
    <2>2. meta' \in [Sessions -> Metas] /\ faulty' \subseteq Sessions
      BY <1>8, <2>1, WriteMetaType DEF Usage, TypeOK
    <2>3. contextPct' \in [Sessions -> Nat]
      BY <1>8 DEF Usage, TypeOK
    <2> QED BY <1>8, <2>2, <2>3 DEF Usage, TypeOK
  <1>9. ASSUME NEW r \in Requests, HandlerRaises(r) PROVE TypeOK'
    BY <1>9 DEF HandlerRaises, ReleaseOnError, Release, Return, TypeOK
  <1>10. ASSUME NEW r \in Requests, Created(r) PROVE TypeOK'
    BY <1>10 DEF Created, Goto, Return, TypeOK
  <1>11. ASSUME NEW r \in Requests, Resumed(r) PROVE TypeOK'
    BY <1>11 DEF Resumed, AppendMessage, Goto, TypeOK, InLock
  <1>12. ASSUME NEW r \in Requests, StartRun(r) PROVE TypeOK'
    <2>1. status[target[r]] \in Statuses
      BY <1>12 DEF IInv, WorksOnLiveSession, StartRun, Holds, InLock, Known
    <2>2. meta' \in [Sessions -> Metas] /\ faulty' \subseteq Sessions
      BY <1>12, <2>1, WriteMetaType DEF StartRun, TypeOK
    <2>3. runs' \in [Sessions -> Nat] /\ owner' \in [Sessions -> Requests \cup {Nobody}]
      BY <1>12 DEF StartRun, Release, TypeOK
    <2>4. pc' \in [Requests -> Places] /\ result' \in [Requests -> Results]
      BY <1>12 DEF StartRun, Goto, Return, TypeOK, InLock, Places, Results
    <2> QED BY <1>12, <2>2, <2>3, <2>4 DEF StartRun, TypeOK, Places, Results
  <1>13. ASSUME NEW r \in Requests, RunReturns(r) PROVE TypeOK'
    BY <1>13 DEF RunReturns, StatusAfterRun, Goto, TypeOK, Statuses, InLock
  <1>14. ASSUME NEW r \in Requests, SendReturns(r) PROVE TypeOK'
    <2>1. status[target[r]] \in Statuses
      BY <1>14 DEF IInv, WorksOnLiveSession, SendReturns, Holds, InLock, Known
    <2>2. meta' \in [Sessions -> Metas] /\ faulty' \subseteq Sessions
      BY <1>14, <2>1, WriteMetaType DEF SendReturns, TypeOK
    <2> QED BY <1>14, <2>2 DEF SendReturns, Return, Release, TypeOK
  <1>15. ASSUME NEW r \in Requests, CloseReturns(r) PROVE TypeOK'
    BY <1>15 DEF CloseReturns, Return, Release, TypeOK
  <1>16. ASSUME NEW r \in Requests, CompactReturns(r) PROVE TypeOK'
    BY <1>16 DEF CompactReturns, Return, Release, TypeOK
  <1> QED BY <1>1, <1>2, <1>3, <1>4, <1>5, <1>6, <1>7, <1>8, <1>9, <1>10, <1>11,
         <1>12, <1>13, <1>14, <1>15, <1>16 DEF Next, Step, Proceed

\* A request that had no lock and enters the critical section takes the free
\* lock of its session.
LEMMA EnterLock ==
  ASSUME NEW r \in Requests, NEW at \in InLock, TypeOK, LockDiscipline,
         pc[r] \notin InLock, owner[target[r]] = Nobody,
         Acquire(target[r], r), Goto(r, at), target' = target
  PROVE  LockDiscipline'
  BY SessionAssumption DEF TypeOK, LockDiscipline, Acquire, Goto

\* A request outside its critical section that stays outside and touches no lock.
LEMMA StayOutside ==
  ASSUME NEW r \in Requests, TypeOK, LockDiscipline, pc[r] \notin InLock,
         NEW at, at \notin InLock, pc' = [pc EXCEPT ![r] = at],
         UNCHANGED <<owner, target>>
  PROVE  LockDiscipline'
  BY DEF TypeOK, LockDiscipline

\* The steps of Next: what a step of one request does to the locks.
LEMMA LockStep == IInv /\ [Next]_vars => LockDiscipline'
  <1> SUFFICES ASSUME IInv, [Next]_vars PROVE LockDiscipline'
    OBVIOUS
  <1> USE SessionAssumption DEF LockDiscipline, InLock
  <1> TypeOK /\ LockDiscipline BY DEF IInv
  <1>1. CASE UNCHANGED vars
    BY <1>1 DEF vars
  <1>2. CASE Crash
    BY <1>2 DEF Crash, TypeOK
  <1>3. CASE Restart
    BY <1>3 DEF Restart
  <1>4. ASSUME NEW r \in Requests, Create(r) PROVE LockDiscipline'
    BY <1>4 DEF Create, Goto, Return, TypeOK
  <1>5. ASSUME NEW r \in Requests, SendMessage(r) PROVE LockDiscipline'
    <2>1. pc[r] \notin InLock /\ target' = target
      BY <1>5 DEF SendMessage, Starts, Holds
    <2>2. CASE UNCHANGED owner /\ pc' = [pc EXCEPT ![r] = "done"]
      BY <2>1, <2>2, StayOutside
    <2>3. ASSUME NEW at \in InLock, Refused(target[r]) = {},
                 Acquire(target[r], r), Goto(r, at)
          PROVE  LockDiscipline'
      <3>1. owner[target[r]] = Nobody
        BY <2>3 DEF Refused, Known, Locked
      <3> QED BY <2>1, <2>3, <3>1, EnterLock
    <2> QED BY <1>5, <2>2, <2>3 DEF SendMessage, Refuse, Return
  <1>6. ASSUME NEW r \in Requests, Close(r) PROVE LockDiscipline'
    <2>1. pc[r] \notin InLock /\ target' = target
      BY <1>6 DEF Close, Starts, Holds
    <2>2. CASE UNCHANGED owner /\ pc' = [pc EXCEPT ![r] = "done"]
      BY <2>1, <2>2, StayOutside
    <2>3. ASSUME NEW at \in InLock, Refused(target[r]) = {},
                 Acquire(target[r], r), Goto(r, at)
          PROVE  LockDiscipline'
      <3>1. owner[target[r]] = Nobody
        BY <2>3 DEF Refused, Known, Locked
      <3> QED BY <2>1, <2>3, <3>1, EnterLock
    <2> QED BY <1>6, <2>2, <2>3 DEF Close, Refuse, Return
  <1>7. ASSUME NEW r \in Requests, Compact(r) PROVE LockDiscipline'
    <2>1. pc[r] \notin InLock /\ target' = target
      BY <1>7 DEF Compact, Starts, Holds
    <2>2. CASE UNCHANGED owner /\ pc' = [pc EXCEPT ![r] = "done"]
      BY <2>1, <2>2, StayOutside
    <2>3. ASSUME NEW at \in InLock, Refused(target[r]) = {},
                 Acquire(target[r], r), Goto(r, at)
          PROVE  LockDiscipline'
      <3>1. owner[target[r]] = Nobody
        BY <2>3 DEF Refused, Known, Locked
      <3> QED BY <2>1, <2>3, <3>1, EnterLock
    <2> QED BY <1>7, <2>2, <2>3 DEF Compact, Refuse, Return
  <1>8. ASSUME NEW r \in Requests, Usage(r) PROVE LockDiscipline'
    BY <1>8 DEF Usage
  <1>9. ASSUME NEW r \in Requests, HandlerRaises(r) PROVE LockDiscipline'
    BY <1>9 DEF HandlerRaises, ReleaseOnError, Release, Return, TypeOK
  <1>10. ASSUME NEW r \in Requests, Created(r) PROVE LockDiscipline'
    BY <1>10 DEF Created, Holds, Goto, Return, TypeOK
  <1>11. ASSUME NEW r \in Requests, Resumed(r) PROVE LockDiscipline'
    BY <1>11 DEF Resumed, Holds, Goto, TypeOK
  <1>12. ASSUME NEW r \in Requests, StartRun(r) PROVE LockDiscipline'
    BY <1>12 DEF StartRun, Holds, Goto, Return, Release, TypeOK
  <1>13. ASSUME NEW r \in Requests, RunReturns(r) PROVE LockDiscipline'
    BY <1>13 DEF RunReturns, Holds, Goto, TypeOK
  <1>14. ASSUME NEW r \in Requests, SendReturns(r) PROVE LockDiscipline'
    BY <1>14 DEF SendReturns, Holds, Return, Release, TypeOK
  <1>15. ASSUME NEW r \in Requests, CloseReturns(r) PROVE LockDiscipline'
    BY <1>15 DEF CloseReturns, Holds, Return, Release, TypeOK
  <1>16. ASSUME NEW r \in Requests, CompactReturns(r) PROVE LockDiscipline'
    BY <1>16 DEF CompactReturns, Holds, Return, Release, TypeOK
  <1> QED BY <1>1, <1>2, <1>3, <1>4, <1>5, <1>6, <1>7, <1>8, <1>9, <1>10, <1>11,
         <1>12, <1>13, <1>14, <1>15, <1>16 DEF Next, Step, Proceed

\* A session somebody works on can only be closed by that request.
LEMMA WorkStep == IInv /\ [Next]_vars => WorksOnLiveSession'
  <1> SUFFICES ASSUME IInv, [Next]_vars PROVE WorksOnLiveSession'
    OBVIOUS
  <1> USE SessionAssumption DEF WorksOnLiveSession, Known, InLock, memory
  <1> TypeOK /\ LockDiscipline /\ WorksOnLiveSession BY DEF IInv
  <1>1. CASE UNCHANGED vars
    BY <1>1 DEF vars
  <1>2. CASE Crash
    BY <1>2 DEF Crash, TypeOK
  <1>3. CASE Restart
    BY <1>3 DEF Restart
  <1>4. ASSUME NEW r \in Requests, Create(r) PROVE WorksOnLiveSession'
    BY <1>4 DEF Create, Goto, Return, TypeOK, Statuses
  <1>5. ASSUME NEW r \in Requests, SendMessage(r) PROVE WorksOnLiveSession'
    BY <1>5 DEF SendMessage, Refuse, Refused, Goto, Return, TypeOK, Statuses
  <1>6. ASSUME NEW r \in Requests, Close(r) PROVE WorksOnLiveSession'
    <2>1. CASE Refuse(r, target[r]) /\ target' = target
      BY <2>1 DEF Refuse, Return, TypeOK
    <2>2. CASE /\ Refused(target[r]) = {} /\ target' = target
               /\ status' = [status EXCEPT ![target[r]] = "closed"]
               /\ \E at \in {"closing", "done"} : pc' = [pc EXCEPT ![r] = at]
      <3>1. \A q \in Requests : pc[q] \in InLock => target[q] # target[r]
        <4>1. "notfound" \notin Refused(target[r]) /\ "busy" \notin Refused(target[r])
          BY <2>2
        <4>2. owner[target[r]] = Nobody
          BY <4>1 DEF Refused, Locked
        <4>3. target[r] \in Sessions /\ Nobody \notin Requests
          BY DEF TypeOK
        <4> QED BY <4>2, <4>3 DEF LockDiscipline
      <3> QED BY <2>2, <3>1 DEF TypeOK, Statuses
    <2>3. /\ target' = target
          /\ \/ Refuse(r, target[r])
             \/ /\ Refused(target[r]) = {}
                /\ status' = [status EXCEPT ![target[r]] = "closed"]
                /\ Goto(r, "closing") \/ Return(r, "failed")
      BY <1>6 DEF Close
    <2>4. Goto(r, "closing") \/ Return(r, "failed") =>
            \E at \in {"closing", "done"} : pc' = [pc EXCEPT ![r] = at]
      BY DEF Goto, Return
    <2> HIDE DEF WorksOnLiveSession, Known, InLock, memory
    <2>5. CASE Refuse(r, target[r])
      BY <2>1, <2>3, <2>5, Zenon
    <2>6. CASE /\ Refused(target[r]) = {}
               /\ status' = [status EXCEPT ![target[r]] = "closed"]
               /\ Goto(r, "closing") \/ Return(r, "failed")
      BY <2>2, <2>3, <2>4, <2>6, Zenon
    <2> QED BY <2>3, <2>5, <2>6
  <1>7. ASSUME NEW r \in Requests, Compact(r) PROVE WorksOnLiveSession'
    <2>1. /\ target' = target /\ status' = status
          /\ \/ Refuse(r, target[r])
             \/ Refused(target[r]) = {} /\ Goto(r, "compacting")
      BY <1>7 DEF Compact, Refuse
    <2>2. CASE Refuse(r, target[r])
      BY <2>1, <2>2 DEF Refuse, Return, TypeOK
    <2>3. CASE Refused(target[r]) = {} /\ Goto(r, "compacting")
      <3>1. "notfound" \notin Refused(target[r])
        BY <2>3
      <3>2. status[target[r]] \in Statuses
        BY <3>1 DEF Refused
      <3> QED BY <2>1, <2>3, <3>2 DEF Goto, TypeOK
    <2> QED BY <2>1, <2>2, <2>3
  <1>8. ASSUME NEW r \in Requests, Usage(r) PROVE WorksOnLiveSession'
    BY <1>8 DEF Usage
  <1>9. ASSUME NEW r \in Requests, HandlerRaises(r) PROVE WorksOnLiveSession'
    BY <1>9 DEF HandlerRaises, Return, TypeOK
  <1>10. ASSUME NEW r \in Requests, Created(r) PROVE WorksOnLiveSession'
    BY <1>10 DEF Created, Goto, Return, TypeOK
  <1>11. ASSUME NEW r \in Requests, Resumed(r) PROVE WorksOnLiveSession'
    BY <1>11 DEF Resumed, Holds, Goto, TypeOK
  <1>12. ASSUME NEW r \in Requests, StartRun(r) PROVE WorksOnLiveSession'
    BY <1>12 DEF StartRun, Holds, Goto, Return, TypeOK
  <1>13. ASSUME NEW r \in Requests, RunReturns(r) PROVE WorksOnLiveSession'
    BY <1>13 DEF RunReturns, StatusAfterRun, Holds, Goto, LockDiscipline, TypeOK, Statuses
  <1>14. ASSUME NEW r \in Requests, SendReturns(r) PROVE WorksOnLiveSession'
    BY <1>14 DEF SendReturns, Return, TypeOK
  <1>15. ASSUME NEW r \in Requests, CloseReturns(r) PROVE WorksOnLiveSession'
    BY <1>15 DEF CloseReturns, Return, TypeOK
  <1>16. ASSUME NEW r \in Requests, CompactReturns(r) PROVE WorksOnLiveSession'
    BY <1>16 DEF CompactReturns, Return, TypeOK
  <1> QED BY <1>1, <1>2, <1>3, <1>4, <1>5, <1>6, <1>7, <1>8, <1>9, <1>10, <1>11,
         <1>12, <1>13, <1>14, <1>15, <1>16 DEF Next, Step, Proceed

\* The message is stored before its run is counted, and a message is stored
\* only under the lock, so that one spare message is enough.
LEMMA AheadStep == IInv /\ [Next]_vars => Ahead'
  <1> SUFFICES ASSUME IInv, [Next]_vars PROVE Ahead'
    OBVIOUS
  <1> USE SessionAssumption DEF memory
  <1> TypeOK /\ LockDiscipline /\ Ahead BY DEF IInv
  <1>T. TypeOK' BY TypeStep
  <1>1. CASE UNCHANGED vars
    BY <1>1 DEF vars, Ahead
  <1>2. CASE Crash
    BY <1>2 DEF Crash, Ahead, TypeOK, InLock
  <1>3. CASE Restart
    BY <1>3 DEF Restart, Ahead
  <1>4. ASSUME NEW r \in Requests, Create(r) PROVE Ahead'
    <2>1. \A q \in Sessions : meta'[q].runs <= runs'[q]
      BY <1>4, <1>T, WriteMetaLags DEF Create, Ahead, TypeOK
    <2> QED BY <1>4, <2>1 DEF Create, Goto, Return, Ahead, TypeOK
  <1>5. ASSUME NEW r \in Requests, SendMessage(r) PROVE Ahead'
    <2>1. CASE UNCHANGED <<messages, memory, meta, target>> /\ pc'[r] # "received"
      BY <1>5, <2>1 DEF SendMessage, Refuse, Goto, Return, Ahead, TypeOK
    <2>2. CASE /\ UNCHANGED <<memory, meta, target>>
               /\ AppendMessage(target[r]) /\ Goto(r, "received")
      BY <2>2 DEF AppendMessage, Goto, Ahead, TypeOK
    <2> QED BY <1>5, <2>1, <2>2 DEF SendMessage, Refuse, Goto, Return, TypeOK
  <1>6. ASSUME NEW r \in Requests, Close(r) PROVE Ahead'
    <2>1. \A q \in Sessions : meta'[q].runs <= runs'[q]
      <3>1. CASE Refuse(r, target[r])
        BY <3>1 DEF Refuse, Ahead
      <3>2. CASE UNCHANGED runs /\ (WriteMeta(target[r]) \/ WriteMetaFails(target[r]))
        <4>1. \A q \in Sessions : meta[q].runs <= runs[q] /\ runs[q] <= runs'[q]
          BY <3>2 DEF Ahead, TypeOK
        <4>2. target[r] \in Sessions
          BY DEF TypeOK
        <4> QED BY <3>2, <4>1, <4>2, <1>T, WriteMetaLags
      <3> QED BY <1>6, <3>1, <3>2 DEF Close
    <2> QED BY <1>6, <2>1 DEF Close, Refuse, Goto, Return, Ahead, TypeOK
  <1>7. ASSUME NEW r \in Requests, Compact(r) PROVE Ahead'
    BY <1>7 DEF Compact, Refuse, Goto, Return, Ahead, TypeOK
  <1>8. ASSUME NEW r \in Requests, Usage(r) PROVE Ahead'
    <2>1. \A q \in Sessions : meta'[q].runs <= runs'[q]
      BY <1>8, <1>T, WriteMetaLags DEF Usage, Ahead, TypeOK
    <2> QED BY <1>8, <2>1 DEF Usage, Ahead, TypeOK
  <1>9. ASSUME NEW r \in Requests, HandlerRaises(r) PROVE Ahead'
    BY <1>9 DEF HandlerRaises, Return, Ahead, TypeOK
  <1>10. ASSUME NEW r \in Requests, Created(r) PROVE Ahead'
    BY <1>10 DEF Created, Goto, Return, Ahead, TypeOK
  <1>11. ASSUME NEW r \in Requests, Resumed(r) PROVE Ahead'
    BY <1>11 DEF Resumed, Holds, AppendMessage, Goto, Ahead, TypeOK
  <1>12. ASSUME NEW r \in Requests, StartRun(r) PROVE Ahead'
    <2>1. \A q \in Sessions : runs[q] <= runs'[q]
      BY <1>12 DEF StartRun, TypeOK
    <2>2. \A q \in Sessions : meta'[q].runs <= runs'[q]
      BY <1>12, <2>1, <1>T, WriteMetaLags DEF StartRun, Ahead, TypeOK
    <2>3. \A q \in Sessions : runs'[q] <= messages'[q]
      BY <1>12 DEF StartRun, Holds, Ahead, TypeOK
    <2>4. ASSUME NEW q \in Requests, pc'[q] = "received"
          PROVE  runs'[target'[q]] < messages'[target'[q]]
      <3>1. pc[q] = "received" /\ q # r
        BY <1>12, <2>4 DEF StartRun, Goto, Return, TypeOK
      <3>2. target[q] # target[r]
        BY <1>12, <3>1 DEF StartRun, Holds, LockDiscipline, InLock, TypeOK
      <3> QED BY <1>12, <3>1, <3>2 DEF StartRun, Ahead, TypeOK
    <2> QED BY <2>2, <2>3, <2>4 DEF Ahead
  <1>13. ASSUME NEW r \in Requests, RunReturns(r) PROVE Ahead'
    BY <1>13 DEF RunReturns, Goto, Ahead, TypeOK
  <1>14. ASSUME NEW r \in Requests, SendReturns(r) PROVE Ahead'
    <2>1. \A q \in Sessions : meta'[q].runs <= runs'[q]
      <3>1. \A q \in Sessions : meta[q].runs <= runs[q] /\ runs[q] <= runs'[q]
        BY <1>14 DEF SendReturns, Ahead, TypeOK
      <3>2. target[r] \in Sessions
        BY DEF TypeOK
      <3> QED BY <1>14, <3>1, <3>2, <1>T, WriteMetaLags DEF SendReturns
    <2> QED BY <1>14, <2>1 DEF SendReturns, Return, Ahead, TypeOK
  <1>15. ASSUME NEW r \in Requests, CloseReturns(r) PROVE Ahead'
    BY <1>15 DEF CloseReturns, Return, Ahead, TypeOK
  <1>16. ASSUME NEW r \in Requests, CompactReturns(r) PROVE Ahead'
    BY <1>16 DEF CompactReturns, Return, Ahead, TypeOK
  <1> QED BY <1>1, <1>2, <1>3, <1>4, <1>5, <1>6, <1>7, <1>8, <1>9, <1>10, <1>11,
         <1>12, <1>13, <1>14, <1>15, <1>16 DEF Next, Step, Proceed

\* IInv holds in every reachable state.
THEOREM Invariance == Spec => []IInv
  <1>1. IInv /\ [Next]_vars => IInv'
    BY TypeStep, LockStep, WorkStep, AheadStep DEF IInv
  <1> QED BY InitIInv, <1>1, PTL DEF Spec

\* Two requests never work on one session, and a lock has a holder at work:
\* lock.locked() is tested without an await before `async with lock`.
THEOREM LockDisciplineHolds == Spec => []LockDiscipline
  BY Invariance, PTL DEF IInv

\* Every reachable state is well-typed.
THEOREM TypeCorrect == Spec => []TypeOK
  BY Invariance, PTL DEF IInv

\* No crash and no failed write leaves a meta.json that records a run whose
\* message is missing from thread.jsonl.
THEOREM MessageBeforeRunHolds == Spec => []MessageBeforeRun
  <1>1. IInv => MessageBeforeRun
    BY DEF IInv, Ahead, MessageBeforeRun, TypeOK, Metas
  <1> QED BY Invariance, <1>1, PTL

\* A session that is closed gets no message, no run and no other status.
LEMMA ClosedStep ==
  ASSUME IInv, [Next]_vars, NEW s \in Sessions, status[s] = "closed"
  PROVE  /\ status'[s] \in {"closed", "gone"}
         /\ runs'[s] = runs[s] /\ messages'[s] = messages[s]
  <1> DEFINE Same == /\ status'[s] \in {"closed", "gone"}
                     /\ runs'[s] = runs[s] /\ messages'[s] = messages[s]
  <1> TypeOK /\ WorksOnLiveSession BY DEF IInv
  <1> USE DEF memory, TypeOK
  <1>1. CASE UNCHANGED vars
    BY <1>1 DEF vars
  <1>2. CASE Crash \/ Restart
    BY <1>2 DEF Crash, Restart
  <1>3. ASSUME NEW r \in Requests, Create(r) PROVE Same
    BY <1>3 DEF Create
  <1>4. ASSUME NEW r \in Requests, SendMessage(r) PROVE Same
    BY <1>4 DEF SendMessage, Refuse, AppendMessage
  <1>5. ASSUME NEW r \in Requests, Close(r) \/ Compact(r) PROVE Same
    BY <1>5 DEF Close, Compact, Refuse
  <1>6. ASSUME NEW r \in Requests, Usage(r) \/ HandlerRaises(r) \/ Created(r) PROVE Same
    BY <1>6 DEF Usage, HandlerRaises, Created
  <1>7. ASSUME NEW r \in Requests, Resumed(r) \/ StartRun(r) \/ RunReturns(r) PROVE Same
    <2>1. s # target[r]
      BY <1>7 DEF Resumed, StartRun, RunReturns, Holds, WorksOnLiveSession
    <2> QED BY <1>7, <2>1 DEF Resumed, StartRun, RunReturns, AppendMessage
  <1>8. ASSUME NEW r \in Requests, SendReturns(r) \/ CloseReturns(r) \/ CompactReturns(r)
        PROVE  Same
    BY <1>8 DEF SendReturns, CloseReturns, CompactReturns
  <1> QED BY <1>1, <1>2, <1>3, <1>4, <1>5, <1>6, <1>7, <1>8 DEF Next, Step, Proceed

\* Closing is final, whatever was under way.
THEOREM ClosedIsFinalHolds == Spec => ClosedIsFinal
  <1>1. IInv /\ [Next]_vars =>
          [\A s \in Sessions :
             status[s] = "closed" =>
               /\ status'[s] \in {"closed", "gone"}
               /\ runs'[s] = runs[s] /\ messages'[s] = messages[s]]_vars
    BY ClosedStep
  <1> QED BY Invariance, <1>1, PTL DEF Spec, ClosedIsFinal

-----------------------------------------------------------------------------
(* What memory and the files say of a session that no fault has hit, at     *)
(* every step of the request that works on it.                              *)

\* Where the request stands that holds the lock of a session.
Worker(s) == IF owner[s] = Nobody THEN "free" ELSE pc[owner[s]]

Saved(s) == [kind |-> "saved", status |-> status[s], runs |-> runs[s],
             contextPct |-> contextPct[s]]

\* Between two awaits a message waits for its run only while
\* session.message_received is published, and meta.json is behind only while
\* the end of a run is announced.
FilesAt(s) ==
  /\ status[s] = "none" => runs[s] = 0 /\ messages[s] = 0
  /\ Known(s) =>
       /\ messages[s] = IF Worker(s) = "received" THEN runs[s] + 1 ELSE runs[s]
       /\ Worker(s) # "announcing" => meta[s] = Saved(s)

\* A one-shot session that has had its run is closed, or its run is under way.
OneShotAt(s) ==
  mode[s] = "one_shot" =>
    /\ status[s] # "idle"
    /\ runs[s] <= 1
    /\ status[s] = "active" /\ runs[s] = 1 => Worker(s) = "running"

Current == \A s \in Sessions \ faulty : FilesAt(s) /\ OneShotAt(s)

\* A step of a request leaves the other sessions alone.
LEMMA Elsewhere ==
  ASSUME IInv, NEW r \in Requests, Step(r), NEW s \in Sessions, s # target[r],
         FilesAt(s), OneShotAt(s)
  PROVE  FilesAt(s)' /\ OneShotAt(s)' /\ (s \in faulty => s \in faulty')
  <1> TypeOK /\ LockDiscipline BY DEF IInv
  <1> USE DEF memory
  <1> DEFINE Still == /\ status'[s] = status[s] /\ runs'[s] = runs[s]
                      /\ contextPct'[s] = contextPct[s] /\ mode'[s] = mode[s]
                      /\ messages'[s] = messages[s] /\ meta'[s] = meta[s]
                      /\ owner'[s] = owner[s] /\ (s \in faulty => s \in faulty')
             Others == \A q \in Requests \ {r} : pc'[q] = pc[q]
  <1>1. Still
    <2> USE DEF TypeOK, Acquire, Release, ReleaseOnError, WriteMeta, WriteMetaFails,
                AppendMessage, Refuse
    <2>1. CASE Create(r)
      BY <2>1 DEF Create
    <2>2. CASE SendMessage(r) \/ Compact(r)
      BY <2>2 DEF SendMessage, Compact
    <2>3. CASE Close(r)
      BY <2>3 DEF Close
    <2>4. CASE Usage(r) \/ StartRun(r)
      BY <2>4 DEF Usage, StartRun
    <2>5. CASE HandlerRaises(r) \/ Created(r) \/ Resumed(r)
      BY <2>5 DEF HandlerRaises, Created, Resumed
    <2>6. CASE RunReturns(r) \/ SendReturns(r) \/ CloseReturns(r) \/ CompactReturns(r)
      BY <2>6 DEF RunReturns, SendReturns, CloseReturns, CompactReturns
    <2> QED BY <2>1, <2>2, <2>3, <2>4, <2>5, <2>6 DEF Step, Proceed
  <1>2. Others
    <2> USE DEF TypeOK, Goto, Return, Refuse
    <2>1. CASE Create(r) \/ SendMessage(r) \/ Compact(r) \/ Close(r)
      BY <2>1 DEF Create, SendMessage, Compact, Close
    <2>2. CASE Usage(r) \/ StartRun(r) \/ HandlerRaises(r) \/ Created(r) \/ Resumed(r)
      BY <2>2 DEF Usage, StartRun, HandlerRaises, Created, Resumed
    <2>3. CASE RunReturns(r) \/ SendReturns(r) \/ CloseReturns(r) \/ CompactReturns(r)
      BY <2>3 DEF RunReturns, SendReturns, CloseReturns, CompactReturns
    <2> QED BY <2>1, <2>2, <2>3 DEF Step, Proceed
  <1>3. Worker(s)' = Worker(s)
    <2>1. owner[s] # r /\ owner[s] \in Requests \cup {Nobody}
      BY DEF LockDiscipline, TypeOK
    <2> QED BY <1>1, <1>2, <2>1, SessionAssumption DEF Worker
  <1>4. FilesAt(s)'
    BY <1>1, <1>3 DEF FilesAt, Known, Saved
  <1>5. OneShotAt(s)'
    BY <1>1, <1>3 DEF OneShotAt
  <1> QED BY <1>1, <1>4, <1>5

\* The request that works on a session is the holder of its lock.
LEMMA HolderWorks ==
  ASSUME IInv, NEW r \in Requests, pc[r] \in InLock
  PROVE  owner[target[r]] = r /\ Worker(target[r]) = pc[r] /\ Known(target[r])
  BY SessionAssumption DEF IInv, LockDiscipline, WorksOnLiveSession, Worker, TypeOK

\* A step of a request on its own session.
LEMMA OwnStep ==
  ASSUME IInv, NEW r \in Requests, NEW s \in Sessions, s = target[r], Step(r),
         s \notin faulty', FilesAt(s), OneShotAt(s)
  PROVE  FilesAt(s)' /\ OneShotAt(s)'
  <1> TypeOK /\ LockDiscipline BY DEF IInv
  <1> USE SessionAssumption DEF memory, TypeOK
  <1> DEFINE Goal == FilesAt(s)' /\ OneShotAt(s)'
             Numbers == runs[s] \in Nat /\ messages[s] \in Nat
  <1>N. Numbers
    OBVIOUS
  <1>F. ~WriteMetaFails(s)
    BY DEF WriteMetaFails
  <1>1. CASE Create(r)
    <2>1. /\ status[s] = "none" /\ WriteMeta(s) /\ status'[s] = "active"
          /\ runs'[s] = 0 /\ messages'[s] = 0 /\ mode'[s] = mode[s]
      BY <1>1, <1>F DEF Create, FilesAt
    <2>2. meta'[s] = Saved(s)'
      BY <2>1 DEF WriteMeta, Snapshot, Saved
    <2>3. owner' = owner /\ pc' = [pc EXCEPT ![r] = "creating"]
      BY <1>1, <1>F DEF Create, Goto
    <2>4. Worker(s)' # "received"
      <3>1. owner[s] = Nobody
        BY <2>1 DEF LockDiscipline, WorksOnLiveSession, IInv, Known, Statuses
      <3> QED BY <3>1, <2>3 DEF Worker
    <2> QED BY <2>1, <2>2, <2>4 DEF FilesAt, OneShotAt
  <1>2. CASE SendMessage(r)
    <2> USE DEF Worker
    <2>1. CASE UNCHANGED <<up, memory, owner, meta, messages, faulty>> /\ pc' = [pc EXCEPT ![r] = "done"]
      <3>1. pc[r] \notin InLock
        BY <1>2 DEF SendMessage, Starts, Holds, InLock
      <3>2. Worker(s)' = Worker(s)
        BY <2>1, <3>1 DEF LockDiscipline
      <3> QED BY <2>1, <3>2 DEF FilesAt, OneShotAt, Known, Saved
    <2>2. CASE /\ Refused(s) = {} /\ status[s] = "idle"
               /\ Acquire(s, r) /\ Goto(r, "resuming")
               /\ UNCHANGED <<up, memory, meta, messages, faulty>>
      <3>1. Worker(s) = "free" /\ Known(s)
        BY <2>2 DEF Refused, Locked
      <3>2. Worker(s)' = "resuming"
        BY <2>2 DEF Acquire, Goto
      <3> QED BY <2>2, <3>1, <3>2 DEF FilesAt, OneShotAt, Known, Saved
    <2>3. CASE /\ Refused(s) = {} /\ status[s] = "active"
               /\ Acquire(s, r) /\ AppendMessage(s) /\ Goto(r, "received")
               /\ UNCHANGED <<up, memory, meta, faulty>>
      <3>1. Worker(s) = "free" /\ Known(s)
        BY <2>3 DEF Refused, Locked
      <3>2. Worker(s)' = "received" /\ messages'[s] = messages[s] + 1
        BY <2>3 DEF Acquire, Goto, AppendMessage
      <3> HIDE DEF Worker
      <3>3. FilesAt(s)'
        BY <2>3, <3>1, <3>2 DEF FilesAt, Known, Saved
      <3>4. OneShotAt(s)'
        BY <2>3, <3>1, <3>2 DEF OneShotAt
      <3> QED BY <3>3, <3>4
    <2> QED BY <1>2, <2>1, <2>2, <2>3 DEF SendMessage, Refuse, Return
  <1>3. CASE Close(r)
    <2>1. CASE Refuse(r, s)
      <3>1. pc[r] \notin InLock
        BY <1>3 DEF Close, Starts, InLock
      <3>2. Worker(s)' = Worker(s)
        BY <2>1, <3>1 DEF LockDiscipline, Refuse, Return, Worker
      <3> QED BY <2>1, <3>2 DEF Refuse, FilesAt, OneShotAt, Known, Saved
    <2>2. CASE /\ Refused(s) = {} /\ WriteMeta(s) /\ Acquire(s, r) /\ Goto(r, "closing")
               /\ status' = [status EXCEPT ![s] = "closed"]
               /\ UNCHANGED <<up, mode, runs, contextPct, messages>>
      <3>1. Worker(s) = "free" /\ Known(s)
        BY <2>2 DEF Refused, Locked, Worker
      <3>2. Worker(s)' = "closing"
        BY <2>2 DEF Acquire, Goto, Worker
      <3>3. meta'[s] = Saved(s)' /\ status'[s] = "closed"
        BY <2>2 DEF WriteMeta, Snapshot, Saved
      <3> QED BY <2>2, <3>1, <3>2, <3>3 DEF FilesAt, OneShotAt
    <2> QED BY <1>3, <1>F, <2>1, <2>2 DEF Close
  <1>4. CASE Compact(r)
    <2>1. CASE Refuse(r, s)
      <3>1. pc[r] \notin InLock
        BY <1>4 DEF Compact, Starts, InLock
      <3>2. Worker(s)' = Worker(s)
        BY <2>1, <3>1 DEF LockDiscipline, Refuse, Return, Worker
      <3> QED BY <2>1, <3>2 DEF Refuse, FilesAt, OneShotAt, Known, Saved
    <2>2. CASE /\ Refused(s) = {} /\ Acquire(s, r) /\ Goto(r, "compacting")
               /\ UNCHANGED <<up, memory, meta, messages, faulty>>
      <3>1. Worker(s) = "free" /\ Known(s)
        BY <2>2 DEF Refused, Locked, Worker
      <3>2. Worker(s)' = "compacting"
        BY <2>2 DEF Acquire, Goto, Worker
      <3> QED BY <2>2, <3>1, <3>2 DEF FilesAt, OneShotAt, Known, Saved
    <2> QED BY <1>4, <2>1, <2>2 DEF Compact
  <1>5. CASE Created(r)
    <2>1. /\ UNCHANGED <<up, memory, owner, meta, messages, faulty>>
          /\ \A q \in Requests \ {r} : pc'[q] = pc[q]
      BY <1>5 DEF Created, Goto, Return
    <2>2. pc[r] \notin InLock
      BY <1>5 DEF Created, Holds, InLock
    <2>3. Worker(s)' = Worker(s)
      BY <2>1, <2>2 DEF LockDiscipline, Worker
    <2> QED BY <2>1, <2>3 DEF FilesAt, OneShotAt, Known, Saved
  <1>6. CASE Resumed(r)
    <2>1. Worker(s) = "resuming" /\ owner[s] = r /\ Known(s)
      BY <1>6, HolderWorks DEF Resumed, Holds, InLock
    <2>2. /\ UNCHANGED <<memory, owner, meta>> /\ messages'[s] = messages[s] + 1
          /\ pc'[r] = "received"
      BY <1>6 DEF Resumed, AppendMessage, Goto
    <2>3. Worker(s)' = "received"
      BY <2>1, <2>2 DEF Worker
    <2>4. FilesAt(s)'
      <3>1. messages[s] = runs[s] /\ meta[s] = Saved(s) /\ status[s] # "none"
        BY <2>1 DEF FilesAt, Known, Statuses
      <3>2. Saved(s)' = Saved(s) /\ messages'[s] = runs'[s] + 1
        BY <2>2, <3>1 DEF Saved
      <3> QED BY <2>2, <2>3, <3>1, <3>2 DEF FilesAt
    <2>5. OneShotAt(s)'
      BY <2>1, <2>2, <2>3 DEF OneShotAt
    <2> QED BY <2>4, <2>5
  <1>7. CASE StartRun(r)
    <2>1. Worker(s) = "received" /\ owner[s] = r /\ Known(s) /\ status[s] # "closed"
      BY <1>7, HolderWorks DEF StartRun, Holds, InLock, IInv, WorksOnLiveSession
    <2>2. /\ UNCHANGED <<status, mode, contextPct, messages, owner>> /\ pc'[r] = "running"
          /\ runs'[s] = runs[s] + 1 /\ WriteMeta(s)
      BY <1>7, <1>F DEF StartRun, Goto
    <2>3. Worker(s)' = "running"
      BY <2>1, <2>2 DEF Worker
    <2>4. meta'[s] = Saved(s)'
      BY <2>2 DEF WriteMeta, Snapshot, Saved
    <2>5. FilesAt(s)'
      BY <2>1, <2>2, <2>3, <2>4, <1>N DEF FilesAt, Known, Statuses
    <2>6. OneShotAt(s)'
      <3>1. mode[s] = "one_shot" => runs[s] <= 1 /\ runs[s] # 1
        BY <2>1 DEF OneShotAt, Known, Statuses
      <3> QED BY <2>1, <2>2, <2>3, <3>1, <1>N DEF OneShotAt
    <2> QED BY <2>5, <2>6
  <1>8. CASE Usage(r)
    <2>1. Worker(s) = "running" /\ owner[s] = r
      BY <1>8, HolderWorks DEF Usage, Holds, InLock
    <2>2. UNCHANGED <<status, mode, runs, messages, owner, pc>> /\ WriteMeta(s)
      BY <1>8, <1>F DEF Usage
    <2>3. Worker(s)' = "running"
      BY <2>1, <2>2 DEF Worker
    <2>4. meta'[s] = Saved(s)'
      BY <2>2 DEF WriteMeta, Snapshot, Saved
    <2> QED BY <2>1, <2>2, <2>3, <2>4 DEF FilesAt, OneShotAt, Known
  <1>9. CASE RunReturns(r)
    <2>1. Worker(s) = "running" /\ owner[s] = r /\ Known(s)
      BY <1>9, HolderWorks DEF RunReturns, Holds, InLock
    <2>2. /\ UNCHANGED <<mode, runs, contextPct, owner, meta, messages>>
          /\ status'[s] = StatusAfterRun(s) /\ pc'[r] = "announcing"
      BY <1>9 DEF RunReturns, Goto
    <2>3. Worker(s)' = "announcing"
      BY <2>1, <2>2 DEF Worker
    <2> QED BY <2>1, <2>2, <2>3 DEF FilesAt, OneShotAt, Known, StatusAfterRun
  <1>10. CASE SendReturns(r)
    <2>1. Worker(s) = "announcing" /\ Known(s)
      BY <1>10, HolderWorks DEF SendReturns, Holds, InLock
    <2>2. UNCHANGED <<memory, messages>> /\ owner'[s] = Nobody /\ WriteMeta(s)
      BY <1>10, <1>F DEF SendReturns, Release
    <2>3. meta'[s] = Saved(s)'
      BY <2>2 DEF WriteMeta, Snapshot, Saved
    <2>4. Worker(s)' = "free"
      BY <2>2 DEF Worker
    <2> QED BY <2>1, <2>2, <2>3, <2>4 DEF FilesAt, OneShotAt, Known
  <1>11. CASE CloseReturns(r) \/ CompactReturns(r)
    <2>1. Worker(s) \in {"closing", "compacting"} /\ Known(s)
      BY <1>11, HolderWorks DEF CloseReturns, CompactReturns, Holds, InLock
    <2>2. UNCHANGED <<memory, meta, messages>> /\ owner'[s] = Nobody
      BY <1>11 DEF CloseReturns, CompactReturns, Release
    <2>3. Worker(s)' = "free"
      BY <2>2 DEF Worker
    <2> QED BY <2>1, <2>2, <2>3 DEF FilesAt, OneShotAt, Known, Saved
  <1>12. CASE HandlerRaises(r)
    BY <1>12 DEF HandlerRaises
  <1> QED BY <1>1, <1>2, <1>3, <1>4, <1>5, <1>6, <1>7, <1>8, <1>9, <1>10, <1>11, <1>12
         DEF Step, Proceed

LEMMA CurrentStep == IInv /\ Current /\ [Next]_vars => Current'
  <1> SUFFICES ASSUME IInv, Current, [Next]_vars, NEW s \in Sessions, s \notin faulty'
               PROVE  FilesAt(s)' /\ OneShotAt(s)'
    BY DEF Current
  <1> TypeOK BY DEF IInv
  <1> USE DEF memory
  <1>1. CASE UNCHANGED vars
    BY <1>1 DEF vars, Current, FilesAt, OneShotAt, Worker, Known, Saved
  <1>2. CASE Crash
    <2>1. /\ s \notin faulty /\ status'[s] = (IF status[s] = "none" THEN "none" ELSE "gone")
          /\ UNCHANGED <<mode, runs, messages>>
      BY <1>2 DEF Crash
    <2> QED BY <2>1 DEF Current, FilesAt, OneShotAt, Known, Statuses
  <1>3. CASE Restart
    BY <1>3 DEF Restart, Current, FilesAt, OneShotAt, Worker, Known, Saved
  <1>4. ASSUME NEW r \in Requests, Step(r) PROVE FilesAt(s)' /\ OneShotAt(s)'
    <2>1. s \notin faulty
      BY <1>4 DEF Step, Proceed, Create, SendMessage, Close, Compact, Usage,
           HandlerRaises, Created, Resumed, StartRun, RunReturns, SendReturns,
           CloseReturns, CompactReturns, WriteMeta, WriteMetaFails, Refuse
    <2>2. FilesAt(s) /\ OneShotAt(s)
      BY <2>1 DEF Current
    <2>3. CASE s = target[r]
      BY <1>4, <2>2, <2>3, OwnStep
    <2>4. CASE s # target[r]
      BY <1>4, <2>2, <2>4, Elsewhere
    <2> QED BY <2>3, <2>4
  <1> QED BY <1>1, <1>2, <1>3, <1>4 DEF Next

LEMMA InitCurrent == Init => Current
  BY DEF Init, Current, FilesAt, OneShotAt, Known, Statuses

LEMMA CurrentInvariance == Spec => []Current
  BY InitCurrent, CurrentStep, Invariance, PTL DEF Spec

\* Memory, meta.json and thread.jsonl agree on every idle session that no
\* fault has hit, whatever requests have interleaved and crashed.
THEOREM MetaCurrentHolds == Spec => []MetaCurrent
  <1>1. Current => MetaCurrent
    BY DEF Current, MetaCurrent, FilesAt, Saved, Worker, Locked
  <1> QED BY CurrentInvariance, <1>1, PTL

\* A second message never starts a second run of a one-shot session.
THEOREM OneShotRunsOnceHolds == Spec => []OneShotRunsOnce
  <1>1. Current => OneShotRunsOnce
    BY DEF Current, OneShotRunsOnce, OneShotAt
  <1> QED BY CurrentInvariance, <1>1, PTL

-----------------------------------------------------------------------------
(* The implementation of SessionTurns: every step of a request is a step of *)
(* its session there, or changes nothing a client can tell.                 *)

LEMMA InitMapped == Init => Turns!Init
  BY DEF Init, Turns!Init, LifeOf

LEMMA StepMapped == IInv /\ [Next]_vars => [Turns!Next]_(Turns!vars)
  <1> SUFFICES ASSUME IInv, [Next]_vars PROVE Turns!Next \/ UNCHANGED Turns!vars
    OBVIOUS
  <1> USE SessionAssumption DEF memory, Turns!vars, LifeOf
  <1> TypeOK /\ LockDiscipline /\ WorksOnLiveSession BY DEF IInv
  <1>1. CASE UNCHANGED vars
    BY <1>1 DEF vars
  <1>2. CASE Crash
    <2>1. Turns!LoseAll
      BY <1>2 DEF Crash, Turns!LoseAll, TypeOK, Statuses
    <2> QED BY <2>1 DEF Turns!Next
  <1>3. CASE Restart
    BY <1>3 DEF Restart
  <1>4. ASSUME NEW r \in Requests, Create(r) PROVE Turns!Next
    <2>1. PICK s \in Sessions : s = target[r]
      BY DEF TypeOK
    <2>2. Turns!Open(s)
      <3>1. /\ status[s] = "none" /\ UNCHANGED <<owner, runs>>
            /\ status' = [status EXCEPT ![s] = "active"]
        BY <1>4, <2>1 DEF Create
      <3> QED BY <3>1 DEF Turns!Open, TypeOK
    <2> QED BY <2>2 DEF Turns!Next
  <1>5. ASSUME NEW r \in Requests, SendMessage(r) \/ Compact(r)
        PROVE  Turns!Next \/ UNCHANGED Turns!vars
    <2>1. CASE UNCHANGED <<status, owner, runs>>
      BY <2>1
    <2>2. CASE UNCHANGED <<status, runs>> /\ Refused(target[r]) = {} /\ Acquire(target[r], r)
      <3>1. Turns!Reserve(target[r], r)
        BY <2>2 DEF Refused, Known, Locked, Acquire, Turns!Reserve, TypeOK, Statuses
      <3> QED BY <3>1 DEF Turns!Next, TypeOK
    <2> QED BY <1>5, <2>1, <2>2 DEF SendMessage, Compact, Refuse
  <1>6. ASSUME NEW r \in Requests, Close(r)
        PROVE  Turns!Next \/ UNCHANGED Turns!vars
    <2>1. CASE Refuse(r, target[r])
      BY <2>1 DEF Refuse
    <2>2. CASE /\ Refused(target[r]) = {} /\ UNCHANGED runs
               /\ status' = [status EXCEPT ![target[r]] = "closed"]
               /\ Acquire(target[r], r) \/ UNCHANGED owner
      <3>1. Known(target[r]) /\ owner[target[r]] = Nobody
        BY <2>2 DEF Refused, Locked
      <3>2. Turns!Close(target[r], r)
        BY <2>2, <3>1 DEF Known, Acquire, Turns!Close, TypeOK, Statuses
      <3> QED BY <3>2 DEF Turns!Next, TypeOK
    <2> QED BY <1>6, <2>1, <2>2 DEF Close
  <1>7. ASSUME NEW r \in Requests, Usage(r) \/ Created(r) \/ Resumed(r)
        PROVE  UNCHANGED Turns!vars
    BY <1>7 DEF Usage, Created, Resumed
  <1>8. ASSUME NEW r \in Requests, StartRun(r) PROVE Turns!Next
    <2>1. owner[target[r]] = r /\ LifeOf(status[target[r]]) = "open"
      BY <1>8 DEF StartRun, Holds, LockDiscipline, WorksOnLiveSession, Known, InLock,
           TypeOK, Statuses
    <2>2. Turns!Turn(target[r], r) \/ Turns!FailedTurn(target[r], r)
      BY <1>8, <2>1 DEF StartRun, Release, Turns!Turn, Turns!FailedTurn, TypeOK
    <2> QED BY <2>2 DEF Turns!Next, TypeOK
  <1>9. ASSUME NEW r \in Requests, RunReturns(r)
        PROVE  Turns!Next \/ UNCHANGED Turns!vars
    <2>1. owner[target[r]] = r /\ status[target[r]] \in {"active", "idle"}
      BY <1>9 DEF RunReturns, Holds, LockDiscipline, WorksOnLiveSession, Known, InLock,
           TypeOK, Statuses
    <2>2. CASE mode[target[r]] = "one_shot"
      <3>1. Turns!Close(target[r], r)
        BY <1>9, <2>1, <2>2 DEF RunReturns, StatusAfterRun, Turns!Close, TypeOK
      <3> QED BY <3>1 DEF Turns!Next, TypeOK
    <2>3. CASE mode[target[r]] # "one_shot"
      BY <1>9, <2>1, <2>3 DEF RunReturns, StatusAfterRun, TypeOK
    <2> QED BY <2>2, <2>3
  <1>10. ASSUME NEW r \in Requests,
                SendReturns(r) \/ CloseReturns(r) \/ CompactReturns(r) \/ HandlerRaises(r)
         PROVE  Turns!Next \/ UNCHANGED Turns!vars
    <2>1. CASE UNCHANGED <<status, owner, runs>>
      BY <2>1
    <2>2. CASE UNCHANGED <<status, runs>> /\ pc[r] \in InLock /\ Release(target[r])
      <3>1. owner[target[r]] = r
        BY <2>2 DEF LockDiscipline, TypeOK
      <3>2. Turns!Release(target[r], r)
        BY <2>2, <3>1 DEF Release, Turns!Release
      <3> QED BY <3>2 DEF Turns!Next, TypeOK
    <2> QED BY <1>10, <2>1, <2>2 DEF SendReturns, CloseReturns, CompactReturns,
         HandlerRaises, ReleaseOnError, Holds, InLock
  <1> QED BY <1>1, <1>2, <1>3, <1>4, <1>5, <1>6, <1>7, <1>8, <1>9, <1>10
         DEF Next, Step, Proceed

\* The session manager implements a serial sequence of turns for each session.
THEOREM ImplementsTurns == Spec => SerialTurns
  BY InitMapped, StepMapped, Invariance, PTL DEF Spec, SerialTurns, Turns!Spec

-----------------------------------------------------------------------------
(* Progress of the requests.                                               *)

Place(at) ==
  CASE at = "new" -> 0
    [] at = "creating" -> 1
    [] at = "tasked" -> 2
    [] at = "resuming" -> 3
    [] at = "received" -> 4
    [] at = "running" -> 5
    [] at \in {"announcing", "closing", "compacting"} -> 6
    [] OTHER -> 7

\* A request goes forward through its handler and is answered once.
RequestMoves(r) ==
  \/ pc'[r] = pc[r] /\ result'[r] = result[r]
  \/ Place(pc'[r]) > Place(pc[r])

\* A lock goes from a request back to nobody when that request has ended, and
\* never from one request to another.
LockMoves(s) ==
  \/ owner'[s] = owner[s]
  \/ owner[s] = Nobody /\ pc'[owner'[s]] \in InLock
  \/ owner[s] # Nobody /\ owner'[s] = Nobody /\ pc'[owner[s]] \in {"done", "lost"}

RequestsMove ==
  (\A r \in Requests : RequestMoves(r)) /\ \A s \in Sessions : LockMoves(s)

RequestsAdvance == [][RequestsMove]_vars

\* A step of r that takes it to a later place.
Goes(r, at) ==
  /\ pc' = [pc EXCEPT ![r] = at] /\ Place(at) > Place(pc[r])
  /\ result' = result \/ \E res : result' = [result EXCEPT ![r] = res]
  /\ \/ owner' = owner
     \/ owner[target[r]] = Nobody /\ Acquire(target[r], r) /\ at \in InLock
     \/ pc[r] \in InLock /\ Release(target[r]) /\ at = "done"

LEMMA GoesMoves ==
  ASSUME IInv, NEW r \in Requests, NEW at, Goes(r, at)
  PROVE  RequestsMove
  <1>0. /\ TypeOK /\ LockDiscipline /\ target[r] \in Sessions
        /\ pc \in [Requests -> InLock \cup {"new", "creating", "tasked", "done", "lost"}]
        /\ owner \in [Sessions -> Requests \cup {Nobody}]
        /\ result \in [Requests -> {"none", "ok", "busy", "closed", "notfound", "failed"}]
    BY DEF IInv, TypeOK
  <1>1. ASSUME NEW q \in Requests PROVE RequestMoves(q)
    <2>1. CASE q = r
      BY <1>0, <2>1 DEF Goes, RequestMoves
    <2>2. CASE q # r
      <3>1. pc'[q] = pc[q] /\ result'[q] = result[q]
        BY <1>0, <2>2 DEF Goes
      <3> QED BY <3>1 DEF RequestMoves
    <2> QED BY <2>1, <2>2
  <1>2. ASSUME NEW s \in Sessions PROVE LockMoves(s)
    <2>1. pc'[r] = at
      BY <1>0 DEF Goes
    <2>2. CASE owner' = owner
      BY <2>2 DEF LockMoves
    <2>3. CASE owner[target[r]] = Nobody /\ Acquire(target[r], r) /\ at \in InLock
      BY <1>0, <2>1, <2>3 DEF Acquire, LockMoves
    <2>4. CASE pc[r] \in InLock /\ Release(target[r]) /\ at = "done"
      <3>1. owner[target[r]] = r
        BY <1>0, <2>4 DEF LockDiscipline
      <3>2. r # Nobody
        BY SessionAssumption
      <3> QED BY <1>0, <2>1, <2>4, <3>1, <3>2 DEF Release, LockMoves
    <2> QED BY <2>2, <2>3, <2>4 DEF Goes
  <1> QED BY <1>1, <1>2 DEF RequestsMove

LEMMA RequestsStill ==
  ASSUME UNCHANGED <<pc, result, owner>>
  PROVE  RequestsMove
  BY DEF RequestsMove, RequestMoves, LockMoves

\* A handler starts: it is refused, takes the lock, or fails to write.
LEMMA Entered ==
  ASSUME NEW r \in Requests, NEW at \in InLock, pc[r] \in {"new", "tasked"},
         Refused(target[r]) = {}, Acquire(target[r], r), Goto(r, at)
  PROVE  Goes(r, at)
  <1>1. owner[target[r]] = Nobody
    BY DEF Refused, Known, Locked
  <1>2. Place(at) > Place(pc[r])
    BY DEF Place, InLock
  <1> QED BY <1>1, <1>2 DEF Goes, Goto

LEMMA Answered ==
  ASSUME NEW r \in Requests, NEW res, pc[r] \notin {"done", "lost"}, IInv, Return(r, res),
         owner' = owner \/ (pc[r] \in InLock /\ Release(target[r]))
  PROVE  Goes(r, "done")
  <1>1. pc[r] \in InLock \cup {"new", "creating", "tasked"}
    BY DEF IInv, TypeOK
  <1>2. Place("done") > Place(pc[r])
    BY <1>1 DEF Place, InLock
  <1> QED BY <1>2 DEF Goes, Return

LEMMA Passed ==
  ASSUME NEW r \in Requests, NEW at, Goto(r, at), owner' = owner, Place(at) > Place(pc[r])
  PROVE  Goes(r, at)
  BY DEF Goes, Goto

LEMMA RequestStep ==
  ASSUME IInv, NEW r \in Requests, Step(r)
  PROVE  RequestsMove
  <1>1. CASE Create(r)
    <2>1. pc[r] = "new" /\ owner' = owner
      BY <1>1 DEF Create
    <2>2. CASE Goto(r, "creating")
      BY <2>1, <2>2, Passed, GoesMoves DEF Place
    <2>3. CASE Return(r, "failed")
      BY <2>1, <2>3, Answered, GoesMoves
    <2> QED BY <1>1, <2>2, <2>3 DEF Create
  <1>2. CASE SendMessage(r)
    <2>1. pc[r] \in {"new", "tasked"}
      BY <1>2 DEF SendMessage, Starts, Holds
    <2>2. ASSUME NEW res, Return(r, res), owner' = owner PROVE RequestsMove
      BY <2>1, <2>2, Answered, GoesMoves
    <2>3. ASSUME NEW at \in {"resuming", "received"}, Refused(target[r]) = {},
                 Acquire(target[r], r), Goto(r, at)
          PROVE  RequestsMove
      <3>1. at \in InLock
        BY DEF InLock
      <3> QED BY <2>1, <2>3, <3>1, Entered, GoesMoves
    <2> QED BY <1>2, <2>2, <2>3 DEF SendMessage, Refuse
  <1>3. CASE Close(r)
    <2>1. pc[r] = "new"
      BY <1>3 DEF Close, Starts
    <2>2. ASSUME NEW res, Return(r, res), owner' = owner PROVE RequestsMove
      BY <2>1, <2>2, Answered, GoesMoves
    <2>3. CASE Refused(target[r]) = {} /\ Acquire(target[r], r) /\ Goto(r, "closing")
      <3>1. "closing" \in InLock
        BY DEF InLock
      <3> QED BY <2>1, <2>3, <3>1, Entered, GoesMoves
    <2> QED BY <1>3, <2>2, <2>3 DEF Close, Refuse
  <1>4. CASE Compact(r)
    <2>1. pc[r] = "new"
      BY <1>4 DEF Compact, Starts
    <2>2. ASSUME NEW res, Return(r, res), owner' = owner PROVE RequestsMove
      BY <2>1, <2>2, Answered, GoesMoves
    <2>3. CASE Refused(target[r]) = {} /\ Acquire(target[r], r) /\ Goto(r, "compacting")
      <3>1. "compacting" \in InLock
        BY DEF InLock
      <3> QED BY <2>1, <2>3, <3>1, Entered, GoesMoves
    <2> QED BY <1>4, <2>2, <2>3 DEF Compact, Refuse
  <1>5. CASE Created(r)
    <2>1. pc[r] = "creating" /\ owner' = owner
      BY <1>5 DEF Created, Holds
    <2>2. CASE Goto(r, "tasked")
      BY <2>1, <2>2, Passed, GoesMoves DEF Place
    <2>3. CASE Return(r, "ok")
      BY <2>1, <2>3, Answered, GoesMoves
    <2> QED BY <1>5, <2>2, <2>3 DEF Created
  <1>6. CASE Resumed(r)
    BY <1>6, Passed, GoesMoves DEF Resumed, Holds, Place
  <1>7. CASE StartRun(r)
    <2>1. pc[r] = "received" /\ pc[r] \in InLock
      BY <1>7 DEF StartRun, Holds, InLock
    <2>2. CASE Goto(r, "running") /\ UNCHANGED owner
      BY <2>1, <2>2, Passed, GoesMoves DEF Place
    <2>3. CASE Return(r, "failed") /\ Release(target[r])
      BY <2>1, <2>3, Answered, GoesMoves
    <2> QED BY <1>7, <2>2, <2>3 DEF StartRun
  <1>8. CASE RunReturns(r)
    BY <1>8, Passed, GoesMoves DEF RunReturns, Holds, Place
  <1>9. CASE SendReturns(r) \/ CloseReturns(r) \/ CompactReturns(r)
    <2>1. pc[r] \in InLock /\ pc[r] \notin {"done", "lost"} /\ Release(target[r])
      BY <1>9 DEF SendReturns, CloseReturns, CompactReturns, Holds, InLock
    <2>2. ASSUME NEW res, Return(r, res) PROVE RequestsMove
      BY <2>1, <2>2, Answered, GoesMoves
    <2> QED BY <1>9, <2>2 DEF SendReturns, CloseReturns, CompactReturns
  <1>10. CASE Usage(r)
    BY <1>10, RequestsStill DEF Usage
  <1>11. CASE HandlerRaises(r)
    <2>1. pc[r] \notin {"done", "lost"} /\ Return(r, "failed")
      BY <1>11 DEF HandlerRaises, InLock
    <2>2. owner' = owner \/ (pc[r] \in InLock /\ Release(target[r]))
      BY <1>11 DEF HandlerRaises, ReleaseOnError
    <2> QED BY <2>1, <2>2, Answered, GoesMoves
  <1> QED BY <1>1, <1>2, <1>3, <1>4, <1>5, <1>6, <1>7, <1>8, <1>9, <1>10, <1>11
         DEF Step, Proceed

\* The daemon dies: everybody who held a lock is lost with it.
LEMMA CrashMoves ==
  ASSUME IInv, Crash
  PROVE  RequestsMove
  <1>0. /\ TypeOK /\ LockDiscipline
        /\ pc' = [r \in Requests |-> IF pc[r] \in {"new", "done"} THEN pc[r] ELSE "lost"]
        /\ owner' = [s \in Sessions |-> Nobody] /\ result' = result
    BY DEF IInv, Crash
  <1>1. ASSUME NEW q \in Requests PROVE RequestMoves(q)
    <2>1. CASE pc[q] \in {"new", "done", "lost"}
      <3>1. pc'[q] = pc[q]
        BY <1>0, <2>1
      <3> QED BY <1>0, <3>1 DEF RequestMoves
    <2>2. CASE pc[q] \notin {"new", "done", "lost"}
      <3>1. pc'[q] = "lost" /\ pc[q] \in InLock \cup {"creating", "tasked"}
        BY <1>0, <2>2 DEF TypeOK
      <3>2. Place("lost") > Place(pc[q])
        BY <3>1 DEF Place, InLock
      <3> QED BY <3>1, <3>2 DEF RequestMoves
    <2> QED BY <2>1, <2>2
  <1>2. ASSUME NEW s \in Sessions PROVE LockMoves(s)
    <2>1. CASE owner[s] = Nobody
      BY <1>0, <2>1 DEF LockMoves
    <2>2. CASE owner[s] # Nobody
      <3>1. owner[s] \in Requests /\ pc[owner[s]] \in InLock
        BY <1>0, <2>2 DEF TypeOK, LockDiscipline
      <3>2. pc'[owner[s]] = "lost" /\ owner'[s] = Nobody
        BY <1>0, <3>1 DEF InLock
      <3> QED BY <2>2, <3>2 DEF LockMoves
    <2> QED BY <2>1, <2>2
  <1> QED BY <1>1, <1>2 DEF RequestsMove

\* For any number of requests and sessions, whatever fails and whenever the daemon
\* dies: a request only goes forward and is answered once, and a lock comes free
\* exactly when its holder ends.  LockReleased is this and the fairness of the
\* tasks (manager.py:71-215).
THEOREM RequestsAdvanceHolds == Spec => RequestsAdvance
  <1>1. Restart => RequestsMove
    BY RequestsStill DEF Restart
  <1>2. IInv /\ [Next]_vars => [RequestsMove]_vars
    BY <1>1, RequestStep, CrashMoves DEF Next
  <1> QED BY Invariance, <1>2, PTL DEF Spec, RequestsAdvance
=============================================================================
