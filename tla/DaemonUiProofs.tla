--------------------------- MODULE DaemonUiProofs ---------------------------
(***************************************************************************)
(* Theorems about the two processes of the program: the daemon with its    *)
(* layers, modules Daemon, Trace and Provider, and the terminal UI, module *)
(* TuiClient.                                                              *)
(***************************************************************************)
EXTENDS Daemon, TuiClient, TLAPS, SequenceTheorems

-----------------------------------------------------------------------------
(* The trace, whoever drives it.                                            *)

TraceNext ==
  \/ Emit \/ DrainStep \/ EndDrain
  \/ StartTrace /\ UNCHANGED <<queue, unfinished, file, emitted>>
  \/ UNCHANGED traceVars

(* Nothing is between the file and the queue as long as the task works, and *)
(* only what is queued is unfinished.                                       *)
TraceInv ==
  /\ TraceTypeOK
  /\ unfinished = Len(queue)
  /\ Len(file) + Len(queue) <= emitted
  /\ drain \in {"starting", "running"} => Len(file) + Len(queue) = emitted
  /\ drain = "off" => queue = <<>> /\ emitted = 0
  /\ \A i \in 1 .. Len(file) : file[i] = i
  /\ \A i \in 1 .. Len(queue) : queue[i] = (emitted - Len(queue)) + i

LEMMA EmitKeeps == TraceInv /\ Emit => TraceInv'
<1> SUFFICES ASSUME TraceInv, Emit PROVE TraceInv'
  OBVIOUS
<1>1. CASE drain = "off"
  BY <1>1 DEF TraceInv, TraceTypeOK, Emit, traceVars
<1>2. CASE drain # "off"
  <2>1. /\ emitted' = emitted + 1 /\ queue' = Append(queue, emitted + 1)
        /\ unfinished' = unfinished + 1 /\ drain' = drain /\ file' = file
    BY <1>2 DEF Emit
  <2>2. /\ queue \in Seq(Nat) /\ file \in Seq(Nat) /\ emitted \in Nat
        /\ unfinished \in Nat /\ drain \in {"off", "starting", "running", "dead", "stopped"}
    BY DEF TraceInv, TraceTypeOK
  <2>3. queue' \in Seq(Nat) /\ Len(queue') = Len(queue) + 1
    BY <2>1, <2>2
  <2>4. TraceTypeOK'
    BY <2>1, <2>2, <2>3 DEF TraceTypeOK
  <2>5. \A i \in 1 .. Len(queue') : queue'[i] = (emitted' - Len(queue')) + i
    <3> SUFFICES ASSUME NEW i \in 1 .. Len(queue')
                 PROVE  queue'[i] = (emitted' - Len(queue')) + i
      OBVIOUS
    <3>1. Len(queue) \in Nat /\ emitted' - Len(queue') = emitted - Len(queue)
      BY <2>1, <2>2, <2>3
    <3>2. i \in 1 .. Len(queue) \/ i = Len(queue) + 1
      BY <2>3, <3>1
    <3>3. CASE i \in 1 .. Len(queue)
      <4>1. queue'[i] = queue[i]
        BY <2>1, <2>2, <3>3
      <4> QED
        BY <3>1, <3>3, <4>1 DEF TraceInv
    <3>4. CASE i = Len(queue) + 1
      <4>1. queue'[i] = emitted + 1
        BY <2>1, <2>2, <3>4
      <4> QED
        BY <2>2, <3>1, <3>4, <4>1
    <3> QED
      BY <3>2, <3>3, <3>4
  <2>6. \A i \in 1 .. Len(file') : file'[i] = i
    BY <2>1 DEF TraceInv
  <2>7. unfinished = Len(queue) /\ Len(file) + Len(queue) <= emitted
    BY DEF TraceInv
  <2>8. drain \in {"starting", "running"} => Len(file) + Len(queue) = emitted
    BY DEF TraceInv
  <2>9. Len(queue) \in Nat /\ Len(file) \in Nat
    BY <2>2
  <2>10. unfinished' = Len(queue') /\ Len(file') + Len(queue') <= emitted'
    BY <2>1, <2>2, <2>3, <2>7, <2>9
  <2>11. drain' \in {"starting", "running"} => Len(file') + Len(queue') = emitted'
    <3>1. drain' = drain /\ Len(file') = Len(file) /\ emitted' = emitted + 1
      BY <2>1
    <3>2. Len(queue') = Len(queue) + 1
      BY <2>3
    <3>3. emitted \in Nat
      BY <2>2
    <3> QED
      BY <3>1, <3>2, <3>3, <2>8, <2>9
  <2> QED
    BY <1>2, <2>1, <2>4, <2>5, <2>6, <2>10, <2>11 DEF TraceInv
<1> QED
  BY <1>1, <1>2

LEMMA TakeKeeps ==
  ASSUME TraceInv, Draining, NEW n \in 0 .. Len(queue), NEW k \in 0 .. n,
         Take(n, k), drain' \in {"running", "dead"},
         drain' = "running" => k = n
  PROVE  TraceInv'
<1>1. /\ queue \in Seq(Nat) /\ file \in Seq(Nat) /\ emitted \in Nat
      /\ unfinished = Len(queue) /\ Len(file) + Len(queue) = emitted
  BY DEF TraceInv, TraceTypeOK, Draining
<1>2. /\ file' = file \o SubSeq(queue, 1, k)
      /\ queue' = SubSeq(queue, n + 1, Len(queue))
      /\ unfinished' = unfinished - n /\ emitted' = emitted
  BY DEF Take
<1>a. Len(queue) \in Nat /\ Len(file) \in Nat /\ n \in Nat /\ k \in Nat /\ k <= n /\ n <= Len(queue)
  BY <1>1
<1>3. /\ SubSeq(queue, 1, k) \in Seq(Nat) /\ Len(SubSeq(queue, 1, k)) = k
      /\ \A i \in 1 .. k : SubSeq(queue, 1, k)[i] = queue[i]
  <2>1. k \in Int /\ \A i \in 1 .. k : queue[i] \in Nat
    BY <1>1, <1>a
  <2>2. /\ SubSeq(queue, 1, k) \in Seq(Nat)
        /\ Len(SubSeq(queue, 1, k)) = IF 1 <= k THEN k - 1 + 1 ELSE 0
        /\ \A i \in 1 .. k - 1 + 1 : SubSeq(queue, 1, k)[i] = queue[1 + i - 1]
    BY <2>1, SubSeqProperties
  <2>3. /\ k - 1 + 1 = k /\ (IF 1 <= k THEN k - 1 + 1 ELSE 0) = k
        /\ \A i \in Int : 1 + i - 1 = i
    BY <1>a
  <2> QED
    BY <2>2, <2>3
<1>4. /\ file' \in Seq(Nat) /\ Len(file') = Len(file) + k
      /\ \A i \in 1 .. Len(file) : file'[i] = file[i]
      /\ \A i \in 1 .. k : file'[Len(file) + i] = queue[i]
  <2> DEFINE part == SubSeq(queue, 1, k)
  <2>1. /\ part \in Seq(Nat) /\ Len(part) = k
        /\ \A i \in 1 .. k : part[i] = queue[i]
    BY <1>3
  <2>2. file' = file \o part
    BY <1>2
  <2> HIDE DEF part
  <2>3. /\ file' \in Seq(Nat) /\ Len(file') = Len(file) + k
        /\ \A i \in 1 .. Len(file) + k :
             file'[i] = IF i <= Len(file) THEN file[i] ELSE part[i - Len(file)]
    <3>1. file \in Seq(Nat) /\ part \in Seq(Nat)
      BY <1>1, <2>1
    <3>2. /\ file \o part \in Seq(Nat) /\ Len(file \o part) = Len(file) + Len(part)
          /\ \A i \in 1 .. Len(file) + Len(part) :
               (file \o part)[i] = IF i <= Len(file) THEN file[i] ELSE part[i - Len(file)]
      BY <3>1, ConcatProperties
    <3>3. Len(part) = k
      BY <2>1
    <3> QED
      BY <2>2, <3>2, <3>3
  <2>4. \A i \in 1 .. Len(file) : i \in 1 .. Len(file) + k /\ i <= Len(file)
    BY <1>a
  <2>5. \A i \in 1 .. k : /\ Len(file) + i \in 1 .. Len(file) + k
                          /\ ~(Len(file) + i <= Len(file)) /\ Len(file) + i - Len(file) = i
    BY <1>a
  <2>6. \A i \in 1 .. Len(file) : file'[i] = file[i]
    BY <2>3, <2>4, Zenon
  <2>7. ASSUME NEW i \in 1 .. k PROVE file'[Len(file) + i] = queue[i]
    <3> DEFINE j == Len(file) + i
    <3>1. j \in 1 .. Len(file) + k /\ ~(j <= Len(file)) /\ j - Len(file) = i
      BY <2>5
    <3> HIDE DEF j
    <3>2. file'[j] = part[j - Len(file)]
      BY <2>3, <3>1, Zenon
    <3>3. file'[j] = queue[i]
      BY <2>1, <3>1, <3>2, Zenon
    <3> QED
      BY <3>3, Zenon DEF j
  <2>8. \A i \in 1 .. k : file'[Len(file) + i] = queue[i]
    BY <2>7, Zenon
  <2> QED
    BY <2>3, <2>6, <2>8, Zenon
<1>5. /\ queue' \in Seq(Nat) /\ Len(queue') = Len(queue) - n
      /\ \A i \in 1 .. Len(queue') : queue'[i] = queue[n + i]
  <2>1. n + 1 \in 1 .. Len(queue) + 1 /\ Len(queue) \in (n + 1) - 1 .. Len(queue)
    BY <1>a
  <2>2. queue \in Seq(Nat)
    BY <1>1
  <2>3. /\ SubSeq(queue, n + 1, Len(queue)) \in Seq(Nat)
        /\ Len(SubSeq(queue, n + 1, Len(queue))) = Len(queue) - (n + 1) + 1
        /\ \A i \in 1 .. Len(queue) - (n + 1) + 1 :
             SubSeq(queue, n + 1, Len(queue))[i] = queue[(n + 1) + i - 1]
    BY <2>1, <2>2, SubSeqProperties
  <2>4. queue' = SubSeq(queue, n + 1, Len(queue))
    BY <1>2
  <2>5. \A i \in Int : (n + 1) + i - 1 = n + i
    BY <1>a
  <2>6. Len(queue) - (n + 1) + 1 = Len(queue) - n
    BY <1>a
  <2>7. queue' \in Seq(Nat) /\ Len(queue') = Len(queue) - n
    BY <2>3, <2>4, <2>6
  <2>8. ASSUME NEW i \in 1 .. Len(queue') PROVE queue'[i] = queue[n + i]
    <3>1. i \in 1 .. Len(queue) - (n + 1) + 1 /\ i \in Int
      BY <2>6, <2>7
    <3>2. SubSeq(queue, n + 1, Len(queue))[i] = queue[(n + 1) + i - 1]
      BY <3>1, <2>3
    <3> QED
      BY <3>1, <3>2, <2>4, <2>5
  <2> QED
    BY <2>7, <2>8
<1>6. \A i \in 1 .. Len(file') : file'[i] = i
  <2> SUFFICES ASSUME NEW i \in 1 .. Len(file') PROVE file'[i] = i
    OBVIOUS
  <2>1. CASE i <= Len(file)
    <3>1. i \in 1 .. Len(file)
      BY <2>1, <1>a, <1>4
    <3>2. file[i] = i
      BY <3>1 DEF TraceInv
    <3> QED
      BY <3>1, <3>2, <1>4
  <2>2. CASE i > Len(file)
    <3>1. i - Len(file) \in 1 .. k /\ i - Len(file) \in 1 .. Len(queue)
      <4>1. i \in Nat /\ i <= Len(file) + k
        BY <1>a, <1>4
      <4> QED
        BY <2>2, <1>a, <4>1
    <3>2. file'[Len(file) + (i - Len(file))] = queue[i - Len(file)]
      BY <3>1, <1>4
    <3>3. queue[i - Len(file)] = (emitted - Len(queue)) + (i - Len(file))
      BY <3>1 DEF TraceInv
    <3>4. i - Len(file) \in Int /\ Len(file) + (i - Len(file)) = i
      BY <1>a, <1>4
    <3>5. emitted - Len(queue) = Len(file)
      BY <1>1, <1>a
    <3> QED
      BY <3>2, <3>3, <3>4, <3>5
  <2> QED
    BY <2>1, <2>2, <1>a, <1>4
<1>7. \A i \in 1 .. Len(queue') : queue'[i] = (emitted' - Len(queue')) + i
  <2> SUFFICES ASSUME NEW i \in 1 .. Len(queue')
               PROVE queue'[i] = (emitted' - Len(queue')) + i
    OBVIOUS
  <2>1. n + i \in 1 .. Len(queue)
    BY <1>a, <1>5
  <2>2. queue[n + i] = (emitted - Len(queue)) + (n + i)
    BY <2>1 DEF TraceInv
  <2>3. queue'[i] = queue[n + i] /\ Len(queue') = Len(queue) - n
    BY <1>5
  <2> QED
    BY <2>2, <2>3, <1>1, <1>2, <1>a
<1>8. TraceTypeOK'
  <2>1. queue' \in Seq(Nat) /\ file' \in Seq(Nat)
    BY <1>4, <1>5
  <2>2. unfinished' \in Nat /\ emitted' \in Nat
    BY <1>1, <1>2, <1>a
  <2>3. drain' \in {"off", "starting", "running", "dead", "stopped"}
    OBVIOUS
  <2> QED
    BY <2>1, <2>2, <2>3 DEF TraceTypeOK
<1>9. Len(file') + Len(queue') = emitted - (n - k)
  <2>1. Len(file') = Len(file) + k /\ Len(queue') = Len(queue) - n
    BY <1>4, <1>5
  <2>2. Len(file) + Len(queue) = emitted /\ emitted \in Nat
    BY <1>1
  <2> QED
    BY <2>1, <2>2, <1>a
<1>10. unfinished' = Len(queue')
  BY <1>1, <1>2, <1>5
<1>b. emitted \in Nat /\ emitted' = emitted
  BY <1>1, <1>2
<1>11. Len(file') + Len(queue') <= emitted'
  BY <1>9, <1>a, <1>b
<1>12. drain' \in {"starting", "running"} => Len(file') + Len(queue') = emitted'
  BY <1>9, <1>a, <1>b
<1>13. drain' # "off"
  OBVIOUS
<1> QED
  BY <1>6, <1>7, <1>8, <1>10, <1>11, <1>12, <1>13 DEF TraceInv

LEMMA TraceKeeps == TraceInv /\ TraceNext => TraceInv'
<1> SUFFICES ASSUME TraceInv, TraceNext PROVE TraceInv'
  OBVIOUS
<1>1. CASE Emit
  BY <1>1, EmitKeeps
<1>2. CASE DrainWrites
  <2>1. Len(queue) \in 0 .. Len(queue)
    BY DEF TraceInv, TraceTypeOK
  <2> QED
    BY <1>2, <2>1, TakeKeeps DEF DrainWrites
<1>3. CASE DrainFails
  <2>1. PICK n \in 1 .. Len(queue), lost \in 0 .. 1 : Take(n, n - lost)
    BY <1>3 DEF DrainFails
  <2>2. n \in 0 .. Len(queue) /\ n - lost \in 0 .. n
    BY <2>1 DEF TraceInv, TraceTypeOK
  <2> QED
    BY <1>3, <2>1, <2>2, TakeKeeps DEF DrainFails
<1>4. CASE OpenFails
  <2>1. 0 \in 0 .. Len(queue) /\ 0 \in 0 .. 0
    BY DEF TraceInv, TraceTypeOK
  <2>2. Draining /\ Take(0, 0) /\ drain' = "dead"
    BY <1>4 DEF OpenFails, Draining
  <2> QED
    BY <2>1, <2>2, TakeKeeps
<1>5. CASE EndDrain
  BY <1>5 DEF EndDrain, TraceInv, TraceTypeOK
<1>6. CASE StartTrace /\ UNCHANGED <<queue, unfinished, file, emitted>>
  BY <1>6 DEF StartTrace, TraceInv, TraceTypeOK
<1>7. CASE UNCHANGED traceVars
  BY <1>7 DEF traceVars, TraceInv, TraceTypeOK
<1> QED
  BY <1>1, <1>2, <1>3, <1>4, <1>5, <1>6, <1>7 DEF TraceNext, DrainStep

-----------------------------------------------------------------------------
(* The calls of the model, whoever makes and cancels them.                  *)

Cancelled(S) ==
  /\ pc' = [c \in Chats |-> IF c \in S THEN "cancelled" ELSE pc[c]]
  /\ UNCHANGED <<attempt, deltas, said, parts, shown>>
  /\ stalled' \in BOOLEAN

ChatNext ==
  \/ \E c \in Chats : Call(c) \/ ChatStep(c) \/ PublishRaises(c) \/ Forget(c)
  \/ \E S \in SUBSET Chats : Cancelled(S)

(* A token is on its way from the stream to text_parts while it is          *)
(* published; otherwise the two agree, until the call is broken off.        *)
ChatOK(c) ==
  /\ pc[c] = "token" => \E t \in Nat \X Nat : said[c] = Append(parts[c], t)
  /\ pc[c] \notin {"token", "raised", "cancelled"} => parts[c] = said[c]
  /\ pc[c] \in {"token", "thought", "selecting", "idle"} => attempt[c] = 1
  /\ attempt[c] = 1 => shown[c] = said[c]
  /\ \A i \in 1 .. Len(said[c]) : said[c][i][1] = attempt[c]
  /\ \A i \in 1 .. Len(shown[c]) : shown[c][i][1] = 1

ChatInv == ChatTypeOK /\ \A c \in Chats : ChatOK(c)

LEMMA OthersKeep ==
  ASSUME NEW c \in Chats, ChatOK(c),
         /\ pc'[c] = pc[c] /\ attempt'[c] = attempt[c] /\ said'[c] = said[c]
         /\ parts'[c] = parts[c] /\ shown'[c] = shown[c]
  PROVE  ChatOK(c)'
BY DEF ChatOK

(* A token is added to what was said.                                       *)
LEMMA SaidTyped ==
  ASSUME ChatTypeOK, NEW c \in Chats
  PROVE  /\ Token(c) \in Nat \X Nat /\ Token(c)[1] = attempt[c]
         /\ said[c] \in Seq(Nat \X Nat) /\ shown[c] \in Seq(Nat \X Nat)
         /\ parts[c] \in Seq(Nat \X Nat) /\ attempt[c] \in Nat
BY ProviderAssumption DEF ChatTypeOK, Token

LEMMA TextKeeps ==
  ASSUME ChatInv, NEW c \in Chats, Text(c) PROVE ChatInv'
<1>1. ChatTypeOK /\ ChatOK(c) /\ pc[c] = "streaming" /\ parts[c] = said[c]
  BY DEF ChatInv, ChatOK, Text
<1>2. /\ Token(c) \in Nat \X Nat /\ Token(c)[1] = attempt[c]
      /\ said[c] \in Seq(Nat \X Nat) /\ shown[c] \in Seq(Nat \X Nat)
      /\ parts[c] \in Seq(Nat \X Nat)
  BY <1>1, SaidTyped
<1>3. said' = [said EXCEPT ![c] = Append(said[c], Token(c))]
  BY DEF Text
<1>4. ChatTypeOK'
  <2>1. said' \in [Chats -> Seq(Nat \X Nat)]
    BY <1>1, <1>2, <1>3 DEF ChatTypeOK
  <2>2. deltas' \in [Chats -> Nat]
    BY <1>1 DEF Text, ChatTypeOK
  <2>3. parts' \in [Chats -> Seq(Nat \X Nat)] /\ shown' \in [Chats -> Seq(Nat \X Nat)]
    <3>1. parts \in [Chats -> Seq(Nat \X Nat)] /\ shown \in [Chats -> Seq(Nat \X Nat)]
      BY <1>1 DEF ChatTypeOK
    <3>2. Append(parts[c], Token(c)) \in Seq(Nat \X Nat)
      BY <1>2
    <3>3. Append(shown[c], Token(c)) \in Seq(Nat \X Nat)
      BY <1>2
    <3>4. \/ parts' = parts /\ shown' = [shown EXCEPT ![c] = Append(shown[c], Token(c))]
          \/ parts' = [parts EXCEPT ![c] = Append(parts[c], Token(c))] /\ shown' = shown
      BY DEF Text
    <3> QED
      BY <3>1, <3>2, <3>3, <3>4
  <2>4. pc' \in [Chats -> {"idle", "streaming"} \cup Publishing \cup Final]
    BY <1>1 DEF Text, ChatTypeOK, Goto, Publishing
  <2> QED
    BY <1>1, <2>1, <2>2, <2>3, <2>4 DEF Text, ChatTypeOK
<1>5. ASSUME NEW d \in Chats, d # c PROVE ChatOK(d)'
  <2>1. /\ pc'[d] = pc[d] /\ attempt'[d] = attempt[d] /\ said'[d] = said[d]
        /\ parts'[d] = parts[d] /\ shown'[d] = shown[d]
    BY <1>1, <1>5 DEF Text, Goto, ChatTypeOK
  <2> QED
    BY <2>1, OthersKeep DEF ChatInv
<1>6. said'[c] = Append(said[c], Token(c)) /\ attempt' = attempt
  BY <1>1, <1>3 DEF Text, ChatTypeOK
<1>7. \A i \in 1 .. Len(said'[c]) : said'[c][i][1] = attempt'[c]
  <2>1. \A i \in 1 .. Len(said[c]) : said[c][i][1] = attempt[c]
    BY <1>1 DEF ChatOK
  <2>2. Len(Append(said[c], Token(c))) = Len(said[c]) + 1
    BY <1>2
  <2>3. \A i \in 1 .. Len(said[c]) : Append(said[c], Token(c))[i] = said[c][i]
    BY <1>2
  <2>4. Append(said[c], Token(c))[Len(said[c]) + 1] = Token(c)
    BY <1>2
  <2>5. Len(said[c]) \in Nat
    BY <1>2
  <2> QED
    BY <1>2, <1>6, <2>1, <2>2, <2>3, <2>4, <2>5
<1>8. ChatOK(c)'
  <2>1. CASE attempt[c] = 1
    <3>1. /\ pc'[c] = "token" /\ parts'[c] = parts[c]
          /\ shown'[c] = Append(shown[c], Token(c))
      BY <2>1, <1>1 DEF Text, Goto, ChatTypeOK
    <3>2. shown'[c] = said'[c]
      BY <2>1, <3>1, <1>1, <1>6 DEF ChatOK
    <3>3. said'[c] = Append(parts'[c], Token(c))
      BY <3>1, <1>1, <1>6
    <3> QED
      BY <2>1, <3>1, <3>2, <3>3, <1>2, <1>6, <1>7 DEF ChatOK
  <2>2. CASE attempt[c] # 1
    <3>1. /\ pc'[c] = "streaming" /\ parts'[c] = Append(parts[c], Token(c))
          /\ shown'[c] = shown[c]
      BY <2>2, <1>1 DEF Text, Goto, ChatTypeOK
    <3>2. parts'[c] = said'[c]
      BY <3>1, <1>1, <1>6
    <3>3. \A i \in 1 .. Len(shown'[c]) : shown'[c][i][1] = 1
      BY <3>1, <1>1 DEF ChatOK
    <3> QED
      BY <2>2, <3>1, <3>2, <3>3, <1>6, <1>7 DEF ChatOK
  <2> QED
    BY <2>1, <2>2
<1> QED
  BY <1>4, <1>5, <1>8 DEF ChatInv

LEMMA TokenPublishedKeeps ==
  ASSUME ChatInv, NEW c \in Chats, TokenPublished(c) PROVE ChatInv'
<1>1. ChatTypeOK /\ ChatOK(c) /\ pc[c] = "token"
  BY DEF ChatInv, TokenPublished
<1>2. PICK t \in Nat \X Nat : said[c] = Append(parts[c], t)
  BY <1>1 DEF ChatOK
<1>3. said[c] \in Seq(Nat \X Nat) /\ parts[c] \in Seq(Nat \X Nat)
  BY <1>1, SaidTyped
<1>4. said[c][Len(said[c])] = t
  BY <1>2, <1>3
<1>5. parts' = [parts EXCEPT ![c] = said[c]]
  BY <1>2, <1>4 DEF TokenPublished
<1>6. pc' = [pc EXCEPT ![c] = "streaming"] /\ UNCHANGED <<attempt, deltas, said, shown, stalled>>
  BY DEF TokenPublished, Goto
<1>7. ChatTypeOK'
  BY <1>1, <1>3, <1>5, <1>6 DEF ChatTypeOK
<1>8. ASSUME NEW d \in Chats, d # c PROVE ChatOK(d)'
  BY <1>1, <1>5, <1>6, <1>8, OthersKeep DEF ChatInv, ChatTypeOK
<1>9. pc'[c] = "streaming" /\ parts'[c] = said'[c]
  BY <1>1, <1>5, <1>6 DEF ChatTypeOK
<1>10. ChatOK(c)'
  BY <1>1, <1>6, <1>9 DEF ChatOK
<1> QED
  BY <1>7, <1>8, <1>10 DEF ChatInv

(* A new attempt begins with nothing said and nothing kept.                 *)
LEMMA DroppedKeeps ==
  ASSUME ChatInv, NEW c \in Chats, Dropped(c) PROVE ChatInv'
<1>1. ChatTypeOK /\ ChatOK(c) /\ pc[c] = "streaming" /\ attempt[c] \in 1 .. MaxStreamRetries
  BY DEF ChatInv, Dropped, ChatTypeOK
<1>2. CASE attempt[c] = MaxStreamRetries
  <2>1. /\ pc' = [pc EXCEPT ![c] = "raised"]
        /\ UNCHANGED <<attempt, deltas, said, parts, shown, stalled>>
    BY <1>2 DEF Dropped, Goto
  <2>2. ChatTypeOK'
    BY <1>1, <2>1 DEF ChatTypeOK, Final
  <2>3. ASSUME NEW d \in Chats, d # c PROVE ChatOK(d)'
    BY <1>1, <2>1, <2>3, OthersKeep DEF ChatInv, ChatTypeOK
  <2>4. pc'[c] = "raised"
    BY <1>1, <2>1 DEF ChatTypeOK
  <2>5. ChatOK(c)'
    BY <1>1, <2>1, <2>4 DEF ChatOK
  <2> QED
    BY <2>2, <2>3, <2>5 DEF ChatInv
<1>3. CASE attempt[c] # MaxStreamRetries
  <2>1. /\ attempt' = [attempt EXCEPT ![c] = attempt[c] + 1]
        /\ deltas' = [deltas EXCEPT ![c] = 0]
        /\ said' = [said EXCEPT ![c] = <<>>]
        /\ parts' = [parts EXCEPT ![c] = <<>>]
        /\ UNCHANGED <<pc, shown, stalled>>
    BY <1>3 DEF Dropped
  <2>2. attempt[c] + 1 \in 1 .. MaxStreamRetries /\ attempt[c] + 1 # 1
    BY <1>1, <1>3, ProviderAssumption
  <2>3. ChatTypeOK'
    BY <1>1, <2>1, <2>2 DEF ChatTypeOK
  <2>4. ASSUME NEW d \in Chats, d # c PROVE ChatOK(d)'
    BY <1>1, <2>1, <2>4, OthersKeep DEF ChatInv, ChatTypeOK
  <2>5. /\ pc'[c] = "streaming" /\ said'[c] = <<>> /\ parts'[c] = <<>>
        /\ attempt'[c] # 1 /\ shown'[c] = shown[c]
    BY <1>1, <2>1, <2>2 DEF ChatTypeOK
  <2>6. ChatOK(c)'
    BY <1>1, <2>5 DEF ChatOK
  <2> QED
    BY <2>3, <2>4, <2>6 DEF ChatInv
<1> QED
  BY <1>2, <1>3

LEMMA ForgetKeeps ==
  ASSUME ChatInv, NEW c \in Chats, Forget(c) PROVE ChatInv'
<1>1. ChatTypeOK
  BY DEF ChatInv
<1>2. /\ pc' = [pc EXCEPT ![c] = "idle"] /\ attempt' = [attempt EXCEPT ![c] = 1]
      /\ deltas' = [deltas EXCEPT ![c] = 0] /\ said' = [said EXCEPT ![c] = <<>>]
      /\ parts' = [parts EXCEPT ![c] = <<>>] /\ shown' = [shown EXCEPT ![c] = <<>>]
      /\ UNCHANGED stalled
  BY DEF Forget, Goto
<1>3. 1 \in 1 .. MaxStreamRetries
  BY ProviderAssumption
<1>4. ChatTypeOK'
  BY <1>1, <1>2, <1>3 DEF ChatTypeOK
<1>5. ASSUME NEW d \in Chats, d # c PROVE ChatOK(d)'
  BY <1>1, <1>2, <1>5, OthersKeep DEF ChatInv, ChatTypeOK
<1>6. /\ pc'[c] = "idle" /\ attempt'[c] = 1 /\ said'[c] = <<>>
      /\ parts'[c] = <<>> /\ shown'[c] = <<>>
  BY <1>1, <1>2 DEF ChatTypeOK
<1>7. ChatOK(c)'
  BY <1>6 DEF ChatOK
<1> QED
  BY <1>4, <1>5, <1>7 DEF ChatInv

(* A step of a call that moves its place only, and not into the publish of  *)
(* a token.                                                                 *)
LEMMA MovesKeep ==
  ASSUME ChatInv, NEW c \in Chats,
         NEW p \in ({"idle", "streaming"} \cup Publishing \cup Final) \ {"token"},
         pc[c] = "token" => p = "raised",
         p \notin {"raised", "cancelled"} => pc[c] \notin {"raised", "cancelled"},
         p \in {"thought", "selecting", "idle"} => attempt[c] = 1,
         pc' = [pc EXCEPT ![c] = p],
         UNCHANGED <<attempt, said, parts, shown, stalled>>,
         deltas' \in [Chats -> Nat]
  PROVE  ChatInv'
<1>1. ChatTypeOK /\ ChatOK(c)
  BY DEF ChatInv
<1>2. ChatTypeOK'
  BY <1>1 DEF ChatTypeOK
<1>3. ASSUME NEW d \in Chats, d # c PROVE ChatOK(d)'
  BY <1>1, <1>3, OthersKeep DEF ChatInv, ChatTypeOK
<1>4. pc'[c] = p
  BY <1>1 DEF ChatTypeOK
<1>5. ChatOK(c)'
  BY <1>1, <1>4 DEF ChatOK
<1> QED
  BY <1>2, <1>3, <1>5 DEF ChatInv

LEMMA CancelledKeeps ==
  ASSUME ChatInv, NEW S \in SUBSET Chats, Cancelled(S) PROVE ChatInv'
<1>1. ChatTypeOK'
  BY DEF ChatInv, ChatTypeOK, Cancelled, Final
<1>2. ASSUME NEW c \in Chats PROVE ChatOK(c)'
  <2>1. ChatOK(c) /\ (pc'[c] = pc[c] \/ pc'[c] = "cancelled")
    BY DEF ChatInv, Cancelled
  <2>2. UNCHANGED <<attempt, said, parts, shown>>
    BY DEF Cancelled
  <2>3. CASE pc'[c] = pc[c]
    BY <2>1, <2>2, <2>3, OthersKeep
  <2>4. CASE pc'[c] = "cancelled"
    BY <2>1, <2>2, <2>4 DEF ChatOK
  <2> QED
    BY <2>1, <2>3, <2>4
<1> QED
  BY <1>1, <1>2 DEF ChatInv

LEMMA ChatKeeps ==
  ASSUME ChatInv, ChatNext PROVE ChatInv'
<1>1. ChatTypeOK /\ \A c \in Chats : ChatOK(c)
  BY DEF ChatInv
<1>2. ASSUME NEW S \in SUBSET Chats, Cancelled(S) PROVE ChatInv'
  BY <1>2, CancelledKeeps
<1>3. ASSUME NEW c \in Chats, Call(c) \/ ChatStep(c) \/ PublishRaises(c) \/ Forget(c)
      PROVE ChatInv'
  <2>0. ChatOK(c) /\ deltas \in [Chats -> Nat]
    BY <1>1 DEF ChatTypeOK
  <2>1. CASE Call(c)
    BY <2>0, <2>1, MovesKeep DEF Call, Goto, StreamVars, Publishing, ChatOK
  <2>2. CASE Selected(c)
    BY <2>0, <2>2, MovesKeep DEF Selected, Goto, StreamVars
  <2>3. CASE Text(c)
    BY <2>3, TextKeeps
  <2>4. CASE Thinking(c)
    <3>1. deltas' \in [Chats -> Nat]
      BY <2>0, <2>4 DEF Thinking
    <3>2. CASE attempt[c] = 1
      BY <2>4, <3>1, <3>2, MovesKeep DEF Thinking, Goto, Publishing
    <3>3. CASE attempt[c] # 1
      <4>1. pc' = [pc EXCEPT ![c] = "streaming"]
        BY <1>1, <2>4, <3>3 DEF Thinking, ChatTypeOK
      <4> QED
        BY <2>4, <3>1, <4>1, MovesKeep DEF Thinking
    <3> QED
      BY <3>2, <3>3
  <2>5. CASE TokenPublished(c)
    BY <2>5, TokenPublishedKeeps
  <2>6. CASE ThoughtPublished(c)
    BY <2>0, <2>6, MovesKeep DEF ThoughtPublished, Goto, StreamVars
  <2>7. CASE StreamEnds(c)
    BY <2>0, <2>7, MovesKeep DEF StreamEnds, Goto, StreamVars, Publishing
  <2>8. CASE Dropped(c)
    BY <2>8, DroppedKeeps
  <2>9. CASE Fails(c)
    BY <2>0, <2>9, MovesKeep DEF Fails, Goto, StreamVars, Final
  <2>10. CASE PublishRaises(c)
    BY <2>0, <2>10, MovesKeep DEF PublishRaises, Goto, StreamVars, Final
  <2>11. CASE Answered(c)
    BY <2>0, <2>11, MovesKeep DEF Answered, Goto, StreamVars, Final
  <2>12. CASE Forget(c)
    BY <2>12, ForgetKeeps
  <2> QED
    BY <1>3, <2>1, <2>2, <2>3, <2>4, <2>5, <2>6, <2>7, <2>8, <2>9, <2>10, <2>11, <2>12
       DEF ChatStep
<1> QED
  BY <1>2, <1>3 DEF ChatNext

-----------------------------------------------------------------------------
(* The daemon.                                                              *)

(* What the order of the shutdown rests on.  An awaited run has begun, and  *)
(* only a request that has not begun can come to life.                      *)
Before == {"loading", "starting", "serving"}
Down == {"closing", "joining", "joined"}

OrderInv ==
  /\ stage \in Stages /\ servers \in BOOLEAN
  /\ work \in [Requests ->
       {"none", "creating", "opening", "running", "finishing", "over"}]
  /\ awaited \subseteq AgentRuns
  /\ \A r \in awaited : work[r] # "none"
  /\ stage \in Before => awaited = {}
  /\ stage \in Serving => servers
  /\ stage # "gathering" => \A r \in awaited : work[r] = "over"

(* What stop relies on: the drain is not stopped by anyone else, and once   *)
(* the join has returned, the file has caught up with the records that were *)
(* due, or the task is dead.                                                *)
DueInv ==
  /\ due \in Nat /\ due <= emitted
  /\ stage = "loading" => drain = "off"
  /\ stage \in Before \cup {"gathering", "stopping", "closing"} => due = 0
  /\ stage \in Before \cup Serving \cup Down => drain # "stopped"
  /\ stage \in {"joining", "joined"} => drain # "off"
  /\ stage = "joined" => drain = "dead" \/ Len(file) >= due
  /\ stage = "exiting" /\ drain \in {"starting", "running"} => due = 0
  /\ stage \in {"unwinding", "ended"} => drain \notin {"starting", "running"}
  /\ drain = "stopped" => Len(file) >= due

(* A run that has called the model has the record of its end when it is     *)
(* over, and an awaited one has it before the trace is told to stop.        *)
After == {"joining", "joined", "exiting", "unwinding", "ended"}

EndsInv ==
  /\ called \subseteq Requests /\ ends \in [Requests -> Nat]
  /\ \A r \in Requests : ends[r] <= emitted
  /\ \A r \in called : work[r] \in {"running", "finishing", "over"}
  /\ drain # "off" =>
       \A r \in called : work[r] \in {"finishing", "over"} => ends[r] >= 1
  /\ stage = "loading" => \A r \in Requests : work[r] = "none"
  /\ stage \in After => \A r \in awaited : ends[r] <= due

IInv == TraceInv /\ ChatInv /\ OrderInv /\ DueInv /\ EndsInv

LEMMA InitHolds == DaemonInit => IInv
<1> SUFFICES ASSUME DaemonInit PROVE IInv
  OBVIOUS
<1>1. TraceInv
  BY DEF DaemonInit, TraceInit, TraceInv, TraceTypeOK
<1>2. ChatTypeOK
  <2>1. 1 \in 1 .. MaxStreamRetries
    BY ProviderAssumption
  <2>2. \A S : <<>> \in Seq(S)
    OBVIOUS
  <2>3. said \in [Chats -> Seq(Nat \X Nat)] /\ parts \in [Chats -> Seq(Nat \X Nat)]
        /\ shown \in [Chats -> Seq(Nat \X Nat)]
    BY <2>2 DEF DaemonInit, ChatInit
  <2> QED
    BY <2>1, <2>3 DEF DaemonInit, ChatInit, ChatTypeOK
<1>3. \A c \in Chats : ChatOK(c)
  BY DEF DaemonInit, ChatInit, ChatOK
<1>4. OrderInv
  BY DEF DaemonInit, OrderInv, Stages, Serving, Before, Requests
<1>5. DueInv
  BY DEF DaemonInit, TraceInit, DueInv, Serving, Before, Down
<1>6. EndsInv
  BY DEF DaemonInit, TraceInit, EndsInv, After, Requests
<1> QED
  BY <1>1, <1>2, <1>3, <1>4, <1>5, <1>6 DEF IInv, ChatInv

(* Every step of the daemon is one of the trace.                            *)
LEMMA StepOfTrace == DaemonNext => TraceNext
<1> USE DEF TraceNext
<1>1. CoreStep => TraceNext
  BY DEF CoreStep, Load, KeyMissing, StartServers, Listen, Gathered, StopServers,
         CloseServer, Join, StopTrace, Exit, End
<1>2. Shutdown \/ TraceRuns \/ ClientStalls => TraceNext
  BY DEF Shutdown, TraceRuns, ClientStalls, Stall
<1>3. ASSUME NEW r \in Requests, ChatStep(r) \/ PublishRaises(r) PROVE TraceNext
  BY <1>3 DEF ChatStep, Selected, Text, Thinking, TokenPublished, ThoughtPublished,
         StreamEnds, Dropped, Fails, PublishRaises, Answered
<1>4. ASSUME NEW r \in Requests, Accept(r) \/ Created(r) \/ Finished(r) \/ Breaks(r)
      PROVE TraceNext
  BY <1>4 DEF Accept, Created, Finished, Breaks
<1>5. ASSUME NEW r \in Requests, Opened(r) \/ Finish(r) PROVE TraceNext
  BY <1>5 DEF Opened, Finish, Call
<1> QED
  BY <1>1, <1>2, <1>3, <1>4, <1>5 DEF DaemonNext, Moves, RunCalls, RunFails

(* Every step of the daemon is one of a call of the model, or cancels some. *)
LEMMA Unmoved ==
  ASSUME ChatTypeOK, UNCHANGED <<pc, attempt, deltas, said, parts, shown>>,
         stalled' \in BOOLEAN
  PROVE  ChatNext
<1>1. pc' = [c \in Chats |-> IF c \in {} THEN "cancelled" ELSE pc[c]]
  BY DEF ChatTypeOK
<1>2. Cancelled({})
  BY <1>1 DEF Cancelled
<1> QED
  BY <1>2 DEF ChatNext

LEMMA CancelIsCancelled ==
  ASSUME ChatTypeOK, NEW R, Cancel(R), stalled' \in BOOLEAN
  PROVE  ChatNext
<1> DEFINE S == {r \in Chats : r \in R /\ work[r] = "running" /\ pc[r] \notin Final}
<1>1. pc' = [c \in Chats |-> IF c \in S THEN "cancelled" ELSE pc[c]]
  BY DEF Cancel, Requests
<1>2. Cancelled(S)
  BY <1>1 DEF Cancelled, Cancel
<1>3. S \in SUBSET Chats
  OBVIOUS
<1> QED
  BY <1>2, <1>3 DEF ChatNext

LEMMA StepOfChats == ChatTypeOK /\ DaemonNext => ChatNext
<1> SUFFICES ASSUME ChatTypeOK, DaemonNext PROVE ChatNext
  OBVIOUS
<1>0. stalled \in BOOLEAN /\ Requests = Chats
  BY DEF ChatTypeOK, Requests
<1>1. CASE Load \/ KeyMissing \/ StartServers \/ Listen \/ Gathered \/ StopServers
           \/ CloseServer \/ Join \/ StopTrace \/ End \/ TraceRuns
  <2>1. UNCHANGED chatVars
    BY <1>1 DEF Load, KeyMissing, StartServers, Listen, Gathered, StopServers,
         CloseServer, Join, StopTrace, End, TraceRuns
  <2> QED
    BY <1>0, <2>1, Unmoved DEF chatVars
<1>2. CASE ClientStalls
  BY <1>2, Unmoved DEF ClientStalls, Stall
<1>3. CASE Shutdown
  BY <1>0, <1>3, CancelIsCancelled DEF Shutdown
<1>4. CASE Exit
  <2>1. Cancel(Requests) /\ stalled' \in BOOLEAN
    BY <1>0, <1>4 DEF Exit
  <2> QED
    BY <2>1, CancelIsCancelled
<1>5. ASSUME NEW r \in Requests, Accept(r) \/ Created(r) \/ Finished(r) \/ Breaks(r)
      PROVE ChatNext
  <2>1. UNCHANGED chatVars
    BY <1>5 DEF Accept, Created, Finished, Breaks
  <2> QED
    BY <1>0, <2>1, Unmoved DEF chatVars
<1>6. ASSUME NEW r \in Requests, Opened(r) \/ RunCalls(r) \/ RunFails(r) \/ Finish(r)
      PROVE ChatNext
  BY <1>0, <1>6 DEF Opened, RunCalls, RunFails, Finish, ChatNext
<1> QED
  BY <1>1, <1>2, <1>3, <1>4, <1>5, <1>6 DEF DaemonNext, CoreStep, Moves

(* A request that has not ended moves on.                                   *)
LEMMA WorkKeeps ==
  ASSUME OrderInv, NEW r \in Requests, work[r] # "over",
         NEW w \in {"creating", "opening", "running", "finishing", "over"},
         work' = [work EXCEPT ![r] = w], UNCHANGED <<stage, servers, awaited>>
  PROVE  OrderInv'
<1>1. work' \in [Requests ->
         {"none", "creating", "opening", "running", "finishing", "over"}]
  BY DEF OrderInv
<1>2. ASSUME NEW q \in awaited PROVE work'[q] # "none" /\ (work[q] = "over" => work'[q] = "over")
  BY DEF OrderInv
<1> QED
  BY <1>1, <1>2 DEF OrderInv

(* CoreApp.run goes on, and no request moves.                               *)
LEMMA StageKeeps ==
  ASSUME OrderInv, UNCHANGED <<work, awaited>>, stage' \in Stages, servers' \in BOOLEAN,
         stage' \in Before => stage \in Before,
         stage' \in Serving => servers',
         stage' # "gathering",
         stage = "gathering" => \A r \in awaited : work[r] = "over"
  PROVE  OrderInv'
BY DEF OrderInv, Requests

LEMMA CancelKeeps ==
  ASSUME OrderInv, NEW R, Cancel(R), awaited' \subseteq AgentRuns,
         \A r \in awaited' : work[r] # "none",
         stage' = "gathering" \/ \A r \in awaited' : work[r] = "over",
         stage' \in Stages \ Before, servers' \in BOOLEAN,
         stage' \in Serving => servers'
  PROVE  OrderInv'
<1>1. work' = [r \in Requests |->
         IF r \in R /\ Alive(r) /\ work[r] # "running" THEN "over" ELSE work[r]]
  BY DEF Cancel
<1>2. work' \in [Requests ->
         {"none", "creating", "opening", "running", "finishing", "over"}]
  BY <1>1 DEF OrderInv
<1>3. \A r \in awaited' : r \in Requests
  BY DaemonAssumption DEF Requests
<1>4. \A r \in awaited' : work'[r] # "none" /\ (work[r] = "over" => work'[r] = "over")
  BY <1>1, <1>3
<1> QED
  BY <1>2, <1>4 DEF OrderInv

LEMMA OrderKeeps == OrderInv /\ DaemonNext => OrderInv'
<1> SUFFICES ASSUME OrderInv, DaemonNext PROVE OrderInv'
  OBVIOUS
<1>0. /\ stage \in Stages /\ servers \in BOOLEAN /\ awaited \subseteq AgentRuns
      /\ stage \in Serving => servers
      /\ stage # "gathering" => \A r \in awaited : work[r] = "over"
      /\ work \in [Requests ->
           {"none", "creating", "opening", "running", "finishing", "over"}]
  BY DEF OrderInv
<1>1. CASE Load
  BY <1>0, <1>1, StageKeeps DEF Load, Stages, Serving, Before
<1>2. CASE KeyMissing
  BY <1>0, <1>2, StageKeeps DEF KeyMissing, At, Stages, Serving, Before
<1>3. CASE StartServers
  BY <1>0, <1>3, StageKeeps DEF StartServers, Stages, Serving, Before
<1>4. CASE Listen
  BY <1>0, <1>4, StageKeeps DEF Listen, Stages, Serving, Before
<1>5. CASE Gathered
  <2>1. \A r \in awaited : work[r] = "over"
    <3>1. \A r \in awaited : r \in Requests
      BY <1>0, DaemonAssumption DEF Requests
    <3>2. \A r \in awaited : work[r] # "none"
      BY DEF OrderInv
    <3> QED
      BY <1>5, <3>1, <3>2 DEF Gathered, GatheredRuns, Alive
  <2>2. stage = "gathering" /\ stage' = "stopping" /\ servers' = servers
    BY <1>5 DEF Gathered, At
  <2> QED
    BY <1>0, <1>5, <2>1, <2>2, StageKeeps DEF Gathered, Stages, Serving, Before
<1>6. CASE StopServers
  BY <1>0, <1>6, StageKeeps DEF StopServers, At, Stages, Serving, Before
<1>7. CASE CloseServer
  BY <1>0, <1>7, StageKeeps DEF CloseServer, At, Stages, Serving, Before
<1>8. CASE Join
  BY <1>0, <1>8, StageKeeps DEF Join, At, Stages, Serving, Before
<1>9. CASE StopTrace
  BY <1>0, <1>9, StageKeeps DEF StopTrace, At, Stages, Serving, Before
<1>10. CASE Exit
  <2>1. stage = "exiting" /\ stage' = "unwinding" /\ UNCHANGED <<servers, awaited>>
    BY <1>10 DEF Exit, At
  <2>2. \A r \in awaited' : work[r] = "over"
    BY <1>0, <2>1
  <2>3. Cancel(Requests)
    BY <1>10 DEF Exit
  <2> QED
    BY <1>0, <2>1, <2>2, <2>3, CancelKeeps DEF Stages, Serving, Before
<1>11. CASE End
  BY <1>0, <1>11, StageKeeps DEF End, At, Stages, Serving, Before
<1>12. CASE Shutdown
  <2>1. /\ stage = "serving" /\ stage' = "gathering" /\ UNCHANGED servers
        /\ awaited' = RunningRuns /\ Cancel(RunningRuns)
    BY <1>12 DEF Shutdown, At
  <2>2. RunningRuns \subseteq AgentRuns /\ \A r \in RunningRuns : work[r] # "none"
    BY DEF RunningRuns, Alive
  <2> QED
    BY <1>0, <2>1, <2>2, CancelKeeps DEF Stages, Serving, Before
<1>13. CASE TraceRuns \/ ClientStalls
  BY <1>13 DEF TraceRuns, ClientStalls, daemonVars, OrderInv
<1>14. ASSUME NEW r \in Requests, Accept(r) PROVE OrderInv'
  BY <1>0, <1>14, WorkKeeps DEF Accept, Work
<1>15. ASSUME NEW r \in Requests, Created(r) PROVE OrderInv'
  BY <1>0, <1>15, WorkKeeps DEF Created, Work
<1>16. ASSUME NEW r \in Requests, Opened(r) PROVE OrderInv'
  BY <1>0, <1>16, WorkKeeps DEF Opened, Work
<1>17. ASSUME NEW r \in Requests, RunCalls(r) \/ RunFails(r) PROVE OrderInv'
  BY <1>17 DEF RunCalls, RunFails, daemonVars, OrderInv
<1>18. ASSUME NEW r \in Requests, Finish(r) PROVE OrderInv'
  BY <1>0, <1>18, WorkKeeps DEF Finish, Work
<1>19. ASSUME NEW r \in Requests, Finished(r) PROVE OrderInv'
  BY <1>0, <1>19, WorkKeeps DEF Finished, Work
<1>20. ASSUME NEW r \in Requests, Breaks(r) PROVE OrderInv'
  BY <1>0, <1>20, WorkKeeps DEF Breaks, Work
<1> QED
  BY <1>1, <1>2, <1>3, <1>4, <1>5, <1>6, <1>7, <1>8, <1>9, <1>10, <1>11, <1>12, <1>13,
     <1>14, <1>15, <1>16, <1>17, <1>18, <1>19, <1>20 DEF DaemonNext, CoreStep, Moves

(* What a step of the trace does to its history and its file.               *)
LEMMA FileGrows ==
  ASSUME TraceInv, TraceNext PROVE Len(file') >= Len(file) /\ emitted' >= emitted
<1>1. /\ queue \in Seq(Nat) /\ file \in Seq(Nat) /\ emitted \in Nat
  BY DEF TraceInv, TraceTypeOK
<1>2. file' \in Seq(Nat) /\ emitted' \in Nat
  BY TraceKeeps DEF TraceInv, TraceTypeOK
<1>3. ASSUME NEW n \in 0 .. Len(queue), NEW k \in 0 .. n, Take(n, k)
      PROVE Len(file') >= Len(file) /\ emitted' >= emitted
  <2>1. k \in Nat /\ k <= Len(queue) /\ Len(queue) \in Nat /\ Len(file) \in Nat
    BY <1>1
  <2>2. SubSeq(queue, 1, k) \in Seq(Nat) /\ Len(SubSeq(queue, 1, k)) = k
    BY <1>1, <2>1
  <2>3. Len(file') = Len(file) + k
    BY <1>1, <1>3, <2>2 DEF Take
  <2> QED
    BY <1>1, <1>3, <2>1, <2>3 DEF Take
<1>4. CASE DrainStep
  <2>1. CASE DrainWrites
    <3>1. Len(queue) \in 0 .. Len(queue)
      BY <1>1
    <3> QED
      BY <2>1, <3>1, <1>3 DEF DrainWrites
  <2>2. CASE DrainFails
    <3>1. PICK n \in 1 .. Len(queue), lost \in 0 .. 1 : Take(n, n - lost)
      BY <2>2 DEF DrainFails
    <3>2. n \in 0 .. Len(queue) /\ n - lost \in 0 .. n
      BY <1>1, <3>1
    <3> QED
      BY <3>1, <3>2, <1>3
  <2>3. CASE OpenFails
    <3>1. 0 \in 0 .. Len(queue) /\ 0 \in 0 .. 0
      BY <1>1
    <3> QED
      BY <2>3, <3>1, <1>3 DEF OpenFails
  <2> QED
    BY <1>4, <2>1, <2>2, <2>3 DEF DrainStep
<1>5. CASE Emit
  BY <1>1, <1>5 DEF Emit, traceVars
<1>6. CASE EndDrain
  BY <1>1, <1>6 DEF EndDrain
<1>7. CASE StartTrace /\ UNCHANGED <<queue, unfinished, file, emitted>>
  BY <1>1, <1>7
<1>8. CASE UNCHANGED traceVars
  BY <1>1, <1>8 DEF traceVars
<1> QED
  BY <1>4, <1>5, <1>6, <1>7, <1>8, Zenon DEF TraceNext

(* A step that leaves stage, due and the task of the trace as they are.     *)
LEMMA DueStays ==
  ASSUME TraceInv, TraceNext, DueInv, UNCHANGED <<stage, due, drain>>
  PROVE  DueInv'
<1>1. Len(file') >= Len(file) /\ emitted' >= emitted
  BY FileGrows
<1>2. /\ Len(file) \in Nat /\ Len(file') \in Nat /\ emitted \in Nat /\ emitted' \in Nat
  BY TraceKeeps DEF TraceInv, TraceTypeOK
<1>3. due' \in Nat /\ due' <= emitted'
  BY <1>1, <1>2 DEF DueInv
<1>4. \A n \in Nat : Len(file) >= n => Len(file') >= n
  BY <1>1, <1>2
<1> QED
  BY <1>3, <1>4 DEF DueInv

LEMMA EmitLeavesDrain == Emit => UNCHANGED drain
BY DEF Emit, traceVars

LEMMA DueKeeps ==
  ASSUME TraceInv, DueInv, stage \in Stages, DaemonNext PROVE DueInv'
<1>0. TraceNext /\ TraceInv' /\ drain \in {"off", "starting", "running", "dead", "stopped"}
  BY StepOfTrace, TraceKeeps DEF TraceInv, TraceTypeOK
<1> USE DEF Before, Down, Serving, history
<1>1. CASE Load
  <2>1. stage = "loading" /\ stage' \in {"starting", "ended"} /\ due' = due
        /\ emitted' = emitted /\ file' = file
        /\ drain' \in {drain, "starting"} /\ (stage' = "ended" => drain' = drain)
    BY <1>1 DEF Load, StartTrace, traceVars
  <2>2. drain' = drain \/ (drain = "off" /\ drain' = "starting")
    BY <1>1 DEF Load, StartTrace, traceVars
  <2> QED
    BY <2>1, <2>2 DEF DueInv
<1>2. CASE KeyMissing
  BY <1>2 DEF KeyMissing, At, DueInv, traceVars
<1>3. CASE StartServers
  BY <1>0, <1>3, DueStays DEF StartServers, traceVars
<1>4. CASE Listen
  BY <1>4 DEF Listen, At, DueInv, traceVars
<1>5. CASE Gathered
  BY <1>5 DEF Gathered, At, DueInv, traceVars
<1>6. CASE StopServers
  BY <1>6 DEF StopServers, At, DueInv, traceVars
<1>7. CASE CloseServer
  BY <1>7 DEF CloseServer, At, DueInv, TraceInv, TraceTypeOK, traceVars
<1>8. CASE Join
  <2>1. /\ stage = "joining" /\ stage' = "joined" /\ UNCHANGED <<drain, file, emitted, due>>
        /\ unfinished = 0
    BY <1>8 DEF Join, Joined, At, traceVars
  <2>2. drain \in {"starting", "running", "dead"} /\ due <= emitted
    BY <1>0, <2>1 DEF DueInv
  <2>3. drain # "dead" => Len(file) >= due
    <3>1. Len(queue) = 0 /\ Len(file) \in Nat
      BY <2>1 DEF TraceInv, TraceTypeOK
    <3>2. drain # "dead" => Len(file) + Len(queue) = emitted
      BY <2>2 DEF TraceInv
    <3> QED
      BY <2>2, <3>1, <3>2
  <2> QED
    BY <2>1, <2>2, <2>3 DEF DueInv
<1>9. CASE StopTrace
  <2>1. /\ stage = "joined" /\ stage' = "exiting" /\ UNCHANGED <<file, emitted, due>>
        /\ drain' = IF drain \in {"starting", "running"} THEN "stopped" ELSE drain
    BY <1>9 DEF StopTrace, At, EndDrain
  <2>2. drain # "stopped" /\ (drain # "dead" => Len(file) >= due)
    BY <2>1 DEF DueInv
  <2> QED
    BY <2>1, <2>2 DEF DueInv
<1>10. CASE Exit
  <2>1. /\ stage = "exiting" /\ stage' = "unwinding" /\ UNCHANGED <<file, emitted, due>>
        /\ drain' = IF drain \in {"starting", "running"} THEN "stopped" ELSE drain
    BY <1>10 DEF Exit, At, EndDrain
  <2>2. Len(file) \in Nat
    BY DEF TraceInv, TraceTypeOK
  <2>3. drain' = "stopped" => Len(file') >= due'
    BY <2>1, <2>2 DEF DueInv
  <2> QED
    BY <2>1, <2>3 DEF DueInv
<1>11. CASE End
  BY <1>11 DEF End, At, DueInv, traceVars
<1>12. CASE Shutdown
  BY <1>12 DEF Shutdown, At, DueInv, traceVars
<1>13. CASE TraceRuns
  <2>1. UNCHANGED <<stage, due>> /\ DrainStep /\ stage # "ended"
    BY <1>13 DEF TraceRuns, daemonVars
  <2>2. drain \in {"starting", "running"} /\ drain' \in {"running", "dead"}
    BY <2>1 DEF DrainStep, DrainWrites, DrainFails, OpenFails, Draining
  <2>3. Len(file') >= Len(file) /\ emitted' >= emitted
    BY <1>0, FileGrows
  <2>4. Len(file) \in Nat /\ Len(file') \in Nat /\ emitted \in Nat /\ emitted' \in Nat
        /\ due \in Nat /\ due <= emitted
    BY <1>0 DEF TraceInv, TraceTypeOK, DueInv
  <2>5. due' <= emitted'
    BY <2>1, <2>3, <2>4
  <2>6. stage = "joined" => drain' = "dead" \/ Len(file') >= due'
    <3>1. stage = "joined" => Len(file) >= due
      BY <2>2 DEF DueInv
    <3> QED
      BY <3>1, <2>1, <2>3, <2>4
  <2> QED
    BY <2>1, <2>2, <2>4, <2>5, <2>6 DEF DueInv
<1>14. CASE ClientStalls
  BY <1>0, <1>14, DueStays DEF ClientStalls, Stall, daemonVars, traceVars
<1>15. ASSUME NEW r \in Requests, Accept(r) \/ Created(r) \/ Finished(r) \/ Breaks(r)
       PROVE DueInv'
  BY <1>0, <1>15, DueStays DEF Accept, Created, Finished, Breaks, traceVars
<1>16. ASSUME NEW r \in Requests, Opened(r) \/ Finish(r) PROVE DueInv'
  BY <1>0, <1>16, DueStays, EmitLeavesDrain DEF Opened, Call, Finish
<1>17. ASSUME NEW r \in Requests, RunCalls(r) \/ RunFails(r) PROVE DueInv'
  <2>1. UNCHANGED <<stage, due>>
    BY <1>17 DEF RunCalls, RunFails, daemonVars
  <2>2. UNCHANGED drain
    BY <1>17, EmitLeavesDrain DEF RunCalls, RunFails, ChatStep, Selected, Text, Thinking,
       TokenPublished, ThoughtPublished, StreamEnds, Dropped, Fails, PublishRaises,
       Answered, traceVars
  <2> QED
    BY <1>0, <2>1, <2>2, DueStays
<1> QED
  BY <1>1, <1>2, <1>3, <1>4, <1>5, <1>6, <1>7, <1>8, <1>9, <1>10, <1>11, <1>12, <1>13,
     <1>14, <1>15, <1>16, <1>17 DEF DaemonNext, CoreStep, Moves

(* A step that leaves the history as it is.                                 *)
LEMMA EndsStay ==
  ASSUME EndsInv, emitted \in Nat, emitted' \in Nat, emitted' >= emitted,
         UNCHANGED history,
         drain # "off" \/ drain' = "off" \/ stage = "loading",
         \A r \in called :
           /\ work'[r] \in {"running", "finishing", "over"}
           /\ work'[r] \in {"finishing", "over"} => work[r] \in {"finishing", "over"},
         stage' = "loading" => \A r \in Requests : work'[r] = "none",
         stage' \in After => (stage \in After /\ awaited' = awaited) \/ awaited' = {}
  PROVE  EndsInv'
<1>1. /\ called \subseteq Requests /\ ends \in [Requests -> Nat]
      /\ called' = called /\ ends' = ends /\ due' = due
  BY DEF EndsInv, history
<1>2. \A r \in Requests : ends[r] <= emitted'
  BY <1>1 DEF EndsInv
<1>3. drain' # "off" =>
        \A r \in called : work'[r] \in {"finishing", "over"} => ends[r] >= 1
  <2>1. stage = "loading" => called = {}
    BY DEF EndsInv
  <2> QED
    BY <2>1 DEF EndsInv
<1>4. stage' \in After => \A r \in awaited' : ends[r] <= due
  BY DEF EndsInv
<1> QED
  BY <1>1, <1>2, <1>3, <1>4 DEF EndsInv

LEMMA EndsKeep ==
  ASSUME TraceInv, OrderInv, EndsInv, DaemonNext PROVE EndsInv'
<1>0. /\ emitted \in Nat /\ emitted' \in Nat /\ emitted' >= emitted
      /\ called \subseteq Requests /\ ends \in [Requests -> Nat]
      /\ \A r \in called : work[r] \in {"running", "finishing", "over"}
      /\ work \in [Requests ->
           {"none", "creating", "opening", "running", "finishing", "over"}]
  BY StepOfTrace, TraceKeeps, FileGrows DEF TraceInv, TraceTypeOK, OrderInv, EndsInv
<1>1. CASE Load \/ KeyMissing \/ StartServers \/ Listen \/ Gathered \/ StopServers
           \/ Join \/ StopTrace \/ End
  <2>1. UNCHANGED <<history, work, awaited>>
    BY <1>1 DEF Load, KeyMissing, StartServers, Listen, Gathered, StopServers, Join,
       StopTrace, End
  <2>2. drain # "off" \/ drain' = "off" \/ stage = "loading"
    BY <1>1 DEF Load, KeyMissing, StartServers, Listen, Gathered, StopServers, Join,
       StopTrace, End, EndDrain, traceVars
  <2>3. stage' # "loading"
    BY <1>1 DEF Load, KeyMissing, StartServers, Listen, Gathered, StopServers, Join,
       StopTrace, End, At, Serving
  <2>4. stage' \in After => stage \in After \/ stage \in Before
    BY <1>1 DEF Load, KeyMissing, StartServers, Listen, Gathered, StopServers, Join,
       StopTrace, End, At, After, Before
  <2>5. stage \in Before => awaited = {}
    BY DEF OrderInv
  <2> QED
    BY <1>0, <2>1, <2>2, <2>3, <2>4, <2>5, EndsStay
<1>2. CASE CloseServer
  <2>1. /\ UNCHANGED <<called, ends, work, awaited, drain, emitted>> /\ due' = emitted
        /\ stage' # "loading"
    BY <1>2 DEF CloseServer, At, traceVars
  <2>2. \A r \in awaited : r \in Requests
    BY DaemonAssumption DEF OrderInv, Requests
  <2> QED
    BY <1>0, <2>1, <2>2 DEF EndsInv
<1>3. CASE Exit \/ Shutdown
  <2>1. Cancel(Requests) \/ Cancel(RunningRuns)
    BY <1>3 DEF Exit, Shutdown
  <2>2. ASSUME NEW R, Cancel(R), NEW r \in called
        PROVE  work'[r] = work[r] \/ (work[r] # "running" /\ work'[r] = "over")
    BY <1>0, <2>2 DEF Cancel
  <2>3. /\ UNCHANGED history
        /\ stage' # "loading"
        /\ stage' \in After => stage \in After /\ awaited' = awaited
    BY <1>3 DEF Exit, Shutdown, At, After
  <2>4. drain # "off" \/ drain' = "off"
    BY <1>3 DEF Exit, Shutdown, EndDrain, traceVars
  <2>5. \A r \in called : work'[r] = work[r] \/ (work[r] # "running" /\ work'[r] = "over")
    BY <2>1, <2>2
  <2> QED
    BY <1>0, <2>3, <2>4, <2>5, EndsStay
<1>4. CASE TraceRuns \/ ClientStalls
  <2>1. UNCHANGED <<stage, work, awaited, history>>
    BY <1>4 DEF TraceRuns, ClientStalls, daemonVars
  <2>2. drain # "off" \/ drain' = "off"
    BY <1>4 DEF TraceRuns, DrainStep, DrainWrites, DrainFails, OpenFails, Draining,
       ClientStalls, Stall, traceVars
  <2> QED
    BY <1>0, <2>1, <2>2, EndsStay DEF EndsInv
<1>5. ASSUME NEW r \in Requests, RunCalls(r) \/ RunFails(r) PROVE EndsInv'
  <2>1. UNCHANGED <<stage, work, awaited, history>>
    BY <1>5 DEF RunCalls, RunFails, daemonVars
  <2>2. UNCHANGED drain
    BY <1>5, EmitLeavesDrain DEF RunCalls, RunFails, ChatStep, Selected, Text, Thinking,
       TokenPublished, ThoughtPublished, StreamEnds, Dropped, Fails, PublishRaises,
       Answered, traceVars
  <2> QED
    BY <1>0, <2>1, <2>2, EndsStay DEF EndsInv
<1>6. ASSUME NEW r \in Requests, Accept(r) \/ Created(r) \/ Finished(r) \/ Breaks(r)
      PROVE EndsInv'
  <2>1. UNCHANGED <<stage, awaited, history, drain>>
    BY <1>6 DEF Accept, Created, Finished, Breaks, traceVars
  <2>2. stage # "loading"
    BY <1>6 DEF EndsInv, Accept, Created, Finished, Breaks, Serving
  <2>3. \A q \in Requests \ {r} : work'[q] = work[q]
    BY <1>0, <1>6 DEF Accept, Created, Finished, Breaks, Work
  <2>4. r \in called => work[r] = "finishing" /\ work'[r] = "over"
    BY <1>0, <1>6 DEF Accept, Created, Finished, Breaks, Work
  <2>5. \A q \in called :
          /\ work'[q] \in {"running", "finishing", "over"}
          /\ work'[q] \in {"finishing", "over"} => work[q] \in {"finishing", "over"}
    BY <1>0, <2>3, <2>4
  <2> QED
    BY <1>0, <2>1, <2>2, <2>5, EndsStay
<1>7. ASSUME NEW r \in Requests, Opened(r) PROVE EndsInv'
  <2>1. /\ UNCHANGED <<stage, awaited, ends, due, drain>> /\ called' = called \cup {r}
        /\ work[r] = "opening" /\ work' = [work EXCEPT ![r] = "running"]
    BY <1>7, EmitLeavesDrain DEF Opened, Work, Call
  <2>2. work'[r] = "running" /\ \A q \in Requests \ {r} : work'[q] = work[q]
    BY <1>0, <2>1
  <2>3. stage # "loading"
    BY <2>1 DEF EndsInv
  <2>4. \A q \in Requests : ends[q] <= emitted'
    BY <1>0 DEF EndsInv
  <2>5. \A q \in called' : work'[q] \in {"running", "finishing", "over"}
    BY <1>0, <2>1, <2>2
  <2>6. drain # "off" =>
          \A q \in called' : work'[q] \in {"finishing", "over"} => ends[q] >= 1
    BY <1>0, <2>1, <2>2 DEF EndsInv
  <2> QED
    BY <1>0, <2>1, <2>3, <2>4, <2>5, <2>6 DEF EndsInv
<1>8. ASSUME NEW r \in Requests, Finish(r) PROVE EndsInv'
  <2>1. /\ UNCHANGED <<stage, awaited, called, due, drain>>
        /\ ends' = [ends EXCEPT ![r] = emitted']
        /\ work[r] = "running" /\ work' = [work EXCEPT ![r] = "finishing"]
    BY <1>8, EmitLeavesDrain DEF Finish, Work
  <2>2. /\ work'[r] = "finishing" /\ \A q \in Requests \ {r} : work'[q] = work[q]
        /\ ends'[r] = emitted' /\ \A q \in Requests \ {r} : ends'[q] = ends[q]
        /\ ends' \in [Requests -> Nat]
    BY <1>0, <2>1
  <2>3. stage # "loading"
    BY <2>1 DEF EndsInv
  <2>4. \A q \in Requests : ends'[q] <= emitted'
    <3>1. \A q \in Requests \ {r} : ends[q] <= emitted'
      BY <1>0 DEF EndsInv
    <3> QED
      BY <1>0, <2>2, <3>1
  <2>5. \A q \in called : work'[q] \in {"running", "finishing", "over"}
    BY <1>0, <2>2
  <2>6. drain # "off" => emitted' >= 1
    BY <1>0, <1>8 DEF Finish, Emit
  <2>7. drain # "off" =>
          \A q \in called : work'[q] \in {"finishing", "over"} => ends'[q] >= 1
    BY <1>0, <2>2, <2>6 DEF EndsInv
  <2>8. stage \in After => \A q \in awaited : ends'[q] <= due
    <3>1. stage \in After => r \notin awaited
      BY <2>1 DEF OrderInv, After
    <3>2. \A q \in awaited : q \in Requests
      BY DaemonAssumption DEF OrderInv, Requests
    <3> QED
      BY <2>2, <3>1, <3>2 DEF EndsInv
  <2> QED
    BY <1>0, <2>1, <2>2, <2>3, <2>4, <2>5, <2>7, <2>8 DEF EndsInv
<1> QED
  BY <1>1, <1>2, <1>3, <1>4, <1>5, <1>6, <1>7, <1>8 DEF DaemonNext, CoreStep, Moves

LEMMA StepKeeps == IInv /\ [DaemonNext]_vars => IInv'
<1> SUFFICES ASSUME IInv, [DaemonNext]_vars PROVE IInv'
  OBVIOUS
<1>1. CASE DaemonNext
  <2>1. TraceNext /\ ChatNext
    BY <1>1, StepOfTrace, StepOfChats DEF IInv, ChatInv
  <2>2. TraceInv' /\ ChatInv'
    BY <2>1, TraceKeeps, ChatKeeps DEF IInv
  <2>3. OrderInv'
    BY <1>1, OrderKeeps DEF IInv
  <2>4. DueInv'
    BY <1>1, DueKeeps DEF IInv, OrderInv
  <2>5. EndsInv'
    BY <1>1, EndsKeep DEF IInv
  <2> QED
    BY <2>2, <2>3, <2>4, <2>5 DEF IInv
<1>2. CASE UNCHANGED vars
  <2>1. UNCHANGED <<traceVars, chatVars, daemonVars>>
    BY <1>2 DEF vars
  <2>2. TraceInv'
    BY <2>1, TraceKeeps DEF IInv, TraceNext
  <2>3. ChatInv'
    BY <2>1 DEF IInv, ChatInv, ChatTypeOK, ChatOK, chatVars
  <2>4. OrderInv' /\ DueInv'
    BY <2>1 DEF IInv, OrderInv, DueInv, daemonVars, traceVars, history
  <2>5. EndsInv'
    BY <2>1 DEF IInv, EndsInv, daemonVars, traceVars, history
  <2> QED
    BY <2>2, <2>3, <2>4, <2>5 DEF IInv
<1> QED
  BY <1>1, <1>2

LEMMA Invariant == DaemonSpec => []IInv
BY InitHolds, StepKeeps, PTL DEF DaemonSpec

-----------------------------------------------------------------------------
(* The theorems.                                                            *)

(* Every variable keeps its type.                                           *)
THEOREM TypeCorrect == DaemonSpec => []DaemonTypeOK
<1>1. IInv => DaemonTypeOK
  BY DEF IInv, TraceInv, ChatInv, OrderInv, DueInv, EndsInv, DaemonTypeOK
<1> QED
  BY <1>1, Invariant, PTL

(* The trace file is a prefix of what was emitted, whatever fails and       *)
(* whenever the daemon is stopped (core/trace/writer.py).                   *)
THEOREM TraceIsPrefixHolds == DaemonSpec => []TraceIsPrefix
<1>1. IInv => TraceIsPrefix
  <2> SUFFICES ASSUME IInv PROVE TraceIsPrefix
    OBVIOUS
  <2>1. Len(file) \in Nat /\ Len(queue) \in Nat /\ emitted \in Nat
    BY DEF IInv, TraceInv, TraceTypeOK
  <2>2. Len(file) + Len(queue) <= emitted /\ \A i \in 1 .. Len(file) : file[i] = i
    BY DEF IInv, TraceInv
  <2> QED
    BY <2>1, <2>2 DEF TraceIsPrefix
<1> QED
  BY <1>1, Invariant, PTL

(* A trace that could be written has every record that was emitted before   *)
(* TraceWriter.stop was called.                                             *)
THEOREM StopLosesNothingHolds == DaemonSpec => []StopLosesNothing
<1>1. IInv => StopLosesNothing
  BY DEF IInv, DueInv, StopLosesNothing
<1> QED
  BY <1>1, Invariant, PTL

(* However many runs of agent.run are under way at the signal, each that had*)
(* called the model has the record of its end in a trace that was stopped   *)
(* and whose task did not die: CoreApp.run cancels and awaits them before it*)
(* stops the trace.                                                         *)
THEOREM AwaitedEndsTracedHolds == DaemonSpec => []AwaitedEndsTraced
<1>1. IInv => AwaitedEndsTraced
  <2> SUFFICES ASSUME IInv, drain = "stopped", NEW r \in awaited \cap called
               PROVE ends[r] \in 1 .. Len(file)
    BY DEF AwaitedEndsTraced
  <2>1. stage \in After
    BY DEF IInv, DueInv, OrderInv, Stages, Serving, Before, Down, After
  <2>2. r \in Requests /\ work[r] = "over"
    BY <2>1, DaemonAssumption DEF IInv, OrderInv, After, Requests
  <2>3. ends[r] \in Nat /\ ends[r] >= 1 /\ ends[r] <= due
    BY <2>1, <2>2 DEF IInv, EndsInv
  <2>4. due \in Nat /\ Len(file) \in Nat /\ Len(file) >= due
    BY DEF IInv, DueInv, TraceInv, TraceTypeOK
  <2> QED
    BY <2>3, <2>4
<1> QED
  BY <1>1, Invariant, PTL

(* The text of an answer is that of one stream, and the clients were shown  *)
(* tokens of the first stream only, for any number of attempts and streams  *)
(* of any length (AnthropicProvider.chat).                                  *)
THEOREM AnswerMatchesStreamHolds ==
  DaemonSpec => [](AnswerMatchesStream /\ ShownIsFirstStream)
<1>1. IInv => AnswerMatchesStream /\ ShownIsFirstStream
  BY DEF IInv, ChatInv, ChatOK, AnswerMatchesStream, ShownIsFirstStream
<1> QED
  BY <1>1, Invariant, PTL

(* A run that was told to stop calls the model no more: from the signal on, *)
(* an awaited run is at the end of its call, publishes its end or is over   *)
(* (CoreApp.run, AgentRunner.run_and_capture; except Exception in the       *)
(* retries of chat catches no cancellation).                                *)
WindsDown(r) ==
  \/ work[r] \in {"finishing", "over"}
  \/ work[r] = "running" /\ pc[r] \in Final

AwaitedWindsDown == \A r \in awaited : WindsDown(r)

(* The way down: the place of each stage, and the steps an awaited run has  *)
(* still to take.                                                           *)
Place(s) ==
  CASE s = "loading" -> 1 [] s = "starting" -> 2 [] s = "serving" -> 3
    [] s = "gathering" -> 4 [] s = "stopping" -> 5 [] s = "closing" -> 6
    [] s = "joining" -> 7 [] s = "joined" -> 8 [] s = "exiting" -> 9
    [] s = "unwinding" -> 10 [] s = "ended" -> 11

StepsLeft(r) ==
  CASE work[r] = "running" -> 2 [] work[r] = "finishing" -> 1 [] OTHER -> 0

(* No step goes back: the daemon leaves every stage for a later one, the    *)
(* awaited runs stay the same ones from the signal on, and none of them     *)
(* gets further from its end, whatever the other requests do meanwhile.     *)
ShutdownStep ==
  /\ stage' # stage => Place(stage') > Place(stage)
  /\ stage # "serving" => awaited' = awaited
  /\ \A r \in awaited : work'[r] # work[r] => StepsLeft(r)' < StepsLeft(r)

ShutdownAdvances == [][ShutdownStep]_vars

\* A step of one request changes nothing else that counts here.
LEMMA OneRequestWinds ==
  ASSUME OrderInv, ChatTypeOK, AwaitedWindsDown, NEW r \in Requests,
         Accept(r) \/ Moves(r) \/ RunFails(r) \/ Breaks(r)
  PROVE  /\ UNCHANGED <<stage, awaited>>
         /\ \A q \in awaited \ {r} : work'[q] = work[q] /\ pc'[q] = pc[q]
         /\ r \in awaited => /\ WindsDown(r)'
                             /\ work'[r] # work[r] => StepsLeft(r)' < StepsLeft(r)
<1>0. /\ awaited \subseteq Requests /\ Requests = Chats
      /\ work \in [Requests ->
           {"none", "creating", "opening", "running", "finishing", "over"}]
      /\ pc \in [Requests -> {"idle", "streaming"} \cup Publishing \cup Final]
      /\ r \in awaited => WindsDown(r)
  BY DaemonAssumption DEF OrderInv, ChatTypeOK, AwaitedWindsDown, Requests
<1> USE DEF WindsDown, StepsLeft, Final, Publishing
<1>1. CASE Accept(r) \/ Created(r)
  BY <1>0, <1>1 DEF Accept, Created, Work, chatVars
<1>2. CASE Opened(r)
  BY <1>0, <1>2 DEF Opened, Work, Call, Goto
<1>3. CASE RunCalls(r)
  <2>1. UNCHANGED <<stage, work, awaited>>
    BY <1>3 DEF RunCalls, daemonVars
  <2>2. pc[r] \notin Final /\ \E v : pc' = [pc EXCEPT ![r] = v]
    <3>1. CASE Text(r) \/ Thinking(r)
      <4>1. pc[r] = "streaming"
        BY <3>1 DEF Text, Thinking
      <4>2. Goto(r, "token") \/ Goto(r, "thought") \/ pc' = pc
        BY <3>1 DEF Text, Thinking
      <4>3. pc = [pc EXCEPT ![r] = pc[r]]
        BY <1>0
      <4> QED
        BY <4>1, <4>2, <4>3 DEF Goto
    <3>2. CASE Dropped(r)
      <4>1. pc[r] = "streaming"
        BY <3>2 DEF Dropped
      <4>2. Goto(r, "raised") \/ pc' = pc
        BY <3>2 DEF Dropped
      <4>3. pc = [pc EXCEPT ![r] = pc[r]]
        BY <1>0
      <4> QED
        BY <4>1, <4>2, <4>3 DEF Goto
    <3>3. CASE Selected(r) \/ TokenPublished(r) \/ ThoughtPublished(r) \/ Answered(r)
      BY <3>3 DEF Selected, TokenPublished, ThoughtPublished, Answered, Goto
    <3>4. CASE StreamEnds(r) \/ Fails(r)
      BY <3>4 DEF StreamEnds, Fails, Goto
    <3> QED
      BY <1>3, <3>1, <3>2, <3>3, <3>4 DEF RunCalls, ChatStep
  <2>3. work[r] = "running"
    BY <1>3 DEF RunCalls
  <2>4. r \notin awaited
    BY <1>0, <2>2, <2>3
  <2> QED
    BY <1>0, <2>1, <2>2, <2>4
<1>4. CASE RunFails(r)
  BY <1>0, <1>4 DEF RunFails, PublishRaises, Goto, daemonVars
<1>5. CASE Finish(r)
  BY <1>0, <1>5 DEF Finish, Work, Forget, Goto
<1>6. CASE Finished(r) \/ Breaks(r)
  BY <1>0, <1>6 DEF Finished, Breaks, Work, chatVars
<1> QED
  BY <1>1, <1>2, <1>3, <1>4, <1>5, <1>6 DEF Moves

LEMMA CancelWinds ==
  ASSUME OrderInv, ChatTypeOK, AwaitedWindsDown, NEW R, Cancel(R), R \subseteq Requests
  PROVE  /\ \A q \in awaited : /\ WindsDown(q)'
                               /\ work'[q] # work[q] => StepsLeft(q)' < StepsLeft(q)
         /\ \A q \in R : work[q] # "none" => WindsDown(q)'
<1>0. awaited \subseteq Requests /\ Requests = Chats
  BY DaemonAssumption DEF OrderInv, Requests
<1>1. /\ \A q \in Requests :
           work'[q] = IF q \in R /\ Alive(q) /\ work[q] # "running" THEN "over" ELSE work[q]
      /\ \A q \in Requests :
           pc'[q] = IF q \in R /\ work[q] = "running" /\ pc[q] \notin Final
                    THEN "cancelled" ELSE pc[q]
  BY <1>0 DEF Cancel
<1>2. \A q \in R : work[q] # "none" => WindsDown(q)'
  BY <1>1 DEF WindsDown, Alive, Final
<1>3. \A q \in awaited : WindsDown(q)'
  BY <1>0, <1>1 DEF AwaitedWindsDown, WindsDown, Final
<1>4. \A q \in awaited : work'[q] # work[q] => StepsLeft(q)' < StepsLeft(q)
  BY <1>0, <1>1 DEF AwaitedWindsDown, WindsDown, StepsLeft, Alive
<1> QED
  BY <1>2, <1>3, <1>4

LEMMA WindsDownKeeps ==
  ASSUME IInv, AwaitedWindsDown, [DaemonNext]_vars
  PROVE  AwaitedWindsDown' /\ ShutdownStep
<1>0. OrderInv /\ ChatTypeOK
  BY DEF IInv, ChatInv
<1>1. CASE CoreStep /\ ~Exit
  <2>1. UNCHANGED <<pc, work, awaited>>
    BY <1>1 DEF CoreStep, Load, KeyMissing, StartServers, Listen, Gathered,
       StopServers, CloseServer, Join, StopTrace, End, chatVars
  <2>2. stage' # stage => Place(stage') > Place(stage)
    BY <1>1 DEF CoreStep, Load, KeyMissing, StartServers, Listen, Gathered,
       StopServers, CloseServer, Join, StopTrace, End, At, Place
  <2> QED
    BY <2>1, <2>2 DEF AwaitedWindsDown, WindsDown, ShutdownStep
<1>2. CASE Exit
  <2>1. Cancel(Requests) /\ awaited' = awaited /\ At("exiting", "unwinding")
    BY <1>2 DEF Exit
  <2>2. Place(stage') > Place(stage)
    BY <2>1 DEF At, Place
  <2> QED
    BY <1>0, <2>1, <2>2, CancelWinds DEF AwaitedWindsDown, ShutdownStep
<1>3. CASE Shutdown
  <2>1. Cancel(RunningRuns) /\ awaited' = RunningRuns /\ At("serving", "gathering")
    BY <1>3 DEF Shutdown
  <2>2. RunningRuns \subseteq Requests /\ \A q \in RunningRuns : work[q] # "none"
    BY DaemonAssumption DEF RunningRuns, Alive, Requests
  <2>3. Place(stage') > Place(stage) /\ stage = "serving"
    BY <2>1 DEF At, Place
  <2>4. awaited = {}
    BY <1>0, <2>3 DEF OrderInv, Before
  <2> QED
    BY <1>0, <2>1, <2>2, <2>3, <2>4, CancelWinds DEF AwaitedWindsDown, ShutdownStep
<1>4. CASE TraceRuns \/ ClientStalls \/ UNCHANGED vars
  <2>1. UNCHANGED <<pc, work, awaited, stage>>
    BY <1>4 DEF TraceRuns, ClientStalls, Stall, vars, chatVars, daemonVars
  <2> QED
    BY <2>1 DEF AwaitedWindsDown, WindsDown, ShutdownStep
<1>5. ASSUME NEW r \in Requests, Accept(r) \/ Moves(r) \/ RunFails(r) \/ Breaks(r)
      PROVE  AwaitedWindsDown' /\ ShutdownStep
  <2>1. /\ UNCHANGED <<stage, awaited>>
        /\ \A q \in awaited \ {r} : work'[q] = work[q] /\ pc'[q] = pc[q]
        /\ r \in awaited => /\ WindsDown(r)'
                            /\ work'[r] # work[r] => StepsLeft(r)' < StepsLeft(r)
    BY <1>0, <1>5, OneRequestWinds
  <2>2. \A q \in awaited : WindsDown(q)'
    BY <2>1 DEF AwaitedWindsDown, WindsDown
  <2>3. \A q \in awaited : work'[q] # work[q] => StepsLeft(q)' < StepsLeft(q)
    BY <2>1
  <2> QED
    BY <2>1, <2>2, <2>3 DEF AwaitedWindsDown, ShutdownStep
<1> QED
  BY <1>1, <1>2, <1>3, <1>4, <1>5 DEF DaemonNext

LEMMA WindsDownInvariant == DaemonSpec => []AwaitedWindsDown
<1>1. DaemonInit => AwaitedWindsDown
  BY DEF DaemonInit, AwaitedWindsDown
<1>2. IInv /\ AwaitedWindsDown /\ [DaemonNext]_vars => AwaitedWindsDown'
  BY WindsDownKeeps
<1> QED
  BY <1>1, <1>2, Invariant, PTL DEF DaemonSpec

(* No run that was told to stop calls the model again, for any number of    *)
(* requests and wherever in a stream the signal finds it.                   *)
THEOREM AwaitedWindsDownHolds == DaemonSpec => []AwaitedWindsDown
BY WindsDownInvariant

(* The shutdown only moves on: what DaemonEnds needs of every step, whoever *)
(* takes it, beside the fairness that makes the steps happen.               *)
THEOREM ShutdownAdvancesHolds == DaemonSpec => ShutdownAdvances
<1>1. IInv /\ AwaitedWindsDown /\ [DaemonNext]_vars => [ShutdownStep]_vars
  BY WindsDownKeeps
<1> QED
  BY <1>1, Invariant, WindsDownInvariant, PTL DEF DaemonSpec, ShutdownAdvances

-----------------------------------------------------------------------------
(* The terminal UI: what its inductive invariant says. *)

\* Either the loop serves a connection, and a reader was started for it, or
\* there is none.
Linked ==
  /\ client <=> loop \in {"subscribing", "creating", "serving"}
  /\ client <=> conn # "none"
  /\ client <=> reader # "off"
  /\ session => loop = "serving"
  /\ conn = "open" => reader = "reading"

\* The daemon owes nothing to a connection that is gone.
Closed ==
  /\ conn # "open" => cmds = {} /\ turn = NoTurn /\ ~subscribed
  /\ conn \in {"eof", "reset"} => outages > 0

\* A handshake that goes on has subscribed.
Handshake ==
  conn = "open" =>
    /\ loop \in {"creating", "serving"} => subscribed
    /\ loop = "subscribing" /\ status[Subscribe] = "result" => subscribed
    /\ \A k \in DOMAIN wire :
         wire[k].type = "result" /\ wire[k].cmd = Subscribe => subscribed

\* Messages are sent, and worked on, only where the handshake is over.
Sending ==
  /\ \A i \in Messages : status[Send(i)] = "queued" =>
                            loop \in {"serving", "sleeping", "ended"}
  /\ \A i \in Messages : Send(i) \in cmds => loop = "serving"
  /\ turn.at # "none" => loop = "serving" /\ turn.of \in Messages

\* The end of message i's turn was told.
Told(i) ==
  i \in idled \/ \E j \in DOMAIN wire : wire[j].type = "session.idle" /\ wire[j].n = i

\* Its session.idle precedes the result of a message.
IdleFirst ==
  /\ turn.at = "closing" => Told(turn.of)
  /\ \A k \in DOMAIN wire : \A i \in Messages :
       wire[k].type = "result" /\ wire[k].cmd = Send(i) =>
         i \in idled \/ \E j \in DOMAIN wire :
                           j < k /\ wire[j].type = "session.idle" /\ wire[j].n = i

UiInv ==
  /\ TypeOK
  /\ Linked /\ Closed /\ Handshake /\ Sending /\ IdleFirst
  /\ AwaitedIsUnderWay /\ ResultFindsUnlocked

-----------------------------------------------------------------------------
(* Commands and lines. *)

WireLines == [type: {"result", "error"} \cup EventTypes, cmd: Commands, n: PermissionIds]

Answers(lines, c) ==
  \E k \in DOMAIN lines : lines[k].type \in {"result", "error"} /\ lines[k].cmd = c

Tells(lines, i) ==
  \E k \in DOMAIN lines : lines[k].type = "session.idle" /\ lines[k].n = i

LEMMA CommandFacts ==
  /\ Subscribe \in Commands /\ Create \in Commands /\ Subscribe # Create
  /\ Messages \subseteq PermissionIds
  /\ Foreign \in PermissionIds /\ 0 \in PermissionIds
  /\ \A i \in Messages :
       /\ Send(i) \in Commands /\ Send(i) # Subscribe /\ Send(i) # Create
       /\ \A j \in Messages : Send(i) = Send(j) => i = j
       /\ \A r \in PermissionIds : Respond(r) # Send(i)
  /\ \A r \in PermissionIds :
       Respond(r) \in Commands /\ Respond(r) # Subscribe /\ Respond(r) # Create
<1>1. 0 \in PermissionIds /\ Foreign \in PermissionIds
  BY TuiAssumption DEF PermissionIds, Foreign
<1>2. Messages \subseteq PermissionIds
  BY DEF PermissionIds
<1> QED
  BY <1>1, <1>2 DEF Commands, Subscribe, Create, Send, Respond

LEMMA ReplyFacts ==
  ASSUME NEW c \in Commands, NEW ok \in BOOLEAN
  PROVE  /\ Reply(c, ok) \in WireLines /\ Reply(c, ok).cmd = c
         /\ Reply(c, ok).type = IF ok THEN "result" ELSE "error"
BY CommandFacts DEF Reply, WireLines, Foreign

LEMMA EventFacts ==
  ASSUME NEW type \in EventTypes, NEW n \in PermissionIds
  PROVE  /\ Event(type, n) \in WireLines
         /\ Event(type, n).type = type /\ Event(type, n).n = n
         /\ type \notin {"result", "error"}
BY CommandFacts DEF Event, WireLines, EventTypes

\* A published event is a line if the connection is subscribed.
LEMMA PublishedFacts ==
  ASSUME NEW type \in EventTypes, NEW n \in PermissionIds
  PROVE  /\ Published(type, n) \in Seq(WireLines)
         /\ \A k \in DOMAIN Published(type, n) :
              Published(type, n)[k].type = type /\ Published(type, n)[k].n = n
         /\ subscribed => Published(type, n) # <<>> /\ 1 \in DOMAIN Published(type, n)
         /\ ~subscribed => Published(type, n) = <<>>
<1>1. CASE subscribed
  <2>1. Published(type, n) = <<Event(type, n)>>
    BY <1>1 DEF Published
  <2>2. Event(type, n) \in WireLines /\ Event(type, n).type = type /\ Event(type, n).n = n
    BY EventFacts
  <2> HIDE DEF Published
  <2>3. DOMAIN <<Event(type, n)>> = {1} /\ <<Event(type, n)>> \in Seq(WireLines)
        /\ <<Event(type, n)>>[1] = Event(type, n)
    BY <2>2
  <2> QED
    BY <1>1, <2>1, <2>2, <2>3
<1>2. CASE ~subscribed
  <2>1. Published(type, n) = <<>>
    BY <1>2 DEF Published
  <2> QED
    BY <1>2, <2>1
<1> QED
  BY <1>1, <1>2

\* One reply, alone or before an event.
LEMMA OneReply ==
  ASSUME NEW c \in Commands, NEW ok \in BOOLEAN
  PROVE  /\ <<Reply(c, ok)>> \in Seq(WireLines) /\ Answers(<<Reply(c, ok)>>, c)
         /\ \A k \in DOMAIN <<Reply(c, ok)>> :
              /\ <<Reply(c, ok)>>[k].cmd = c
              /\ <<Reply(c, ok)>>[k].type = IF ok THEN "result" ELSE "error"
<1>1. /\ Reply(c, ok) \in WireLines /\ Reply(c, ok).cmd = c
      /\ Reply(c, ok).type = IF ok THEN "result" ELSE "error"
  BY ReplyFacts
<1>2. /\ <<Reply(c, ok)>> \in Seq(WireLines) /\ DOMAIN <<Reply(c, ok)>> = {1}
      /\ <<Reply(c, ok)>>[1] = Reply(c, ok)
  BY <1>1
<1> QED
  BY <1>1, <1>2 DEF Answers

LEMMA LinesJoined ==
  ASSUME NEW S, NEW s \in Seq(S), NEW t \in Seq(S)
  PROVE  /\ s \o t \in Seq(S)
         /\ \A k \in DOMAIN s : k \in DOMAIN (s \o t) /\ (s \o t)[k] = s[k]
         /\ \A k \in DOMAIN t :
              Len(s) + k \in DOMAIN (s \o t) /\ (s \o t)[Len(s) + k] = t[k]
         /\ \A k \in DOMAIN (s \o t) :
              k \in DOMAIN s \/ \E j \in DOMAIN t : k = Len(s) + j
<1>1. /\ s \o t \in Seq(S) /\ Len(s \o t) = Len(s) + Len(t)
      /\ Len(s) \in Nat /\ Len(t) \in Nat
      /\ DOMAIN s = 1 .. Len(s) /\ DOMAIN t = 1 .. Len(t)
      /\ DOMAIN (s \o t) = 1 .. Len(s) + Len(t)
      /\ \A k \in 1 .. Len(s) + Len(t) :
           (s \o t)[k] = IF k <= Len(s) THEN s[k] ELSE t[k - Len(s)]
  OBVIOUS
<1>2. \A k \in 1 .. Len(s) : k \in 1 .. Len(s) + Len(t) /\ k <= Len(s)
  BY <1>1
<1>3. \A k \in 1 .. Len(t) :
        /\ Len(s) + k \in 1 .. Len(s) + Len(t) /\ ~(Len(s) + k <= Len(s))
        /\ Len(s) + k - Len(s) = k
  BY <1>1
<1>4. \A k \in 1 .. Len(s) + Len(t) : k \in 1 .. Len(s) \/ \E j \in 1 .. Len(t) : k = Len(s) + j
  <2> SUFFICES ASSUME NEW k \in 1 .. Len(s) + Len(t), k \notin 1 .. Len(s)
               PROVE  \E j \in 1 .. Len(t) : k = Len(s) + j
    OBVIOUS
  <2>1. k - Len(s) \in 1 .. Len(t) /\ k = Len(s) + (k - Len(s))
    BY <1>1
  <2> QED
    BY <2>1
<1>5. \A k \in DOMAIN s : k \in DOMAIN (s \o t) /\ (s \o t)[k] = s[k]
  BY <1>1, <1>2
<1>6. \A k \in DOMAIN t :
        Len(s) + k \in DOMAIN (s \o t) /\ (s \o t)[Len(s) + k] = t[k]
  BY <1>1, <1>3
<1>7. \A k \in DOMAIN (s \o t) : k \in DOMAIN s \/ \E j \in DOMAIN t : k = Len(s) + j
  BY <1>1, <1>4
<1> QED
  BY <1>1, <1>5, <1>6, <1>7

-----------------------------------------------------------------------------
(* What the daemon does keeps the invariant. *)

LEMMA DaemonTypes ==
  ASSUME TypeOK, NEW lines \in Seq(WireLines), wire' = wire \o lines, ClientUnchanged,
         {up', subscribed', resumes'} \subseteq BOOLEAN, conn' = conn,
         turn' \in Turns,
         cmds' \subseteq cmds, orphans' \subseteq Turns, sends' = sends,
         outages' \in 0 .. MaxOutages, foreign' \in 0 .. MaxForeign,
         asks' \in 0 .. MaxAsks
  PROVE  TypeOK'
<1>1. wire \in Seq(WireLines)
  BY DEF TypeOK, WireLines
<1>2. wire' \in Seq([type: {"result", "error"} \cup EventTypes, cmd: Commands,
                     n: PermissionIds])
  <2>1. wire' \in Seq(WireLines)
    BY <1>1
  <2> QED
    BY <2>1 DEF WireLines
<1> QED
  BY <1>2 DEF TypeOK, ClientUnchanged, ui, conns

\* The daemon writes lines.  What it takes up it answers, now or with the turn;
\* the reply of a turn comes after its session.idle.
LEMMA DaemonKeeps ==
  ASSUME UiInv, TypeOK', NEW lines \in Seq(WireLines), wire' = wire \o lines,
         ClientUnchanged, conn' = conn, cmds' \subseteq cmds,
         \A c \in cmds : \/ c \in cmds' \/ Answers(lines, c)
                         \/ turn'.at # "none" /\ c = Send(turn'.of),
         turn.at # "none" => \/ turn'.at # "none" /\ turn'.of = turn.of
                             \/ Answers(lines, Send(turn.of)),
         turn'.at # "none" => \/ turn.at # "none" /\ turn'.of = turn.of
                              \/ turn'.of \in Messages /\ Send(turn'.of) \in cmds,
         turn'.at = "closing" => \/ turn.at = "closing" /\ turn'.of = turn.of
                                 \/ Tells(lines, turn'.of),
         conn # "open" => turn' = turn /\ subscribed' = subscribed,
         subscribed => subscribed', outages > 0 => outages' > 0,
         \A k \in DOMAIN lines : lines[k].type = "result" =>
           /\ lines[k].cmd = Subscribe => subscribed'
           /\ \A i \in Messages : lines[k].cmd = Send(i) => Told(i)
  PROVE  UiInv'
<1>1. /\ TypeOK /\ Linked /\ Closed /\ Handshake /\ Sending /\ IdleFirst
      /\ AwaitedIsUnderWay /\ ResultFindsUnlocked
  BY DEF UiInv
<1>2. wire \in Seq(WireLines)
  BY <1>1 DEF TypeOK, WireLines
<1>3. /\ Len(wire) \in Nat /\ DOMAIN wire = 1 .. Len(wire) /\ DOMAIN lines \subseteq Nat \ {0}
      /\ \A k \in DOMAIN wire : k \in DOMAIN wire' /\ wire'[k] = wire[k]
      /\ \A k \in DOMAIN lines :
           Len(wire) + k \in DOMAIN wire' /\ wire'[Len(wire) + k] = lines[k]
      /\ \A k \in DOMAIN wire' :
           k \in DOMAIN wire \/ \E j \in DOMAIN lines : k = Len(wire) + j
  <2>1. /\ \A k \in DOMAIN wire : k \in DOMAIN wire' /\ wire'[k] = wire[k]
        /\ \A k \in DOMAIN lines :
             Len(wire) + k \in DOMAIN wire' /\ wire'[Len(wire) + k] = lines[k]
        /\ \A k \in DOMAIN wire' :
             k \in DOMAIN wire \/ \E j \in DOMAIN lines : k = Len(wire) + j
    BY <1>2, LinesJoined
  <2>2. Len(wire) \in Nat /\ DOMAIN wire = 1 .. Len(wire) /\ DOMAIN lines \subseteq Nat \ {0}
    BY <1>2
  <2> QED
    BY <2>1, <2>2
<1>4. UNCHANGED <<loop, reader, client, session, status, idled>>
  BY DEF ClientUnchanged, conns
<1>5. Linked'
  BY <1>1, <1>4 DEF Linked
<1>6. Closed'
  BY <1>1 DEF Closed
<1>7. Handshake'
  <2>1. Awaited' = Awaited
    BY <1>4 DEF Awaited
  <2>2. ASSUME conn = "open", NEW k \in DOMAIN wire', wire'[k].type = "result",
               wire'[k].cmd = Subscribe
        PROVE  subscribed'
    <3>1. CASE k \in DOMAIN wire
      BY <1>1, <1>3, <2>2, <3>1 DEF Handshake
    <3>2. CASE \E j \in DOMAIN lines : k = Len(wire) + j
      BY <1>3, <2>2, <3>2
    <3> QED
      BY <1>3, <3>1, <3>2
  <2> QED
    BY <1>1, <1>4, <2>1, <2>2 DEF Handshake
<1>8. Sending'
  BY <1>1, <1>4 DEF Sending
<1>9. ASSUME NEW i, Told(i) PROVE Told(i)'
  BY <1>3, <1>4, <1>9 DEF Told
<1>10. ASSUME NEW i, i = turn'.of, turn'.at = "closing" PROVE Told(i)'
  <2>1. CASE turn.at = "closing" /\ turn'.of = turn.of
    <3>1. Told(i)
      BY <1>1, <1>10, <2>1 DEF IdleFirst
    <3> QED
      BY <1>9, <3>1
  <2>2. CASE Tells(lines, i)
    <3>1. PICK k \in DOMAIN lines : lines[k].type = "session.idle" /\ lines[k].n = i
      BY <2>2 DEF Tells
    <3>2. \E j \in DOMAIN wire' : wire'[j].type = "session.idle" /\ wire'[j].n = i
      BY <1>3, <3>1
    <3> QED
      BY <3>2 DEF Told
  <2> QED
    BY <1>10, <2>1, <2>2
<1>11. ASSUME NEW k \in DOMAIN wire', NEW i \in Messages,
              wire'[k].type = "result", wire'[k].cmd = Send(i)
       PROVE  i \in idled \/ \E j \in DOMAIN wire' :
                               j < k /\ wire'[j].type = "session.idle" /\ wire'[j].n = i
  <2>1. CASE k \in DOMAIN wire
    BY <1>1, <1>3, <1>11, <2>1 DEF IdleFirst
  <2>2. CASE \E j \in DOMAIN lines : k = Len(wire) + j
    <3>1. PICK j \in DOMAIN lines : k = Len(wire) + j
      BY <2>2
    <3>2. Told(i)
      BY <1>3, <1>11, <3>1
    <3>3. \A l \in DOMAIN wire : l < k
      BY <1>3, <3>1
    <3> QED
      BY <1>3, <3>2, <3>3 DEF Told
  <2> QED
    BY <1>3, <2>1, <2>2
<1>12. IdleFirst'
  <2>1. turn'.at = "closing" => Told(turn.of)'
    BY <1>10 DEF Told
  <2>2. \A k \in DOMAIN wire' : \A i \in Messages :
          wire'[k].type = "result" /\ wire'[k].cmd = Send(i) =>
            i \in idled' \/ \E j \in DOMAIN wire' :
                               j < k /\ wire'[j].type = "session.idle" /\ wire'[j].n = i
    BY <1>4, <1>11
  <2> QED
    BY <2>1, <2>2 DEF IdleFirst
<1>13. ASSUME NEW c \in Commands, status[c] = "waiting", conn = "open"
       PROVE  \/ c \in cmds'
              \/ turn'.at # "none" /\ c = Send(turn'.of)
              \/ Answers(wire', c)
  <2>1. Answers(wire, c) => Answers(wire', c)
    BY <1>3 DEF Answers
  <2>2. ASSUME Answers(lines, c) PROVE Answers(wire', c)
    <3>1. PICK k \in DOMAIN lines : lines[k].type \in {"result", "error"} /\ lines[k].cmd = c
      BY <2>2 DEF Answers
    <3>2. Len(wire) + k \in DOMAIN wire' /\ wire'[Len(wire) + k] = lines[k]
      BY <1>3
    <3> QED
      BY <3>1, <3>2 DEF Answers
  <2>3. \/ c \in cmds
        \/ turn.at # "none" /\ c = Send(turn.of)
        \/ Answers(wire, c)
    BY <1>1, <1>13 DEF AwaitedIsUnderWay, Answers
  <2> QED
    BY <2>1, <2>2, <2>3
<1>14. AwaitedIsUnderWay'
  BY <1>1, <1>4, <1>13 DEF AwaitedIsUnderWay, Answers
<1>15. ResultFindsUnlocked'
  BY <1>1, <1>4 DEF ResultFindsUnlocked
<1> QED
  BY <1>5, <1>6, <1>7, <1>8, <1>12, <1>14, <1>15 DEF UiInv

\* What the daemon steps use of the invariant.
LEMMA DaemonFacts ==
  ASSUME UiInv
  PROVE  /\ TypeOK /\ Closed /\ wire \in Seq(WireLines)
         /\ turn \in Turns
         /\ {up, subscribed, resumes} \subseteq BOOLEAN /\ cmds \subseteq Commands
         /\ outages \in 0 .. MaxOutages /\ foreign \in 0 .. MaxForeign
         /\ asks \in 0 .. MaxAsks /\ orphans \subseteq Turns
         /\ turn.at # "none" => turn.of \in Messages /\ conn = "open" /\ subscribed
         /\ cmds # {} => conn = "open"
         /\ \A i \in Messages : Send(i) \in cmds => subscribed
         /\ turn.at = "closing" => Told(turn.of)
<1>1. /\ TypeOK /\ Linked /\ Closed /\ Handshake /\ Sending /\ IdleFirst
  BY DEF UiInv
<1>2. wire \in Seq(WireLines)
  BY <1>1 DEF TypeOK, WireLines
<1>3. turn.at # "none" => turn.of \in Messages /\ conn = "open" /\ subscribed
  BY <1>1 DEF Closed, NoTurn, Sending, Handshake
<1>4. /\ cmds # {} => conn = "open"
      /\ \A i \in Messages : Send(i) \in cmds => subscribed
  BY <1>1 DEF Closed, Sending, Handshake
<1> QED
  BY <1>1, <1>2, <1>3, <1>4 DEF TypeOK, IdleFirst

LEMMA HandleSubscribeKeeps ==
  ASSUME UiInv, HandleSubscribe
  PROVE  UiInv'
<1> DEFINE lines == <<Reply(Subscribe, TRUE)>>
<1>1. /\ lines \in Seq(WireLines) /\ Answers(lines, Subscribe)
      /\ \A k \in DOMAIN lines : lines[k].cmd = Subscribe
  BY CommandFacts, OneReply
<1>2. /\ Subscribe \in cmds /\ cmds' = cmds \ {Subscribe} /\ subscribed' = TRUE
      /\ wire' = wire \o lines /\ ClientUnchanged
      /\ UNCHANGED <<up, turn, resumes, orphans, conn, sends, outages, foreign, asks>>
  BY DEF HandleSubscribe, Lines, bounds
<1> HIDE DEF lines
<1>3. TypeOK'
  BY <1>1, <1>2, DaemonFacts, DaemonTypes
<1>4. \A i \in Messages : Send(i) # Subscribe
  BY CommandFacts
<1> QED
  BY <1>1, <1>2, <1>3, <1>4, DaemonFacts, DaemonKeeps

LEMMA HandleCreateKeeps ==
  ASSUME UiInv, HandleCreate
  PROVE  UiInv'
<1>1. PICK ok \in BOOLEAN :
        /\ wire' = wire \o <<Reply(Create, ok)>>
        /\ outages' = outages \/ (outages < MaxOutages /\ outages' = outages + 1)
  BY DEF HandleCreate, Lines
<1> DEFINE lines == <<Reply(Create, ok)>>
<1>2. /\ lines \in Seq(WireLines) /\ Answers(lines, Create)
      /\ \A k \in DOMAIN lines : lines[k].cmd = Create
  BY CommandFacts, OneReply
<1>3. /\ Create \in cmds /\ cmds' = cmds \ {Create}
      /\ wire' = wire \o lines /\ ClientUnchanged
      /\ UNCHANGED <<up, turn, resumes, orphans, conn, subscribed, sends, foreign, asks>>
  BY <1>1 DEF HandleCreate
<1> HIDE DEF lines
<1>4. outages' \in 0 .. MaxOutages
  BY <1>1, DaemonFacts, TuiAssumption
<1>5. TypeOK'
  BY <1>2, <1>3, <1>4, DaemonFacts, DaemonTypes
<1>6. Create # Subscribe /\ \A i \in Messages : Send(i) # Create
  BY CommandFacts
<1>7. outages > 0 => outages' > 0
  BY <1>1, DaemonFacts, TuiAssumption
<1> QED
  BY <1>2, <1>3, <1>5, <1>6, <1>7, DaemonFacts, DaemonKeeps

LEMMA StartTurnKeeps ==
  ASSUME UiInv, NEW i \in Messages, StartTurn(i)
  PROVE  UiInv'
<1>1. /\ Send(i) \in cmds /\ cmds' = cmds \ {Send(i)} /\ ClientUnchanged
      /\ UNCHANGED <<up, resumes, orphans, conn, subscribed, sends, outages, foreign, asks>>
  BY DEF StartTurn, bounds
<1>2. /\ Send(i) # Subscribe /\ i \in PermissionIds /\ Send(i) \in Commands
      /\ \A j \in Messages : Send(i) = Send(j) => i = j
  BY CommandFacts
<1>3. CASE /\ turn.at = "none"
           /\ turn' = Started(i)
           /\ Lines(IF resumes THEN Published("session.resumed", i) ELSE <<>>)
  <2> DEFINE lines == IF resumes THEN Published("session.resumed", i) ELSE <<>>
  <2>1. lines \in Seq(WireLines) /\ \A k \in DOMAIN lines : lines[k].type = "session.resumed"
    <3>1. /\ Published("session.resumed", i) \in Seq(WireLines)
          /\ \A k \in DOMAIN Published("session.resumed", i) :
               Published("session.resumed", i)[k].type = "session.resumed"
      BY <1>2, PublishedFacts DEF EventTypes
    <3>2. <<>> \in Seq(WireLines) /\ DOMAIN <<>> = {}
      OBVIOUS
    <3> QED
      BY <3>1, <3>2
  <2>2. wire' = wire \o lines
    BY <1>3 DEF Lines
  <2> HIDE DEF lines
  <2>3. /\ turn' \in Turns
        /\ turn'.at = "running" /\ turn'.of = i
    BY <1>3, CommandFacts DEF Started, Turns, Underway
  <2>4. TypeOK'
    BY <1>1, <2>1, <2>2, <2>3, DaemonFacts, DaemonTypes
  <2> QED
    BY <1>1, <1>3, <2>1, <2>2, <2>3, <2>4, DaemonFacts, DaemonKeeps
<1>4. CASE /\ turn.at # "none"
           /\ Lines(<<Reply(Send(i), FALSE)>>)
           /\ UNCHANGED turn
  <2> DEFINE lines == <<Reply(Send(i), FALSE)>>
  <2>1. /\ lines \in Seq(WireLines) /\ Answers(lines, Send(i))
        /\ \A k \in DOMAIN lines : lines[k].type = "error"
    BY <1>2, OneReply
  <2>2. wire' = wire \o lines
    BY <1>4 DEF Lines
  <2> HIDE DEF lines
  <2>3. TypeOK'
    BY <1>1, <1>4, <2>1, <2>2, DaemonFacts, DaemonTypes
  <2> QED
    BY <1>1, <1>4, <2>1, <2>2, <2>3, DaemonFacts, DaemonKeeps
<1> QED
  BY <1>3, <1>4 DEF StartTurn

\* A turn goes on, be it this connection's or an orphan.
LEMMA TurnGoesOn ==
  ASSUME UiInv, NEW s \in orphans \cup {turn}, s.at \in Underway,
         NEW t \in Turns, t.at \in Underway, t.of = s.of, GoesOn(s, t)
  PROVE  /\ turn' \in Turns /\ orphans' \subseteq Turns
         /\ turn'.of = turn.of
         /\ (turn'.at # "none" <=> turn.at # "none")
         /\ (turn'.at = "closing" <=> turn.at = "closing")
         /\ (conn # "open" => turn' = turn)
<1>1. turn \in Turns /\ orphans \subseteq Turns /\ (turn.at # "none" => conn = "open")
  BY DaemonFacts
<1>2. \A at \in Underway : at # "none" /\ at # "closing"
  BY DEF Underway
<1>3. CASE s = turn /\ turn' = t /\ UNCHANGED orphans
  <2>1. turn' \in Turns /\ orphans' \subseteq Turns
    BY <1>1, <1>3
  <2>2. turn'.of = turn.of
    BY <1>3
  <2>3. /\ turn.at # "none" /\ turn'.at # "none"
        /\ turn.at # "closing" /\ turn'.at # "closing"
    BY <1>2, <1>3
  <2>4. conn = "open"
    BY <1>1, <2>3
  <2> QED
    BY <2>1, <2>2, <2>3, <2>4
<1>4. CASE s \in orphans /\ orphans' = (orphans \ {s}) \cup {t} /\ UNCHANGED turn
  <2>1. orphans' \subseteq Turns
    BY <1>1, <1>4, Zenon
  <2> QED
    BY <1>1, <1>4, <2>1
<1> QED
  BY <1>3, <1>4 DEF GoesOn

\* It tells what it likes but of its end.
LEMMA UnderwayKeeps ==
  ASSUME UiInv, NEW s \in orphans \cup {turn}, s.at \in Underway,
         NEW t \in Turns, t.at \in Underway, t.of = s.of, GoesOn(s, t),
         NEW lines \in Seq(WireLines), wire' = wire \o lines,
         \A k \in DOMAIN lines : lines[k].type # "result",
         ClientUnchanged, asks' \in 0 .. MaxAsks,
         UNCHANGED <<up, cmds, resumes, conn, subscribed, sends, outages, foreign>>
  PROVE  UiInv'
<1>1. /\ turn' \in Turns /\ orphans' \subseteq Turns
      /\ turn'.of = turn.of
      /\ (turn'.at # "none" <=> turn.at # "none")
      /\ (turn'.at = "closing" <=> turn.at = "closing")
      /\ (conn # "open" => turn' = turn)
  BY TurnGoesOn
<1>2. TypeOK'
  BY <1>1, DaemonFacts, DaemonTypes
<1>3. /\ (outages > 0 => outages' > 0) /\ (subscribed => subscribed')
      /\ (conn # "open" => turn' = turn /\ subscribed' = subscribed)
  BY <1>1
<1>4. \A k \in DOMAIN lines : lines[k].type = "result" =>
        /\ lines[k].cmd = Subscribe => subscribed'
        /\ \A i \in Messages : lines[k].cmd = Send(i) => Told(i)
  OBVIOUS
<1> QED
  BY <1>1, <1>2, <1>3, <1>4, DaemonKeeps

\* What a turn that is asked, or answered, is then.
LEMMA Asked ==
  ASSUME NEW s \in Turns, NEW at \in Underway
  PROVE  /\ [s EXCEPT !.at = at] \in Turns
         /\ [s EXCEPT !.at = at].at = at /\ [s EXCEPT !.at = at].of = s.of
BY DEF Turns

LEMMA Silence ==
  <<>> \in Seq(WireLines) /\ \A k \in DOMAIN <<>> : FALSE
OBVIOUS

LEMMA AskKeeps ==
  ASSUME UiInv, Ask
  PROVE  UiInv'
<1>1. /\ asks' \in 0 .. MaxAsks /\ asks' \in PermissionIds /\ asks' = asks + 1
      /\ UNCHANGED <<up, cmds, resumes, conn, subscribed, sends, outages, foreign>>
      /\ ClientUnchanged
  <2>1. /\ asks < MaxAsks /\ asks' = asks + 1 /\ ClientUnchanged
        /\ UNCHANGED <<up, cmds, resumes, conn, subscribed, sends, outages, foreign>>
    BY DEF Ask
  <2>2. asks \in 0 .. MaxAsks /\ MaxAsks \in Nat
    BY DaemonFacts, TuiAssumption
  <2>3. asks' \in 0 .. MaxAsks
    BY <2>1, <2>2
  <2> QED
    BY <2>1, <2>3 DEF PermissionIds
<1>2. PICK s \in orphans \cup {turn} :
        /\ s.at = "running"
        /\ \/ /\ GoesOn(s, [s EXCEPT !.at = "asking", !.question = asks'])
              /\ Lines(Published("permission.requested", asks'))
           \/ /\ GoesOn(s, [s EXCEPT !.at = "unheard"])
              /\ Lines(<<>>)
  BY <1>1 DEF Ask
<1>3. s \in Turns /\ {"running", "asking", "unheard"} \subseteq Underway
  BY DaemonFacts DEF Underway
<1>4. CASE /\ GoesOn(s, [s EXCEPT !.at = "asking", !.question = asks'])
           /\ Lines(Published("permission.requested", asks'))
  <2> DEFINE t == [s EXCEPT !.at = "asking", !.question = asks']
             lines == Published("permission.requested", asks')
  <2>1. t \in Turns /\ t.at \in Underway /\ t.of = s.of
    <3>1. "asking" \in Underway
      BY <1>3
    <3>2. s \in Turns /\ asks' \in PermissionIds
      BY <1>1, <1>3
    <3>3. t \in Turns /\ t.at = "asking" /\ t.of = s.of
      BY <3>1, <3>2 DEF Turns
    <3> QED
      BY <3>1, <3>3
  <2>2. /\ lines \in Seq(WireLines)
        /\ \A k \in DOMAIN lines : lines[k].type # "result"
    BY <1>1, CommandFacts, PublishedFacts DEF EventTypes
  <2>3. GoesOn(s, t) /\ wire' = wire \o lines
    BY <1>4 DEF Lines
  <2> HIDE DEF t, lines
  <2> QED
    BY <1>1, <1>2, <1>3, <2>1, <2>2, <2>3, UnderwayKeeps
<1>5. CASE /\ GoesOn(s, [s EXCEPT !.at = "unheard"])
           /\ Lines(<<>>)
  <2> DEFINE t == [s EXCEPT !.at = "unheard"]
  <2>1. t \in Turns /\ t.at \in Underway /\ t.of = s.of
    BY <1>1, <1>3, Asked
  <2>2. GoesOn(s, t) /\ wire' = wire \o <<>>
    BY <1>5 DEF Lines
  <2> HIDE DEF t
  <2> QED
    BY <1>1, <1>2, <1>3, <2>1, <2>2, Silence, UnderwayKeeps
<1> QED
  BY <1>2, <1>4, <1>5

LEMMA AskTimesOutKeeps ==
  ASSUME UiInv, AskTimesOut
  PROVE  UiInv'
<1>1. PICK s \in orphans \cup {turn} :
        /\ s.at \in {"asking", "unheard"}
        /\ GoesOn(s, [s EXCEPT !.at = "running"])
        /\ Lines(IF s.at = "asking" THEN Published("permission.denied", s.question) ELSE <<>>)
  BY DEF AskTimesOut
<1>2. /\ asks' \in 0 .. MaxAsks /\ ClientUnchanged
      /\ UNCHANGED <<up, cmds, resumes, conn, subscribed, sends, outages, foreign>>
  BY DaemonFacts DEF AskTimesOut, bounds
<1>3. s \in Turns /\ {"running", "asking", "unheard"} \subseteq Underway
  BY DaemonFacts DEF Underway
<1>4. s.question \in PermissionIds
  BY <1>3 DEF Turns
<1> DEFINE t == [s EXCEPT !.at = "running"]
           lines == IF s.at = "asking" THEN Published("permission.denied", s.question) ELSE <<>>
<1>5. t \in Turns /\ t.at \in Underway /\ t.of = s.of
  BY <1>3, <1>4, Asked
<1>6. /\ lines \in Seq(WireLines)
      /\ \A k \in DOMAIN lines : lines[k].type # "result"
  <2>1. LET p == Published("permission.denied", s.question)
        IN p \in Seq(WireLines) /\ \A k \in DOMAIN p : p[k].type # "result"
    BY <1>4, CommandFacts, PublishedFacts DEF EventTypes
  <2> QED
    BY <2>1, Silence
<1>7. GoesOn(s, t) /\ wire' = wire \o lines
  BY <1>1 DEF Lines
<1> HIDE DEF t, lines
<1> QED
  BY <1>1, <1>2, <1>3, <1>5, <1>6, <1>7, UnderwayKeeps

LEMMA FinishTurnKeeps ==
  ASSUME UiInv, FinishTurn
  PROVE  UiInv'
<1>1. /\ turn \in Turns /\ turn.of \in Messages /\ turn.of \in PermissionIds
      /\ conn = "open" /\ subscribed /\ turn.at = "running"
  BY DaemonFacts, CommandFacts DEF FinishTurn
<1> DEFINE lines == Published("session.idle", turn.of)
<1>2. /\ lines \in Seq(WireLines)
      /\ \A k \in DOMAIN lines : lines[k].type = "session.idle" /\ lines[k].n = turn.of
      /\ 1 \in DOMAIN lines
  BY <1>1, PublishedFacts DEF EventTypes
<1> HIDE DEF lines
<1>3. turn' \in Turns /\ turn'.at = "closing" /\ turn'.of = turn.of
  BY <1>1 DEF FinishTurn, Turns
<1>4. /\ wire' = wire \o lines /\ ClientUnchanged /\ resumes' \in BOOLEAN
      /\ UNCHANGED <<up, cmds, orphans, conn, subscribed, sends, outages, foreign, asks>>
  BY DEF FinishTurn, Lines, bounds, lines
<1>5. TypeOK'
  BY <1>2, <1>3, <1>4, DaemonFacts, DaemonTypes
<1>6. Tells(lines, turn'.of)
  BY <1>2, <1>3 DEF Tells
<1> QED
  BY <1>1, <1>2, <1>3, <1>4, <1>5, <1>6, DaemonFacts, DaemonKeeps

LEMMA TurnEndKeeps ==
  ASSUME UiInv, ReleaseTurn \/ FailTurn
  PROVE  UiInv'
<1>1. PICK ok \in BOOLEAN :
        /\ turn.at # "none" /\ turn' = NoTurn
        /\ wire' = wire \o <<Reply(Send(turn.of), ok)>>
        /\ ok => turn.at = "closing"
  BY DEF ReleaseTurn, FailTurn, Lines
<1>2. /\ UNCHANGED <<up, cmds, resumes, orphans, conn, subscribed, sends, outages, foreign, asks>>
      /\ ClientUnchanged
  BY DEF ReleaseTurn, FailTurn, bounds
<1>3. PICK i \in Messages : i = turn.of
  BY <1>1, DaemonFacts
<1> DEFINE lines == <<Reply(Send(i), ok)>>
<1>4. /\ Send(i) \in Commands /\ Send(i) # Subscribe
      /\ \A j \in Messages : Send(i) = Send(j) => i = j
  BY CommandFacts
<1>5. /\ lines \in Seq(WireLines) /\ Answers(lines, Send(i))
      /\ \A k \in DOMAIN lines : /\ lines[k].cmd = Send(i)
                                 /\ lines[k].type = IF ok THEN "result" ELSE "error"
  BY <1>4, OneReply
<1>6. wire' = wire \o lines
  BY <1>1, <1>3
<1> HIDE DEF lines
<1>7. /\ turn' \in Turns
      /\ turn'.at = "none"
  BY <1>1, CommandFacts DEF NoTurn, Turns
<1>8. TypeOK'
  BY <1>2, <1>5, <1>6, <1>7, DaemonFacts, DaemonTypes
<1>9. ok => Told(i)
  BY <1>1, <1>3, DaemonFacts
<1>10. \A k \in DOMAIN lines : lines[k].type = "result" =>
         /\ lines[k].cmd = Subscribe => subscribed'
         /\ \A j \in Messages : lines[k].cmd = Send(j) => Told(j)
  BY <1>4, <1>5, <1>9
<1>11. conn = "open"
  BY <1>1, DaemonFacts
<1> QED
  BY <1>1, <1>2, <1>3, <1>5, <1>6, <1>7, <1>8, <1>10, <1>11, DaemonFacts, DaemonKeeps

\* What is answered: the turn whose question it is, or none.
LEMMA Responded ==
  ASSUME UiInv, NEW r \in PermissionIds, HandleRespond(r)
  PROVE  /\ turn' \in Turns /\ orphans' \subseteq Turns
         /\ turn'.of = turn.of
         /\ (turn'.at # "none" <=> turn.at # "none")
         /\ (turn'.at = "closing" <=> turn.at = "closing")
         /\ \E denial \in {<<>>, Published("permission.denied", r)} :
              wire' = wire \o (<<Reply(Respond(r), TRUE)>> \o denial)
<1>1. CASE \E s \in orphans \cup {turn} :
             /\ s.at = "asking" /\ s.question = r
             /\ GoesOn(s, [s EXCEPT !.at = "running"])
             /\ \E denial \in {<<>>, Published("permission.denied", r)} :
                  Lines(<<Reply(Respond(r), TRUE)>> \o denial)
  <2>1. PICK s \in orphans \cup {turn} :
          /\ s.at = "asking" /\ s.question = r
          /\ GoesOn(s, [s EXCEPT !.at = "running"])
          /\ \E denial \in {<<>>, Published("permission.denied", r)} :
               Lines(<<Reply(Respond(r), TRUE)>> \o denial)
    BY <1>1
  <2>2. s \in Turns /\ s.at \in Underway /\ "running" \in Underway
    BY <2>1, DaemonFacts DEF Underway
  <2> DEFINE t == [s EXCEPT !.at = "running"]
  <2>3. t \in Turns /\ t.at \in Underway /\ t.of = s.of /\ GoesOn(s, t)
    BY <2>1, <2>2, Asked
  <2> HIDE DEF t
  <2>4. /\ turn' \in Turns /\ orphans' \subseteq Turns
        /\ turn'.of = turn.of
        /\ (turn'.at # "none" <=> turn.at # "none")
        /\ (turn'.at = "closing" <=> turn.at = "closing")
    BY <2>2, <2>3, TurnGoesOn
  <2> QED
    BY <2>1, <2>4 DEF Lines
<1>2. CASE /\ Lines(<<Reply(Respond(r), TRUE)>>)
           /\ UNCHANGED <<turn, orphans>>
  <2>1. <<Reply(Respond(r), TRUE)>> \o <<>> = <<Reply(Respond(r), TRUE)>>
    OBVIOUS
  <2>2. wire' = wire \o <<Reply(Respond(r), TRUE)>>
    BY <1>2 DEF Lines
  <2> QED
    BY <1>2, <2>1, <2>2, DaemonFacts
<1> QED
  BY <1>1, <1>2 DEF HandleRespond

LEMMA HandleRespondKeeps ==
  ASSUME UiInv, NEW r \in PermissionIds, HandleRespond(r)
  PROVE  UiInv'
<1>1. /\ Respond(r) \in cmds /\ cmds' = cmds \ {Respond(r)} /\ ClientUnchanged
      /\ UNCHANGED <<up, resumes, conn, subscribed, sends, outages, foreign, asks>>
  BY DEF HandleRespond, bounds
<1>2. /\ Respond(r) \in Commands /\ Respond(r) # Subscribe
      /\ \A i \in Messages : Respond(r) # Send(i)
  BY CommandFacts
<1>3. conn = "open"
  BY <1>1, DaemonFacts
<1>4. PICK denial \in {<<>>, Published("permission.denied", r)} :
        wire' = wire \o (<<Reply(Respond(r), TRUE)>> \o denial)
  BY Responded
<1>5. /\ turn' \in Turns /\ orphans' \subseteq Turns
      /\ turn'.of = turn.of
      /\ (turn'.at # "none" <=> turn.at # "none")
      /\ (turn'.at = "closing" <=> turn.at = "closing")
  BY Responded
<1>6. /\ denial \in Seq(WireLines)
      /\ \A k \in DOMAIN denial : denial[k].type = "permission.denied"
  <2>1. /\ Published("permission.denied", r) \in Seq(WireLines)
        /\ \A k \in DOMAIN Published("permission.denied", r) :
             Published("permission.denied", r)[k].type = "permission.denied"
    BY CommandFacts, PublishedFacts DEF EventTypes
  <2> QED
    BY <2>1, Silence
<1> DEFINE reply == <<Reply(Respond(r), TRUE)>>
           lines == reply \o denial
<1>7. /\ reply \in Seq(WireLines) /\ Answers(reply, Respond(r))
      /\ \A k \in DOMAIN reply : reply[k].cmd = Respond(r)
  BY <1>2, OneReply
<1>8. wire' = wire \o lines
  BY <1>4
<1> HIDE DEF reply
<1>9. /\ lines \in Seq(WireLines)
      /\ \A k \in DOMAIN reply : k \in DOMAIN lines /\ lines[k] = reply[k]
      /\ \A k \in DOMAIN denial :
           Len(reply) + k \in DOMAIN lines /\ lines[Len(reply) + k] = denial[k]
      /\ \A k \in DOMAIN lines :
           k \in DOMAIN reply \/ \E j \in DOMAIN denial : k = Len(reply) + j
  BY <1>6, <1>7, LinesJoined
<1> HIDE DEF lines
<1>10. Answers(lines, Respond(r))
  BY <1>7, <1>9 DEF Answers
<1>11. \A k \in DOMAIN lines : lines[k].type = "result" => lines[k].cmd = Respond(r)
  BY <1>6, <1>7, <1>9
<1>13. TypeOK'
  BY <1>1, <1>5, <1>8, <1>9, DaemonFacts, DaemonTypes
<1>15. \A c \in cmds : c \in cmds' \/ Answers(lines, c)
  BY <1>1, <1>10
<1>16. \A k \in DOMAIN lines : lines[k].type = "result" =>
         /\ lines[k].cmd = Subscribe => subscribed'
         /\ \A i \in Messages : lines[k].cmd = Send(i) => Told(i)
  BY <1>2, <1>11
<1>17. cmds' \subseteq cmds
  BY <1>1
<1>18. /\ (outages > 0 => outages' > 0) /\ (subscribed => subscribed')
       /\ (conn # "open" => turn' = turn /\ subscribed' = subscribed)
       /\ loop' = loop /\ conn' = conn
  BY <1>1, <1>3 DEF ClientUnchanged, conns
<1> QED
  BY <1>1, <1>5, <1>8, <1>9, <1>13, <1>15, <1>16, <1>17, <1>18, DaemonKeeps

\* The turns of others only publish.
LEMMA OthersPublish ==
  ASSUME UiInv, NEW lines \in Seq(WireLines), wire' = wire \o lines,
         \A k \in DOMAIN lines : lines[k].type \in EventTypes,
         ClientUnchanged, orphans' \subseteq orphans, foreign' \in 0 .. MaxForeign,
         UNCHANGED <<up, cmds, turn, resumes, conn, subscribed, sends, outages, asks>>
  PROVE  UiInv'
<1>1. TypeOK'
  BY DaemonFacts, DaemonTypes
<1>2. \A k \in DOMAIN lines : lines[k].type # "result"
  BY DEF EventTypes
<1> QED
  BY <1>1, <1>2, DaemonFacts, DaemonKeeps

LEMMA OrphanEndsKeeps ==
  ASSUME UiInv, OrphanEnds
  PROVE  UiInv'
<1>1. PICK s \in orphans :
        /\ orphans' = orphans \ {s}
        /\ \E told \in {<<>>, Published("session.idle", s.of)} : Lines(told)
  BY DEF OrphanEnds
<1>2. PICK lines \in {<<>>, Published("session.idle", s.of)} : wire' = wire \o lines
  BY <1>1 DEF Lines
<1>3. s.of \in PermissionIds
  BY DaemonFacts, CommandFacts DEF Turns
<1>4. lines \in Seq(WireLines) /\ \A k \in DOMAIN lines : lines[k].type \in EventTypes
  <2>1. /\ Published("session.idle", s.of) \in Seq(WireLines)
        /\ \A k \in DOMAIN Published("session.idle", s.of) :
             Published("session.idle", s.of)[k].type \in EventTypes
    BY <1>3, PublishedFacts DEF EventTypes
  <2> QED
    BY <2>1, Silence
<1>5. /\ ClientUnchanged /\ orphans' \subseteq orphans /\ foreign' \in 0 .. MaxForeign
      /\ UNCHANGED <<up, cmds, turn, resumes, conn, subscribed, sends, outages, asks>>
  BY <1>1, DaemonFacts DEF OrphanEnds, bounds
<1> QED
  BY <1>2, <1>4, <1>5, OthersPublish

LEMMA ForeignEventKeeps ==
  ASSUME UiInv, NEW type \in EventTypes, ForeignEvent(type)
  PROVE  UiInv'
<1> DEFINE lines == Published(type, Foreign)
<1>1. lines \in Seq(WireLines) /\ \A k \in DOMAIN lines : lines[k].type = type
  BY CommandFacts, PublishedFacts
<1>2. /\ wire' = wire \o lines /\ ClientUnchanged
      /\ foreign < MaxForeign /\ foreign' = foreign + 1
      /\ UNCHANGED <<up, cmds, turn, resumes, orphans, conn, subscribed, sends, outages, asks>>
  BY DEF ForeignEvent, Lines, daemon
<1> HIDE DEF lines
<1>3. foreign' \in 0 .. MaxForeign
  BY <1>2, DaemonFacts, TuiAssumption
<1>4. \A k \in DOMAIN lines : lines[k].type \in EventTypes
  BY <1>1
<1> QED
  BY <1>1, <1>2, <1>3, <1>4, OthersPublish

\* The connection breaks or the daemon dies: what is left is a prefix of the lines.
LEMMA CutKeeps ==
  ASSUME UiInv, TypeOK', NEW k \in 0 .. Len(wire), wire' = SubSeq(wire, 1, k),
         conn' \in IF conn = "open" THEN {"eof", "reset"} ELSE {conn}, outages' > 0,
         cmds' = {}, ~subscribed', turn' = NoTurn, ClientUnchanged
  PROVE  UiInv'
<1>1. /\ TypeOK /\ Linked /\ Closed /\ Handshake /\ Sending /\ IdleFirst
      /\ AwaitedIsUnderWay /\ ResultFindsUnlocked
  BY DEF UiInv
<1>2. wire \in Seq(WireLines)
  BY <1>1 DEF TypeOK, WireLines
<1>3. /\ Len(wire) \in Nat /\ DOMAIN wire = 1 .. Len(wire) /\ DOMAIN wire' = 1 .. k
      /\ \A j \in 1 .. k : wire'[j] = wire[j]
  BY <1>2
<1>4. UNCHANGED <<loop, reader, client, session, status, idled>> /\ conn' # "open"
  BY DEF ClientUnchanged, conns
<1>5. Linked'
  BY <1>1, <1>4 DEF Linked
<1>6. Closed'
  BY <1>4 DEF Closed
<1>7. Handshake'
  BY <1>1, <1>4 DEF Handshake, Awaited
<1>8. Sending'
  BY <1>1, <1>4 DEF Sending, NoTurn
<1>9. ASSUME NEW n \in DOMAIN wire', NEW i \in Messages,
             wire'[n].type = "result", wire'[n].cmd = Send(i)
      PROVE  i \in idled \/ \E j \in DOMAIN wire' :
                              j < n /\ wire'[j].type = "session.idle" /\ wire'[j].n = i
  <2>1. n \in DOMAIN wire /\ wire[n] = wire'[n] /\ n <= k
    BY <1>3
  <2>2. i \in idled \/ \E j \in DOMAIN wire :
                         j < n /\ wire[j].type = "session.idle" /\ wire[j].n = i
    BY <1>1, <1>9, <2>1 DEF IdleFirst
  <2>3. \A j \in DOMAIN wire : j < n => j \in DOMAIN wire' /\ wire'[j] = wire[j]
    BY <1>3, <2>1
  <2> QED
    BY <2>2, <2>3
<1>10. IdleFirst'
  BY <1>4, <1>9 DEF IdleFirst, NoTurn
<1>11. AwaitedIsUnderWay'
  BY <1>1, <1>4 DEF AwaitedIsUnderWay
<1>12. ResultFindsUnlocked'
  BY <1>1, <1>4 DEF ResultFindsUnlocked
<1> QED
  BY <1>5, <1>6, <1>7, <1>8, <1>10, <1>11, <1>12 DEF UiInv

LEMMA CutTypes ==
  ASSUME TypeOK, NEW k \in 0 .. Len(wire), wire' = SubSeq(wire, 1, k),
         conn' \in IF conn = "open" THEN {"eof", "reset"} ELSE {conn}, up' \in BOOLEAN,
         cmds' = {}, subscribed' = FALSE, turn' = NoTurn, resumes' = FALSE,
         orphans' \subseteq Turns, outages < MaxOutages, outages' = outages + 1,
         UNCHANGED <<sends, foreign, asks>>, ClientUnchanged
  PROVE  TypeOK'
<1>1. wire \in Seq(WireLines)
  BY DEF TypeOK, WireLines
<1>2. SubSeq(wire, 1, k) \in Seq(WireLines)
  BY <1>1
<1>3. wire' \in Seq([type: {"result", "error"} \cup EventTypes, cmd: Commands,
                     n: PermissionIds])
  BY <1>2 DEF WireLines
<1>4. outages' \in 0 .. MaxOutages
  BY TuiAssumption DEF TypeOK
<1>5. NoTurn \in Turns
  BY CommandFacts DEF NoTurn, Turns
<1>6. conn' \in {"none", "open", "eof", "reset"}
  BY DEF TypeOK
<1> QED
  BY <1>3, <1>4, <1>5, <1>6 DEF TypeOK, ClientUnchanged, ui, conns

LEMMA DropFacts ==
  ASSUME UiInv, ConnectionDropped
  PROVE  /\ cmds' = {} /\ subscribed' = FALSE /\ turn' = NoTurn /\ resumes' = FALSE
         /\ orphans' \subseteq Turns
<1>1. turn \in Turns /\ orphans \subseteq Turns
  BY DaemonFacts
<1>2. \A i \in Messages : Started(i) \in Turns
  BY CommandFacts DEF Started, Turns, Underway
<1>3. orphans' \subseteq Turns
  BY <1>1, <1>2 DEF ConnectionDropped
<1> QED
  BY <1>3 DEF ConnectionDropped

LEMMA BreakKeeps ==
  ASSUME UiInv, Break \/ Die
  PROVE  UiInv'
<1>1. TypeOK
  BY DEF UiInv
<1>2. PICK k \in 0 .. Len(wire) : wire' = SubSeq(wire, 1, k)
  BY DEF Break, Die
<1>3. /\ conn' \in IF conn = "open" THEN {"eof", "reset"} ELSE {conn}
      /\ up' \in BOOLEAN /\ outages < MaxOutages /\ outages' = outages + 1
      /\ UNCHANGED <<sends, foreign, asks>> /\ ClientUnchanged
  BY <1>1 DEF Break, Die, TypeOK
<1>4. /\ cmds' = {} /\ subscribed' = FALSE /\ turn' = NoTurn /\ resumes' = FALSE
      /\ orphans' \subseteq Turns
  BY DropFacts DEF Break, Die
<1>5. TypeOK'
  BY <1>1, <1>2, <1>3, <1>4, CutTypes
<1>6. outages' > 0
  BY <1>3, DaemonFacts, TuiAssumption
<1> QED
  BY <1>2, <1>3, <1>4, <1>5, <1>6, CutKeeps

-----------------------------------------------------------------------------
(* What the handlers of the user's actions do keeps the invariant. *)

\* A step that leaves the connection alone, issues no command and settles none.
LEMMA LocalKeeps ==
  ASSUME UiInv, TypeOK',
         UNCHANGED <<wire, cmds, turn, conn, subscribed, loop, reader, client, session, idled>>,
         \A c \in Commands : \A v \in {"waiting", "unread"} :
           status'[c] = v => status[c] = v,
         outages' = outages,
         status'[Subscribe] = status[Subscribe], status'[Create] = status[Create],
         \A i \in Messages :
           /\ status'[Send(i)] = "queued" => status[Send(i)] = "queued" \/ loop = "serving"
           /\ status'[Send(i)] = "result" => status[Send(i)] = "result"
  PROVE  UiInv'
<1>1. /\ TypeOK /\ Linked /\ Closed /\ Handshake /\ Sending /\ IdleFirst
      /\ AwaitedIsUnderWay /\ ResultFindsUnlocked
  BY DEF UiInv
<1>2. Linked' /\ Closed'
  BY <1>1 DEF Linked, Closed
<1>3. Handshake'
  BY <1>1 DEF Handshake, Awaited
<1>4. Sending'
  BY <1>1 DEF Sending
<1>5. IdleFirst'
  BY <1>1 DEF IdleFirst, Told
<1>6. AwaitedIsUnderWay'
  BY <1>1 DEF AwaitedIsUnderWay
<1>7. ResultFindsUnlocked'
  BY <1>1 DEF ResultFindsUnlocked
<1> QED
  BY <1>2, <1>3, <1>4, <1>5, <1>6, <1>7 DEF UiInv

\* What writing a command changes.
LEMMA IssueFacts ==
  ASSUME UiInv, NEW c \in Commands, client, Issue(c), UNCHANGED <<reader, client>>
  PROVE  /\ \A d \in Commands : d # c => status'[d] = status[d]
         /\ status'[c] \in {"waiting", "unread", "oserror"}
         /\ status'[c] = "waiting" => reader = "reading" /\ (conn = "open" => c \in cmds')
         /\ status'[c] = "unread" => outages > 0
         /\ cmds \subseteq cmds' /\ cmds' \subseteq cmds \cup {c}
         /\ conn # "open" => cmds' = cmds
         /\ conn' # "none" /\ (conn' = "open" <=> conn = "open")
         /\ conn' \in {"eof", "reset"} => outages > 0
<1>1. /\ Linked /\ Closed /\ reader \in {"off", "reading", "done"}
      /\ conn \in {"none", "open", "eof", "reset"}
      /\ status \in [Commands -> {"none", "queued", "waiting", "result", "error",
                                  "cancelled", "unread", "oserror", "over"}]
  BY DEF UiInv, TypeOK
<1>2. conn # "none" /\ reader # "off" /\ (conn \in {"eof", "reset"} => outages > 0)
  BY <1>1 DEF Linked, Closed
<1>3. conn = "open" => reader = "reading"
  BY <1>1 DEF Linked
<1> QED
  BY <1>1, <1>2, <1>3 DEF Issue

\* A command is issued, by a handler or by the loop once it has subscribed.
LEMMA IssueKeeps ==
  ASSUME UiInv, TypeOK', NEW c \in Commands, client, Issue(c),
         UNCHANGED <<reader, wire, turn, subscribed, client, session, outages, idled>>,
         \/ /\ loop' = loop /\ c \notin {Subscribe, Create}
            /\ \A i \in Messages : c = Send(i) => loop = "serving"
         \/ /\ loop = "subscribing" /\ loop' = "creating"
            /\ c = Create /\ status[Subscribe] = "result"
  PROVE  UiInv'
<1>1. /\ TypeOK /\ Linked /\ Closed /\ Handshake /\ Sending /\ IdleFirst
      /\ AwaitedIsUnderWay /\ ResultFindsUnlocked
  BY DEF UiInv
<1>3. /\ \A d \in Commands : d # c => status'[d] = status[d]
      /\ status'[c] \in {"waiting", "unread", "oserror"}
      /\ status'[c] = "waiting" => reader = "reading" /\ (conn = "open" => c \in cmds')
      /\ status'[c] = "unread" => outages > 0
      /\ cmds \subseteq cmds' /\ cmds' \subseteq cmds \cup {c}
      /\ conn # "open" => cmds' = cmds
      /\ conn' # "none" /\ (conn' = "open" <=> conn = "open")
      /\ conn' \in {"eof", "reset"} => outages > 0
  BY IssueFacts
<1>4. Linked' /\ Closed'
  BY <1>1, <1>3 DEF Linked, Closed
<1>5. Handshake'
  <2>1. CASE loop' = loop /\ c \notin {Subscribe, Create}
    <3>1. status'[Subscribe] = status[Subscribe]
      BY <1>3, <2>1, CommandFacts
    <3> QED
      BY <1>1, <1>3, <2>1, <3>1 DEF Handshake
  <2>2. CASE /\ loop = "subscribing" /\ loop' = "creating"
             /\ c = Create /\ status[Subscribe] = "result"
    <3>1. conn = "open" => subscribed
      BY <1>1, <2>2 DEF Handshake
    <3> QED
      BY <1>3, <2>2, <3>1 DEF Handshake
  <2> QED
    BY <2>1, <2>2
<1>6. Sending'
  <2>1. \A i \in Messages : Send(i) \in Commands /\ Send(i) # Create
    BY CommandFacts
  <2>2. \A i \in Messages : status'[Send(i)] = "queued" => status[Send(i)] = "queued"
    BY <1>3, <2>1
  <2>3. \A i \in Messages : Send(i) \in cmds' => Send(i) \in cmds \/ c = Send(i)
    BY <1>3
  <2> QED
    BY <1>1, <2>1, <2>2, <2>3 DEF Sending
<1>7. IdleFirst'
  BY <1>1 DEF IdleFirst, Told
<1>8. AwaitedIsUnderWay'
  <2>1. ASSUME NEW d \in Commands, status'[d] = "waiting"
        PROVE  /\ reader' = "reading"
               /\ conn' = "open" =>
                    \/ d \in cmds'
                    \/ turn'.at # "none" /\ d = Send(turn'.of)
                    \/ \E k \in DOMAIN wire' :
                         wire'[k].type \in {"result", "error"} /\ wire'[k].cmd = d
    <3>1. CASE d = c
      BY <1>3, <2>1, <3>1
    <3>2. CASE d # c
      <4>1. status[d] = "waiting"
        BY <1>3, <2>1, <3>2
      <4> QED
        BY <1>1, <1>3, <4>1 DEF AwaitedIsUnderWay
    <3> QED
      BY <3>1, <3>2
  <2>2. ASSUME NEW d \in Commands, status'[d] = "unread" PROVE outages' > 0
    BY <1>1, <1>3, <2>2 DEF AwaitedIsUnderWay
  <2> QED
    BY <2>1, <2>2 DEF AwaitedIsUnderWay
<1>9. ResultFindsUnlocked'
  <2>1. \A i \in Messages : Send(i) \in Commands
    BY CommandFacts
  <2>2. \A i \in Messages : status'[Send(i)] = "result" => status[Send(i)] = "result"
    BY <1>3, <2>1
  <2> QED
    BY <1>1, <2>2 DEF ResultFindsUnlocked
<1> QED
  BY <1>4, <1>5, <1>6, <1>7, <1>8, <1>9 DEF UiInv

\* What the steps of the client use of the types.
LEMMA ClientTypes ==
  ASSUME TypeOK
  PROVE  /\ status \in [Commands -> {"none", "queued", "waiting", "result", "error",
                                     "cancelled", "unread", "oserror", "over"}]
         /\ wire \in Seq(WireLines) /\ cmds \subseteq Commands
         /\ selects \in Seq(PermissionIds) /\ blocks \subseteq PermissionIds
         /\ {client, session, busy, prompt, gone} \subseteq BOOLEAN
         /\ \A c \in Commands : \A s \in {"none", "queued", "waiting", "result", "error",
                                          "cancelled", "unread", "oserror", "over"} :
              [status EXCEPT ![c] = s] \in
                [Commands -> {"none", "queued", "waiting", "result", "error",
                              "cancelled", "unread", "oserror", "over"}]
BY DEF TypeOK, WireLines

LEMMA IssueTypes ==
  ASSUME TypeOK, NEW c \in Commands, Issue(c)
  PROVE  /\ status' \in [Commands -> {"none", "queued", "waiting", "result", "error",
                                      "cancelled", "unread", "oserror", "over"}]
         /\ cmds' \subseteq Commands /\ conn' \in {"none", "open", "eof", "reset"}
<1>1. conn \in {"none", "open", "eof", "reset"}
  BY DEF TypeOK
<1> QED
  BY <1>1, ClientTypes DEF Issue

\* A worker or a handler begins, or ends.
LEMMA OverKeeps ==
  ASSUME UiInv, NEW c \in Commands, c \notin {Subscribe, Create},
         status' = [status EXCEPT ![c] = "over"],
         {busy', prompt', gone'} \subseteq BOOLEAN,
         UNCHANGED <<daemon, link, conns, blocks, selects, bounds, idled>>
  PROVE  UiInv'
<1>1. TypeOK /\ status \in [Commands -> {"none", "queued", "waiting", "result", "error",
                                         "cancelled", "unread", "oserror", "over"}]
  BY ClientTypes DEF UiInv
<1>2. /\ \A d \in Commands : d # c => status'[d] = status[d]
      /\ status'[c] = "over"
      /\ status' \in [Commands -> {"none", "queued", "waiting", "result", "error",
                                   "cancelled", "unread", "oserror", "over"}]
  BY <1>1, ClientTypes
<1>3. TypeOK'
  BY <1>1, <1>2 DEF TypeOK, daemon, link, conns, bounds
<1>4. \A d \in Commands : \A s \in {"waiting", "unread", "queued", "result"} :
        status'[d] = s => status[d] = s
  BY <1>2
<1>5. /\ status'[Subscribe] = status[Subscribe] /\ status'[Create] = status[Create]
      /\ \A i \in Messages : Send(i) \in Commands
  BY <1>2, CommandFacts
<1>6. UNCHANGED <<wire, cmds, turn, conn, subscribed, loop, reader, client, session, outages,
                  idled>>
  BY DEF daemon, link, conns, bounds
<1> QED
  BY <1>3, <1>4, <1>5, <1>6, LocalKeeps

LEMMA SubmitKeeps ==
  ASSUME UiInv, NEW i \in Messages, Submit(i)
  PROVE  UiInv'
<1>1. TypeOK /\ status \in [Commands -> {"none", "queued", "waiting", "result", "error",
                                         "cancelled", "unread", "oserror", "over"}]
  BY ClientTypes DEF UiInv
<1>2. /\ Send(i) \in Commands /\ Send(i) # Subscribe /\ Send(i) # Create
      /\ \A j \in Messages : Send(j) \in Commands
      /\ Subscribe \in Commands /\ Create \in Commands
  BY CommandFacts
<1>3. /\ \A d \in Commands : d # Send(i) => status'[d] = status[d]
      /\ status'[Send(i)] = "queued"
      /\ status' \in [Commands -> {"none", "queued", "waiting", "result", "error",
                                   "cancelled", "unread", "oserror", "over"}]
  BY <1>1, <1>2, ClientTypes DEF Submit
<1>4. TypeOK'
  <2>1. sends' \in 0 .. MaxSends
    BY <1>1, TuiAssumption DEF Submit, TypeOK, Messages
  <2> QED
    BY <1>1, <1>3, <2>1 DEF TypeOK, Submit, daemon, link, conns
<1>5. loop = "serving"
  BY DEF UiInv, Linked, Submit
<1>6. UNCHANGED <<wire, cmds, turn, conn, subscribed, loop, reader, client, session, outages,
                  idled>>
  BY DEF Submit, daemon, link, conns
<1>7. \A d \in Commands : \A s \in {"waiting", "unread", "result"} : status'[d] = s => status[d] = s
  BY <1>3
<1>8. status'[Subscribe] = status[Subscribe] /\ status'[Create] = status[Create]
  BY <1>2, <1>3
<1> QED
  BY <1>2, <1>4, <1>5, <1>6, <1>7, <1>8, LocalKeeps

LEMMA SendStartKeeps ==
  ASSUME UiInv, NEW i \in Messages, SendStart(i)
  PROVE  UiInv'
<1>1. TypeOK
  BY DEF UiInv
<1>2. Send(i) \in Commands /\ Send(i) \notin {Subscribe, Create}
  BY CommandFacts
<1>3. CASE client /\ Issue(Send(i))
  <2>1. TypeOK'
    BY <1>1, <1>2, <1>3, IssueTypes DEF TypeOK, SendStart, conns, ui, bounds
  <2>2. loop = "serving"
    BY <1>3 DEF UiInv, Linked, Sending, SendStart
  <2>3. UNCHANGED <<reader, wire, turn, subscribed, loop, client, session, outages, idled>>
    BY <1>3 DEF SendStart, conns, bounds
  <2> QED
    BY <1>2, <1>3, <2>1, <2>2, <2>3, IssueKeeps
<1>4. CASE /\ ~client
           /\ status' = [status EXCEPT ![Send(i)] = "over"]
           /\ UNCHANGED <<conn, cmds>>
  <2>1. UNCHANGED <<daemon, link, conns, blocks, selects, busy, prompt, gone, bounds, idled>>
    BY <1>4 DEF SendStart, daemon, link, conns, ui
  <2>2. {busy', prompt', gone'} \subseteq BOOLEAN
    BY <1>1, <2>1, ClientTypes
  <2> QED
    BY <1>2, <1>4, <2>1, <2>2, OverKeeps
<1> QED
  BY <1>3, <1>4 DEF SendStart

LEMMA OversKeep ==
  ASSUME UiInv,
         \/ \E i \in Messages : SendOver(i)
         \/ \E r \in PermissionIds : RespondOver(r) \/ RespondCancelled(r)
  PROVE  UiInv'
<1>1. TypeOK /\ {busy, prompt, gone} \subseteq BOOLEAN
  BY ClientTypes DEF UiInv
<1>2. ASSUME NEW i \in Messages, SendOver(i) PROVE UiInv'
  <2>1. Send(i) \in Commands /\ Send(i) \notin {Subscribe, Create}
    BY CommandFacts
  <2>2. {busy', prompt', gone'} \subseteq BOOLEAN
    BY <1>1, <1>2 DEF SendOver, Unlock
  <2> QED
    BY <1>2, <2>1, <2>2, OverKeeps DEF SendOver
<1>3. ASSUME NEW r \in PermissionIds, RespondOver(r) \/ RespondCancelled(r) PROVE UiInv'
  <2>1. Respond(r) \in Commands /\ Respond(r) \notin {Subscribe, Create}
    BY CommandFacts
  <2>2. (prompt \/ blocks = {}) \in BOOLEAN
    OBVIOUS
  <2>3. {busy', prompt', gone'} \subseteq BOOLEAN
    BY <1>1, <1>3, <2>2 DEF RespondOver, RespondCancelled, ui
  <2>4. /\ status' = [status EXCEPT ![Respond(r)] = "over"]
        /\ UNCHANGED <<daemon, link, conns, blocks, selects, bounds, idled>>
    BY <1>3 DEF RespondOver, RespondCancelled, ui
  <2> QED
    BY <2>1, <2>3, <2>4, OverKeeps
<1> QED
  BY <1>2, <1>3

LEMMA Removed ==
  ASSUME NEW S, NEW s \in Seq(S), NEW k \in DOMAIN s
  PROVE  RemoveAt(s, k) \in Seq(S) /\ s[k] \in S
<1>1. Len(s) \in Nat /\ DOMAIN s = 1 .. Len(s) /\ k \in 1 .. Len(s)
  OBVIOUS
<1>2. SubSeq(s, 1, k - 1) \in Seq(S) /\ SubSeq(s, k + 1, Len(s)) \in Seq(S)
  BY <1>1
<1> QED
  BY <1>1, <1>2 DEF RemoveAt

LEMMA DecideKeeps ==
  ASSUME UiInv, NEW k \in DOMAIN selects, Decide(k)
  PROVE  UiInv'
<1>1. TypeOK /\ {busy, prompt, gone} \subseteq BOOLEAN
  BY ClientTypes DEF UiInv
<1>2. selects' \in Seq(PermissionIds) /\ selects[k] \in PermissionIds
  BY <1>1, ClientTypes, Removed DEF Decide
<1>3. PICK r \in PermissionIds : r = selects[k]
  BY <1>2
<1>4. blocks' \subseteq PermissionIds
  BY <1>1, ClientTypes DEF Decide
<1>5. /\ Respond(r) \in Commands /\ Respond(r) \notin {Subscribe, Create}
      /\ \A i \in Messages : Respond(r) # Send(i)
  BY CommandFacts
<1>6. CASE client /\ UNCHANGED prompt /\ Issue(Respond(selects[k]))
  <2>1. Issue(Respond(r))
    BY <1>3, <1>6
  <2>2. TypeOK'
    BY <1>1, <1>2, <1>4, <1>5, <1>6, <2>1, IssueTypes DEF TypeOK, Decide, conns, bounds
  <2>3. UNCHANGED <<reader, wire, turn, subscribed, loop, client, session, outages, idled>>
    BY <1>6 DEF Decide, conns, bounds
  <2> QED
    BY <1>5, <1>6, <2>1, <2>2, <2>3, IssueKeeps
<1>7. CASE /\ ~client
           /\ prompt' = (prompt \/ blocks' = {})
           /\ UNCHANGED <<conn, status, cmds>>
  <2>1. prompt' \in BOOLEAN
    BY <1>7
  <2>2. TypeOK'
    BY <1>1, <1>2, <1>4, <1>7, <2>1 DEF TypeOK, Decide, conns, bounds
  <2>3. UNCHANGED <<wire, cmds, turn, conn, subscribed, loop, reader, client, session,
                    outages, idled, status>>
    BY <1>7 DEF Decide, conns, bounds
  <2> QED
    BY <2>2, <2>3, LocalKeeps
<1> QED
  BY <1>6, <1>7 DEF Decide

-----------------------------------------------------------------------------
(* What _socket_loop does keeps the invariant. *)

LEMMA ConnectKeeps ==
  ASSUME UiInv, Connect
  PROVE  UiInv'
<1>1. /\ TypeOK /\ Linked /\ Closed /\ Sending /\ AwaitedIsUnderWay /\ ResultFindsUnlocked
  BY DEF UiInv
<1>2. status \in [Commands -> {"none", "queued", "waiting", "result", "error",
                               "cancelled", "unread", "oserror", "over"}]
  BY <1>1, ClientTypes
<1>3. /\ ~client /\ ~session /\ conn = "none" /\ reader = "off"
      /\ cmds = {} /\ turn = NoTurn /\ ~subscribed
  BY <1>1 DEF Connect, Linked, Closed
<1>4. /\ status' = [status EXCEPT ![Subscribe] = "waiting"] /\ cmds' = {Subscribe}
      /\ reader' = "reading" /\ conn' = "open" /\ wire' = <<>> /\ client' = TRUE
      /\ loop' = "subscribing"
      /\ UNCHANGED <<up, turn, resumes, orphans, subscribed, session, ui, gone, bounds, idled>>
  BY <1>3 DEF Connect
<1>5. /\ \A c \in Commands : c # Subscribe => status'[c] = status[c]
      /\ status'[Subscribe] = "waiting"
      /\ status' \in [Commands -> {"none", "queued", "waiting", "result", "error",
                                   "cancelled", "unread", "oserror", "over"}]
  BY <1>1, <1>2, <1>4, CommandFacts, ClientTypes
<1>6. DOMAIN wire' = {} /\ wire' \in Seq([type: {"result", "error"} \cup EventTypes,
                                          cmd: Commands, n: PermissionIds])
  BY <1>4
<1>7. TypeOK'
  BY <1>1, <1>4, <1>5, <1>6, CommandFacts DEF TypeOK, ui, bounds
<1>8. Linked' /\ Closed'
  BY <1>3, <1>4 DEF Linked, Closed
<1>9. Handshake'
  BY <1>4, <1>5, <1>6 DEF Handshake
<1>10. Sending'
  <2>1. \A i \in Messages : Send(i) \in Commands /\ Send(i) # Subscribe
    BY CommandFacts
  <2>2. \A i \in Messages : status[Send(i)] # "queued"
    BY <1>1 DEF Sending, Connect
  <2> QED
    BY <1>3, <1>4, <1>5, <2>1, <2>2 DEF Sending, NoTurn
<1>11. IdleFirst'
  BY <1>3, <1>4, <1>6 DEF IdleFirst, NoTurn
<1>12. AwaitedIsUnderWay'
  <2>1. \A c \in Commands : status'[c] = "waiting" => c = Subscribe
    BY <1>1, <1>3, <1>5 DEF AwaitedIsUnderWay
  <2>2. \A c \in Commands : status'[c] = "unread" => outages' > 0
    BY <1>1, <1>4, <1>5 DEF AwaitedIsUnderWay, bounds
  <2> QED
    BY <1>4, <2>1, <2>2 DEF AwaitedIsUnderWay
<1>13. ResultFindsUnlocked'
  <2>1. \A i \in Messages : Send(i) \in Commands /\ Send(i) # Subscribe
    BY CommandFacts
  <2> QED
    BY <1>1, <1>4, <1>5, <2>1 DEF ResultFindsUnlocked
<1> QED
  BY <1>7, <1>8, <1>9, <1>10, <1>11, <1>12, <1>13 DEF UiInv

\* A step of the loop that touches neither connection nor futures.
LEMMA LoopKeeps ==
  ASSUME UiInv,
         \/ /\ loop = "connecting" /\ loop' = "sleeping" /\ UNCHANGED <<session, prompt>>
         \/ /\ loop = "sleeping" /\ loop' = "connecting" /\ UNCHANGED <<session, prompt>>
            /\ \A i \in Messages : status[Send(i)] # "queued"
         \/ /\ loop = "creating" /\ loop' = "serving" /\ session' = TRUE /\ prompt' = TRUE,
         UNCHANGED <<daemon, link, reader, client, status, busy, blocks, selects, gone,
                     bounds, idled>>
  PROVE  UiInv'
<1>1. /\ TypeOK /\ Linked /\ Closed /\ Handshake /\ Sending /\ IdleFirst
      /\ AwaitedIsUnderWay /\ ResultFindsUnlocked
  BY DEF UiInv
<1>2. UNCHANGED <<up, cmds, turn, resumes, orphans, conn, wire, subscribed, reader, client,
                  status, busy, blocks, selects, gone, sends, outages, foreign,
                  asks, idled>>
  BY DEF daemon, link, bounds
<1>3. TypeOK'
  BY <1>1, <1>2 DEF TypeOK
<1>4. Linked' /\ Closed'
  BY <1>1, <1>2 DEF Linked, Closed
<1>5. Handshake'
  BY <1>1, <1>2 DEF Handshake
<1>6. Sending'
  BY <1>1, <1>2 DEF Sending
<1>7. IdleFirst'
  BY <1>1, <1>2 DEF IdleFirst, Told
<1>8. AwaitedIsUnderWay'
  BY <1>1, <1>2 DEF AwaitedIsUnderWay
<1>9. ResultFindsUnlocked'
  BY <1>1, <1>2 DEF ResultFindsUnlocked
<1> QED
  BY <1>3, <1>4, <1>5, <1>6, <1>7, <1>8, <1>9 DEF UiInv

LEMMA FuturesCancelled ==
  ASSUME TypeOK
  PROVE  /\ CancelWaiting \in [Commands -> {"none", "queued", "waiting", "result", "error",
                                            "cancelled", "unread", "oserror", "over"}]
         /\ \A c \in Commands :
              /\ CancelWaiting[c] # "waiting"
              /\ status[c] # "waiting" => CancelWaiting[c] = status[c]
              /\ status[c] = "waiting" => CancelWaiting[c] = "cancelled"
BY ClientTypes DEF CancelWaiting

\* The connection is closed with nothing awaited any more.
LEMMA FinallyKeeps ==
  ASSUME UiInv, Finally,
         gone' \in BOOLEAN,
         loop' \in {"sleeping", "ended"},
         loop \in {"subscribing", "creating", "serving"}
  PROVE  UiInv'
<1>1. /\ TypeOK /\ Sending /\ AwaitedIsUnderWay /\ ResultFindsUnlocked
      /\ \A i \in Messages : Send(i) \in Commands
  BY CommandFacts DEF UiInv
<1>2. /\ client' = FALSE /\ session' = FALSE /\ prompt' = FALSE
      /\ conn' = "none" /\ wire' = <<>> /\ reader' = "off"
      /\ cmds' = {} /\ subscribed' = FALSE /\ turn' = NoTurn /\ resumes' = FALSE
      /\ orphans' \subseteq Turns
      /\ UNCHANGED <<up, busy, blocks, selects, sends, outages, foreign, asks, idled>>
      /\ status' = CancelWaiting
  BY DropFacts DEF Finally, bounds
<1>3. DOMAIN wire' = {} /\ wire' \in Seq([type: {"result", "error"} \cup EventTypes,
                                          cmd: Commands, n: PermissionIds])
  BY <1>2
<1>4. NoTurn \in Turns
  BY CommandFacts DEF NoTurn, Turns
<1>5. /\ status' \in [Commands -> {"none", "queued", "waiting", "result", "error",
                                   "cancelled", "unread", "oserror", "over"}]
      /\ \A c \in Commands : status'[c] # "waiting"
      /\ \A c \in Commands : \A v \in {"queued", "result", "unread"} :
           status'[c] = v => status[c] = v
  BY <1>1, <1>2, FuturesCancelled
<1>6. TypeOK'
  BY <1>1, <1>2, <1>3, <1>4, <1>5 DEF TypeOK
<1>7. Linked' /\ Closed'
  BY <1>2 DEF Linked, Closed
<1>8. Handshake'
  BY <1>2 DEF Handshake
<1>9. Sending'
  <2>1. \A i \in Messages : status'[Send(i)] = "queued" =>
          loop' \in {"serving", "sleeping", "ended"}
    OBVIOUS
  <2> QED
    BY <1>2, <2>1 DEF Sending, NoTurn
<1>10. IdleFirst'
  BY <1>2, <1>3 DEF IdleFirst, NoTurn
<1>11. AwaitedIsUnderWay'
  BY <1>1, <1>2, <1>5 DEF AwaitedIsUnderWay
<1>12. ResultFindsUnlocked'
  BY <1>1, <1>2, <1>5 DEF ResultFindsUnlocked
<1> QED
  BY <1>6, <1>7, <1>8, <1>9, <1>10, <1>11, <1>12 DEF UiInv

LEMMA LoopStepKeeps ==
  ASSUME UiInv, SocketLoop
  PROVE  UiInv'
<1>1. /\ TypeOK /\ Handshake /\ AwaitedIsUnderWay
      /\ status \in [Commands -> {"none", "queued", "waiting", "result", "error",
                                  "cancelled", "unread", "oserror", "over"}]
      /\ gone \in BOOLEAN /\ client <=> loop \in {"subscribing", "creating", "serving"}
      /\ \A i \in Messages : Send(i) \in Commands
  BY ClientTypes, CommandFacts DEF UiInv, Linked
<1>2. CASE Connect
  BY <1>2, ConnectKeeps
<1>3. CASE Refused
  BY <1>3, LoopKeeps DEF Refused, ui
<1>4. CASE Retry
  BY <1>4, LoopKeeps DEF Retry, ui
<1>5. CASE CreateDone
  BY <1>5, LoopKeeps DEF CreateDone
<1>6. CASE SubscribeDone
  <2>1. /\ Issue(Create) /\ loop = "subscribing" /\ loop' = "creating"
        /\ status[Subscribe] = "result" /\ client
        /\ UNCHANGED <<up, turn, resumes, orphans, reader, wire, subscribed, client,
                       session, ui, gone, bounds, outages, idled>>
    BY <1>1, <1>6 DEF SubscribeDone, bounds
  <2>2. TypeOK'
    BY <1>1, <2>1, CommandFacts, IssueTypes DEF TypeOK, ui, bounds
  <2> QED
    BY <2>1, <2>2, CommandFacts, IssueKeeps
<1>7. CASE HandshakeRefused \/ HandshakeBreaks \/ Disconnected
  <2>1. Finally /\ loop \in {"subscribing", "creating", "serving"}
    BY <1>7 DEF HandshakeRefused, HandshakeBreaks, Disconnected
  <2>2. loop' \in {"sleeping", "ended"} /\ gone' \in BOOLEAN
    BY <1>1, <1>7
       DEF HandshakeRefused, HandshakeBreaks, Disconnected, RetryUnless, CloseRaises
  <2> QED
    BY <2>1, <2>2, FinallyKeeps
<1> QED
  BY <1>2, <1>3, <1>4, <1>5, <1>6, <1>7 DEF SocketLoop

-----------------------------------------------------------------------------
(* What run_event_loop does keeps the invariant. *)

LEMMA FirstRead ==
  ASSUME NEW S, NEW s \in Seq(S), s # <<>>
  PROVE  /\ Tail(s) \in Seq(S) /\ 1 \in DOMAIN s /\ s[1] = Head(s) /\ Head(s) \in S
         /\ DOMAIN s \subseteq Nat \ {0} /\ DOMAIN Tail(s) \subseteq Nat \ {0}
         /\ \A k \in DOMAIN Tail(s) : k + 1 \in DOMAIN s /\ Tail(s)[k] = s[k + 1]
         /\ \A k \in DOMAIN s : k # 1 => k - 1 \in DOMAIN Tail(s) /\ Tail(s)[k - 1] = s[k]
<1>1. /\ Len(s) \in Nat /\ Len(s) > 0 /\ DOMAIN s = 1 .. Len(s)
      /\ Tail(s) \in Seq(S) /\ DOMAIN Tail(s) = 1 .. Len(s) - 1
      /\ \A k \in 1 .. Len(s) - 1 : Tail(s)[k] = s[k + 1]
      /\ s[1] = Head(s) /\ Head(s) \in S
  OBVIOUS
<1>2. \A k \in 1 .. Len(s) - 1 : k + 1 \in 1 .. Len(s)
  BY <1>1
<1>3. \A k \in 1 .. Len(s) : k # 1 => k - 1 \in 1 .. Len(s) - 1 /\ (k - 1) + 1 = k
  BY <1>1
<1>4. 1 \in 1 .. Len(s) /\ 1 .. Len(s) \subseteq Nat \ {0} /\ 1 .. Len(s) - 1 \subseteq Nat \ {0}
  BY <1>1
<1>5. \A k \in DOMAIN s : k # 1 => k - 1 \in DOMAIN Tail(s) /\ Tail(s)[k - 1] = s[k]
  BY <1>1, <1>3
<1> QED
  BY <1>1, <1>2, <1>4, <1>5

\* A line is read: a reply settles the command it answers, and session.idle is
\* remembered.
LEMMA ReadKeeps ==
  ASSUME UiInv, TypeOK', wire # <<>>, wire' = Tail(wire),
         UNCHANGED <<conn, cmds, turn, subscribed, loop, reader, client, session, outages>>,
         idled \subseteq idled',
         Head(wire).type = "session.idle" /\ Head(wire).n \in Messages =>
           Head(wire).n \in idled',
         \A c \in Commands :
           \/ status'[c] = status[c]
           \/ /\ status[c] = "waiting" /\ Head(wire).cmd = c
              /\ Head(wire).type \in {"result", "error"} /\ status'[c] = Head(wire).type,
         Head(wire).type \in {"result", "error"} => status'[Head(wire).cmd] # "waiting"
  PROVE  UiInv'
<1>1. /\ TypeOK /\ Linked /\ Closed /\ Handshake /\ Sending /\ IdleFirst
      /\ AwaitedIsUnderWay /\ ResultFindsUnlocked
  BY DEF UiInv
<1>2. /\ 1 \in DOMAIN wire /\ wire[1] = Head(wire) /\ Head(wire).cmd \in Commands
      /\ DOMAIN wire \subseteq Nat \ {0} /\ DOMAIN wire' \subseteq Nat \ {0}
      /\ \A k \in DOMAIN wire' : k + 1 \in DOMAIN wire /\ wire'[k] = wire[k + 1]
      /\ \A k \in DOMAIN wire : k # 1 => k - 1 \in DOMAIN wire' /\ wire'[k - 1] = wire[k]
  <2>1. wire \in Seq(WireLines)
    BY <1>1, ClientTypes
  <2>2. /\ 1 \in DOMAIN wire /\ wire[1] = Head(wire) /\ Head(wire) \in WireLines
        /\ DOMAIN wire \subseteq Nat \ {0} /\ DOMAIN wire' \subseteq Nat \ {0}
        /\ \A k \in DOMAIN wire' : k + 1 \in DOMAIN wire /\ wire'[k] = wire[k + 1]
        /\ \A k \in DOMAIN wire : k # 1 => k - 1 \in DOMAIN wire' /\ wire'[k - 1] = wire[k]
    BY <2>1, FirstRead
  <2> QED
    BY <2>2 DEF WireLines
<1>3. Subscribe \in Commands /\ Create \in Commands /\ \A i \in Messages : Send(i) \in Commands
  BY CommandFacts
<1>4. Linked' /\ Closed'
  BY <1>1 DEF Linked, Closed
<1>5. Handshake'
  <2>3. ASSUME conn = "open", status'[Subscribe] = "result", loop = "subscribing"
        PROVE  subscribed
    <3>1. CASE status'[Subscribe] = status[Subscribe]
      BY <1>1, <2>3, <3>1 DEF Handshake
    <3>2. CASE Head(wire).cmd = Subscribe /\ status'[Subscribe] = Head(wire).type
      BY <1>1, <1>2, <2>3, <3>2 DEF Handshake
    <3> QED
      BY <1>3, <3>1, <3>2
  <2>4. ASSUME conn = "open", NEW k \in DOMAIN wire', wire'[k].type = "result",
               wire'[k].cmd = Subscribe
        PROVE  subscribed
    BY <1>1, <1>2, <2>4 DEF Handshake
  <2> QED
    BY <1>1, <2>3, <2>4 DEF Handshake
<1>6. Sending'
  <2>1. \A i \in Messages : status'[Send(i)] = "queued" => status[Send(i)] = "queued"
    BY <1>3
  <2> QED
    BY <1>1, <2>1 DEF Sending
<1>7. ASSUME NEW i \in Messages, Told(i) PROVE Told(i)'
  <2>1. CASE i \in idled
    BY <2>1 DEF Told
  <2>2. CASE \E j \in DOMAIN wire : wire[j].type = "session.idle" /\ wire[j].n = i
    <3>1. PICK j \in DOMAIN wire : wire[j].type = "session.idle" /\ wire[j].n = i
      BY <2>2
    <3>2. CASE j = 1
      BY <1>2, <3>1, <3>2 DEF Told
    <3>3. CASE j # 1
      <4>1. j - 1 \in DOMAIN wire' /\ wire'[j - 1] = wire[j]
        BY <1>2, <3>3
      <4> QED
        BY <3>1, <4>1 DEF Told
    <3> QED
      BY <3>2, <3>3
  <2> QED
    BY <1>7, <2>1, <2>2 DEF Told
<1>8. ASSUME NEW k \in DOMAIN wire', NEW i \in Messages,
             wire'[k].type = "result", wire'[k].cmd = Send(i)
      PROVE  i \in idled' \/ \E j \in DOMAIN wire' :
                               j < k /\ wire'[j].type = "session.idle" /\ wire'[j].n = i
  <2>1. /\ k + 1 \in DOMAIN wire /\ wire[k + 1].type = "result"
        /\ wire[k + 1].cmd = Send(i)
    BY <1>2, <1>8
  <2>2. i \in idled \/ \E j \in DOMAIN wire :
                         j < k + 1 /\ wire[j].type = "session.idle" /\ wire[j].n = i
    BY <1>1, <2>1 DEF IdleFirst
  <2>3. CASE i \in idled
    BY <2>3
  <2>4. CASE \E j \in DOMAIN wire :
               j < k + 1 /\ wire[j].type = "session.idle" /\ wire[j].n = i
    <3>1. PICK j \in DOMAIN wire :
            j < k + 1 /\ wire[j].type = "session.idle" /\ wire[j].n = i
      BY <2>4
    <3>2. CASE j = 1
      BY <1>2, <3>1, <3>2
    <3>3. CASE j # 1
      <4>1. j - 1 \in DOMAIN wire' /\ wire'[j - 1] = wire[j]
        BY <1>2, <3>3
      <4>2. j - 1 < k
        <5>1. j \in Nat /\ k \in Nat /\ j < k + 1
          BY <1>2, <3>1
        <5> QED
          BY <5>1
      <4> QED
        BY <3>1, <4>1, <4>2
    <3> QED
      BY <3>2, <3>3
  <2> QED
    BY <2>2, <2>3, <2>4
<1>9. IdleFirst'
  <2>1. turn'.at = "closing" => Told(turn.of)'
    <3>1. turn.at = "closing" => turn.of \in Messages
      BY <1>1 DEF Sending
    <3> QED
      BY <1>1, <1>7, <3>1 DEF IdleFirst
  <2>2. \A k \in DOMAIN wire' : \A i \in Messages :
          wire'[k].type = "result" /\ wire'[k].cmd = Send(i) =>
            i \in idled' \/ \E j \in DOMAIN wire' :
                               j < k /\ wire'[j].type = "session.idle" /\ wire'[j].n = i
    BY <1>8
  <2> QED
    BY <2>1, <2>2 DEF IdleFirst, Told
<1>10. ASSUME NEW c \in Commands, status'[c] = "waiting"
       PROVE  /\ reader = "reading"
              /\ conn = "open" =>
                   \/ c \in cmds
                   \/ turn.at # "none" /\ c = Send(turn.of)
                   \/ \E k \in DOMAIN wire' :
                        wire'[k].type \in {"result", "error"} /\ wire'[k].cmd = c
  <2>1. /\ status[c] = "waiting"
        /\ Head(wire).type \in {"result", "error"} => Head(wire).cmd # c
    BY <1>10
  <2>2. ASSUME NEW k \in DOMAIN wire, wire[k].type \in {"result", "error"}, wire[k].cmd = c
        PROVE  \E n \in DOMAIN wire' :
                 wire'[n].type \in {"result", "error"} /\ wire'[n].cmd = c
    <3>1. k # 1
      BY <1>2, <2>1, <2>2
    <3>2. k - 1 \in DOMAIN wire' /\ wire'[k - 1] = wire[k]
      BY <1>2, <3>1
    <3> QED
      BY <2>2, <3>2
  <2> QED
    BY <1>1, <2>1, <2>2 DEF AwaitedIsUnderWay
<1>11. AwaitedIsUnderWay'
  <2>1. \A c \in Commands : status'[c] = "unread" => status[c] = "unread"
    OBVIOUS
  <2> QED
    BY <1>1, <1>10, <2>1 DEF AwaitedIsUnderWay
<1>12. ASSUME NEW i \in Messages, status'[Send(i)] = "result" PROVE i \in idled'
  <2>1. CASE status[Send(i)] = "result"
    BY <1>1, <2>1 DEF ResultFindsUnlocked
  <2>2. CASE Head(wire).cmd = Send(i) /\ Head(wire).type = "result"
    <3>1. i \in idled \/ \E j \in DOMAIN wire :
                           j < 1 /\ wire[j].type = "session.idle" /\ wire[j].n = i
      BY <1>1, <1>2, <2>2 DEF IdleFirst
    <3>2. \A j \in DOMAIN wire : ~(j < 1)
      BY <1>2
    <3> QED
      BY <3>1, <3>2
  <2> QED
    BY <1>3, <1>12, <2>1, <2>2
<1>13. ResultFindsUnlocked'
  BY <1>12 DEF ResultFindsUnlocked
<1> QED
  BY <1>4, <1>5, <1>6, <1>9, <1>11, <1>13 DEF UiInv

LEMMA ReadReplyKeeps ==
  ASSUME UiInv, ReadReply
  PROVE  UiInv'
<1>1. TypeOK
  BY DEF UiInv
<1>2. /\ status \in [Commands -> {"none", "queued", "waiting", "result", "error",
                                  "cancelled", "unread", "oserror", "over"}]
      /\ wire \in Seq(WireLines) /\ wire # <<>>
  BY <1>1, ClientTypes DEF ReadReply
<1>3. Head(wire) \in WireLines /\ Tail(wire) \in Seq(WireLines)
  BY <1>2, FirstRead
<1>4. PICK c \in Commands : c = Head(wire).cmd
  BY <1>3 DEF WireLines
<1>5. PICK type \in {"result", "error"} : type = Head(wire).type
  BY DEF ReadReply
<1>6. /\ status' = [status EXCEPT ![c] = IF status[c] = "waiting" THEN type ELSE status[c]]
      /\ wire' = Tail(wire)
      /\ UNCHANGED <<daemon, conn, subscribed, conns, ui, gone, bounds, idled>>
  BY <1>4, <1>5 DEF ReadReply
<1>7. /\ \A d \in Commands : d # c => status'[d] = status[d]
      /\ status[c] = "waiting" => status'[c] = type
      /\ status[c] # "waiting" => status'[c] = status[c]
      /\ status' \in [Commands -> {"none", "queued", "waiting", "result", "error",
                                   "cancelled", "unread", "oserror", "over"}]
  BY <1>2, <1>6
<1>8. wire' \in Seq([type: {"result", "error"} \cup EventTypes, cmd: Commands,
                     n: PermissionIds])
  BY <1>3, <1>6 DEF WireLines
<1>9. TypeOK'
  BY <1>1, <1>6, <1>7, <1>8 DEF TypeOK, daemon, conns, ui, bounds
<1>10. UNCHANGED <<conn, cmds, turn, subscribed, loop, reader, client, session, outages, idled>>
  BY <1>6 DEF daemon, conns, bounds
<1>11. Head(wire).type # "session.idle"
  BY <1>5
<1> QED
  BY <1>2, <1>4, <1>5, <1>6, <1>7, <1>9, <1>10, <1>11, ReadKeeps

LEMMA ReadEventKeeps ==
  ASSUME UiInv, ReadEvent
  PROVE  UiInv'
<1>1. /\ TypeOK /\ wire # <<>> /\ wire' = Tail(wire)
      /\ UNCHANGED <<daemon, conn, subscribed, conns, status, gone, bounds>>
  BY DEF UiInv, ReadEvent
<1>2. /\ wire \in Seq(WireLines) /\ selects \in Seq(PermissionIds)
      /\ blocks \subseteq PermissionIds /\ {busy, prompt} \subseteq BOOLEAN
      /\ idled \subseteq Messages
  BY <1>1, ClientTypes DEF TypeOK
<1>3. Head(wire) \in WireLines /\ Tail(wire) \in Seq(WireLines)
  BY <1>1, <1>2, FirstRead
<1>4. PICK n \in PermissionIds : n = Head(wire).n
  BY <1>3 DEF WireLines
<1>5. Append(selects, n) \in Seq(PermissionIds)
      /\ (selects # <<>> => Tail(selects) \in Seq(PermissionIds))
  BY <1>2
<1>6. {busy', prompt'} \subseteq BOOLEAN
  BY <1>2 DEF ReadEvent, Unlock, ui
<1>7. blocks' \subseteq PermissionIds /\ selects' \in Seq(PermissionIds)
  <2>1. \/ blocks' = blocks /\ selects' = selects
        \/ blocks' = blocks \cup {n} /\ selects' = Append(selects, n)
        \/ blocks' = blocks \ {n} /\ RemoveSelect
    BY <1>4 DEF ReadEvent, ui
  <2>2. RemoveSelect => selects' = selects \/ (selects # <<>> /\ selects' = Tail(selects))
    BY DEF RemoveSelect
  <2> QED
    BY <1>2, <1>5, <2>1, <2>2
<1>8. /\ idled' = idled \/ idled' = idled \cup ({n} \cap Messages)
      /\ Head(wire).type = "session.idle" /\ n \in Messages => n \in idled'
  BY <1>4 DEF ReadEvent
<1>9. Head(wire).type \notin {"result", "error"}
  BY DEF ReadEvent
<1>10. wire' \in Seq([type: {"result", "error"} \cup EventTypes, cmd: Commands,
                      n: PermissionIds])
  BY <1>1, <1>3 DEF WireLines
<1>11. idled' \subseteq Messages /\ idled \subseteq idled'
  BY <1>2, <1>8
<1>12. TypeOK'
  BY <1>1, <1>6, <1>7, <1>10, <1>11 DEF TypeOK, daemon, conns, bounds
<1>13. UNCHANGED <<conn, cmds, turn, subscribed, loop, reader, client, session, outages, status>>
  BY <1>1 DEF daemon, conns, bounds
<1> QED
  BY <1>1, <1>4, <1>8, <1>9, <1>11, <1>12, <1>13, ReadKeeps

LEMMA ReadEofKeeps ==
  ASSUME UiInv, ReadEof
  PROVE  UiInv'
<1>1. /\ TypeOK /\ Linked /\ Closed /\ Handshake /\ Sending /\ IdleFirst
      /\ AwaitedIsUnderWay /\ ResultFindsUnlocked
  BY DEF UiInv
<1>2. /\ reader = "reading" /\ reader' = "done" /\ conn \in {"eof", "reset"} /\ status' = CancelWaiting
      /\ UNCHANGED <<up, cmds, turn, resumes, orphans, conn, wire, subscribed, loop, client,
                     session, busy, prompt, blocks, selects, gone, sends, outages, foreign,
                     asks, idled>>
  BY DEF ReadEof, daemon, link, ui, bounds
<1>3. /\ status' \in [Commands -> {"none", "queued", "waiting", "result", "error",
                                   "cancelled", "unread", "oserror", "over"}]
      /\ \A c \in Commands : status'[c] # "waiting"
      /\ \A c \in Commands : \A s \in {"queued", "result", "unread"} :
           status'[c] = s => status[c] = s
  BY <1>1, <1>2, FuturesCancelled
<1>4. TypeOK'
  BY <1>1, <1>2, <1>3 DEF TypeOK
<1>5. Linked' /\ Closed'
  BY <1>1, <1>2 DEF Linked, Closed
<1>6. Handshake'
  BY <1>2 DEF Handshake
<1>7. \A i \in Messages : Send(i) \in Commands
  BY CommandFacts
<1>8. Sending'
  BY <1>1, <1>2, <1>3, <1>7 DEF Sending
<1>9. IdleFirst'
  BY <1>1, <1>2 DEF IdleFirst, Told
<1>10. AwaitedIsUnderWay'
  BY <1>1, <1>2, <1>3 DEF AwaitedIsUnderWay
<1>11. ResultFindsUnlocked'
  BY <1>1, <1>2, <1>3, <1>7 DEF ResultFindsUnlocked
<1> QED
  BY <1>4, <1>5, <1>6, <1>8, <1>9, <1>10, <1>11 DEF UiInv

-----------------------------------------------------------------------------
(* The theorems. *)

LEMMA StandKeeps ==
  ASSUME UiInv, UNCHANGED uiVars \/ Restart
  PROVE  UiInv'
<1>1. /\ UNCHANGED <<cmds, turn, resumes, orphans, conn, wire, subscribed, loop, reader,
                     client, session, status, busy, prompt, blocks, selects, gone, sends,
                     outages, foreign, asks, idled>>
      /\ up' \in BOOLEAN
  BY DEF UiInv, TypeOK, uiVars, Restart, ClientUnchanged, daemon, link, conns, ui, bounds
<1>2. TypeOK'
  BY <1>1 DEF UiInv, TypeOK
<1> QED
  BY <1>1, <1>2, LocalKeeps

LEMMA UiInitially ==
  ASSUME Init
  PROVE  UiInv
<1>1. <<>> \in Seq(PermissionIds) /\ DOMAIN <<>> = {}
      /\ <<>> \in Seq([type: {"result", "error"} \cup EventTypes, cmd: Commands,
                       n: PermissionIds])
  OBVIOUS
<1>2. TypeOK
  <2>1. /\ NoTurn \in Turns
        /\ 0 \in 0 .. MaxSends /\ 0 \in 0 .. MaxOutages /\ 0 \in 0 .. MaxForeign
        /\ 0 \in 0 .. MaxAsks
    BY TuiAssumption, CommandFacts DEF NoTurn, Turns
  <2>2. /\ wire \in Seq([type: {"result", "error"} \cup EventTypes, cmd: Commands,
                         n: PermissionIds])
        /\ selects \in Seq(PermissionIds)
    BY <1>1 DEF Init
  <2>3. status \in [Commands -> {"none", "queued", "waiting", "result", "error",
                                "cancelled", "unread", "oserror", "over"}]
    BY DEF Init
  <2> QED
    BY <2>1, <2>2, <2>3 DEF TypeOK, Init
<1>3. Linked /\ Closed
  BY DEF Init, Linked, Closed
<1>4. Handshake
  BY DEF Init, Handshake
<1>5. \A i \in Messages : Send(i) \in Commands
  BY CommandFacts
<1>6. Sending
  BY <1>5 DEF Init, Sending, NoTurn
<1>7. IdleFirst
  BY <1>1 DEF Init, IdleFirst, NoTurn
<1>8. AwaitedIsUnderWay /\ ResultFindsUnlocked
  BY <1>5 DEF Init, AwaitedIsUnderWay, ResultFindsUnlocked
<1> QED
  BY <1>2, <1>3, <1>4, <1>6, <1>7, <1>8 DEF UiInv

LEMMA UiStepKeeps ==
  ASSUME UiInv, [Next]_uiVars
  PROVE  UiInv'
<1>1. CASE SocketLoop
  BY <1>1, LoopStepKeeps
<1>2. CASE EventLoop
  BY <1>2, ReadEofKeeps, ReadReplyKeeps, ReadEventKeeps DEF EventLoop
<1>3. CASE Handlers
  BY <1>3, SendStartKeeps, OversKeep DEF Handlers
<1>4. CASE User
  BY <1>4, SubmitKeeps, DecideKeeps DEF User
<1>5. CASE Daemon
  BY <1>5, HandleSubscribeKeeps, HandleCreateKeeps, StartTurnKeeps, HandleRespondKeeps,
     FinishTurnKeeps, TurnEndKeeps, StandKeeps, OrphanEndsKeeps DEF Daemon
<1>6. CASE Environment
  BY <1>6, AskKeeps, AskTimesOutKeeps, TurnEndKeeps, BreakKeeps, ForeignEventKeeps
     DEF Environment
<1>7. CASE UNCHANGED uiVars
  BY <1>7, StandKeeps
<1> QED
  BY <1>1, <1>2, <1>3, <1>4, <1>5, <1>6, <1>7 DEF Next

LEMMA UiInvariance == Spec => []UiInv
BY UiInitially, UiStepKeeps, PTL DEF Spec

\* Every variable of the terminal UI keeps its type.
THEOREM UiTypeCorrect == Spec => []TypeOK
<1>1. UiInv => TypeOK
  BY DEF UiInv
<1> QED
  BY <1>1, UiInvariance, PTL

\* However connections break and the daemon dies, no command waits for an
\* answer that cannot come: one that is awaited has a reader and, while the
\* connection lives, is with the daemon or answered (socket_client.py:50-103).
THEOREM AwaitedIsUnderWayHolds == Spec => []AwaitedIsUnderWay
<1>1. UiInv => AwaitedIsUnderWay
  BY DEF UiInv
<1> QED
  BY <1>1, UiInvariance, PTL

\* However many messages are sent and connections lost, the result of a message
\* arrives only after the session.idle that unlocks the input was handled
\* (app.py:960-983, 1154-1164).
THEOREM ResultFindsUnlockedHolds == Spec => []ResultFindsUnlocked
<1>1. UiInv => ResultFindsUnlocked
  BY DEF UiInv
<1> QED
  BY <1>1, UiInvariance, PTL
===============================================================================
