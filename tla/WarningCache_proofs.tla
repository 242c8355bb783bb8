------------------------- MODULE WarningCache_proofs -------------------------
(***************************************************************************)
(* Theorems about WarningCache, for every set of sessions, every size of   *)
(* the log queue and of the send buffer, and any number of warnings.       *)
(***************************************************************************)
EXTENDS WarningCache, SequenceTheorems, TLAPS

\* A log call of level warn that is under way has a number to take.
CallHasNumber == io_thread = "warn" => logged < MaxWarnings

\* Only warnings that were logged have been removed.
DiscardedWasLogged == discarded \subseteq 1 .. logged

\* The inductive invariant.
IInv == /\ TypeOK
        /\ CallHasNumber
        /\ DiscardedWasLogged
        /\ WarningsAccountedFor
        /\ ShownIndicesStand

----------------------------------------------------------------------------
(* Sequences *)

\* What RemoveAt returns, position by position.
LEMMA RemoveAtProperties ==
  ASSUME NEW S, NEW s \in Seq(S), NEW i \in 1 .. Len(s)
  PROVE  /\ RemoveAt(s, i) \in Seq(S)
         /\ Len(RemoveAt(s, i)) = Len(s) - 1
         /\ \A j \in 1 .. Len(s) - 1 :
              RemoveAt(s, i)[j] = IF j < i THEN s[j] ELSE s[j + 1]
<1> DEFINE front == SubSeq(s, 1, i - 1)
           back == SubSeq(s, i + 1, Len(s))
<1>1. Len(s) \in Nat /\ i \in Nat /\ i - 1 \in Int /\ i + 1 \in Int
  BY LenProperties
<1>2. \A j \in 1 .. Len(s) : s[j] \in S
  BY ElementOfSeq
<1>3. /\ front \in Seq(S)
      /\ Len(front) = i - 1
      /\ \A j \in 1 .. i - 1 : front[j] = s[j]
  <2>1. \A j \in 1 .. i - 1 : s[j] \in S
    BY <1>1, <1>2
  <2>2. /\ front \in Seq(S)
        /\ Len(front) = IF 1 <= i - 1 THEN (i - 1) - 1 + 1 ELSE 0
        /\ \A j \in 1 .. (i - 1) - 1 + 1 : front[j] = s[1 + j - 1]
    BY <1>1, <2>1, SubSeqProperties
  <2> HIDE DEF front
  <2> QED
    BY <1>1, <2>2
<1>4. /\ back \in Seq(S)
      /\ Len(back) = Len(s) - i
      /\ \A j \in 1 .. Len(s) - i : back[j] = s[i + j]
  <2>1. \A j \in i + 1 .. Len(s) : s[j] \in S
    BY <1>1, <1>2
  <2>2. /\ back \in Seq(S)
        /\ Len(back) = IF i + 1 <= Len(s) THEN Len(s) - (i + 1) + 1 ELSE 0
        /\ \A j \in 1 .. Len(s) - (i + 1) + 1 : back[j] = s[(i + 1) + j - 1]
    BY <1>1, <2>1, SubSeqProperties
  <2> HIDE DEF back
  <2>3. \A j \in 1 .. Len(s) - i : (i + 1) + j - 1 = i + j
    BY <1>1
  <2> QED
    BY <1>1, <2>2, <2>3
<1>5. RemoveAt(s, i) = front \o back
  BY DEF RemoveAt
<1> HIDE DEF front, back
<1>6. /\ front \o back \in Seq(S)
      /\ Len(front \o back) = Len(front) + Len(back)
      /\ \A j \in 1 .. Len(front) + Len(back) : (front \o back)[j] =
           IF j <= Len(front) THEN front[j] ELSE back[j - Len(front)]
  BY <1>3, <1>4, ConcatProperties
<1>7. ASSUME NEW j \in 1 .. Len(s) - 1
      PROVE  (front \o back)[j] = IF j < i THEN s[j] ELSE s[j + 1]
  <2>1. CASE j < i
    BY <1>1, <1>3, <1>4, <1>6, <1>7, <2>1
  <2>2. CASE ~(j < i)
    <3>1. /\ (front \o back)[j] = back[j - (i - 1)]
          /\ j - (i - 1) \in 1 .. Len(s) - i
      BY <1>1, <1>3, <1>4, <1>6, <1>7, <2>2
    <3>2. i + (j - (i - 1)) = j + 1
      BY <1>1, <1>7
    <3> QED
      BY <1>4, <2>2, <3>1, <3>2
  <2> QED
    BY <2>1, <2>2
<1> QED
  BY <1>1, <1>3, <1>4, <1>5, <1>6, <1>7

\* IsPrefix, position by position.
LEMMA PrefixByPosition ==
  ASSUME NEW S, NEW s \in Seq(S), NEW t \in Seq(S)
  PROVE  IsPrefix(s, t) <=> /\ Len(s) <= Len(t)
                            /\ \A i \in 1 .. Len(s) : s[i] = t[i]
<1>1. Len(s) \in Nat /\ Len(t) \in Nat
  BY LenProperties
<1>2. SubSeq(s, 1, Len(s)) = s
  BY SubSeqFull
<1> SUFFICES ASSUME Len(s) <= Len(t)
             PROVE  s = SubSeq(t, 1, Len(s)) <=>
                      \A i \in 1 .. Len(s) : s[i] = t[i]
  BY <1>2 DEF IsPrefix
<1>3. \A i \in 1 .. Len(s) : t[i] \in S
  BY <1>1, ElementOfSeq
<1>4. /\ SubSeq(t, 1, Len(s)) \in Seq(S)
      /\ Len(SubSeq(t, 1, Len(s))) = IF 1 <= Len(s) THEN Len(s) - 1 + 1 ELSE 0
      /\ \A i \in 1 .. Len(s) - 1 + 1 : SubSeq(t, 1, Len(s))[i] = t[1 + i - 1]
  BY <1>1, <1>3, SubSeqProperties
<1>5. /\ Len(SubSeq(t, 1, Len(s))) = Len(s)
      /\ \A i \in 1 .. Len(s) : SubSeq(t, 1, Len(s))[i] = t[i]
  BY <1>1, <1>4
<1> QED
  BY <1>1, <1>4, <1>5, SeqEqual
----------------------------------------------------------------------------
(* Type correctness *)

\* A message of the log queue.
Messages == [level : Levels, id : 0 .. MaxWarnings]

\* The two sequences, position by position, and what the cache's invariant
\* says of a warning at a position.
LEMMA Positions ==
  ASSUME TypeOK, WarningsAccountedFor
  PROVE  /\ log_queue \in Seq(Messages)
         /\ Len(log_queue) \in Nat
         /\ DOMAIN log_queue = 1 .. Len(log_queue)
         /\ \A i \in 1 .. Len(log_queue) : log_queue[i] \in Messages
         /\ \A i \in Underway : log_queue[i].id \in 1 .. logged \ discarded
         /\ warnings \in Seq(1 .. MaxWarnings)
         /\ Len(warnings) \in Nat
         /\ DOMAIN warnings = 1 .. Len(warnings)
         /\ \A i \in 1 .. Len(warnings) : warnings[i] \in 1 .. logged \ discarded
         /\ logged \in Nat
         /\ MaxWarnings \in Nat
         /\ logged <= MaxWarnings
<1>1. log_queue \in Seq(Messages) /\ warnings \in Seq(1 .. MaxWarnings)
  BY DEF TypeOK, Messages
<1>2. /\ Len(log_queue) \in Nat /\ DOMAIN log_queue = 1 .. Len(log_queue)
      /\ Len(warnings) \in Nat /\ DOMAIN warnings = 1 .. Len(warnings)
  BY <1>1, LenProperties
<1>3. \A i \in 1 .. Len(log_queue) : log_queue[i] \in Messages
  BY <1>1, ElementOfSeq
<1>4. \A i \in Underway : log_queue[i].id \in 1 .. logged \ discarded
  BY DEF WarningsAccountedFor
<1>5. \A i \in 1 .. Len(warnings) : warnings[i] \in 1 .. logged \ discarded
  BY <1>2 DEF WarningsAccountedFor, Range
<1>6. logged \in Nat /\ MaxWarnings \in Nat /\ logged <= MaxWarnings
  BY WarningCacheAssumption DEF TypeOK
<1> QED
  BY <1>1, <1>2, <1>3, <1>4, <1>5, <1>6

\* Every step preserves the types, the bound of the queue included.
LEMMA TypeStep ==
  ASSUME IInv, [Next]_vars
  PROVE  TypeOK' /\ CallHasNumber'
<1>0. /\ TypeOK /\ CallHasNumber /\ WarningsAccountedFor
      /\ log_queue \in Seq(Messages) /\ Len(log_queue) \in Nat
      /\ DOMAIN log_queue = 1 .. Len(log_queue)
      /\ \A i \in Underway : log_queue[i].id \in 1 .. MaxWarnings
      /\ warnings \in Seq(1 .. MaxWarnings) /\ Len(warnings) \in Nat
  BY Positions DEF IInv
<1> USE WarningCacheAssumption
<1> USE DEF TypeOK, CallHasNumber
<1>1. ASSUME NEW level \in Levels, Handler(level)
      PROVE  TypeOK' /\ CallHasNumber'
  BY <1>0, <1>1 DEF Handler
<1>2. ASSUME Log
      PROVE  TypeOK' /\ CallHasNumber'
  <2> DEFINE m == [level |-> io_thread, id |-> logged']
  <2>1. logged' \in 0 .. MaxWarnings /\ m \in Messages
    BY <1>0, <1>2 DEF Log, Messages, Levels
  <2>2. Len(log_queue) < QueueSize /\ log_queue' = Append(log_queue, m)
    BY <1>2 DEF Log, Post
  <2> HIDE DEF m
  <2>3. log_queue' \in Seq(Messages) /\ Len(log_queue') = Len(log_queue) + 1
    BY <1>0, <2>1, <2>2, AppendProperties
  <2>4. Len(log_queue') <= QueueSize
    BY <1>0, <2>2, <2>3
  <2> QED
    BY <1>0, <1>2, <2>1, <2>3, <2>4 DEF Log, Messages
<1>3. ASSUME Worker
      PROVE  TypeOK' /\ CallHasNumber'
  <2>1. /\ Head(log_queue) \in Messages
        /\ log_queue' \in Seq(Messages)
        /\ Len(log_queue') = Len(log_queue) - 1
    BY <1>0, <1>3, HeadTailProperties DEF Worker
  <2>2. Len(log_queue') <= QueueSize
    BY <1>0, <2>1
  <2>3. ASSUME Head(log_queue).level = "warn"
        PROVE  Head(log_queue).id \in 1 .. MaxWarnings
    <3>1. 1 \in DOMAIN log_queue /\ Head(log_queue) = log_queue[1]
      BY <1>0, <1>3, EmptySeq DEF Worker
    <3>2. 1 \in Underway
      BY <2>3, <3>1 DEF Underway
    <3> QED
      BY <1>0, <3>1, <3>2
  <2>4. warnings' \in Seq(1 .. MaxWarnings)
    BY <1>0, <1>3, <2>3, AppendProperties DEF Worker, sink_it_
  <2> QED
    BY <1>0, <1>3, <2>1, <2>2, <2>4 DEF Worker, Messages
<1>4. ASSUME NEW s \in Sessions, HandleCommand(s)
      PROVE  TypeOK' /\ CallHasNumber'
  <2>1. CASE get_warnings_snapshot(s)
    BY <1>0, <2>1 DEF get_warnings_snapshot, Runs
  <2>2. CASE clear(s)
    <3>1. Range(warnings) \subseteq 1 .. MaxWarnings
      BY <1>0, RangeOfSeq
    <3>2. <<>> \in Seq(1 .. MaxWarnings)
      BY EmptySeq
    <3> QED
      BY <1>0, <2>2, <3>1, <3>2 DEF clear, Runs, NoViews
  <2>3. CASE remove_warning_at(s)
    <3>1. CASE command[s].index + 1 \in 1 .. Len(warnings)
      <4> DEFINE i == command[s].index + 1
      <4>1. RemoveAt(warnings, i) \in Seq(1 .. MaxWarnings)
        BY <1>0, <3>1, RemoveAtProperties
      <4>2. warnings[i] \in 1 .. MaxWarnings
        BY <1>0, <3>1, ElementOfSeq
      <4>3. <<>> \in Seq(1 .. MaxWarnings)
        BY EmptySeq
      <4> QED
        BY <1>0, <2>3, <3>1, <4>1, <4>2, <4>3
        DEF remove_warning_at, Runs, NoViews
    <3>2. CASE command[s].index + 1 \notin 1 .. Len(warnings)
      BY <1>0, <2>3, <3>2 DEF remove_warning_at, Runs
    <3> QED
      BY <3>1, <3>2
  <2>4. CASE UnknownCommand(s)
    BY <1>0, <2>4 DEF UnknownCommand, Runs
  <2> QED
    BY <1>4, <2>1, <2>2, <2>3, <2>4 DEF HandleCommand
<1>5. ASSUME NEW s \in Sessions, Written(s)
      PROVE  TypeOK' /\ CallHasNumber'
  <2>1. <<>> \in Seq(1 .. MaxWarnings)
    BY EmptySeq
  <2> QED
    BY <1>0, <1>5, <2>1 DEF Written
<1>6. ASSUME NEW s \in Sessions,
             Connect(s) \/ (\E k \in Commands : SendCommand(s, k)) \/ Disconnect(s)
      PROVE  TypeOK' /\ CallHasNumber'
  <2>1. <<>> \in Seq(1 .. MaxWarnings)
    BY EmptySeq
  <2> QED
    BY <1>0, <1>6, <2>1 DEF Connect, SendCommand, Disconnect
<1>7. CASE UNCHANGED vars
  BY <1>0, <1>7 DEF vars
<1> QED
  BY <1>1, <1>2, <1>3, <1>4, <1>5, <1>6, <1>7 DEF Next, Query
----------------------------------------------------------------------------
(* No warning is lost, doubled or overtaken *)

\* A log call puts its warning behind all others, with the next number.
LEMMA LogAccounts ==
  ASSUME IInv, Log
  PROVE  DiscardedWasLogged' /\ WarningsAccountedFor'
<1> DEFINE m == [level |-> io_thread, id |-> logged']
           n == Len(log_queue)
<1>0. /\ TypeOK /\ DiscardedWasLogged /\ WarningsAccountedFor
      /\ io_thread \in Levels
      /\ UNCHANGED <<warnings, discarded>>
  BY DEF IInv, TypeOK, Log
<1>1. /\ log_queue \in Seq(Messages)
      /\ n \in Nat
      /\ DOMAIN log_queue = 1 .. n
      /\ \A i \in Underway : log_queue[i].id \in 1 .. logged \ discarded
      /\ DOMAIN warnings = 1 .. Len(warnings)
      /\ \A i \in 1 .. Len(warnings) : warnings[i] \in 1 .. logged \ discarded
      /\ logged \in Nat
      /\ Range(warnings) \subseteq 1 .. logged
  BY <1>0, Positions DEF WarningsAccountedFor
<1>2. m \in Messages /\ logged' = IF io_thread = "warn" THEN logged + 1 ELSE logged
  <2>1. logged' \in 0 .. MaxWarnings
    BY TypeStep DEF Next, TypeOK
  <2> QED
    BY <1>0, <2>1 DEF Log, Messages
<1>3. log_queue' = Append(log_queue, m)
  BY DEF Log, Post
<1> HIDE DEF m
<1>4. /\ log_queue' \in Seq(Messages)
      /\ Len(log_queue') = n + 1
      /\ \A i \in 1 .. n : log_queue'[i] = log_queue[i]
      /\ log_queue'[n + 1] = m
  BY <1>1, <1>2, <1>3, AppendProperties
<1>5. DOMAIN log_queue' = 1 .. n + 1
  BY <1>4, LenProperties
<1>6. m.level = io_thread /\ m.id = logged'
  BY DEF m
<1> HIDE DEF n
<1>7. \A i \in Underway : i \in 1 .. n
  BY <1>1 DEF Underway
<1>8. CASE io_thread = "warn"
  <2>1. Underway' = Underway \cup {n + 1}
    BY <1>1, <1>4, <1>5, <1>6, <1>8 DEF Underway
  <2>2. logged' = logged + 1
    BY <1>2, <1>8
  <2>3. DiscardedWasLogged'
    BY <1>0, <1>1, <2>2 DEF DiscardedWasLogged
  <2>4. \A i, j \in Underway' : i < j => log_queue'[i].id < log_queue'[j].id
    BY <1>0, <1>1, <1>4, <1>6, <1>7, <2>1, <2>2 DEF WarningsAccountedFor
  <2>5. \A i \in DOMAIN warnings', j \in Underway' :
          warnings'[i] < log_queue'[j].id
    BY <1>0, <1>1, <1>4, <1>6, <1>7, <2>1, <2>2 DEF WarningsAccountedFor
  <2>6. {log_queue'[i].id : i \in Underway'}
          = {log_queue[i].id : i \in Underway} \cup {logged + 1}
    BY <1>4, <1>6, <1>7, <2>1, <2>2
  <2>7. 1 .. logged' \ discarded' = (1 .. logged \ discarded) \cup {logged + 1}
    BY <1>0, <1>1, <2>2 DEF DiscardedWasLogged
  <2>8. Range(warnings') \cup {log_queue'[i].id : i \in Underway'}
          = 1 .. logged' \ discarded'
    BY <1>0, <2>6, <2>7 DEF WarningsAccountedFor
  <2> QED
    BY <1>0, <2>3, <2>4, <2>5, <2>8 DEF WarningsAccountedFor
<1>9. CASE io_thread # "warn"
  <2>1. Underway' = Underway
    BY <1>1, <1>4, <1>5, <1>6, <1>9 DEF Underway
  <2>2. logged' = logged
    BY <1>2, <1>9
  <2>3. \A i \in Underway : log_queue'[i] = log_queue[i]
    BY <1>4, <1>7
  <2>4. {log_queue'[i].id : i \in Underway'} = {log_queue[i].id : i \in Underway}
    BY <2>1, <2>3
  <2> QED
    BY <1>0, <2>1, <2>2, <2>3, <2>4 DEF WarningsAccountedFor, DiscardedWasLogged
<1> QED
  BY <1>8, <1>9
\* The worker moves the oldest message; a warning goes behind the cached ones
\* and stays in front of those still waiting.
LEMMA WorkerAccounts ==
  ASSUME IInv, Worker
  PROVE  WarningsAccountedFor'
<1> DEFINE n == Len(log_queue)
           w == Len(warnings)
<1>0. /\ TypeOK /\ WarningsAccountedFor
      /\ log_queue # <<>>
      /\ log_queue' = Tail(log_queue)
      /\ UNCHANGED <<logged, discarded>>
  BY DEF IInv, Worker
<1>1. /\ log_queue \in Seq(Messages)
      /\ n \in Nat /\ n # 0
      /\ DOMAIN log_queue = 1 .. n
      /\ \A i \in 1 .. n : log_queue[i] \in Messages
      /\ \A i \in Underway : log_queue[i].id \in 1 .. logged \ discarded
      /\ warnings \in Seq(1 .. MaxWarnings)
      /\ w \in Nat
      /\ DOMAIN warnings = 1 .. w
      /\ logged \in Nat /\ MaxWarnings \in Nat /\ logged <= MaxWarnings
  BY <1>0, Positions, EmptySeq
<1>2. /\ log_queue' \in Seq(Messages)
      /\ Len(log_queue') = n - 1
      /\ \A i \in 1 .. n - 1 : log_queue'[i] = log_queue[i + 1]
      /\ DOMAIN log_queue' = 1 .. n - 1
  <2>1. /\ log_queue' \in Seq(Messages)
        /\ Len(log_queue') = n - 1
        /\ \A i \in 1 .. Len(log_queue') : log_queue'[i] = log_queue[i + 1]
    BY <1>0, <1>1, HeadTailProperties
  <2> QED
    BY <2>1, LenProperties
<1>3. Head(log_queue) = log_queue[1] /\ 1 \in 1 .. n
  BY <1>0, <1>1
<1> HIDE DEF n, w
<1>4. \A i \in Underway' : i \in Nat /\ i + 1 \in Underway /\ i + 1 > 1
                           /\ log_queue'[i] = log_queue[i + 1]
  BY <1>1, <1>2 DEF Underway
<1>5. \A i \in Underway : i # 1 => i \in Nat /\ i - 1 \in Underway'
                                   /\ log_queue'[i - 1] = log_queue[i]
  <2> SUFFICES ASSUME NEW i \in Underway, i # 1
               PROVE  i \in Nat /\ i - 1 \in Underway'
                      /\ log_queue'[i - 1] = log_queue[i]
    OBVIOUS
  <2>1. i \in 2 .. n /\ log_queue[i].level = "warn"
    BY <1>1 DEF Underway
  <2>2. i - 1 \in 1 .. n - 1 /\ (i - 1) + 1 = i
    BY <1>1, <2>1
  <2> QED
    BY <1>2, <2>1, <2>2 DEF Underway
<1>6. \A i, j \in Underway' : i < j => log_queue'[i].id < log_queue'[j].id
  <2> SUFFICES ASSUME NEW i \in Underway', NEW j \in Underway', i < j
               PROVE  log_queue'[i].id < log_queue'[j].id
    OBVIOUS
  <2>1. i + 1 < j + 1
    BY <1>4
  <2> QED
    BY <1>0, <1>4, <2>1 DEF WarningsAccountedFor
<1>7. CASE log_queue[1].level = "warn"
  <2> DEFINE h == log_queue[1].id
  <2>1. 1 \in Underway /\ h \in 1 .. logged
    BY <1>1, <1>3, <1>7 DEF Underway
  <2>2. warnings' = Append(warnings, h)
    BY <1>3, <1>7 DEF Worker, sink_it_
  <2>3. h \in 1 .. MaxWarnings
    BY <1>1, <2>1
  <2>4. /\ Len(warnings') = w + 1
        /\ \A i \in 1 .. w : warnings'[i] = warnings[i]
        /\ warnings'[w + 1] = h
        /\ DOMAIN warnings' = 1 .. w + 1
    <3>1. warnings' \in Seq(1 .. MaxWarnings)
      BY <1>1, <2>2, <2>3, AppendProperties
    <3>2. /\ Len(warnings') = w + 1
          /\ \A i \in 1 .. w : warnings'[i] = warnings[i]
          /\ warnings'[w + 1] = h
      BY <1>1, <2>2, <2>3, AppendProperties DEF w
    <3> QED
      BY <3>1, <3>2, LenProperties
  <2>5. /\ \A i \in 1 .. w : warnings[i] < h
        /\ \A j \in Underway : j # 1 => h < log_queue[j].id
    <3>1. \A j \in Underway : j # 1 => 1 < j
      BY <1>1 DEF Underway
    <3> QED
      BY <1>0, <1>1, <2>1, <3>1 DEF WarningsAccountedFor
  <2> HIDE DEF h
  <2>6. \A i, j \in DOMAIN warnings' : i < j => warnings'[i] < warnings'[j]
    BY <1>0, <1>1, <2>4, <2>5 DEF WarningsAccountedFor
  <2>7. \A i \in DOMAIN warnings', j \in Underway' : warnings'[i] < log_queue'[j].id
    <3> SUFFICES ASSUME NEW i \in DOMAIN warnings', NEW j \in Underway'
                 PROVE  warnings'[i] < log_queue'[j].id
      OBVIOUS
    <3>1. j + 1 \in Underway /\ j + 1 # 1 /\ log_queue'[j] = log_queue[j + 1]
      BY <1>4
    <3>2. CASE i = w + 1
      BY <2>4, <2>5, <3>1, <3>2
    <3>3. CASE i \in 1 .. w
      BY <1>0, <1>1, <2>4, <3>1, <3>3 DEF WarningsAccountedFor
    <3> QED
      BY <1>1, <2>4, <3>2, <3>3
  <2>8. Range(warnings') = Range(warnings) \cup {h}
    <3>1. \A x \in Range(warnings') : x \in Range(warnings) \cup {h}
      <4> SUFFICES ASSUME NEW i \in 1 .. w + 1
                   PROVE  warnings'[i] \in Range(warnings) \cup {h}
        BY <2>4 DEF Range
      <4>1. i \in 1 .. w \/ i = w + 1
        BY <1>1
      <4> QED
        BY <1>1, <2>4, <4>1 DEF Range
    <3>2. \A i \in 1 .. w : i \in 1 .. w + 1
      BY <1>1
    <3>3. w + 1 \in 1 .. w + 1
      BY <1>1
    <3> QED
      BY <1>1, <2>4, <3>1, <3>2, <3>3 DEF Range
  <2>9. {log_queue'[i].id : i \in Underway'} \cup {h}
          = {log_queue[i].id : i \in Underway}
    BY <1>4, <1>5, <2>1 DEF h
  <2> QED
    BY <1>0, <1>6, <2>6, <2>7, <2>8, <2>9 DEF WarningsAccountedFor
<1>8. CASE log_queue[1].level # "warn"
  <2>1. warnings' = warnings
    BY <1>3, <1>8 DEF Worker, sink_it_
  <2>2. 1 \notin Underway
    BY <1>8 DEF Underway
  <2>3. {log_queue'[i].id : i \in Underway'} = {log_queue[i].id : i \in Underway}
    BY <1>4, <1>5, <2>2
  <2>4. \A i \in DOMAIN warnings', j \in Underway' : warnings'[i] < log_queue'[j].id
    BY <1>0, <1>4, <2>1 DEF WarningsAccountedFor
  <2> QED
    BY <1>0, <1>6, <2>1, <2>3, <2>4 DEF WarningsAccountedFor
<1> QED
  BY <1>7, <1>8
\* A removal takes out the one warning it names, and the rest keeps its order.
LEMMA RemovalAccounts ==
  ASSUME IInv, NEW s \in Sessions, remove_warning_at(s)
  PROVE  DiscardedWasLogged' /\ WarningsAccountedFor'
<1> DEFINE k == command[s].index + 1
           w == Len(warnings)
<1>0. /\ TypeOK /\ DiscardedWasLogged /\ WarningsAccountedFor
      /\ UNCHANGED <<logged, log_queue>>
      /\ Underway' = Underway
  BY DEF IInv, remove_warning_at, Runs, Underway
<1>1. /\ warnings \in Seq(1 .. MaxWarnings)
      /\ w \in Nat
      /\ DOMAIN warnings = 1 .. w
      /\ \A i \in 1 .. w : warnings[i] \in 1 .. logged \ discarded
      /\ \A i \in Underway : log_queue[i].id \in 1 .. logged
      /\ logged \in Nat
  BY <1>0, Positions
<1>2. CASE k \in 1 .. w
  <2>1. /\ warnings' = RemoveAt(warnings, k)
        /\ discarded' = discarded \cup {warnings[k]}
    BY <1>2 DEF remove_warning_at
  <2>2. /\ Len(warnings') = w - 1
        /\ \A j \in 1 .. w - 1 :
             warnings'[j] = IF j < k THEN warnings[j] ELSE warnings[j + 1]
        /\ DOMAIN warnings' = 1 .. w - 1
    <3>1. /\ warnings' \in Seq(1 .. MaxWarnings)
          /\ Len(warnings') = w - 1
          /\ \A j \in 1 .. w - 1 :
               warnings'[j] = IF j < k THEN warnings[j] ELSE warnings[j + 1]
      BY <1>1, <1>2, <2>1, RemoveAtProperties
    <3> QED
      BY <3>1, LenProperties
  <2> HIDE DEF k, w
  <2> DEFINE old(j) == IF j < k THEN j ELSE j + 1
  <2>3. \A j \in 1 .. w - 1 : /\ old(j) \in 1 .. w /\ old(j) # k
                              /\ warnings'[j] = warnings[old(j)]
    BY <1>1, <1>2, <2>2
  <2>4. \A i, j \in 1 .. w - 1 : i < j => old(i) < old(j)
    BY <1>1, <1>2
  <2>5. \A i \in 1 .. w : i # k => \E j \in 1 .. w - 1 : old(j) = i
    <3> SUFFICES ASSUME NEW i \in 1 .. w, i # k
                 PROVE  \E j \in 1 .. w - 1 : old(j) = i
      OBVIOUS
    <3>1. CASE i < k
      <4>1. i \in 1 .. w - 1 /\ old(i) = i
        BY <1>1, <1>2, <3>1
      <4> QED
        BY <4>1
    <3>2. CASE i > k
      <4>1. i - 1 \in 1 .. w - 1 /\ old(i - 1) = i
        BY <1>1, <1>2, <3>2
      <4> QED
        BY <4>1
    <3> QED
      BY <1>1, <1>2, <3>1, <3>2
  <2> HIDE DEF old
  <2>6. \A i \in 1 .. w : i # k => warnings[i] # warnings[k]
    <3> SUFFICES ASSUME NEW i \in 1 .. w, i # k
                 PROVE  warnings[i] # warnings[k]
      OBVIOUS
    <3>1. i < k \/ k < i
      BY <1>1, <1>2
    <3>2. warnings[i] < warnings[k] \/ warnings[k] < warnings[i]
      BY <1>0, <1>1, <1>2, <3>1 DEF WarningsAccountedFor
    <3>3. warnings[i] \in Int /\ warnings[k] \in Int
      BY <1>1, <1>2
    <3> QED
      BY <3>2, <3>3
  <2>7. \A i, j \in DOMAIN warnings' : i < j => warnings'[i] < warnings'[j]
    BY <1>0, <1>1, <2>2, <2>3, <2>4 DEF WarningsAccountedFor
  <2>8. \A i \in DOMAIN warnings', j \in Underway' : warnings'[i] < log_queue'[j].id
    BY <1>0, <1>1, <2>2, <2>3 DEF WarningsAccountedFor
  <2>9. Range(warnings') = Range(warnings) \ {warnings[k]}
    <3>1. \A x \in Range(warnings') : x \in Range(warnings) \ {warnings[k]}
      BY <1>1, <2>2, <2>3, <2>6 DEF Range
    <3>2. ASSUME NEW i \in 1 .. w, warnings[i] # warnings[k]
          PROVE  warnings[i] \in Range(warnings')
      <4>1. PICK j \in 1 .. w - 1 : old(j) = i
        BY <2>5, <3>2
      <4>2. warnings'[j] = warnings[i]
        BY <2>3, <4>1
      <4> QED
        BY <2>2, <4>2 DEF Range
    <3> QED
      BY <1>1, <3>1, <3>2 DEF Range
  <2>10. warnings[k] \notin {log_queue[i].id : i \in Underway}
    <3>1. \A i \in Underway : warnings[k] < log_queue[i].id
      BY <1>0, <1>1, <1>2 DEF WarningsAccountedFor
    <3>2. warnings[k] \in Int /\ \A i \in Underway : log_queue[i].id \in Int
      BY <1>1, <1>2
    <3>3. \A i \in Underway : warnings[k] # log_queue[i].id
      BY <3>1, <3>2
    <3> QED
      BY <3>3
  <2>11. Range(warnings') \cup {log_queue'[i].id : i \in Underway'}
           = 1 .. logged' \ discarded'
    <3>1. (Range(warnings) \ {warnings[k]}) \cup {log_queue[i].id : i \in Underway}
            = 1 .. logged \ (discarded \cup {warnings[k]})
      BY <1>0, <2>10 DEF WarningsAccountedFor
    <3> QED
      BY <1>0, <2>1, <2>9, <3>1
  <2>12. DiscardedWasLogged'
    BY <1>0, <1>1, <1>2, <2>1 DEF DiscardedWasLogged
  <2> QED
    BY <1>0, <2>7, <2>8, <2>11, <2>12 DEF WarningsAccountedFor
<1>3. CASE k \notin 1 .. w
  BY <1>0, <1>3 DEF remove_warning_at, WarningsAccountedFor, DiscardedWasLogged
<1> QED
  BY <1>2, <1>3

\* Clearing takes out the cached warnings and none of those on their way.
LEMMA ClearingAccounts ==
  ASSUME IInv, NEW s \in Sessions, clear(s)
  PROVE  DiscardedWasLogged' /\ WarningsAccountedFor'
<1>0. /\ TypeOK /\ DiscardedWasLogged /\ WarningsAccountedFor
      /\ warnings' = <<>>
      /\ discarded' = discarded \cup Range(warnings)
      /\ UNCHANGED <<logged, log_queue>>
      /\ Underway' = Underway
  BY DEF IInv, clear, Runs, Underway
<1>1. /\ DOMAIN warnings = 1 .. Len(warnings)
      /\ \A i \in 1 .. Len(warnings) : warnings[i] \in 1 .. logged
      /\ \A i \in Underway : log_queue[i].id \in 1 .. logged
      /\ logged \in Nat
  BY <1>0, Positions
<1>2. DOMAIN warnings' = {} /\ Range(warnings') = {}
  BY <1>0 DEF Range
<1>3. Range(warnings) \cap {log_queue[i].id : i \in Underway} = {}
  <2>1. \A i \in DOMAIN warnings, j \in Underway : warnings[i] # log_queue[j].id
    <3>1. \A i \in DOMAIN warnings, j \in Underway : warnings[i] < log_queue[j].id
      BY <1>0 DEF WarningsAccountedFor
    <3> QED
      BY <1>1, <3>1
  <2> QED
    BY <2>1 DEF Range
<1>4. {log_queue[i].id : i \in Underway}
        = 1 .. logged \ (discarded \cup Range(warnings))
  BY <1>0, <1>3 DEF WarningsAccountedFor
<1>5. DiscardedWasLogged'
  BY <1>0, <1>1 DEF DiscardedWasLogged, Range
<1> QED
  BY <1>0, <1>2, <1>4, <1>5 DEF WarningsAccountedFor
\* Every step keeps the account of the warnings.
LEMMA AccountStep ==
  ASSUME IInv, [Next]_vars
  PROVE  DiscardedWasLogged' /\ WarningsAccountedFor'
<1>0. DiscardedWasLogged /\ WarningsAccountedFor
  BY DEF IInv
<1>1. ASSUME UNCHANGED <<logged, log_queue, warnings, discarded>>
      PROVE  DiscardedWasLogged' /\ WarningsAccountedFor'
  BY <1>0, <1>1 DEF DiscardedWasLogged, WarningsAccountedFor, Underway
<1>2. CASE \E level \in Levels : Handler(level)
  BY <1>1, <1>2 DEF Handler
<1>3. CASE Log
  BY <1>3, LogAccounts
<1>4. CASE Worker
  <2>1. DiscardedWasLogged'
    BY <1>0, <1>4 DEF Worker, DiscardedWasLogged
  <2> QED
    BY <1>4, <2>1, WorkerAccounts
<1>5. ASSUME NEW s \in Sessions, HandleCommand(s)
      PROVE  DiscardedWasLogged' /\ WarningsAccountedFor'
  <2>1. CASE get_warnings_snapshot(s) \/ UnknownCommand(s)
    BY <1>1, <2>1 DEF get_warnings_snapshot, UnknownCommand, Runs
  <2>2. CASE clear(s)
    BY <2>2, ClearingAccounts
  <2>3. CASE remove_warning_at(s)
    BY <2>3, RemovalAccounts
  <2> QED
    BY <1>5, <2>1, <2>2, <2>3 DEF HandleCommand
<1>6. ASSUME NEW s \in Sessions,
             \/ Written(s) \/ Connect(s) \/ Disconnect(s)
             \/ \E k \in Commands : SendCommand(s, k)
      PROVE  DiscardedWasLogged' /\ WarningsAccountedFor'
  BY <1>1, <1>6 DEF Written, Connect, Disconnect, SendCommand
<1>7. CASE UNCHANGED vars
  BY <1>1, <1>7 DEF vars
<1> QED
  BY <1>2, <1>3, <1>4, <1>5, <1>6, <1>7 DEF Next, Query

----------------------------------------------------------------------------
(* What operators have on their screens *)

\* Nothing but a removal moves a warning that somebody has been shown: the
\* cache only grows at its end.
LEMMA ViewStep ==
  ASSUME IInv, [Next]_vars
  PROVE  ShownIndicesStand'
<1> DEFINE W == 1 .. MaxWarnings
<1>0. /\ warnings \in Seq(W) /\ warnings' \in Seq(W)
      /\ view \in [Sessions -> Seq(W)] /\ view' \in [Sessions -> Seq(W)]
      /\ <<>> \in Seq(W)
  BY TypeStep, EmptySeq DEF IInv, TypeOK
<1>1. /\ Len(warnings) \in Nat /\ Len(warnings') \in Nat
      /\ \A s \in Sessions : Len(view[s]) \in Nat
  BY <1>0, LenProperties
<1>2. \A s \in Sessions : IsPrefix(view[s], warnings)
  BY DEF IInv, ShownIndicesStand
<1>3. \A s \in Sessions : view[s] \in Seq(W) /\ view'[s] \in Seq(W)
  BY <1>0
<1> HIDE DEF W
<1>4. \A s \in Seq(W) : IsPrefix(<<>>, s) /\ IsPrefix(s, s)
  <2> SUFFICES ASSUME NEW s \in Seq(W)
               PROVE  IsPrefix(<<>>, s) /\ IsPrefix(s, s)
    OBVIOUS
  <2>1. Len(s) \in Nat /\ Len(<<>>) = 0
    BY LenProperties, EmptySeq
  <2>2. IsPrefix(s, s)
    BY <2>1, PrefixByPosition
  <2>3. Len(<<>>) <= Len(s) /\ \A i \in 1 .. Len(<<>>) : <<>>[i] = s[i]
    BY <2>1
  <2>4. IsPrefix(<<>>, s)
    BY <1>0, <2>3, PrefixByPosition
  <2> QED
    BY <2>2, <2>4
<1>5. ASSUME warnings' = warnings,
             \A s \in Sessions : view'[s] \in {view[s], <<>>, warnings}
      PROVE  ShownIndicesStand'
  BY <1>0, <1>2, <1>4, <1>5 DEF ShownIndicesStand
<1>6. ASSUME \A s \in Sessions : view'[s] = <<>>
      PROVE  ShownIndicesStand'
  BY <1>0, <1>4, <1>6 DEF ShownIndicesStand
<1>7. CASE Worker
  <2>1. /\ Len(warnings) <= Len(warnings')
        /\ \A i \in 1 .. Len(warnings) : warnings'[i] = warnings[i]
    <3>1. CASE Head(log_queue).level = "warn"
      <4>1. warnings' = Append(warnings, Head(log_queue).id)
        BY <1>7, <3>1 DEF Worker, sink_it_
      <4>2. /\ Len(warnings') = Len(warnings) + 1
            /\ \A i \in 1 .. Len(warnings) : warnings'[i] = warnings[i]
        BY <1>0, <4>1
      <4> QED
        BY <1>1, <4>2
    <3>2. CASE Head(log_queue).level # "warn"
      BY <1>1, <1>7, <3>2 DEF Worker, sink_it_
    <3> QED
      BY <3>1, <3>2
  <2>2. ASSUME NEW s \in Sessions
        PROVE  IsPrefix(view[s], warnings')
    <3>1. /\ Len(view[s]) <= Len(warnings)
          /\ \A i \in 1 .. Len(view[s]) : view[s][i] = warnings[i]
      BY <1>0, <1>2, <1>3, PrefixByPosition
    <3>2. /\ Len(view[s]) <= Len(warnings')
          /\ \A i \in 1 .. Len(view[s]) : view[s][i] = warnings'[i]
      BY <1>1, <2>1, <3>1
    <3> QED
      BY <1>0, <1>3, <3>2, PrefixByPosition
  <2> QED
    BY <1>7, <2>2 DEF Worker, ShownIndicesStand
<1>8. ASSUME NEW s \in Sessions, HandleCommand(s)
      PROVE  ShownIndicesStand'
  <2>1. CASE get_warnings_snapshot(s)
    BY <1>0, <1>5, <2>1 DEF get_warnings_snapshot
  <2>2. CASE clear(s)
    BY <1>6, <2>2 DEF clear, NoViews
  <2>3. CASE remove_warning_at(s)
    <3>1. CASE command[s].index + 1 \in 1 .. Len(warnings)
      BY <1>6, <2>3, <3>1 DEF remove_warning_at, NoViews
    <3>2. CASE command[s].index + 1 \notin 1 .. Len(warnings)
      BY <1>5, <2>3, <3>2 DEF remove_warning_at
    <3> QED
      BY <3>1, <3>2
  <2>4. CASE UnknownCommand(s)
    BY <1>5, <2>4 DEF UnknownCommand
  <2> QED
    BY <1>8, <2>1, <2>2, <2>3, <2>4 DEF HandleCommand
<1>9. CASE \/ \E level \in Levels : Handler(level)
           \/ Log
           \/ UNCHANGED vars
           \/ \E s \in Sessions : \/ Written(s) \/ Connect(s) \/ Disconnect(s)
                                  \/ \E k \in Commands : SendCommand(s, k)
  BY <1>0, <1>5, <1>9
  DEF Handler, Log, vars, Written, Connect, Disconnect, SendCommand
<1> QED
  BY <1>7, <1>8, <1>9 DEF Next, Query

----------------------------------------------------------------------------
(* Results *)

\* The inductive invariant holds of every behaviour.
THEOREM Invariance == Spec => []IInv
<1>1. Init => IInv
  <2> SUFFICES ASSUME Init PROVE IInv
    OBVIOUS
  <2> USE DEF Init
  <2>1. Underway = {} /\ DOMAIN warnings = {} /\ Range(warnings) = {}
    BY DEF Underway, Range
  <2>2. TypeOK /\ CallHasNumber
    BY WarningCacheAssumption, EmptySeq DEF TypeOK, CallHasNumber
  <2>3. DiscardedWasLogged /\ WarningsAccountedFor
    BY <2>1 DEF DiscardedWasLogged, WarningsAccountedFor
  <2>4. IsPrefix(<<>>, <<>>)
    BY DEF IsPrefix
  <2>5. ShownIndicesStand
    BY <2>4 DEF ShownIndicesStand
  <2> QED
    BY <2>2, <2>3, <2>5 DEF IInv
<1>2. IInv /\ [Next]_vars => IInv'
  BY TypeStep, AccountStep, ViewStep DEF IInv
<1> QED
  BY <1>1, <1>2, PTL DEF Spec

\* The queue of the logger never exceeds its size, and all else has its type.
THEOREM TypeCorrect == Spec => []TypeOK
<1>1. IInv => TypeOK
  BY DEF IInv
<1> QED
  BY <1>1, Invariance, PTL

\* No warning is lost, doubled or overtaken on its way from the log call
\* through the queue to the cache, whatever operators remove meanwhile.
THEOREM WarningsAccountedForHolds == Spec => []WarningsAccountedFor
<1>1. IInv => WarningsAccountedFor
  BY DEF IInv
<1> QED
  BY <1>1, Invariance, PTL

\* An index that get_warnings has shown stands until somebody removes.
THEOREM ShownIndicesStandHolds == Spec => []ShownIndicesStand
<1>1. IInv => ShownIndicesStand
  BY DEF IInv
<1> QED
  BY <1>1, Invariance, PTL

\* An operator whose answer nobody has made void removes, by its index, the
\* warning that the answer showed there, and no other.
TakesWhatWasShown ==
  \A s \in Sessions :
    remove_warning_at(s) /\ command[s].index + 1 \in DOMAIN view[s] =>
      discarded' = discarded \cup {view[s][command[s].index + 1]}

\* remove_warning_at with an index from a valid answer removes what was meant.
THEOREM RemovesWhatWasShown == Spec => [][TakesWhatWasShown]_vars
<1>1. IInv => TakesWhatWasShown
  <2> SUFFICES ASSUME IInv, NEW s \in Sessions, remove_warning_at(s),
                      command[s].index + 1 \in DOMAIN view[s]
               PROVE  discarded' = discarded \cup {view[s][command[s].index + 1]}
    BY DEF TakesWhatWasShown
  <2> DEFINE k == command[s].index + 1
  <2>1. /\ view[s] \in Seq(1 .. MaxWarnings)
        /\ warnings \in Seq(1 .. MaxWarnings)
        /\ IsPrefix(view[s], warnings)
    BY DEF IInv, TypeOK, ShownIndicesStand
  <2>2. /\ DOMAIN view[s] = 1 .. Len(view[s])
        /\ Len(view[s]) \in Nat /\ Len(warnings) \in Nat
    BY <2>1, LenProperties
  <2>3. Len(view[s]) <= Len(warnings) /\ view[s][k] = warnings[k]
    BY <2>1, <2>2, PrefixByPosition
  <2>4. k \in 1 .. Len(warnings)
    BY <2>2, <2>3
  <2> QED
    BY <2>3, <2>4 DEF remove_warning_at
<1> QED
  BY <1>1, Invariance, PTL
==============================================================================
