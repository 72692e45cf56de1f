----------------------------- MODULE CmapProofs -----------------------------
(***************************************************************************)
(* Proofs about the word counting map, for any number of readers, askers   *)
(* and words and any buffer sizes: nobody sends on a channel that Stop     *)
(* closed, the answers under way match the askers that wait, and the map   *)
(* is a counter. Whatever order range takes, a reducer is told the word   *)
(* it asks for, because each step of the functor keeps the best so far.    *)
(***************************************************************************)
EXTENDS Cmap, FiniteSetTheorems, SequenceTheorems, WellFoundedInduction, TLAPS

\* main waits for the readers and kills the askers before it stops the map.
MainOrder ==
    /\ main # "wait" => \A r \in Readers : reader[r] = 0
    /\ main \in {"kill_reducer", "stop", "stopped"} =>
          \A a \in Askers : asker[a].step = "killed"
    /\ closed => main = "stopped"

\* With one asker everything on its way is about the word it asked for, and
\* what it was told before is at most what it is going to be told.
ReportsInTime ==
    arg_askers <= 1 =>
        /\ \A w \in Words : reported[w] <= cmap_ar[w]
        /\ \A a \in Awaiting : \A w \in Words : asker[a].word = w =>
              /\ \A i \in DOMAIN ask_chan : ask_chan[i] = w
              /\ listener.step = "answer" => listener.count \in reported[w] .. cmap_ar[w]
              /\ \A i \in DOMAIN count_chan : count_chan[i] \in reported[w] .. cmap_ar[w]

IInv == /\ TypeOK
        /\ MainOrder
        /\ AnswersMatchAskers
        /\ ReportsInTime

-----------------------------------------------------------------------------
\* Arithmetic on sequences and sets.
LEMMA OccurrencesFinite ==
  ASSUME NEW S, NEW s \in Seq(S), NEW w
  PROVE  /\ IsFiniteSet({i \in DOMAIN s : s[i] = w})
         /\ Occurrences(s, w) \in Nat
<1>1. DOMAIN s = 1 .. Len(s) /\ Len(s) \in Nat
  OBVIOUS
<1>2. IsFiniteSet(1 .. Len(s))
  BY <1>1, FS_Interval
<1>3. {i \in DOMAIN s : s[i] = w} \in SUBSET (1 .. Len(s))
  BY <1>1
<1> QED
  BY <1>2, <1>3, FS_Subset, FS_CardinalityType DEF Occurrences

LEMMA OccurrencesEmpty == \A w : Occurrences(<<>>, w) = 0
<1> SUFFICES ASSUME NEW w PROVE Occurrences(<<>>, w) = 0
  OBVIOUS
<1>1. {i \in DOMAIN <<>> : <<>>[i] = w} = {}
  OBVIOUS
<1> QED
  BY <1>1, FS_EmptySet DEF Occurrences

LEMMA OccurrencesAppend ==
  ASSUME NEW S, NEW s \in Seq(S), NEW x \in S, NEW w
  PROVE  Occurrences(Append(s, x), w) = Occurrences(s, w) + (IF x = w THEN 1 ELSE 0)
<1> DEFINE old == {i \in DOMAIN s : s[i] = w}
           new == {i \in DOMAIN Append(s, x) : Append(s, x)[i] = w}
<1>1. IsFiniteSet(old) /\ Cardinality(old) \in Nat
  BY OccurrencesFinite DEF Occurrences
<1>2. Len(s) \in Nat /\ Len(s) + 1 \notin old
  OBVIOUS
<1>3. new = IF x = w THEN old \cup {Len(s) + 1} ELSE old
  OBVIOUS
<1>4. Cardinality(old \cup {Len(s) + 1}) = Cardinality(old) + 1
  BY <1>1, <1>2, FS_AddElement
<1> HIDE DEF old, new
<1>5. Cardinality(new) = Cardinality(old) + (IF x = w THEN 1 ELSE 0)
  BY <1>1, <1>3, <1>4
<1> QED
  BY <1>5 DEF Occurrences, old, new

LEMMA OccurrencesTail ==
  ASSUME NEW S, NEW s \in Seq(S), s # <<>>, NEW w
  PROVE  Occurrences(s, w) = Occurrences(Tail(s), w) + (IF Head(s) = w THEN 1 ELSE 0)
<1> DEFINE t == Tail(s)
           old == {i \in DOMAIN s : s[i] = w}
           new == {i \in DOMAIN t : t[i] = w}
<1>1. /\ t \in Seq(S) /\ Len(t) = Len(s) - 1 /\ Len(s) \in Nat /\ Head(s) = s[1]
      /\ DOMAIN t = 1 .. Len(s) - 1 /\ DOMAIN s = 1 .. Len(s) /\ Len(s) > 0
      /\ \A i \in 1 .. Len(s) - 1 : t[i] = s[i + 1]
  OBVIOUS
<1>2. IsFiniteSet(old) /\ Cardinality(old) \in Nat
  BY OccurrencesFinite DEF Occurrences
<1>3. IsFiniteSet(new) /\ Cardinality(new) \in Nat
  BY <1>1, OccurrencesFinite DEF Occurrences
<1>4. Cardinality(old \ {1}) = Cardinality(new)
  <2> DEFINE f == [i \in new |-> i + 1]
  <2>1. f \in Bijection(new, old \ {1})
    <3>1. \A i \in new : f[i] \in old \ {1}
      BY <1>1
    <3>2. \A i, j \in new : f[i] = f[j] => i = j
      BY <1>1
    <3>3. \A j \in old \ {1} : j - 1 \in new /\ f[j - 1] = j
      BY <1>1
    <3> HIDE DEF f, new, old
    <3>4. f \in [new -> old \ {1}]
      BY <3>1 DEF f
    <3>5. f \in Injection(new, old \ {1})
      BY <3>2, <3>4 DEF Injection, IsInjective
    <3>6. f \in Surjection(new, old \ {1})
      BY <3>3, <3>4 DEF Surjection
    <3> QED
      BY <3>5, <3>6 DEF Bijection
  <2> QED
    BY <1>3, <2>1, FS_Bijection DEF ExistsBijection
<1>5. 1 \in old <=> Head(s) = w
  BY <1>1
<1>6. Cardinality(old \ {1}) = IF 1 \in old THEN Cardinality(old) - 1 ELSE Cardinality(old)
  BY <1>2, FS_RemoveElement
<1> HIDE DEF old, new
<1>7. Cardinality(old) = Cardinality(new) + (IF Head(s) = w THEN 1 ELSE 0)
  BY <1>2, <1>3, <1>4, <1>5, <1>6
<1> QED
  BY <1>7 DEF Occurrences, old, new

LEMMA AwaitingFinite ==
  ASSUME TypeOK
  PROVE  IsFiniteSet(Awaiting) /\ Cardinality(Awaiting) \in Nat
<1>1. IsFiniteSet(Askers)
  <2>1. arg_askers - 1 \in Int
    BY BoundsAssumption DEF TypeOK, ProgramOK
  <2> QED
    BY <2>1, FS_Interval DEF Askers
<1>2. Awaiting \in SUBSET Askers
  BY DEF Awaiting
<1> QED
  BY <1>1, <1>2, FS_Subset, FS_CardinalityType
-----------------------------------------------------------------------------
\* What a step can be.
LEMMA StepCases ==
  ASSUME [Next]_vars
  PROVE  \/ \E r \in Readers, w \in Words : AddWord(r, w)
         \/ \E a \in Askers : (\E w \in Words : AskTick(a, w)) \/ Ask(a) \/ GetAnswer(a)
         \/ \E r \in Reducers : ReduceTick(r) \/ SendReduce(r) \/ GetReduction(r)
         \/ TakeWord \/ TakeAsk \/ Answer \/ ListenPanics
         \/ ReadersDone \/ AskersKilled \/ Stop \/ Exit
         \/ \E a \in Askers : KillAsker(a)
         \/ \E r \in Reducers : KillReducer(r)
         \/ UNCHANGED vars
  BY DEF Next, ReaderStep, AskerStep, ReducerStep, Listen, Main

LEMMA InitInv ==
  ASSUME Init
  PROVE  IInv
<1>1. TypeOK
  <2>1. ProgramOK
    BY DEF Init, ProgramOK
  <2>2. MapOK
    BY DEF Init, MapOK
  <2>3. ChannelsOK
    <3>1. <<>> \in Seq(Words) /\ <<>> \in Seq(Nat)
      OBVIOUS
    <3> QED
      BY <3>1 DEF Init, ChannelsOK
  <2>4. ListenerOK
    BY DEF Init, ListenerOK
  <2>5. AskersOK
    BY DEF Init, AskersOK
  <2>6. ClientsOK
    BY DEF Init, ClientsOK
  <2> QED
    BY <2>1, <2>2, <2>3, <2>4, <2>5, <2>6 DEF TypeOK
<1>2. MainOrder
  BY DEF Init, MainOrder
<1>3. Awaiting = {}
  BY DEF Init, Awaiting, Idle
<1>4. AnswersMatchAskers
  BY <1>3, FS_EmptySet DEF Init, AnswersMatchAskers, Idle
<1>5. ReportsInTime
  BY <1>3, WordsAssumption DEF Init, ReportsInTime
<1> QED
  BY <1>1, <1>2, <1>4, <1>5 DEF IInv

\* One lemma per part of the type invariant.
LEMMA ProgramOKStep ==
  ASSUME ProgramOK, [Next]_vars
  PROVE  ProgramOK'
<1>1. ASSUME NEW r \in Readers, NEW w \in Words, AddWord(r, w) PROVE ProgramOK'
  BY <1>1 DEF ProgramOK, AddWord, askRest, asking
<1>2. ASSUME NEW a \in Askers, Ask(a) PROVE ProgramOK'
  BY <1>2 DEF ProgramOK, Ask, askRest, asking
<1>3. ASSUME ListenPanics PROVE ProgramOK'
  BY <1>3 DEF ProgramOK, ListenPanics, askRest, asking
<1>4. ASSUME ReadersDone PROVE ProgramOK'
  BY <1>4 DEF ProgramOK, ReadersDone, askRest, asking
<1>5. ASSUME AskersKilled PROVE ProgramOK'
  BY <1>5 DEF ProgramOK, AskersKilled, askRest, asking
<1>6. ASSUME NEW r \in Reducers, KillReducer(r) PROVE ProgramOK'
  BY <1>6 DEF ProgramOK, KillReducer, askRest, asking
<1>7. ASSUME Stop PROVE ProgramOK'
  BY <1>7 DEF ProgramOK, Stop, askRest, asking
<1>8. ASSUME Exit PROVE ProgramOK'
  BY <1>8 DEF ProgramOK, Exit, askRest, asking
<1>9. ASSUME UNCHANGED <<arg_askers, program, main>> PROVE ProgramOK'
  BY <1>9 DEF ProgramOK
<1> QED
  BY <1>1, <1>2, <1>3, <1>4, <1>5, <1>6, <1>7, <1>8, <1>9, StepCases
     DEF AskTick, GetAnswer, ReduceTick, SendReduce, GetReduction, TakeWord, TakeAsk,
         Answer, KillAsker,
         vars, map, channels, asking, askRest

LEMMA MapOKStep ==
  ASSUME ChannelsOK, MapOK, [Next]_vars
  PROVE  MapOK'
<1>1. ASSUME NEW a \in Askers, GetAnswer(a) PROVE MapOK'
  <2>1. Head(count_chan) \in Nat
    BY <1>1 DEF ChannelsOK, GetAnswer
  <2> QED
    BY <1>1, <2>1 DEF MapOK, GetAnswer, map
<1>2. ASSUME TakeWord PROVE MapOK'
  <2>1. UNCHANGED reported
    BY <1>2 DEF TakeWord, asking, askRest
  <2> QED
    BY <1>2, <2>1 DEF MapOK, TakeWord
<1>3. ASSUME UNCHANGED <<cmap_ar, reported>> PROVE MapOK'
  BY <1>3 DEF MapOK
<1> QED
  BY <1>1, <1>2, <1>3, StepCases
     DEF AddWord, AskTick, Ask, ReduceTick, SendReduce, GetReduction, TakeAsk,
         Answer, ListenPanics, ReadersDone, KillAsker, AskersKilled, KillReducer,
         Stop, Exit,
         vars, map, channels, asking, askRest

LEMMA ChannelsOKStep ==
  ASSUME ChannelsOK, AskersOK, ListenerOK, [Next]_vars
  PROVE  ChannelsOK'
<1>1. ASSUME NEW r \in Readers, NEW w \in Words, AddWord(r, w) PROVE ChannelsOK'
  BY <1>1 DEF ChannelsOK, AddWord, map
<1>2. ASSUME NEW a \in Askers, Ask(a) PROVE ChannelsOK'
  <2>1. asker[a].word \in Words
    BY <1>2 DEF AskersOK, Ask, Idle
  <2>2. Append(ask_chan, asker[a].word) \in Seq(Words)
    BY <2>1 DEF ChannelsOK
  <2> QED
    BY <1>2, <2>2 DEF ChannelsOK, Ask, map
<1>3. ASSUME NEW a \in Askers, GetAnswer(a) PROVE ChannelsOK'
  BY <1>3 DEF ChannelsOK, GetAnswer, map
<1>4. ASSUME TakeWord PROVE ChannelsOK'
  <2>1. add_chan # <<>> => Tail(add_chan) \in Seq(Words)
    BY DEF ChannelsOK
  <2> QED
    BY <1>4, <2>1 DEF ChannelsOK, TakeWord
<1>5. ASSUME TakeAsk PROVE ChannelsOK'
  <2>1. ask_chan # <<>> => Tail(ask_chan) \in Seq(Words)
    BY DEF ChannelsOK
  <2> QED
    BY <1>5, <2>1 DEF ChannelsOK, TakeAsk
<1>6. ASSUME Answer PROVE ChannelsOK'
  <2>1. listener.count \in Nat
    BY <1>6 DEF ListenerOK, Answer, Idle
  <2> QED
    BY <1>6, <2>1 DEF ChannelsOK, Answer
<1>7. ASSUME Stop PROVE ChannelsOK'
  BY <1>7 DEF ChannelsOK, Stop, channels
<1>8. ASSUME UNCHANGED <<add_chan, ask_chan, count_chan, closed>> PROVE ChannelsOK'
  BY <1>8 DEF ChannelsOK
<1> QED
  BY <1>1, <1>2, <1>3, <1>4, <1>5, <1>6, <1>7, <1>8, StepCases
     DEF AskTick, ReduceTick, SendReduce, GetReduction, ListenPanics, ReadersDone,
         KillAsker, AskersKilled, KillReducer, Exit,
         vars, map, channels, asking, askRest

LEMMA ListenerOKStep ==
  ASSUME MapOK, ChannelsOK, ListenerOK, [Next]_vars
  PROVE  ListenerOK'
<1>1. ASSUME NEW r \in Reducers, SendReduce(r) PROVE ListenerOK'
  <2>1. listener'.step = "reply" /\ listener'.functor \in Reducers
    BY <1>1 DEF SendReduce
  <2> QED
    BY <2>1 DEF ListenerOK
<1>2. ASSUME NEW r \in Reducers, GetReduction(r) PROVE ListenerOK'
  BY <1>2 DEF ListenerOK, GetReduction
<1>3. ASSUME TakeAsk PROVE ListenerOK'
  <2>1. \E n \in Nat : listener' = [step |-> "answer", count |-> n]
    <3>1. ask_chan # <<>> => Head(ask_chan) \in Words
      BY DEF ChannelsOK
    <3> QED
      BY <1>3, <3>1 DEF MapOK, TakeAsk
  <2> QED
    BY <2>1 DEF ListenerOK
<1>4. ASSUME Answer PROVE ListenerOK'
  BY <1>4 DEF ListenerOK, Answer
<1>5. ASSUME UNCHANGED <<listener>> PROVE ListenerOK'
  BY <1>5 DEF ListenerOK
<1> QED
  BY <1>1, <1>2, <1>3, <1>4, <1>5, StepCases
     DEF AddWord, AskTick, Ask, GetAnswer, ReduceTick, TakeWord, ListenPanics,
         ReadersDone, KillAsker, AskersKilled, KillReducer, Stop, Exit,
         vars, map, channels, asking, askRest

LEMMA AskersOKStep ==
  ASSUME AskersOK, [Next]_vars
  PROVE  AskersOK'
<1>1. ASSUME NEW a \in Askers, NEW w \in Words, AskTick(a, w) PROVE AskersOK'
  BY <1>1 DEF AskersOK, Askers, AskTick, askRest
<1>2. ASSUME NEW a \in Askers, Ask(a) PROVE AskersOK'
  <2>1. asker[a] \in [step : {"ask", "await"}, word : Words]
    BY <1>2 DEF AskersOK, Ask, Idle
  <2>2. [asker[a] EXCEPT !.step = "await"] \in [step : {"ask", "await"}, word : Words]
    BY <2>1
  <2> QED
    BY <1>2, <2>2 DEF AskersOK, Askers, Ask, askRest
<1>3. ASSUME NEW a \in Askers, GetAnswer(a) PROVE AskersOK'
  BY <1>3 DEF AskersOK, Askers, GetAnswer
<1>4. ASSUME NEW a \in Askers, KillAsker(a) PROVE AskersOK'
  BY <1>4 DEF AskersOK, Askers, KillAsker, askRest
<1>5. ASSUME UNCHANGED <<arg_askers, asker>> PROVE AskersOK'
  BY <1>5 DEF AskersOK, Askers
<1> QED
  BY <1>1, <1>2, <1>3, <1>4, <1>5, StepCases
     DEF AddWord, ReduceTick, SendReduce, GetReduction, TakeWord, TakeAsk, Answer,
         ListenPanics, ReadersDone, AskersKilled, KillReducer, Stop, Exit,
         vars, map, channels, asking, askRest

LEMMA ClientsOKStep ==
  ASSUME ClientsOK, [Next]_vars
  PROVE  ClientsOK'
<1>1. ASSUME NEW r \in Readers, NEW w \in Words, AddWord(r, w) PROVE ClientsOK'
  <2>1. reader' \in [Readers -> 0 .. WordsEach]
    BY <1>1, BoundsAssumption DEF ClientsOK, AddWord
  <2> QED
    BY <1>1, <2>1 DEF ClientsOK, AddWord
<1>2. ASSUME NEW r \in Reducers, ReduceTick(r) PROVE ClientsOK'
  BY <1>2 DEF ClientsOK, ReduceTick
<1>3. ASSUME NEW r \in Reducers, SendReduce(r) PROVE ClientsOK'
  BY <1>3 DEF ClientsOK, SendReduce
<1>4. ASSUME NEW r \in Reducers, GetReduction(r) PROVE ClientsOK'
  BY <1>4 DEF ClientsOK, GetReduction
<1>5. ASSUME NEW r \in Reducers, KillReducer(r) PROVE ClientsOK'
  BY <1>5 DEF ClientsOK, KillReducer
<1>6. ASSUME UNCHANGED <<reader, reducer>> PROVE ClientsOK'
  BY <1>6 DEF ClientsOK
<1> QED
  BY <1>1, <1>2, <1>3, <1>4, <1>5, <1>6, StepCases
     DEF AskTick, Ask, GetAnswer, TakeWord, TakeAsk, Answer, ListenPanics,
         ReadersDone, KillAsker, AskersKilled, Stop, Exit,
         vars, map, channels, asking, askRest

LEMMA TypeStep ==
  ASSUME TypeOK, [Next]_vars
  PROVE  TypeOK'
  BY ProgramOKStep, MapOKStep, ChannelsOKStep, ListenerOKStep, AskersOKStep,
      ClientsOKStep
     DEF TypeOK

LEMMA OrderStep ==
  ASSUME TypeOK, MainOrder, [Next]_vars
  PROVE  MainOrder'
<1>1. ASSUME NEW r \in Readers, NEW w \in Words, AddWord(r, w) PROVE MainOrder'
  <2>1. main = "wait" /\ ~closed
    <3>1. reader[r] # 0
      BY <1>1 DEF ClientsOK, TypeOK, AddWord
    <3> QED
      BY <3>1 DEF MainOrder
  <2> QED
    BY <1>1, <2>1 DEF MainOrder, AddWord, map
<1>2. ASSUME NEW a \in Askers, NEW w \in Words, AskTick(a, w) PROVE MainOrder'
  BY <1>2
     DEF MainOrder, TypeOK, AskersOK, ProgramOK, Askers, Idle, AskTick, vars, map,
         channels, asking, askRest
<1>3. ASSUME NEW a \in Askers, Ask(a) PROVE MainOrder'
  BY <1>3
     DEF MainOrder, TypeOK, AskersOK, ProgramOK, Askers, Idle, Ask, vars, map,
         channels, asking, askRest
<1>4. ASSUME NEW a \in Askers, GetAnswer(a) PROVE MainOrder'
  BY <1>4
     DEF MainOrder, TypeOK, AskersOK, ProgramOK, Askers, Idle, GetAnswer, vars, map,
         channels, asking, askRest
<1>5. ASSUME NEW r \in Reducers, ReduceTick(r) PROVE MainOrder'
  BY <1>5
     DEF MainOrder, TypeOK, AskersOK, ProgramOK, Askers, Idle, ReduceTick, vars, map,
         channels, asking, askRest
<1>6. ASSUME NEW r \in Reducers, SendReduce(r) PROVE MainOrder'
  BY <1>6
     DEF MainOrder, TypeOK, AskersOK, ProgramOK, Askers, Idle, SendReduce, vars, map,
         channels, asking, askRest
<1>7. ASSUME NEW r \in Reducers, GetReduction(r) PROVE MainOrder'
  BY <1>7
     DEF MainOrder, TypeOK, AskersOK, ProgramOK, Askers, Idle, GetReduction, vars,
         map, channels, asking, askRest
<1>8. ASSUME TakeWord PROVE MainOrder'
  BY <1>8
     DEF MainOrder, TypeOK, AskersOK, ProgramOK, Askers, Idle, TakeWord, vars, map,
         channels, asking, askRest
<1>9. ASSUME TakeAsk PROVE MainOrder'
  BY <1>9
     DEF MainOrder, TypeOK, AskersOK, ProgramOK, Askers, Idle, TakeAsk, vars, map,
         channels, asking, askRest
<1>10. ASSUME Answer PROVE MainOrder'
  BY <1>10
     DEF MainOrder, TypeOK, AskersOK, ProgramOK, Askers, Idle, Answer, vars, map,
         channels, asking, askRest
<1>11. ASSUME ListenPanics PROVE MainOrder'
  BY <1>11
     DEF MainOrder, TypeOK, AskersOK, ProgramOK, Askers, Idle, ListenPanics, vars,
         map, channels, asking, askRest
<1>12. ASSUME ReadersDone PROVE MainOrder'
  BY <1>12
     DEF MainOrder, TypeOK, AskersOK, ProgramOK, Askers, Idle, ReadersDone, vars,
         map, channels, asking, askRest
<1>13. ASSUME NEW a \in Askers, KillAsker(a) PROVE MainOrder'
  BY <1>13
     DEF MainOrder, TypeOK, AskersOK, ProgramOK, Askers, Idle, KillAsker, vars, map,
         channels, asking, askRest
<1>14. ASSUME AskersKilled PROVE MainOrder'
  BY <1>14
     DEF MainOrder, TypeOK, AskersOK, ProgramOK, Askers, Idle, AskersKilled, vars,
         map, channels, asking, askRest
<1>15. ASSUME NEW r \in Reducers, KillReducer(r) PROVE MainOrder'
  BY <1>15
     DEF MainOrder, TypeOK, AskersOK, ProgramOK, Askers, Idle, KillReducer, vars,
         map, channels, asking, askRest
<1>16. ASSUME Stop PROVE MainOrder'
  BY <1>16
     DEF MainOrder, TypeOK, AskersOK, ProgramOK, Askers, Idle, Stop, vars, map,
         channels, asking, askRest
<1>17. ASSUME Exit PROVE MainOrder'
  BY <1>17
     DEF MainOrder, TypeOK, AskersOK, ProgramOK, Askers, Idle, Exit, vars, map,
         channels, asking, askRest
<1>18. ASSUME UNCHANGED vars PROVE MainOrder'
  BY <1>18
     DEF MainOrder, TypeOK, AskersOK, ProgramOK, Askers, Idle, vars, map, channels,
         asking, askRest
<1> QED
  BY <1>1, <1>2, <1>3, <1>4, <1>5, <1>6, <1>7, <1>8, <1>9, <1>10, <1>11, <1>12,
      <1>13, <1>14, <1>15, <1>16, <1>17, <1>18, StepCases

-----------------------------------------------------------------------------
\* The number of answers under way and of the askers that wait change together.
LEMMA AnswersStep ==
  ASSUME TypeOK, TypeOK', MainOrder, AnswersMatchAskers, [Next]_vars
  PROVE  AnswersMatchAskers'
<1> USE DEF TypeOK
<1>1. IsFiniteSet(Awaiting) /\ Cardinality(Awaiting) \in Nat
  BY AwaitingFinite
<1>2. SUFFICES ASSUME ~closed' PROVE AnswersMatchAskers'
  BY DEF AnswersMatchAskers
<1>3. ASSUME UNCHANGED <<arg_askers, asker, closed, ask_chan, count_chan>>,
             listener'.step = "answer" <=> listener.step = "answer"
      PROVE  AnswersMatchAskers'
  <2>1. Awaiting' = Awaiting
    BY <1>2, <1>3 DEF Awaiting, Askers
  <2> QED
    BY <1>2, <1>3, <2>1 DEF AnswersMatchAskers
<1>4. ASSUME NEW a \in Askers, NEW w \in Words, AskTick(a, w)
      PROVE  AnswersMatchAskers'
  <2>1. Awaiting' = Awaiting
    BY <1>2, <1>4 DEF Awaiting, Askers, AskersOK, AskTick, askRest
  <2> QED
    BY <1>2, <1>4, <2>1 DEF AnswersMatchAskers, AskTick, map, channels
<1>5. ASSUME NEW a \in Askers, KillAsker(a)
      PROVE  AnswersMatchAskers'
  <2>1. Awaiting' = Awaiting
    BY <1>2, <1>5 DEF Awaiting, Askers, AskersOK, KillAsker, askRest
  <2> QED
    BY <1>2, <1>5, <2>1 DEF AnswersMatchAskers, KillAsker, map, channels
<1>6. ASSUME NEW a \in Askers, Ask(a)
      PROVE  AnswersMatchAskers'
  <2>1. ~closed /\ UNCHANGED <<listener, count_chan, arg_askers>>
    BY <1>2, <1>6 DEF Ask, map, askRest
  <2>2. Awaiting' = Awaiting \cup {a} /\ a \notin Awaiting
    BY <1>2, <1>6, <2>1 DEF Awaiting, Askers, AskersOK, Ask, Idle
  <2>3. Len(ask_chan') = Len(ask_chan) + 1
    BY <1>2, <1>6, <2>1 DEF Ask, ChannelsOK
  <2>4. Cardinality(Awaiting') = Cardinality(Awaiting) + 1
    BY <1>1, <2>2, FS_AddElement
  <2> QED
    BY <1>1, <2>1, <2>3, <2>4 DEF AnswersMatchAskers, ChannelsOK
<1>7. ASSUME NEW a \in Askers, GetAnswer(a)
      PROVE  AnswersMatchAskers'
  <2>1. ~closed /\ UNCHANGED <<listener, ask_chan, arg_askers>>
    BY <1>2, <1>7 DEF GetAnswer, map
  <2>2. Awaiting' = Awaiting \ {a} /\ a \in Awaiting
    BY <1>2, <1>7, <2>1 DEF Awaiting, Askers, AskersOK, GetAnswer, Idle
  <2>3. Len(count_chan') = Len(count_chan) - 1
    BY <1>2, <1>7, <2>1 DEF GetAnswer, ChannelsOK
  <2>4. Cardinality(Awaiting') = Cardinality(Awaiting) - 1
    BY <1>1, <2>2, FS_RemoveElement
  <2> QED
    BY <1>1, <2>1, <2>3, <2>4 DEF AnswersMatchAskers, ChannelsOK
<1>8. ASSUME TakeAsk
      PROVE  AnswersMatchAskers'
  <2>1. ~closed /\ UNCHANGED <<asker, count_chan, arg_askers>>
    BY <1>2, <1>8 DEF TakeAsk, asking, askRest
  <2>2. Awaiting' = Awaiting
    BY <2>1 DEF Awaiting, Askers
  <2>3. Len(ask_chan') = Len(ask_chan) - 1
    BY <1>2, <1>8, <2>1 DEF TakeAsk, ChannelsOK
  <2>4. listener.step # "answer" /\ listener'.step = "answer"
    BY <1>2, <1>8 DEF TakeAsk, Idle
  <2> QED
    BY <1>1, <2>1, <2>2, <2>3, <2>4 DEF AnswersMatchAskers, ChannelsOK
<1>9. ASSUME Answer
      PROVE  AnswersMatchAskers'
  <2>1. ~closed /\ UNCHANGED <<asker, ask_chan, arg_askers>>
    BY <1>2, <1>9 DEF Answer, asking, askRest
  <2>2. Awaiting' = Awaiting
    BY <2>1 DEF Awaiting, Askers
  <2>3. Len(count_chan') = Len(count_chan) + 1
    BY <1>2, <1>9, <2>1 DEF Answer, ChannelsOK
  <2>4. listener.step = "answer" /\ listener'.step # "answer"
    BY <1>2, <1>9 DEF Answer, Idle
  <2> QED
    BY <1>1, <2>1, <2>2, <2>3, <2>4 DEF AnswersMatchAskers, ChannelsOK
<1>10. ASSUME NEW r \in Reducers, SendReduce(r) \/ GetReduction(r)
       PROVE  AnswersMatchAskers'
  <2>1. UNCHANGED <<arg_askers, asker, closed, ask_chan, count_chan>>
    BY <1>2, <1>10 DEF SendReduce, GetReduction, channels, asking, askRest
  <2>2. listener.step # "answer" /\ listener'.step # "answer"
    BY <1>2, <1>10 DEF SendReduce, GetReduction, Idle
  <2> QED
    BY <1>3, <1>10, <2>1, <2>2
<1>11. ASSUME \/ \E r \in Readers, w \in Words : AddWord(r, w)
              \/ \E r \in Reducers : ReduceTick(r) \/ KillReducer(r)
              \/ TakeWord \/ ListenPanics
              \/ ReadersDone \/ AskersKilled \/ Exit \/ UNCHANGED vars
       PROVE  AnswersMatchAskers'
  <2>1. UNCHANGED <<arg_askers, asker, closed, ask_chan, count_chan, listener>>
    BY <1>2, <1>11
       DEF AddWord, ReduceTick, KillReducer, TakeWord, ListenPanics, ReadersDone,
                 AskersKilled, Exit, vars, map, channels, asking, askRest
  <2> QED
    BY <1>3, <1>11, <2>1
<1>12. ASSUME Stop PROVE FALSE
  BY <1>2, <1>12 DEF Stop
<1> QED
  BY <1>4, <1>5, <1>6, <1>7, <1>8, <1>9, <1>10, <1>11, <1>12, StepCases, Zenon

\* With one asker the reports stay in time.
LEMMA ReportsStep ==
  ASSUME TypeOK, TypeOK', MainOrder, MainOrder', AnswersMatchAskers, ReportsInTime,
         [Next]_vars
  PROVE  ReportsInTime'
<1> SUFFICES ASSUME (arg_askers <= 1)' PROVE ReportsInTime'
  BY DEF ReportsInTime
<1> USE DEF TypeOK
<1>1. IsFiniteSet(Awaiting) /\ Cardinality(Awaiting) \in Nat
  BY AwaitingFinite
<1>2. arg_askers' = arg_askers /\ Askers' = Askers
  BY StepCases
     DEF AddWord, AskTick, Ask, GetAnswer, ReduceTick, SendReduce, GetReduction,
       TakeWord, TakeAsk, Answer, ListenPanics, ReadersDone, KillAsker, AskersKilled,
       KillReducer, Stop, Exit, vars, asking, askRest, Askers
<1>3. \A a, b \in Askers : a = b
  BY <1>2, BoundsAssumption DEF Askers, ProgramOK
<1>4. ASSUME UNCHANGED <<cmap_ar, ask_chan, count_chan, reported>>,
             listener'.step = "answer" => listener' = listener,
             \A a \in Awaiting' : a \in Awaiting /\ asker'[a] = asker[a]
      PROVE  ReportsInTime'
  BY <1>2, <1>4 DEF ReportsInTime
<1>5. ASSUME NEW a \in Askers, NEW w \in Words, AskTick(a, w) PROVE ReportsInTime'
  <2>1. \A b \in Awaiting' : b \in Awaiting /\ asker'[b] = asker[b]
    BY <1>2, <1>5 DEF Awaiting, AskersOK, AskTick
  <2> QED
    BY <1>4, <1>5, <2>1 DEF AskTick, map, channels, askRest
<1>6. ASSUME NEW a \in Askers, KillAsker(a) PROVE ReportsInTime'
  <2>1. \A b \in Awaiting' : b \in Awaiting /\ asker'[b] = asker[b]
    BY <1>2, <1>6 DEF Awaiting, AskersOK, KillAsker
  <2> QED
    BY <1>4, <1>6, <2>1 DEF KillAsker, map, channels, askRest
<1>7. ASSUME NEW a \in Askers, Ask(a) PROVE ReportsInTime'
  <2>1. /\ asker[a].step = "ask"
        /\ UNCHANGED <<cmap_ar, closed, listener, count_chan, reported>>
    BY <1>7 DEF Ask, map, askRest
  <2>2. ~closed
    BY <2>1 DEF MainOrder
  <2>3. Awaiting = {}
    BY <1>3, <2>1 DEF Awaiting
  <2>4. Cardinality(Awaiting) = 0
    BY <2>3, FS_EmptySet
  <2>5. Len(ask_chan) = 0 /\ Len(count_chan) = 0 /\ listener.step # "answer"
    BY <2>2, <2>4 DEF AnswersMatchAskers, ChannelsOK
  <2>6. /\ ask_chan' = <<asker[a].word>> /\ asker'[a].word = asker[a].word
        /\ asker[a].word \in Words
    <3>1. ask_chan' = Append(ask_chan, asker[a].word) /\ asker[a].word \in Words
      BY <1>7, <2>1, <2>2 DEF Ask, AskersOK, Idle
    <3>2. ask_chan = <<>>
      BY <2>5 DEF ChannelsOK
    <3>3. asker'[a].word = asker[a].word
      BY <1>7, <2>1, <2>2 DEF Ask, AskersOK
    <3> QED
      BY <3>1, <3>2, <3>3
  <2>7. DOMAIN count_chan = {}
    BY <2>5 DEF ChannelsOK
  <2>8. \A b \in Awaiting' : b = a
    BY <1>2, <1>3 DEF Awaiting
  <2> QED
    BY <1>2, <2>1, <2>5, <2>6, <2>7, <2>8 DEF ReportsInTime
<1>8. ASSUME NEW a \in Askers, GetAnswer(a) PROVE ReportsInTime'
  <2>1. a \in Awaiting /\ asker[a].word \in Words
    BY <1>8 DEF GetAnswer, Awaiting, AskersOK, Idle
  <2>2. 1 \in DOMAIN count_chan /\ Head(count_chan) = count_chan[1]
    BY <1>8 DEF GetAnswer, ChannelsOK
  <2>3. Head(count_chan) <= cmap_ar[asker[a].word]
    BY <1>2, <2>1, <2>2 DEF ReportsInTime, MapOK
  <2>4. /\ cmap_ar' = cmap_ar
        /\ reported' = [reported EXCEPT ![asker[a].word] = Head(count_chan)]
    BY <1>8 DEF GetAnswer, map
  <2>5. Awaiting' = {}
    <3>1. asker'[a].step = "select"
      BY <1>8 DEF GetAnswer, AskersOK, Idle
    <3> QED
      BY <1>2, <1>3, <3>1 DEF Awaiting
  <2> QED
    BY <1>2, <2>1, <2>3, <2>4, <2>5 DEF ReportsInTime, MapOK
<1>9. ASSUME TakeWord PROVE ReportsInTime'
  <2>1. UNCHANGED <<listener, ask_chan, count_chan, asker, reported>> /\ Awaiting' = Awaiting
    BY <1>2, <1>9 DEF TakeWord, asking, askRest, Awaiting
  <2>2. \A w \in Words : cmap_ar'[w] \in Nat /\ cmap_ar[w] \in Nat /\ cmap_ar[w] <= cmap_ar'[w]
    <3>1. \E x \in Words \cup {EmptyWord} : cmap_ar' = [cmap_ar EXCEPT ![x] = @ + 1]
      <4>1. add_chan # <<>> => Head(add_chan) \in Words
        BY DEF ChannelsOK
      <4> QED
        BY <1>9, <4>1 DEF TakeWord
    <3> QED
      BY <3>1 DEF MapOK
  <2>3. \A w \in Words : \A n :
          n \in reported[w] .. cmap_ar[w] => n \in reported[w] .. cmap_ar'[w]
    BY <2>2 DEF MapOK
  <2> QED
    BY <1>2, <2>1, <2>2, <2>3 DEF ReportsInTime, MapOK
<1>10. ASSUME TakeAsk PROVE ReportsInTime'
  <2>1. /\ UNCHANGED <<cmap_ar, count_chan, asker, reported>> /\ Awaiting' = Awaiting
        /\ UNCHANGED closed
    BY <1>2, <1>10 DEF TakeAsk, asking, askRest, Awaiting
  <2>2. CASE closed
    <3>1. Awaiting' = {}
      BY <2>1, <2>2 DEF Awaiting, MainOrder
    <3> QED
      BY <1>2, <2>1, <3>1 DEF ReportsInTime
  <2>3. CASE ~closed
    <3>1. /\ ask_chan # <<>>
          /\ listener' = [step |-> "answer", count |-> cmap_ar[Head(ask_chan)]]
          /\ ask_chan' = Tail(ask_chan)
      BY <1>10, <2>3 DEF TakeAsk
    <3>2. /\ Head(ask_chan) = ask_chan[1] /\ 1 \in DOMAIN ask_chan
          /\ \A j \in DOMAIN Tail(ask_chan) :
                j + 1 \in DOMAIN ask_chan /\ Tail(ask_chan)[j] = ask_chan[j + 1]
      BY <3>1 DEF ChannelsOK
    <3>3. listener'.count = cmap_ar[Head(ask_chan)]
      BY <3>1
    <3>4. \A w \in Words : cmap_ar[w] \in Nat /\ reported[w] \in Nat
      BY DEF MapOK
    <3>5. \A a \in Awaiting : \A w \in Words : asker[a].word = w =>
              /\ \A j \in DOMAIN Tail(ask_chan) : Tail(ask_chan)[j] = w
              /\ listener'.count \in reported[w] .. cmap_ar[w]
      BY <1>2, <3>2, <3>3, <3>4 DEF ReportsInTime
    <3> QED
      BY <1>2, <2>1, <3>1, <3>5 DEF ReportsInTime
  <2> QED
    BY <2>2, <2>3
<1>11. ASSUME Answer PROVE ReportsInTime'
  <2>1. UNCHANGED <<cmap_ar, ask_chan, asker, reported>> /\ Awaiting' = Awaiting
    BY <1>2, <1>11 DEF Answer, asking, askRest, Awaiting
  <2>2. /\ listener.step = "answer" /\ listener'.step # "answer"
        /\ count_chan' = Append(count_chan, listener.count)
    BY <1>11 DEF Answer, Idle
  <2>3. listener.count \in Nat
    BY <2>2 DEF ListenerOK, Idle
  <2>4. \A j \in DOMAIN count_chan' : (j \in DOMAIN count_chan /\ count_chan'[j] = count_chan[j])
                                     \/ count_chan'[j] = listener.count
    BY <2>2, <2>3 DEF ChannelsOK
  <2> QED
    BY <1>2, <2>1, <2>2, <2>4 DEF ReportsInTime
<1>12. ASSUME NEW r \in Reducers, SendReduce(r) \/ GetReduction(r) PROVE ReportsInTime'
  <2>1. /\ UNCHANGED <<cmap_ar, ask_chan, count_chan, reported, asker>> /\ Awaiting' = Awaiting
        /\ listener'.step # "answer"
    BY <1>2, <1>12
       DEF SendReduce, GetReduction, channels, asking, askRest, Idle, Awaiting
  <2> QED
    BY <1>4, <2>1
<1>13. ASSUME \/ \E r \in Readers, w \in Words : AddWord(r, w)
              \/ \E r \in Reducers : ReduceTick(r) \/ KillReducer(r)
              \/ ListenPanics \/ ReadersDone \/ AskersKilled \/ Stop \/ Exit
              \/ UNCHANGED vars
       PROVE  ReportsInTime'
  <2>1. UNCHANGED <<cmap_ar, ask_chan, count_chan, reported, asker, listener>>
    BY <1>13 DEF AddWord, ReduceTick, KillReducer, ListenPanics, ReadersDone,
                 AskersKilled, Stop, Exit, vars, map, channels, asking, askRest
  <2>2. Awaiting' = Awaiting
    BY <1>2, <2>1 DEF Awaiting
  <2> QED
    BY <1>4, <2>1, <2>2
<1> QED
  BY <1>5, <1>6, <1>7, <1>8, <1>9, <1>10, <1>11, <1>12, <1>13, StepCases, Zenon
-----------------------------------------------------------------------------
\* The inductive invariant.
THEOREM InvariantHolds == Spec => []IInv
<1>1. Init => IInv
  BY InitInv
<1>2. IInv /\ [Next]_vars => IInv'
  <2> SUFFICES ASSUME IInv, [Next]_vars PROVE IInv'
    OBVIOUS
  <2>1. TypeOK /\ MainOrder /\ AnswersMatchAskers /\ ReportsInTime
    BY DEF IInv
  <2>2. TypeOK' /\ MainOrder'
    BY <2>1, TypeStep, OrderStep
  <2>3. AnswersMatchAskers'
    BY <2>1, <2>2, AnswersStep
  <2>4. ReportsInTime'
    BY <2>1, <2>2, ReportsStep
  <2> QED
    BY <2>2, <2>3, <2>4 DEF IInv
<1> QED
  BY <1>1, <1>2, PTL DEF Spec

\* Every reachable state is well typed.
THEOREM TypeCorrect == Spec => []TypeOK
<1>1. IInv => TypeOK
  BY DEF IInv
<1> QED
  BY InvariantHolds, <1>1, PTL

\* No answer is lost and none is left over, for any number of askers.
THEOREM AnswersArrive == Spec => []AnswersMatchAskers
<1>1. IInv => AnswersMatchAskers
  BY DEF IInv
<1> QED
  BY InvariantHolds, <1>1, PTL

\* The program never panics because of a send on a channel that Stop closed.
THEOREM SendersAreGone == Spec => []NoSendOnClosed
<1>1. Init => NoSendOnClosed
  BY DEF Init, NoSendOnClosed
<1>2. IInv /\ NoSendOnClosed /\ [Next]_vars => NoSendOnClosed'
  <2> SUFFICES ASSUME IInv, NoSendOnClosed, [Next]_vars PROVE NoSendOnClosed'
    OBVIOUS
  <2>1. TypeOK /\ MainOrder
    BY DEF IInv
  <2>2. ASSUME NEW r \in Readers, NEW w \in Words, AddWord(r, w) PROVE NoSendOnClosed'
    <3>1. reader[r] # 0
      BY <2>1, <2>2 DEF AddWord, TypeOK, ClientsOK
    <3>2. ~closed
      BY <2>1, <3>1 DEF MainOrder
    <3> QED
      BY <2>2, <3>2 DEF AddWord, NoSendOnClosed
  <2>3. ASSUME NEW a \in Askers, Ask(a) PROVE NoSendOnClosed'
    <3>1. ~closed
      BY <2>1, <2>3 DEF Ask, MainOrder
    <3> QED
      BY <2>3, <3>1 DEF Ask, NoSendOnClosed
  <2>4. ASSUME \/ UNCHANGED program \/ ListenPanics \/ Exit PROVE NoSendOnClosed'
    BY <2>4 DEF ListenPanics, Exit, NoSendOnClosed
  <2> QED
    BY <2>2, <2>3, <2>4, StepCases
       DEF AskTick, GetAnswer, ReduceTick, SendReduce, GetReduction, TakeWord, TakeAsk,
           Answer, ReadersDone, KillAsker, AskersKilled, KillReducer, Stop, vars
<1> QED
  BY InvariantHolds, <1>1, <1>2, PTL DEF Spec

\* What the counter of the refinement is made of.
counts == [w \in Words |-> cmap_ar[w] + Occurrences(add_chan, w)]
told == IF arg_askers <= 1 THEN reported ELSE [w \in Words |-> 0]

LEMMA CountsStep ==
  ASSUME TypeOK, [Next]_vars
  PROVE  \/ counts' = counts
         \/ \E w \in Words : counts' = [counts EXCEPT ![w] = @ + 1] /\ told' = told
<1> USE DEF TypeOK
<1>1. \A w \in Words : Occurrences(add_chan, w) \in Nat /\ cmap_ar[w] \in Nat
  BY OccurrencesFinite DEF ChannelsOK, MapOK
<1>2. ASSUME NEW r \in Readers, NEW w \in Words, AddWord(r, w)
      PROVE  counts' = counts \/ (counts' = [counts EXCEPT ![w] = @ + 1] /\ told' = told)
  <2>1. cmap_ar' = cmap_ar /\ told' = told
    BY <1>2 DEF AddWord, map, asking, askRest, told
  <2>2. CASE add_chan' = add_chan
    BY <2>1, <2>2 DEF counts
  <2>3. CASE add_chan' = Append(add_chan, w)
    <3>1. \A x \in Words : Occurrences(add_chan', x)
                             = Occurrences(add_chan, x) + (IF w = x THEN 1 ELSE 0)
      BY <2>3, OccurrencesAppend DEF ChannelsOK
    <3>2. \A x \in Words : cmap_ar[x] + Occurrences(add_chan', x)
              = IF x = w THEN cmap_ar[x] + Occurrences(add_chan, x) + 1
                ELSE cmap_ar[x] + Occurrences(add_chan, x)
      BY <1>1, <3>1
    <3>3. counts' = [x \in Words |-> IF x = w THEN cmap_ar[x] + Occurrences(add_chan, x) + 1
                                     ELSE cmap_ar[x] + Occurrences(add_chan, x)]
      BY <2>1, <3>2 DEF counts
    <3> QED
      BY <2>1, <3>3 DEF counts
  <2> QED
    BY <1>2, <2>2, <2>3 DEF AddWord
<1>3. ASSUME TakeWord PROVE counts' = counts
  <2>1. CASE /\ add_chan # <<>> /\ add_chan' = Tail(add_chan)
             /\ cmap_ar' = [cmap_ar EXCEPT ![Head(add_chan)] = @ + 1]
    <3>1. \A x \in Words : Occurrences(add_chan, x)
                = Occurrences(add_chan', x) + (IF Head(add_chan) = x THEN 1 ELSE 0)
      BY <2>1, OccurrencesTail DEF ChannelsOK
    <3>2. Head(add_chan) \in Words /\ Tail(add_chan) \in Seq(Words)
      BY <2>1 DEF ChannelsOK
    <3>3. \A x \in Words : Occurrences(add_chan', x) \in Nat
      BY <2>1, <3>2, OccurrencesFinite
    <3>4. \A x \in Words : cmap_ar'[x] = cmap_ar[x] + (IF Head(add_chan) = x THEN 1 ELSE 0)
      BY <2>1, <3>2, <1>1 DEF MapOK
    <3>5. \A x \in Words : cmap_ar'[x] + Occurrences(add_chan', x)
                             = cmap_ar[x] + Occurrences(add_chan, x)
      BY <1>1, <3>1, <3>3, <3>4
    <3> QED
      BY <3>5 DEF counts
  <2>2. CASE /\ add_chan' = add_chan
             /\ cmap_ar' = [cmap_ar EXCEPT ![EmptyWord] = @ + 1]
    <3>1. \A x \in Words : cmap_ar'[x] = cmap_ar[x]
      BY <2>2, WordsAssumption DEF MapOK
    <3> QED
      BY <2>2, <3>1 DEF counts
  <2> QED
    BY <1>3, <2>1, <2>2 DEF TakeWord
<1>4. ASSUME UNCHANGED <<cmap_ar, add_chan>> PROVE counts' = counts
  BY <1>4 DEF counts
<1> QED
  BY <1>2, <1>3, <1>4, StepCases
     DEF AskTick, Ask, GetAnswer, ReduceTick, SendReduce, GetReduction, TakeAsk, Answer,
         ListenPanics, ReadersDone, KillAsker, AskersKilled, KillReducer, Stop, Exit,
         vars, map, channels

LEMMA ReportStep ==
  ASSUME IInv, [Next]_vars
  PROVE  \/ told' = told
         \/ /\ counts' = counts
            /\ \E w \in Words : \E n \in told[w] .. counts[w] : told' = [told EXCEPT ![w] = n]
<1> USE DEF IInv, TypeOK
<1>1. ASSUME NEW a \in Askers, GetAnswer(a), arg_askers <= 1
      PROVE  /\ counts' = counts
             /\ \E w \in Words : \E n \in told[w] .. counts[w] : told' = [told EXCEPT ![w] = n]
  <2>1. a \in Awaiting /\ asker[a].word \in Words
    BY <1>1 DEF GetAnswer, Awaiting, AskersOK, Idle
  <2>2. 1 \in DOMAIN count_chan /\ Head(count_chan) = count_chan[1]
    BY <1>1 DEF GetAnswer, ChannelsOK
  <2> DEFINE w == asker[a].word
             n == Head(count_chan)
  <2>3. n \in reported[w] .. cmap_ar[w]
    BY <1>1, <2>1, <2>2 DEF ReportsInTime
  <2>4. Occurrences(add_chan, w) \in Nat /\ cmap_ar[w] \in Nat /\ reported[w] \in Nat
    BY <2>1, OccurrencesFinite DEF ChannelsOK, MapOK
  <2>5. n \in told[w] .. counts[w]
    BY <1>1, <2>1, <2>3, <2>4 DEF told, counts
  <2>6. told' = [told EXCEPT ![w] = n] /\ counts' = counts
    BY <1>1 DEF told, counts, GetAnswer, map
  <2> QED
    BY <2>1, <2>5, <2>6
<1>2. ASSUME NEW a \in Askers, GetAnswer(a), ~(arg_askers <= 1) PROVE told' = told
  BY <1>2 DEF GetAnswer, told
<1>3. ASSUME UNCHANGED askRest PROVE told' = told
  BY <1>3 DEF askRest, told
<1> QED
  BY <1>1, <1>2, <1>3, StepCases
     DEF AddWord, AskTick, Ask, ReduceTick, SendReduce, GetReduction, TakeWord, TakeAsk,
         Answer, ListenPanics, ReadersDone, KillAsker, AskersKilled, KillReducer, Stop, Exit,
         vars, asking

\* The map is a counter of the words, and one asker's answers are its reports.
THEOREM ImplementsCounter == Spec => IsCounter
<1>1. Init => Counter!Init
  <2> SUFFICES ASSUME Init PROVE Counter!Init
    OBVIOUS
  <2>1. \A w \in Words : cmap_ar[w] + Occurrences(add_chan, w) = 0
    BY OccurrencesEmpty DEF Init
  <2> QED
    BY <2>1 DEF Init, Counter!Init
<1>2. IInv /\ [Next]_vars => [Counter!Next]_<<counts, told>>
  <2> SUFFICES ASSUME IInv, [Next]_vars PROVE [Counter!Next]_<<counts, told>>
    OBVIOUS
  <2>1. TypeOK
    BY DEF IInv
  <2>2. ASSUME NEW w \in Words, counts' = [counts EXCEPT ![w] = @ + 1], told' = told
        PROVE  Counter!Add(w)
    BY <2>2 DEF Counter!Add, counts, told
  <2>3. ASSUME NEW w \in Words, counts' = counts,
               \E n \in told[w] .. counts[w] : told' = [told EXCEPT ![w] = n]
        PROVE  Counter!Report(w)
    BY <2>3 DEF Counter!Report, counts, told
  <2> QED
    BY <2>1, <2>2, <2>3, CountsStep, ReportStep DEF Counter!Next
<1> QED
  BY InvariantHolds, <1>1, <1>2, PTL DEF Spec, IsCounter, Counter!Spec, counts, told

-----------------------------------------------------------------------------
(* What the reducers are told.                                             *)

\* Who waits on reduce_out_chan is the one whose answer Listen has.
OneAwaits ==
    \A r \in Reducers : reducer[r] = "await" <=> listener.step = "reply" /\ listener.functor = r

\* The words that the readers have still to add.
ToAdd == {p \in Readers \X (1 .. WordsEach) : p[2] <= reader[p[1]]}

\* No count comes to the largest int, from which the reducer for the least
\* frequent word starts.
CountsStaySmall ==
    /\ \A w \in Words : cmap_ar[w] + Occurrences(add_chan, w) + Cardinality(ToAdd)
                           <= Cardinality(Readers) * WordsEach
    /\ cmap_ar[EmptyWord] <= MaxEmpty

\* best is what the functor of r wants among the words of the map.
IsBest(r, best) ==
    IF Present = {} THEN best = InitialAccum(r)
    ELSE /\ best.word \in Present /\ best.count = cmap_ar[best.word]
         /\ \A w \in Present : IF r = "max" THEN cmap_ar[w] <= best.count ELSE cmap_ar[w] >= best.count

RInv == /\ OneAwaits
        /\ CountsStaySmall
        /\ listener.step = "reply" => IsBest(listener.functor, listener.accum)

\* Induction from 0 up to n.
LEMMA CountUp ==
    ASSUME NEW n \in Nat, NEW S, 0 \in S, \A k \in 0 .. n - 1 : k \in S => k + 1 \in S
    PROVE  0 .. n \subseteq S
<1> DEFINE Less == {p \in Nat \X Nat : p[1] < p[2]}
           N == (0 .. n) \ S
<1> SUFFICES ASSUME N # {} PROVE FALSE
  OBVIOUS
<1>1. IsWellFoundedOn(Less, Nat)
  BY NatLessThanWellFounded DEF OpToRel
<1>2. PICK m \in N : \A k \in N : ~(<<k, m>> \in Less)
  <2>1. N \subseteq Nat
    OBVIOUS
  <2> HIDE DEF Less, N
  <2> QED
    BY <1>1, <2>1, WFMin
<1>3. m \in 1 .. n
  OBVIOUS
<1>4. m - 1 \in 0 .. n - 1 /\ m - 1 \in 0 .. n /\ (m - 1) + 1 = m
  BY <1>3
<1>5. m - 1 \notin S
  BY <1>4
<1>6. <<m - 1, m>> \in Less
  BY <1>3, <1>4
<1> QED
  BY <1>2, <1>4, <1>5, <1>6

LEMMA ToAddFinite ==
    /\ IsFiniteSet(ToAdd) /\ Cardinality(ToAdd) \in Nat
    /\ Cardinality(ToAdd) <= Cardinality(Readers) * WordsEach
<1>1. IsFiniteSet(1 .. WordsEach) /\ Cardinality(1 .. WordsEach) = WordsEach
  BY BoundsAssumption, FS_Interval
<1>2. /\ IsFiniteSet(Readers \X (1 .. WordsEach))
      /\ Cardinality(Readers \X (1 .. WordsEach)) = Cardinality(Readers) * WordsEach
  BY <1>1, FilesAssumption, FS_Product
<1>3. ToAdd \in SUBSET (Readers \X (1 .. WordsEach))
  BY DEF ToAdd
<1> QED
  BY <1>2, <1>3, FS_Subset, FS_CardinalityType

\* What range does with the map, word by word.
LEMMA ReductionSteps ==
    ASSUME NEW r \in Reducers, NEW order \in Seq(Present)
    PROVE  \E accum : /\ accum[0] = InitialAccum(r)
                      /\ \A k \in 1 .. Len(order) :
                            accum[k] = Functor(r, order[k], cmap_ar[order[k]], accum[k - 1])
                      /\ Reduction(r, order) = accum[Len(order)]
<1> DEFINE n == Len(order)
           Step(k, before) == Functor(r, order[k], cmap_ar[order[k]], before)
           Fix(m, s) == s = [k \in 0 .. m |-> IF k = 0 THEN InitialAccum(r) ELSE Step(k, s[k - 1])]
           Good == {m \in 0 .. n : \E s : Fix(m, s)}
<1>1. n \in Nat
  OBVIOUS
<1>2. 0 \in Good
  <2> DEFINE s == [k \in 0 .. 0 |-> InitialAccum(r)]
  <2>1. Fix(0, s)
    OBVIOUS
  <2> HIDE DEF Fix, s
  <2> QED
    BY <1>1, <2>1
<1>3. ASSUME NEW m \in 0 .. n - 1, m \in Good PROVE m + 1 \in Good
  <2>1. PICK s : Fix(m, s)
    BY <1>3
  <2> DEFINE t == [k \in 0 .. m + 1 |-> IF k = m + 1 THEN Step(m + 1, s[m]) ELSE s[k]]
  <2> HIDE DEF Step
  <2>2. \A k \in 0 .. m : s[k] = IF k = 0 THEN InitialAccum(r) ELSE Step(k, s[k - 1])
    BY <2>1
  <2>3. \A k \in 0 .. m + 1 : t[k] = IF k = 0 THEN InitialAccum(r) ELSE Step(k, t[k - 1])
    BY <1>1, <2>2
  <2>4. t = [k \in 0 .. m + 1 |-> t[k]]
    OBVIOUS
  <2>5. Fix(m + 1, t)
    <3> HIDE DEF t
    <3> QED
      BY <2>3, <2>4
  <2>6. m + 1 \in 0 .. n
    BY <1>1
  <2> HIDE DEF Fix
  <2> QED
    BY <2>5, <2>6
<1>4. n \in Good
  <2>1. 0 .. n \subseteq Good
    <3> HIDE DEF Good, n
    <3> QED
      BY <1>1, <1>2, <1>3, CountUp
  <2> QED
    BY <1>1, <2>1
<1> DEFINE accum == CHOOSE s : Fix(n, s)
<1>5. Fix(n, accum)
  <2>1. \E s : Fix(n, s)
    BY <1>4
  <2> HIDE DEF Fix
  <2> QED
    BY <2>1
<1>6. Reduction(r, order) = accum[n]
  BY DEF Reduction
<1> HIDE DEF accum
<1>7. \A k \in 0 .. n : accum[k] = IF k = 0 THEN InitialAccum(r) ELSE Step(k, accum[k - 1])
  BY <1>5
<1> QED
  BY <1>1, <1>6, <1>7

\* In whatever order range goes, the result is the best of the words.
LEMMA ReductionIsBest ==
    ASSUME MapOK, CountsStaySmall, ChannelsOK, NEW r \in Reducers, NEW best \in Reductions(r)
    PROVE  IsBest(r, best)
<1>1. PICK order \in SetToSeqs(Present) : best = Reduction(r, order)
  BY DEF Reductions
<1> DEFINE n == Cardinality(Present)
<1>2. IsFiniteSet(Present) /\ n \in Nat
  <2>1. Present \in SUBSET (Words \cup {EmptyWord})
    BY DEF Present, MapOK
  <2>2. IsFiniteSet(Words \cup {EmptyWord})
    BY FilesAssumption, FS_AddElement
  <2> QED
    BY <2>1, <2>2, FS_Subset, FS_CardinalityType
<1>3. order \in [1 .. n -> Present] /\ \A i, j \in 1 .. n : i # j => order[i] # order[j]
  BY <1>1 DEF SetToSeqs
<1> HIDE DEF n
<1>4. \A w \in Present : \E k \in 1 .. n : order[k] = w
  <2>1. order \in Injection(1 .. n, Present)
    BY <1>3 DEF Injection, IsInjective
  <2>2. Cardinality(1 .. n) = n
    BY <1>2, FS_Interval
  <2>3. order \in Surjection(1 .. n, Present)
    BY <1>2, <2>1, <2>2, FS_Injection DEF n
  <2> QED
    BY <2>3 DEF Surjection
<1>5. order \in Seq(Present) /\ Len(order) = n
  BY <1>2, <1>3
<1>6. PICK accum : /\ accum[0] = InitialAccum(r)
                   /\ \A k \in 1 .. n : accum[k] = Functor(r, order[k], cmap_ar[order[k]], accum[k - 1])
                   /\ best = accum[n]
  BY <1>1, <1>5, ReductionSteps
<1>7. \A w \in Present : cmap_ar[w] \in Nat /\ cmap_ar[w] > 0 /\ cmap_ar[w] < MaxInt
  <2>1. ASSUME NEW w \in Words, cmap_ar[w] > 0 PROVE cmap_ar[w] < MaxInt
    <3>1. Occurrences(add_chan, w) \in Nat /\ Cardinality(ToAdd) \in Nat
      BY ToAddFinite, OccurrencesFinite DEF ChannelsOK
    <3>2. cmap_ar[w] \in Nat
      BY DEF MapOK
    <3>3. cmap_ar[w] + Occurrences(add_chan, w) + Cardinality(ToAdd) <= Cardinality(Readers) * WordsEach
      BY DEF CountsStaySmall
    <3>4. Cardinality(Readers) * WordsEach \in Nat
      BY FilesAssumption, BoundsAssumption, FS_CardinalityType
    <3> DEFINE bound == Cardinality(Readers) * WordsEach
    <3>5. bound \in Nat /\ bound < MaxInt /\ MaxInt \in Nat
      BY <3>4, FilesAssumption, BoundsAssumption
    <3> HIDE DEF bound
    <3>6. cmap_ar[w] + Occurrences(add_chan, w) + Cardinality(ToAdd) <= bound
      BY <3>3 DEF bound
    <3> QED
      BY <3>1, <3>2, <3>5, <3>6
  <2>2. cmap_ar[EmptyWord] < MaxInt
    BY FilesAssumption, BoundsAssumption DEF CountsStaySmall, MapOK
  <2> QED
    BY <2>1, <2>2 DEF Present, MapOK
<1> DEFINE Beats(e, k) == IF r = "max" THEN cmap_ar[order[k]] <= e.count ELSE cmap_ar[order[k]] >= e.count
           Good == {k \in 0 .. n :
                      k # 0 => /\ \E j \in 1 .. k : accum[k] = Entry(order[j], cmap_ar[order[j]])
                               /\ \A j \in 1 .. k : Beats(accum[k], j)}
<1>8. 0 \in Good
  BY <1>2
<1>9. ASSUME NEW k \in 0 .. n - 1, k \in Good PROVE k + 1 \in Good
  <2> DEFINE w == order[k + 1]
  <2>1. k + 1 \in 1 .. n /\ (k + 1) - 1 = k
    BY <1>2
  <2>2. w \in Present /\ cmap_ar[w] \in Nat /\ cmap_ar[w] > 0 /\ cmap_ar[w] < MaxInt
    BY <1>3, <1>7, <2>1
  <2>3. accum[k + 1] = Functor(r, w, cmap_ar[w], accum[k])
    <3>1. accum[k + 1] = Functor(r, order[k + 1], cmap_ar[order[k + 1]], accum[(k + 1) - 1])
      BY <1>6, <2>1
    <3> QED
      BY <2>1, <3>1
  <2>4. r = "max" \/ r = "min"
    BY DEF Reducers
  <2>5. \A e : /\ r = "max" => Functor(r, w, cmap_ar[w], e) = IF cmap_ar[w] > e.count THEN Entry(w, cmap_ar[w]) ELSE e
               /\ r = "min" => Functor(r, w, cmap_ar[w], e) = IF cmap_ar[w] < e.count THEN Entry(w, cmap_ar[w]) ELSE e
    BY DEF Functor, max_word, min_word
  <2>6. \A v, c : Entry(v, c).word = v /\ Entry(v, c).count = c
    BY DEF Entry
  <2>7. CASE k = 0
    <3>1. accum[k].count = IF r = "max" THEN 0 ELSE MaxInt
      BY <1>6, <2>6, <2>7 DEF InitialAccum
    <3>2. accum[k + 1] = Entry(w, cmap_ar[w])
      BY <2>2, <2>3, <2>4, <2>5, <3>1
    <3>3. 1 .. (k + 1) = {1} /\ w = order[1]
      BY <2>7
    <3>4. Beats(accum[k + 1], 1)
      BY <2>2, <2>6, <3>2, <3>3
    <3> QED
      BY <2>1, <3>2, <3>3, <3>4
  <2>8. CASE k # 0
    <3>1. PICK i \in 1 .. k : accum[k] = Entry(order[i], cmap_ar[order[i]])
      BY <1>9, <2>8
    <3>2. \A j \in 1 .. k : Beats(accum[k], j)
      BY <1>9, <2>8
    <3>3. \A j \in 1 .. n : cmap_ar[order[j]] \in Nat
      BY <1>3, <1>7
    <3>4. 1 .. (k + 1) = (1 .. k) \cup {k + 1} /\ 1 .. k \subseteq 1 .. n
      BY <1>2
    <3>5. accum[k].count = cmap_ar[order[i]] /\ cmap_ar[order[i]] \in Nat
      BY <2>6, <3>1, <3>3, <3>4
    <3>6. CASE accum[k + 1] = accum[k]
      <4>1. Beats(accum[k + 1], k + 1)
        <5>1. Beats(accum[k], k + 1) \/ accum[k + 1] = Entry(w, cmap_ar[w])
          BY <2>2, <2>3, <2>4, <2>5, <3>5
        <5>2. accum[k + 1] = Entry(w, cmap_ar[w]) => Beats(accum[k + 1], k + 1)
          BY <2>2, <2>6
        <5> QED
          BY <3>6, <5>1, <5>2
      <4>2. \A j \in 1 .. (k + 1) : Beats(accum[k + 1], j)
        <5> HIDE DEF Beats
        <5> QED
          BY <3>2, <3>4, <3>6, <4>1
      <4>3. i \in 1 .. (k + 1) /\ accum[k + 1] = Entry(order[i], cmap_ar[order[i]])
        BY <3>1, <3>4, <3>6
      <4> HIDE DEF Beats
      <4> QED
        BY <2>1, <4>2, <4>3
    <3>7. CASE accum[k + 1] # accum[k]
      <4>1. /\ accum[k + 1] = Entry(w, cmap_ar[w])
            /\ IF r = "max" THEN cmap_ar[w] > accum[k].count ELSE cmap_ar[w] < accum[k].count
        BY <2>3, <2>4, <2>5, <3>7
      <4>2. accum[k + 1].count = cmap_ar[w]
        BY <2>6, <4>1
      <4>3. ASSUME NEW j \in 1 .. k PROVE Beats(accum[k + 1], j)
        <5>1. cmap_ar[order[j]] \in Nat
          BY <3>3, <3>4
        <5>2. Beats(accum[k], j)
          BY <3>2
        <5> HIDE DEF w
        <5> QED
          BY <2>2, <3>5, <4>1, <4>2, <5>1, <5>2
      <4>4. Beats(accum[k + 1], k + 1)
        BY <2>2, <4>2
      <4>5. \A j \in 1 .. (k + 1) : Beats(accum[k + 1], j)
        <5> HIDE DEF Beats
        <5> QED
          BY <3>4, <4>3, <4>4
      <4>6. k + 1 \in 1 .. (k + 1)
        BY <3>4
      <4> HIDE DEF Beats
      <4> QED
        BY <2>1, <4>1, <4>5, <4>6
    <3> QED
      BY <3>6, <3>7
  <2> QED
    BY <2>7, <2>8
<1>10. n \in Good
  <2>1. 0 .. n \subseteq Good
    <3> HIDE DEF Good
    <3> QED
      BY <1>2, <1>8, <1>9, CountUp
  <2> QED
    BY <1>2, <2>1
<1>11. CASE n = 0
  <2>1. Present = {}
    BY <1>2, <1>11, FS_EmptySet DEF n
  <2> QED
    BY <1>6, <1>11, <2>1 DEF IsBest
<1>12. CASE n # 0
  <2>1. PICK j \in 1 .. n : best = Entry(order[j], cmap_ar[order[j]])
    BY <1>6, <1>10, <1>12
  <2>2. \A k \in 1 .. n : Beats(best, k)
    BY <1>6, <1>10, <1>12
  <2>3. order[j] \in Present
    BY <1>3
  <2>4. best.word = order[j] /\ best.count = cmap_ar[order[j]]
    BY <2>1 DEF Entry
  <2>5. \A w \in Present : IF r = "max" THEN cmap_ar[w] <= best.count ELSE cmap_ar[w] >= best.count
    BY <1>4, <2>2
  <2> QED
    BY <2>3, <2>4, <2>5 DEF IsBest
<1> QED
  BY <1>11, <1>12

LEMMA RInit ==
    ASSUME Init
    PROVE  RInv
<1>1. OneAwaits
  BY DEF Init, OneAwaits, Idle
<1>2. CountsStaySmall
  <2>1. \A w \in Words \cup {EmptyWord} : cmap_ar[w] = 0
    BY DEF Init
  <2>2. \A w : Occurrences(add_chan, w) = 0
    BY OccurrencesEmpty DEF Init
  <2> QED
    BY <2>1, <2>2, ToAddFinite, BoundsAssumption DEF CountsStaySmall
<1>3. listener.step # "reply"
  BY DEF Init, Idle
<1> QED
  BY <1>1, <1>2, <1>3 DEF RInv

LEMMA SmallStep ==
    ASSUME IInv, IInv', CountsStaySmall, [Next]_vars
    PROVE  CountsStaySmall'
<1>0. TypeOK /\ MapOK /\ ChannelsOK /\ ClientsOK
  BY DEF IInv, TypeOK
<1> DEFINE bound == Cardinality(Readers) * WordsEach
<1>1. \A w \in Words : cmap_ar[w] + Occurrences(add_chan, w) + Cardinality(ToAdd) <= bound
  BY DEF CountsStaySmall
<1>2. bound \in Nat
  BY FilesAssumption, BoundsAssumption, FS_CardinalityType
<1>3. \A w \in Words : cmap_ar[w] \in Nat /\ Occurrences(add_chan, w) \in Nat
  BY <1>0, OccurrencesFinite DEF MapOK, ChannelsOK
<1>4. Cardinality(ToAdd) \in Nat
  BY ToAddFinite
<1> HIDE DEF bound
<1> SUFFICES /\ \A w \in Words : cmap_ar'[w] + Occurrences(add_chan', w) + Cardinality(ToAdd') <= bound
             /\ cmap_ar'[EmptyWord] <= MaxEmpty
  BY DEF CountsStaySmall, Occurrences, bound
<1>5. ASSUME NEW r \in Readers, NEW v \in Words, AddWord(r, v), ~closed
      PROVE  /\ \A w \in Words : cmap_ar'[w] + Occurrences(add_chan', w) + Cardinality(ToAdd') <= bound
             /\ cmap_ar'[EmptyWord] <= MaxEmpty
  <2>1. /\ reader[r] > 0 /\ reader' = [reader EXCEPT ![r] = @ - 1]
        /\ add_chan' = Append(add_chan, v) /\ cmap_ar' = cmap_ar
    BY <1>5 DEF AddWord, map
  <2>2. reader \in [Readers -> 0 .. WordsEach] /\ reader[r] \in 1 .. WordsEach
    BY <1>0, <2>1, BoundsAssumption DEF ClientsOK
  <2> DEFINE p == <<r, reader[r]>>
  <2>3. ToAdd' = ToAdd \ {p} /\ p \in ToAdd
    <3>1. p \in ToAdd
      BY <2>2, BoundsAssumption DEF ToAdd
    <3>2. ASSUME NEW q \in Readers \X (1 .. WordsEach)
          PROVE  q[2] <= reader'[q[1]] <=> q[2] <= reader[q[1]] /\ q # p
      <4>1. q = <<q[1], q[2]>> /\ q[1] \in Readers /\ q[2] \in 1 .. WordsEach
        OBVIOUS
      <4>2. CASE q[1] = r
        <5>1. reader'[q[1]] = reader[r] - 1
          BY <2>1, <2>2, <4>2
        <5>2. q # p <=> q[2] # reader[r]
          BY <4>1, <4>2
        <5> QED
          BY <2>2, <4>1, <4>2, <5>1, <5>2, BoundsAssumption
      <4>3. CASE q[1] # r
        BY <2>1, <2>2, <4>1, <4>3
      <4> QED
        BY <4>2, <4>3
    <3> HIDE DEF p
    <3> QED
      BY <3>1, <3>2 DEF ToAdd
  <2>4. Cardinality(ToAdd') = Cardinality(ToAdd) - 1
    BY <2>3, ToAddFinite, FS_RemoveElement
  <2>5. \A w \in Words : Occurrences(add_chan', w) = Occurrences(add_chan, w) + (IF v = w THEN 1 ELSE 0)
    BY <1>0, <2>1, OccurrencesAppend DEF ChannelsOK
  <2>6. ASSUME NEW w \in Words
        PROVE  cmap_ar'[w] + Occurrences(add_chan', w) + Cardinality(ToAdd') <= bound
    <3>1. cmap_ar'[w] = cmap_ar[w]
      BY <2>1
    <3>2. Occurrences(add_chan', w) <= Occurrences(add_chan, w) + 1 /\ Occurrences(add_chan', w) \in Nat
      BY <1>3, <2>5
    <3> QED
      BY <1>1, <1>2, <1>3, <1>4, <2>4, <3>1, <3>2
  <2>7. cmap_ar'[EmptyWord] <= MaxEmpty
    BY <2>1 DEF CountsStaySmall
  <2> QED
    BY <2>6, <2>7
<1>6. ASSUME TakeWord
      PROVE  /\ \A w \in Words : cmap_ar'[w] + Occurrences(add_chan', w) + Cardinality(ToAdd') <= bound
             /\ cmap_ar'[EmptyWord] <= MaxEmpty
  <2>1. ToAdd' = ToAdd
    BY <1>6 DEF TakeWord, ToAdd
  <2>2. CASE /\ add_chan # <<>>
             /\ cmap_ar' = [cmap_ar EXCEPT ![Head(add_chan)] = @ + 1]
             /\ add_chan' = Tail(add_chan)
    <3> DEFINE v == Head(add_chan)
    <3>1. v \in Words /\ v # EmptyWord
      BY <1>0, <2>2, WordsAssumption DEF ChannelsOK
    <3>2. \A w \in Words : Occurrences(add_chan, w) = Occurrences(add_chan', w) + (IF v = w THEN 1 ELSE 0)
      BY <1>0, <2>2, OccurrencesTail DEF ChannelsOK
    <3>3. \A w \in Words : Occurrences(add_chan', w) \in Nat
      BY OccurrencesFinite DEF IInv, TypeOK, ChannelsOK
    <3> HIDE DEF v
    <3>4. \A w \in Words \cup {EmptyWord} : cmap_ar'[w] = cmap_ar[w] + (IF v = w THEN 1 ELSE 0)
      BY <1>0, <2>2 DEF MapOK, v
    <3>5. ASSUME NEW w \in Words
          PROVE  cmap_ar'[w] + Occurrences(add_chan', w) = cmap_ar[w] + Occurrences(add_chan, w)
      BY <1>3, <3>2, <3>3, <3>4
    <3>6. \A w \in Words : cmap_ar'[w] + Occurrences(add_chan', w) + Cardinality(ToAdd') <= bound
      BY <1>1, <2>1, <3>5
    <3>7. cmap_ar'[EmptyWord] <= MaxEmpty
      BY <1>0, <3>1, <3>4 DEF CountsStaySmall, MapOK
    <3> QED
      BY <3>6, <3>7
  <2>3. CASE /\ cmap_ar[EmptyWord] < MaxEmpty
             /\ cmap_ar' = [cmap_ar EXCEPT ![EmptyWord] = @ + 1]
             /\ UNCHANGED add_chan
    <3>1. \A w \in Words : cmap_ar'[w] = cmap_ar[w]
      BY <1>0, <2>3, WordsAssumption DEF MapOK
    <3>2. cmap_ar'[EmptyWord] <= MaxEmpty
      BY <1>0, <2>3, BoundsAssumption DEF MapOK
    <3> QED
      BY <1>1, <2>1, <2>3, <3>1, <3>2
  <2> QED
    BY <1>6, <2>2, <2>3 DEF TakeWord
<1>7. ASSUME UNCHANGED <<cmap_ar, add_chan, reader>>
      PROVE  /\ \A w \in Words : cmap_ar'[w] + Occurrences(add_chan', w) + Cardinality(ToAdd') <= bound
             /\ cmap_ar'[EmptyWord] <= MaxEmpty
  BY <1>1, <1>7 DEF ToAdd, CountsStaySmall
<1>8. ASSUME NEW r \in Readers, NEW v \in Words, AddWord(r, v), closed
      PROVE  UNCHANGED <<cmap_ar, add_chan, reader>>
  BY <1>8 DEF AddWord, map
<1> QED
  BY <1>5, <1>6, <1>7, <1>8, StepCases
     DEF AskTick, Ask, GetAnswer, ReduceTick, SendReduce, GetReduction, TakeAsk,
         Answer, ListenPanics, ReadersDone, KillAsker, AskersKilled, KillReducer,
         Stop, Exit,
         vars, map, channels, asking, askRest

LEMMA AwaitsStep ==
    ASSUME IInv, OneAwaits, [Next]_vars
    PROVE  OneAwaits'
<1>0. ClientsOK /\ ListenerOK /\ "reply" # "select" /\ "reply" # "answer"
  BY DEF IInv, TypeOK
<1>1. reducer \in [Reducers -> {"select", "send", "await", "killed"}]
  BY <1>0 DEF ClientsOK
<1>2. ASSUME NEW r \in Reducers, ReduceTick(r) PROVE OneAwaits'
  <2>1. reducer' = [reducer EXCEPT ![r] = "send"] /\ reducer[r] = "select" /\ listener' = listener
    BY <1>2 DEF ReduceTick, map
  <2> QED
    BY <1>1, <2>1 DEF OneAwaits
<1>3. ASSUME NEW r \in Reducers, SendReduce(r) PROVE OneAwaits'
  <2>1. reducer' = [reducer EXCEPT ![r] = "await"] /\ listener = Idle
    BY <1>3 DEF SendReduce
  <2>2. listener'.step = "reply" /\ listener'.functor = r
    BY <1>3 DEF SendReduce
  <2>3. \A q \in Reducers : reducer[q] # "await"
    BY <2>1 DEF OneAwaits, Idle
  <2> QED
    BY <1>1, <2>1, <2>2, <2>3 DEF OneAwaits
<1>4. ASSUME NEW r \in Reducers, GetReduction(r) PROVE OneAwaits'
  <2>1. reducer' = [reducer EXCEPT ![r] = "select"] /\ listener' = Idle /\ reducer[r] = "await"
    BY <1>4 DEF GetReduction
  <2>2. \A q \in Reducers : reducer[q] = "await" => q = r
    BY <2>1 DEF OneAwaits
  <2> QED
    BY <1>1, <2>1, <2>2 DEF OneAwaits, Idle
<1>5. ASSUME NEW r \in Reducers, KillReducer(r) PROVE OneAwaits'
  <2>1. reducer' = [reducer EXCEPT ![r] = "killed"] /\ reducer[r] = "select" /\ listener' = listener
    BY <1>5 DEF KillReducer, map
  <2> QED
    BY <1>1, <2>1 DEF OneAwaits
<1>6. ASSUME TakeAsk \/ Answer PROVE OneAwaits'
  <2>1. reducer' = reducer /\ listener.step # "reply"
    BY <1>6 DEF TakeAsk, Answer, Idle
  <2>2. listener'.step # "reply"
    BY <1>6 DEF TakeAsk, Answer, Idle
  <2> QED
    BY <2>1, <2>2 DEF OneAwaits
<1>7. ASSUME UNCHANGED <<listener, reducer>> PROVE OneAwaits'
  BY <1>7 DEF OneAwaits
<1> QED
  BY <1>2, <1>3, <1>4, <1>5, <1>6, <1>7, StepCases
     DEF AddWord, AskTick, Ask, GetAnswer, TakeWord, ListenPanics, ReadersDone,
         KillAsker, AskersKilled, Stop, Exit,
         vars, map, channels, asking, askRest

LEMMA BestStep ==
    ASSUME IInv, RInv, [Next]_vars, listener'.step = "reply"
    PROVE  IsBest(listener.functor, listener.accum)'
<1>1. ASSUME NEW r \in Reducers, SendReduce(r)
      PROVE  IsBest(listener.functor, listener.accum)'
  <2>1. PICK accum \in Reductions(r) : listener' = [step |-> "reply", functor |-> r, accum |-> accum]
    BY <1>1 DEF SendReduce
  <2>2. IsBest(r, accum)
    BY <2>1, ReductionIsBest DEF IInv, TypeOK, RInv
  <2>3. Present' = Present /\ cmap_ar' = cmap_ar
    BY <1>1 DEF SendReduce, Present
  <2>4. listener'.functor = r /\ listener'.accum = accum
    BY <2>1
  <2> QED
    BY <2>2, <2>3, <2>4 DEF IsBest, InitialAccum
<1>2. ASSUME UNCHANGED <<listener, cmap_ar>>
      PROVE  IsBest(listener.functor, listener.accum)'
  BY <1>2 DEF RInv, IsBest, Present, InitialAccum
<1>3. ASSUME TakeWord PROVE FALSE
  BY <1>3 DEF TakeWord, Idle
<1>4. ASSUME TakeAsk PROVE FALSE
  BY <1>4 DEF TakeAsk
<1>5. ASSUME Answer PROVE FALSE
  BY <1>5 DEF Answer, Idle
<1>6. ASSUME NEW r \in Reducers, GetReduction(r) PROVE FALSE
  BY <1>6 DEF GetReduction, Idle
<1> QED
  BY <1>1, <1>2, <1>3, <1>4, <1>5, <1>6, StepCases
     DEF AddWord, AskTick, Ask, GetAnswer, ReduceTick, ListenPanics, ReadersDone,
         KillAsker, AskersKilled, KillReducer, Stop, Exit,
         vars, map, channels, asking, askRest

\* For any number of readers and words, in whatever order range visits the
\* map: while Listen holds an answer for a reducer nobody else waits for one,
\* and it is the most or the least frequent word of the map as it is.
THEOREM ReducersGetTheBest == Spec => []ReductionIsExact
<1>1. Init => RInv
  BY RInit
<1>2. IInv /\ IInv' /\ RInv /\ [Next]_vars => RInv'
  BY SmallStep, AwaitsStep, BestStep DEF RInv
<1>3. RInv => ReductionIsExact
  BY DEF RInv, OneAwaits, IsBest, ReductionIsExact
<1> QED
  BY <1>1, <1>2, <1>3, InvariantHolds, PTL DEF Spec

=============================================================================
