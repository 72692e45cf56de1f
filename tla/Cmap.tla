-------------------------------- MODULE Cmap --------------------------------
(***************************************************************************)
(* The word counting program of programming_models/assignment1: the map    *)
(* that one goroutine owns (cmap.go, Listen) and its clients (emerging.go).*)
(* Readers add words, askers ask for counts, two reducers look for the     *)
(* most and the least frequent word, and main ends them when the readers   *)
(* are done. Everything goes through channels.                             *)
(*                                                                         *)
(* Two unbuffered ends that meet are one step. A Go map without a key and  *)
(* one with the count 0 are not told apart: Listen answers 0 for both and  *)
(* never stores 0. Which branch a select takes, and the order in which     *)
(* range visits a map, are arbitrary.                                      *)
(***************************************************************************)
EXTENDS Integers, Sequences, FiniteSets, Functions, SequencesExt

CONSTANTS Readers,           \* goroutines of the program
          MaxAskers,         \* bound of the model: -askers is at most this
          Words,             \* contents of the files
          EmptyWord,         \* "", what a closed channel delivers
          Invalid, MaxInt,   \* "INVALID" and int(^uint(0) >> 1)
          ADD_BUFFER_SIZE, ASK_BUFFER_SIZE,
          WordsEach,         \* bound of the model: words in a file
          MaxEmpty           \* bound of the model: "" is counted so often

ASSUME BuffersAssumption == /\ ADD_BUFFER_SIZE \in Nat \ {0}
                            /\ ASK_BUFFER_SIZE \in Nat \ {0}
ASSUME WordsAssumption == EmptyWord \notin Words /\ Invalid \notin Words
ASSUME BoundsAssumption == /\ MaxAskers \in Nat /\ WordsEach \in Nat
                           /\ MaxEmpty \in Nat /\ MaxInt \in Nat
\* The files are finite, and no count comes near the largest int.
ASSUME FilesAssumption == /\ IsFiniteSet(Words) /\ IsFiniteSet(Readers)
                          /\ Cardinality(Readers) * WordsEach < MaxInt
                          /\ MaxEmpty < MaxInt

Reducers == {"max", "min"}

VARIABLES arg_askers,  \* how many askers there are in this run (-askers)
          program,     \* running, exited, or how it panicked
          cmap_ar,     \* per word, its count
          add_chan, ask_chan, count_chan,
          closed,      \* add_chan, ask_chan and stop_chan are closed
          listener,    \* what Listen does, and with what
          main,        \* the step of main
          reader,      \* per reader, how many words it has left
          asker,       \* per asker, its step and its word
          reducer,     \* per reducer, its step
          reported     \* per word, the latest count an asker got

map == <<cmap_ar, listener, closed>>
channels == <<add_chan, ask_chan, count_chan>>
askRest == <<arg_askers, reported>>
asking == <<asker, askRest>>
vars == <<program, map, channels, main, reader, asking, reducer>>

Askers == 0 .. arg_askers - 1

Running == program = "running"

Idle == [step |-> "select"]

Init == /\ arg_askers \in 0 .. MaxAskers
        /\ program = "running"
        /\ cmap_ar = [w \in Words \cup {EmptyWord} |-> 0]
        /\ add_chan = <<>> /\ ask_chan = <<>> /\ count_chan = <<>>
        /\ closed = FALSE
        /\ listener = Idle
        /\ main = "wait"
        /\ reader \in [Readers -> 0 .. WordsEach]
        /\ asker = [a \in Askers |-> Idle]
        /\ reducer = [r \in Reducers |-> "select"]
        /\ reported = [w \in Words |-> 0]

-----------------------------------------------------------------------------
\* reader: AddWord for each word of its file. A send on a closed channel would
\* panic.
AddWord(r, w) ==
    /\ Running
    /\ reader[r] > 0
    /\ IF closed
       THEN program' = "sent_on_closed" /\ UNCHANGED <<add_chan, reader>>
       ELSE /\ Len(add_chan) < ADD_BUFFER_SIZE
            /\ add_chan' = Append(add_chan, w)
            /\ reader' = [reader EXCEPT ![r] = @ - 1]
            /\ UNCHANGED program
    /\ UNCHANGED <<map, ask_chan, count_chan, main, asking, reducer>>

ReaderStep(r) == \E w \in Words : AddWord(r, w)
-----------------------------------------------------------------------------
\* asker: the ticker fires, GetCount sends the word and takes an answer,
\* which goes to whoever takes it first.
AskTick(a, w) == /\ Running
                 /\ asker[a].step = "select"
                 /\ asker' = [asker EXCEPT ![a] = [step |-> "ask", word |-> w]]
                 /\ UNCHANGED <<program, map, channels, main, reader, askRest, reducer>>

Ask(a) == /\ Running
          /\ asker[a].step = "ask"
          /\ IF closed
             THEN program' = "sent_on_closed" /\ UNCHANGED <<ask_chan, asker>>
             ELSE /\ Len(ask_chan) < ASK_BUFFER_SIZE
                  /\ ask_chan' = Append(ask_chan, asker[a].word)
                  /\ asker' = [asker EXCEPT ![a].step = "await"]
                  /\ UNCHANGED program
          /\ UNCHANGED <<map, add_chan, count_chan, main, reader, askRest, reducer>>

GetAnswer(a) == /\ Running
                /\ asker[a].step = "await"
                /\ count_chan # <<>>
                /\ count_chan' = Tail(count_chan)
                /\ reported' = [reported EXCEPT ![asker[a].word] = Head(count_chan)]
                /\ asker' = [asker EXCEPT ![a] = Idle]
                /\ UNCHANGED <<program, map, add_chan, ask_chan, main, reader, arg_askers,
                               reducer>>
-----------------------------------------------------------------------------
\* The functors keep their accumulator unless the word beats it.
Entry(w, n) == [word |-> w, count |-> n]

max_word(w, n, accum) == IF n > accum.count THEN Entry(w, n) ELSE accum

min_word(w, n, accum) == IF n < accum.count THEN Entry(w, n) ELSE accum

\* reducer: the functor and the accumulator it starts with.
Functor(r, w, n, accum) ==
    IF r = "max" THEN max_word(w, n, accum) ELSE min_word(w, n, accum)

\* Mistaken variant: both reducers start with 0.
InitialAccumZero(r) == Entry(Invalid, 0)

InitialAccum(r) == Entry(Invalid, IF r = "max" THEN 0 ELSE MaxInt)

\* The words the map has.
Present == {w \in DOMAIN cmap_ar : cmap_ar[w] > 0}

\* What `for k, v := range` makes of the map if it visits it in this order,
\* which may be any.
Reduction(r, order) ==
    LET accum[k \in 0 .. Len(order)] ==
            IF k = 0 THEN InitialAccum(r)
            ELSE Functor(r, order[k], cmap_ar[order[k]], accum[k - 1])
    IN  accum[Len(order)]

Reductions(r) == {Reduction(r, order) : order \in SetToSeqs(Present)}

ReduceTick(r) == /\ Running
                 /\ reducer[r] = "select"
                 /\ reducer' = [reducer EXCEPT ![r] = "send"]
                 /\ UNCHANGED <<program, map, channels, main, reader, asking>>

\* Reduce sends the request, and Listen takes it and computes.
SendReduce(r) == /\ Running
                 /\ reducer[r] = "send"
                 /\ listener = Idle
                 /\ \E accum \in Reductions(r) :
                       listener' = [step |-> "reply", functor |-> r, accum |-> accum]
                 /\ reducer' = [reducer EXCEPT ![r] = "await"]
                 /\ UNCHANGED <<program, cmap_ar, closed, channels, main, reader, asking>>

\* Any reducer that waits on reduce_out_chan may get the answer.
GetReduction(r) == /\ Running
                   /\ reducer[r] = "await"
                   /\ listener.step = "reply"
                   /\ listener' = Idle
                   /\ reducer' = [reducer EXCEPT ![r] = "select"]
                   /\ UNCHANGED <<program, cmap_ar, closed, channels, main, reader, asking>>
-----------------------------------------------------------------------------
\* Listen. A closed channel delivers what is left in it and then "" for ever.
\* Mistaken variant: a word that is in the map starts again with 1.
TakeWordAnew ==
    /\ Running
    /\ listener = Idle
    /\ add_chan # <<>>
    /\ cmap_ar' = [cmap_ar EXCEPT ![Head(add_chan)] = 1]
    /\ add_chan' = Tail(add_chan)
    /\ UNCHANGED <<program, listener, closed, ask_chan, count_chan, main, reader,
                   asking, reducer>>

TakeWord ==
    /\ Running
    /\ listener = Idle
    /\ \/ /\ add_chan # <<>>
          /\ cmap_ar' = [cmap_ar EXCEPT ![Head(add_chan)] = @ + 1]
          /\ add_chan' = Tail(add_chan)
       \/ /\ add_chan = <<>> /\ closed
          /\ cmap_ar[EmptyWord] < MaxEmpty
          /\ cmap_ar' = [cmap_ar EXCEPT ![EmptyWord] = @ + 1]
          /\ UNCHANGED add_chan
    /\ UNCHANGED <<program, listener, closed, ask_chan, count_chan, main, reader,
                   asking, reducer>>

\* Mistaken variant: a word that is not in the map gets no answer.
TakeAskQuiet ==
    /\ Running
    /\ listener = Idle
    /\ ask_chan # <<>>
    /\ LET n == cmap_ar[Head(ask_chan)] IN
          listener' = IF n > 0 THEN [step |-> "answer", count |-> n] ELSE Idle
    /\ ask_chan' = Tail(ask_chan)
    /\ UNCHANGED <<program, cmap_ar, closed, add_chan, count_chan, main, reader,
                   asking, reducer>>

TakeAsk ==
    /\ Running
    /\ listener = Idle
    /\ \/ /\ ask_chan # <<>>
          /\ listener' = [step |-> "answer", count |-> cmap_ar[Head(ask_chan)]]
          /\ ask_chan' = Tail(ask_chan)
       \/ /\ ask_chan = <<>> /\ closed
          /\ listener' = [step |-> "answer", count |-> cmap_ar[EmptyWord]]
          /\ UNCHANGED ask_chan
    /\ UNCHANGED <<program, cmap_ar, closed, add_chan, count_chan, main, reader,
                   asking, reducer>>

Answer == /\ Running
          /\ listener.step = "answer"
          /\ Len(count_chan) < ASK_BUFFER_SIZE
          /\ count_chan' = Append(count_chan, listener.count)
          /\ listener' = Idle
          /\ UNCHANGED <<program, cmap_ar, closed, add_chan, ask_chan, main, reader,
                         asking, reducer>>

\* The break leaves the select and not the loop, so the closed stop_chan is
\* read again, and add_chan is closed twice.
ListenPanics == /\ Running
                /\ listener = Idle
                /\ closed
                /\ program' = "closed_twice"
                /\ UNCHANGED <<map, channels, main, reader, asking, reducer>>
-----------------------------------------------------------------------------
\* main: wg.Wait(), a token for every asker, one for the reducers, Stop.
ReadersDone == /\ Running
               /\ main = "wait"
               /\ \A r \in Readers : reader[r] = 0
               /\ main' = "kill_askers"
               /\ UNCHANGED <<program, map, channels, reader, asking, reducer>>

KillAsker(a) == /\ Running
                /\ main = "kill_askers"
                /\ asker[a].step = "select"
                /\ asker' = [asker EXCEPT ![a] = [step |-> "killed"]]
                /\ UNCHANGED <<program, map, channels, main, reader, askRest, reducer>>

\* Mistaken variant: one token is taken for all askers.
AskersKilledEarly ==
    /\ Running
    /\ main = "kill_askers"
    /\ Askers = {} \/ \E a \in Askers : asker[a].step = "killed"
    /\ main' = "kill_reducer"
    /\ UNCHANGED <<program, map, channels, reader, asking, reducer>>

AskersKilled == /\ Running
                /\ main = "kill_askers"
                /\ \A a \in Askers : asker[a].step = "killed"
                /\ main' = "kill_reducer"
                /\ UNCHANGED <<program, map, channels, reader, asking, reducer>>

KillReducer(r) == /\ Running
                  /\ main = "kill_reducer"
                  /\ reducer[r] = "select"
                  /\ reducer' = [reducer EXCEPT ![r] = "killed"]
                  /\ main' = "stop"
                  /\ UNCHANGED <<program, map, channels, reader, asking>>

\* Stop meets Listen, which closes three channels.
Stop == /\ Running
        /\ main = "stop"
        /\ listener = Idle
        /\ closed' = TRUE
        /\ main' = "stopped"
        /\ UNCHANGED <<program, cmap_ar, listener, channels, reader, asking, reducer>>

\* main returns, and the program ends with whatever goroutines there are.
Exit == /\ Running
        /\ main = "stopped"
        /\ program' = "exited"
        /\ UNCHANGED <<map, channels, main, reader, asking, reducer>>
-----------------------------------------------------------------------------
Listen == TakeWord \/ TakeAsk \/ Answer \/ ListenPanics

ReducerStep(r) == ReduceTick(r) \/ SendReduce(r) \/ GetReduction(r)

AskerStep(a) == (\E w \in Words : AskTick(a, w)) \/ Ask(a) \/ GetAnswer(a)

Main == \/ ReadersDone \/ AskersKilled \/ Stop \/ Exit
        \/ \E a \in Askers : KillAsker(a)
        \/ \E r \in Reducers : KillReducer(r)

Next == \/ \E r \in Readers : ReaderStep(r)
        \/ \E a \in Askers : AskerStep(a)
        \/ \E r \in Reducers : ReducerStep(r)
        \/ Listen
        \/ Main

Spec == Init /\ [][Next]_vars

\* Goroutines run, a select takes a branch that is ready again and again, and
\* a blocked send or receive is served in turn. Tickers may never fire.
Fairness == /\ WF_vars(\E r \in Readers : ReaderStep(r))
            /\ SF_vars(\E a \in Askers : Ask(a) \/ GetAnswer(a))
            /\ SF_vars(\E r \in Reducers : SendReduce(r) \/ GetReduction(r))
            /\ SF_vars(TakeWord)
            /\ SF_vars(TakeAsk \/ Answer)
            /\ SF_vars(Main)

FairSpec == Spec /\ Fairness
-----------------------------------------------------------------------------
ProgramOK == /\ arg_askers \in 0 .. MaxAskers
             /\ program \in {"running", "exited", "sent_on_closed", "closed_twice"}
             /\ main \in {"wait", "kill_askers", "kill_reducer", "stop", "stopped"}

MapOK == /\ cmap_ar \in [Words \cup {EmptyWord} -> Nat]
         /\ reported \in [Words -> Nat]

ChannelsOK == /\ add_chan \in Seq(Words) /\ ask_chan \in Seq(Words)
              /\ count_chan \in Seq(Nat)
              /\ closed \in BOOLEAN

ListenerOK == \/ listener \in {Idle} \cup [step : {"answer"}, count : Nat]
              \/ listener.step = "reply" /\ listener.functor \in Reducers

AskersOK == asker \in [Askers -> {Idle, [step |-> "killed"]}
                                  \cup [step : {"ask", "await"}, word : Words]]

ClientsOK == /\ reader \in [Readers -> 0 .. WordsEach]
             /\ reducer \in [Reducers -> {"select", "send", "await", "killed"}]

TypeOK == ProgramOK /\ MapOK /\ ChannelsOK /\ ListenerOK /\ AskersOK /\ ClientsOK

\* Stop closes channels that readers and askers send on (cmap.go:64 and 65),
\* which would panic in the sender. main has waited for the readers and has
\* killed every asker before, so nobody is left to send.
NoSendOnClosed == program # "sent_on_closed"

Awaiting == {a \in Askers : asker[a].step = "await"}

\* GetCount's answers are not addressed, but there are always as many on
\* their way as askers wait for one: none of them waits for ever, and Listen
\* never blocks for good on a full count_chan (cmap.go:54).
AnswersMatchAskers ==
    ~closed => Len(ask_chan) + Len(count_chan) + (IF listener.step = "answer" THEN 1 ELSE 0)
                   = Cardinality(Awaiting)

\* The one answer on reduce_out_chan is for the one reducer that waits, so
\* the reducers cannot get each other's although they share both channels,
\* and it is an extreme entry of the map, in whatever order range went.
ReductionIsExact ==
    listener.step = "reply" =>
        /\ \A r \in Reducers : reducer[r] = "await" <=> r = listener.functor
        /\ LET best == listener.accum IN
           IF Present = {} THEN best = InitialAccum(listener.functor)
           ELSE /\ best.word \in Present /\ best.count = cmap_ar[best.word]
                /\ \A w \in Present : IF listener.functor = "max"
                                       THEN cmap_ar[w] <= best.count
                                       ELSE cmap_ar[w] >= best.count

Occurrences(s, w) == Cardinality({i \in DOMAIN s : s[i] = w})

\* Every word is counted once, and with one asker (the default of -askers)
\* the counts it gets are those of the word it asked for.
Counter == INSTANCE WordCounter WITH
    counts <- [w \in Words |-> cmap_ar[w] + Occurrences(add_chan, w)],
    reported <- IF arg_askers <= 1 THEN reported ELSE [w \in Words |-> 0]
IsCounter == Counter!Spec

\* The program ends, although main waits for askers and a reducer that wait
\* for Listen, and Listen for them.
MainEnds == <>(program # "running")
=============================================================================
