-------------------------- MODULE Assistant_proofs --------------------------
(***************************************************************************)
(* Proofs about the voice assistant for every value of its constants.      *)
(***************************************************************************)
EXTENDS AssistantProps, TLAPS

USE AssistantAssumption DEF AssistantAssumption

LEMMA EmptyType == \A S : <<>> \in Seq(S)
  OBVIOUS

\* Where a thread has a text that an input caused and it may yet speak of.
Handles(t) == \/ pc[t] \in {"typed", "roused", "act", "thinking", "heard", "barge", "ready"}
              \/ IsCutting(t) /\ resume[t] # "top"

\* Whoever may speak knows the input it speaks of, and so does the worker.
Named == /\ tts.at # "idle" => tts.item # Nobody
         /\ \A t \in Cutters : Handles(t) => cause[t] # Nobody

Typing == TypeOK /\ Named

LEMMA InitType == Init => Typing
  <1> SUFFICES ASSUME Init PROVE Typing
    OBVIOUS
  <1>1. pc \in [Cutters \cup {Wake} -> Labels \cup {"hearing"}]
    BY DEF Init, Labels
  <1>2. /\ cause \in [Cutters -> Inputs \cup {Nobody}]
        /\ said \in [Cutters -> Words \cup {""}]
        /\ resume \in [Cutters -> {"top", "act", "ready"}]
        /\ cut \in [Cutters -> SUBSET Inputs]
        /\ queue \in Seq(Inputs)
    BY EmptyType DEF Init
  <1>3. tts \in [at : {"idle", "taken", "cleared", "route", "making", "made", "playing", "ending"},
                 item : Inputs \cup {Nobody},
                 voice : {"none", "gemini", "edge", "offline", "local"},
                 sent : BOOLEAN]
    BY DEF Init, Idle
  <1>4. inputs = 0 /\ changes = 0
    BY DEF Init
  <1>5. inputs \in Nat /\ changes \in Nat /\ inputs + changes <= MaxEvents
    BY <1>4
  <1>6. TypeOK
    BY <1>1, <1>2, <1>3, <1>5 DEF Init, TypeOK
  <1>7. Named
    BY DEF Init, Named, Handles, IsCutting, Idle, Cutters
  <1> QED
    BY <1>6, <1>7 DEF Typing

\* What the queue holds after a text is appended or taken.
LEMMA QueueType ==
    ASSUME Typing
    PROVE  /\ \A u \in Inputs : Append(queue, u) \in Seq(Inputs)
           /\ queue # <<>> => Head(queue) \in Inputs /\ Tail(queue) \in Seq(Inputs)
           /\ Waiting \in SUBSET Inputs /\ InHand \in SUBSET Inputs
           /\ \A u \in Inputs : u # Nobody
  <1>1. queue \in Seq(Inputs)
    BY DEF Typing, TypeOK
  <1>2. tts.item \in Inputs \cup {Nobody} /\ (tts.at # "idle" => tts.item # Nobody)
    BY DEF Typing, TypeOK, Named
  <1>3. \A u \in Inputs : u # Nobody
    BY DEF Inputs, Nobody
  <1> QED
    BY <1>1, <1>2, <1>3 DEF Waiting, InHand

\* A new input has a name of its own.
LEMMA InputType ==
    ASSUME Typing, NewInput
    PROVE  /\ inputs + 1 \in Inputs /\ inputs' = inputs + 1
           /\ inputs' \in Nat /\ inputs' + changes <= MaxEvents
  <1>1. inputs \in Nat /\ changes \in Nat
    BY DEF Typing, TypeOK
  <1>2. inputs + changes < MaxEvents /\ inputs' = inputs + 1
    BY DEF NewInput, Room
  <1> QED
    BY <1>1, <1>2 DEF Inputs

\* A command's text is spoken under the input that caused it.
LEMMA CauseType ==
    ASSUME Typing, NEW t \in Cutters, pc[t] \in {"act", "thinking"}
    PROVE  cause[t] \in Inputs
  BY DEF Typing, TypeOK, Named, Handles

\* The flags are Boolean, whatever they are computed from.
LEMMA FlagType ==
    /\ (recent \/ ~awake) \in BOOLEAN /\ (recent \/ speaking) \in BOOLEAN
    /\ (~phoneMode) \in BOOLEAN /\ (~connected) \in BOOLEAN /\ (~online) \in BOOLEAN
    /\ (phoneMode /\ tts.voice \in {"gemini", "edge"}) \in BOOLEAN
  BY Zenon

\* Stopping the voice.
LEMMA CuttingType ==
    ASSUME Typing, NEW t \in Cutters, Cutting(t)
    PROVE  Typing'
  <1> USE DEF flags, world, locks, texts, threads, history
  <1>0. Waiting \in SUBSET Inputs /\ InHand \in SUBSET Inputs
    BY QueueType
  <1>l. {"wait", "cut_off"} \subseteq Labels
    BY DEF Labels
  <1>1. CASE Drain(t)
    <2>1. TypeOK'
      BY <1>1, EmptyType DEF Drain, Goto, Typing, TypeOK, Labels
    <2>2. Named'
      BY <1>1 DEF Drain, Goto, Typing, TypeOK, Named, Handles, IsCutting
    <2> QED
      BY <2>1, <2>2 DEF Typing
  <1>2. CASE FellSilent(t)
    <2>1. TypeOK'
      BY <1>2, <1>0, <1>l DEF FellSilent, Goto, Typing, TypeOK
    <2>2. Named'
      <3>1. /\ pc[t] = "wait" /\ pc' = [pc EXCEPT ![t] = "cut_off"]
            /\ resume' = resume /\ cause' = cause /\ tts' = tts
            /\ pc \in [Cutters \cup {Wake} -> Labels \cup {"hearing"}]
        BY <1>2 DEF FellSilent, Goto, Typing, TypeOK
      <3>2. \A u \in Cutters : Handles(u)' => Handles(u)
        BY <3>1 DEF Handles, IsCutting
      <3> QED
        BY <3>1, <3>2 DEF Typing, Named
    <2> QED
      BY <2>1, <2>2 DEF Typing
  <1>3. CASE GivesUp(t)
    <2>1. TypeOK'
      BY <1>3, <1>0, <1>l DEF GivesUp, Goto, Typing, TypeOK
    <2>2. Named'
      <3>1. /\ pc[t] = "wait" /\ pc' = [pc EXCEPT ![t] = "cut_off"]
            /\ resume' = resume /\ cause' = cause /\ tts' = tts
            /\ pc \in [Cutters \cup {Wake} -> Labels \cup {"hearing"}]
        BY <1>3 DEF GivesUp, Goto, Typing, TypeOK
      <3>2. \A u \in Cutters : Handles(u)' => Handles(u)
        BY <3>1 DEF Handles, IsCutting
      <3> QED
        BY <3>1, <3>2 DEF Typing, Named
    <2> QED
      BY <2>1, <2>2 DEF Typing
  <1>4. CASE CutOff(t)
    <2>0. /\ {"top", "done", "act", "ready"} \subseteq Labels
          /\ resume[t] \in {"top", "act", "ready"} /\ After(t) \in {"top", "done"}
      BY DEF Labels, Typing, TypeOK, After
    <2>1. /\ pc' \in [Cutters \cup {Wake} -> Labels \cup {"hearing"}]
          /\ said' \in [Cutters -> Words \cup {""}]
          /\ cause' \in [Cutters -> Inputs \cup {Nobody}]
          /\ resume' \in [Cutters -> {"top", "act", "ready"}]
          /\ resume'[t] = "top" /\ \A u \in Cutters \ {t} : resume'[u] = resume[u]
          /\ \A u \in Cutters \ {t} : pc'[u] = pc[u] /\ cause'[u] = cause[u]
          /\ \/ pc'[t] \in {"top", "done"}
             \/ resume[t] # "top" /\ cause'[t] = cause[t]
      <3>0. /\ pc \in [Cutters \cup {Wake} -> Labels \cup {"hearing"}]
            /\ said \in [Cutters -> Words \cup {""}]
            /\ cause \in [Cutters -> Inputs \cup {Nobody}]
            /\ resume \in [Cutters -> {"top", "act", "ready"}]
            /\ resume' = [resume EXCEPT ![t] = "top"]
        BY <1>4 DEF CutOff, Typing, TypeOK
      <3>1. CASE resume[t] = "top"
        <4>1. /\ pc' = [pc EXCEPT ![t] = After(t)]
              /\ said' = [said EXCEPT ![t] = ""] /\ cause' = [cause EXCEPT ![t] = Nobody]
          BY <1>4, <3>1 DEF CutOff, Return, Forget, Goto
        <4> QED
          BY <2>0, <3>0, <4>1
      <3>2. CASE resume[t] # "top"
        <4>1. pc' = [pc EXCEPT ![t] = resume[t]] /\ said' = said /\ cause' = cause
          BY <1>4, <3>2 DEF CutOff, Goto
        <4> QED
          BY <2>0, <3>0, <3>2, <4>1
      <3> QED
        BY <3>1, <3>2
    <2>2. TypeOK'
      <3>1. /\ cut' \in [Cutters -> SUBSET Inputs] /\ silenced' \subseteq Inputs
            /\ lock' \in Typed \cup {None} /\ interrupt' \in BOOLEAN
        BY <1>4, <1>0 DEF CutOff, Typing, TypeOK
      <3> QED
        BY <1>4, <2>1, <3>1 DEF CutOff, Typing, TypeOK
    <2>3. Named'
      <3>1. tts' = tts /\ pc[t] = "cut_off"
        BY <1>4 DEF CutOff
      <3>2. \A u \in Cutters \ {t} : Handles(u)' => Handles(u)
        BY <2>1 DEF Handles, IsCutting
      <3>3. Handles(t)' => Handles(t) /\ cause'[t] = cause[t]
        BY <2>1, <3>1 DEF Handles, IsCutting
      <3> QED
        BY <2>1, <3>1, <3>2, <3>3 DEF Typing, Named
    <2> QED
      BY <2>2, <2>3 DEF Typing
  <1> QED
    BY <1>1, <1>2, <1>3, <1>4 DEF Cutting

\* The last step of a command.
LEMMA FinishingType ==
    ASSUME Typing, NEW t \in Cutters, Finishing(t)
    PROVE  Typing'
  <1> USE DEF flags, world, locks, texts, threads, history
  <1>1. CASE Rest(t)
    <2>1. TypeOK'
      BY <1>1 DEF Rest, Return, After, Forget, Free, Goto, Typing, TypeOK, Labels
    <2>2. Named'
      BY <1>1 DEF Rest, Return, After, Forget, Free, Goto, Typing, TypeOK, Named, Handles, IsCutting
    <2> QED
      BY <2>1, <2>2 DEF Typing
  <1>2. CASE Close(t)
    <2>1. TypeOK'
      BY <1>2 DEF Close, Forget, Free, Goto, Typing, TypeOK, Labels
    <2>2. Named'
      BY <1>2 DEF Close, Forget, Free, Goto, Typing, TypeOK, Named, Handles, IsCutting
    <2> QED
      BY <2>1, <2>2 DEF Typing
  <1>3. CASE Answer(t)
    <2>1. cause[t] \in Inputs
      BY <1>3, CauseType DEF Answer
    <2>2. later' \subseteq Inputs
      BY <1>3, <2>1 DEF Answer, Typing, TypeOK
    <2>3. PICK l \in {"top", "done", "dead"} : Goto(t, l)
      BY <1>3, Zenon DEF Answer, After
    <2>4. Forget(t) /\ UNCHANGED <<flags, world, locks, queue, resume, tts, inputs, changes, history>>
      BY <1>3, Zenon DEF Answer
    <2>a. /\ pc' \in [Cutters \cup {Wake} -> Labels \cup {"hearing"}]
          /\ said' \in [Cutters -> Words \cup {""}]
          /\ cause' \in [Cutters -> Inputs \cup {Nobody}]
      BY <2>3, <2>4 DEF Goto, Forget, Typing, TypeOK, Labels
    <2>5. TypeOK'
      BY <2>2, <2>4, <2>a DEF Typing, TypeOK
    <2>6. Named'
      BY <2>3, <2>4 DEF Goto, Forget, Typing, TypeOK, Named, Handles, IsCutting
    <2> QED
      BY <2>5, <2>6 DEF Typing
  <1> QED
    BY <1>1, <1>2, <1>3 DEF Finishing

\* A typed command.
LEMMA ActType ==
    ASSUME Typing, NEW t \in Typed, Act(t)
    PROVE  Typing'
  <1> USE DEF flags, world, locks, texts, threads, history
  <1>0. \A u \in Inputs : Append(queue, u) \in Seq(Inputs)
    BY QueueType
  <1>c. cause[t] \in Inputs
    BY CauseType DEF Act, Cutters
  <1>1. CASE TypedStop(t)
    <2>1. TypeOK'
      BY <1>1 DEF TypedStop, Act, Return, After, Forget, Cutters, Goto, Typing, TypeOK, Labels
    <2>2. Named'
      BY <1>1 DEF TypedStop, Act, Return, After, Forget, Cutters, Goto, Typing, TypeOK, Named, Handles, IsCutting
    <2> QED
      BY <2>1, <2>2 DEF Typing
  <1>2. CASE Standby(t)
    <2>1. TypeOK'
      BY <1>2, <1>0, <1>c DEF Standby, Act, Speak, Cutters, Goto, Typing, TypeOK, Labels
    <2>2. Named'
      BY <1>2 DEF Standby, Act, Speak, Cutters, Goto, Typing, TypeOK, Named, Handles, IsCutting
    <2> QED
      BY <2>1, <2>2 DEF Typing
  <1>3. CASE Shutdown(t)
    <2>1. TypeOK'
      BY <1>3, <1>0, <1>c DEF Shutdown, Act, Speak, Cutters, Goto, Typing, TypeOK, Labels
    <2>2. Named'
      BY <1>3 DEF Shutdown, Act, Speak, Cutters, Goto, Typing, TypeOK, Named, Handles, IsCutting
    <2> QED
      BY <2>1, <2>2 DEF Typing
  <1>4. CASE Ask(t)
    <2>1. TypeOK'
      BY <1>4 DEF Ask, Act, Cutters, Goto, Typing, TypeOK, Labels
    <2>2. Named'
      BY <1>4 DEF Ask, Act, Cutters, Goto, Typing, TypeOK, Named, Handles, IsCutting
    <2> QED
      BY <2>1, <2>2 DEF Typing
  <1> QED
    BY <1>1, <1>2, <1>3, <1>4 DEF Act

\* A spoken command.
LEMMA ObeyType ==
    ASSUME Typing, Obey
    PROVE  Typing'
  <1> USE DEF flags, world, locks, texts, threads, history
  <1>0. Waiting \in SUBSET Inputs /\ InHand \in SUBSET Inputs
    BY QueueType
  <1>00. \A u \in Inputs : Append(queue, u) \in Seq(Inputs)
    BY QueueType
  <1>c. cause[AI] \in Inputs
    BY CauseType DEF Obey, Cutters
  <1>1. CASE SpokenStop
    <2>1. TypeOK'
      BY <1>1, <1>0 DEF SpokenStop, Obey, CutOn, Cutters, Goto, Typing, TypeOK, Labels
    <2>2. Named'
      BY <1>1 DEF SpokenStop, Obey, CutOn, Cutters, Goto, Typing, TypeOK, Named, Handles, IsCutting
    <2> QED
      BY <2>1, <2>2 DEF Typing
  <1>2. CASE Standby(AI)
    <2>1. TypeOK'
      BY <1>2, <1>00, <1>c DEF Standby, Obey, Speak, Cutters, Goto, Typing, TypeOK, Labels
    <2>2. Named'
      BY <1>2 DEF Standby, Obey, Speak, Cutters, Goto, Typing, TypeOK, Named, Handles, IsCutting
    <2> QED
      BY <2>1, <2>2 DEF Typing
  <1>3. CASE Shutdown(AI)
    <2>1. TypeOK'
      BY <1>3, <1>00, <1>c DEF Shutdown, Obey, Speak, Cutters, Goto, Typing, TypeOK, Labels
    <2>2. Named'
      BY <1>3 DEF Shutdown, Obey, Speak, Cutters, Goto, Typing, TypeOK, Named, Handles, IsCutting
    <2> QED
      BY <2>1, <2>2 DEF Typing
  <1>4. CASE Ask(AI)
    <2>1. TypeOK'
      BY <1>4 DEF Ask, Obey, Cutters, Goto, Typing, TypeOK, Labels
    <2>2. Named'
      BY <1>4 DEF Ask, Obey, Cutters, Goto, Typing, TypeOK, Named, Handles, IsCutting
    <2> QED
      BY <2>1, <2>2 DEF Typing
  <1> QED
    BY <1>1, <1>2, <1>3, <1>4 DEF Obey

\* A typed message.
LEMMA TypedType ==
    ASSUME Typing, NEW t \in Typed, NEW w \in Words, Type(t, w) \/ Rouse(t) \/ Hush(t)
    PROVE  Typing'
  <1> USE DEF flags, world, locks, texts, threads, history
  <1>0. Waiting \in SUBSET Inputs /\ InHand \in SUBSET Inputs
    BY QueueType
  <1>1. CASE Type(t, w)
    <2>0. "typed" \in Labels /\ t \in Cutters
      BY DEF Labels, Cutters
    <2>1. TypeOK'
      BY <1>1, <2>0, InputType DEF Type, Goto, Typing, TypeOK
    <2>2. Named'
      BY <1>1, InputType, QueueType DEF Type, Cutters, Goto, Typing, TypeOK, Named, Handles, IsCutting
    <2> QED
      BY <2>1, <2>2 DEF Typing
  <1>2. CASE Rouse(t)
    <2>1. TypeOK'
      BY <1>2 DEF Rouse, Free, Cutters, Goto, Typing, TypeOK, Labels
    <2>2. Named'
      BY <1>2 DEF Rouse, Free, Cutters, Goto, Typing, TypeOK, Named, Handles, IsCutting
    <2> QED
      BY <2>1, <2>2 DEF Typing
  <1>3. CASE Hush(t)
    <2>0. \/ pc[t] = "roused" /\ CutOn(t, "act") /\ UNCHANGED <<silenced, excused>> /\ UNCHANGED <<awake, speaking, running, world, mic, texts, said, cause, tts, inputs, changes>>
          \/ pc[t] = "roused" /\ Goto(t, "act") /\ UNCHANGED <<interrupt, lock, resume, history>> /\ UNCHANGED <<awake, speaking, running, world, mic, texts, said, cause, tts, inputs, changes>>
      BY <1>3, Zenon DEF Hush
    <2>1. CASE pc[t] = "roused" /\ CutOn(t, "act") /\ UNCHANGED <<silenced, excused>> /\ UNCHANGED <<awake, speaking, running, world, mic, texts, said, cause, tts, inputs, changes>>
      <3>1. TypeOK'
        BY <2>1, <1>0 DEF CutOn, Free, Cutters, AI, Goto, Typing, TypeOK, Labels
      <3>2. Named'
        BY <2>1 DEF CutOn, Free, Cutters, AI, Goto, Typing, TypeOK, Named, Handles, IsCutting
      <3> QED
        BY <3>1, <3>2 DEF Typing
    <2>2. CASE pc[t] = "roused" /\ Goto(t, "act") /\ UNCHANGED <<interrupt, lock, resume, history>> /\ UNCHANGED <<awake, speaking, running, world, mic, texts, said, cause, tts, inputs, changes>>
      <3>1. TypeOK'
        BY <2>2, <1>0 DEF CutOn, Free, Cutters, AI, Goto, Typing, TypeOK, Labels
      <3>2. Named'
        BY <2>2 DEF CutOn, Free, Cutters, AI, Goto, Typing, TypeOK, Named, Handles, IsCutting
      <3> QED
        BY <3>1, <3>2 DEF Typing
    <2> QED
      BY <2>0, <2>1, <2>2
  <1> QED
    BY <1>1, <1>2, <1>3 DEF Typing

\* The AI loop.
LEMMA LoopType ==
    ASSUME Typing, Loop
    PROVE  Typing'
  <1> USE DEF flags, world, locks, texts, threads, history
  <1>0. Waiting \in SUBSET Inputs /\ InHand \in SUBSET Inputs
    BY QueueType
  <1>00. \A u \in Inputs : Append(queue, u) \in Seq(Inputs)
    BY QueueType
  <1>1. CASE StartListening
    <2>1. TypeOK'
      BY <1>1 DEF StartListening, Cutters, Goto, Typing, TypeOK, Labels
    <2>2. Named'
      BY <1>1 DEF StartListening, Cutters, Goto, Typing, TypeOK, Named, Handles, IsCutting
    <2> QED
      BY <2>1, <2>2 DEF Typing
  <1>2. CASE LoopEnds
    <2>1. TypeOK'
      BY <1>2 DEF LoopEnds, Cutters, Goto, Typing, TypeOK, Labels
    <2>2. Named'
      BY <1>2 DEF LoopEnds, Cutters, Goto, Typing, TypeOK, Named, Handles, IsCutting
    <2> QED
      BY <2>1, <2>2 DEF Typing
  <1>3. CASE TakeMic
    <2>1. TypeOK'
      BY <1>3 DEF TakeMic, Cutters, Goto, Typing, TypeOK, Labels
    <2>2. Named'
      BY <1>3 DEF TakeMic, Cutters, Goto, Typing, TypeOK, Named, Handles, IsCutting
    <2> QED
      BY <2>1, <2>2 DEF Typing
  <1>4. CASE HearNothing
    <2>1. TypeOK'
      BY <1>4 DEF HearNothing, Cutters, Goto, Typing, TypeOK, Labels
    <2>2. Named'
      BY <1>4 DEF HearNothing, Cutters, Goto, Typing, TypeOK, Named, Handles, IsCutting
    <2> QED
      BY <2>1, <2>2 DEF Typing
  <1>5. CASE Silence
    <2>1. {phoneMode, connected, online, recent}' \subseteq BOOLEAN
      BY <1>5, FlagType, Zenon DEF Silence, Typing, TypeOK
    <2>2. /\ queue' \in Seq(Inputs) /\ inputs' \in Nat /\ inputs' + changes <= MaxEvents
          /\ \E l \in {"top", "resting"} : Goto(AI, l)
      BY <1>5, <1>00, InputType DEF Silence, Speak, Typing, TypeOK
    <2>3. UNCHANGED <<flags, locks, later, said, cause, resume, tts, changes, history>>
      BY <1>5, Zenon DEF Silence
    <2>4. pc' \in [Cutters \cup {Wake} -> Labels \cup {"hearing"}]
      BY <2>2 DEF Goto, Typing, TypeOK, Labels
    <2>5. TypeOK'
      BY <2>1, <2>2, <2>3, <2>4 DEF Typing, TypeOK
    <2>6. Named'
      BY <1>5 DEF Silence, Goto, Typing, TypeOK, Named, Handles, IsCutting
    <2> QED
      BY <2>5, <2>6 DEF Typing
  <1>6. CASE Understand
    <2>0. \/ pc[AI] = "heard" /\ Return(AI) /\ UNCHANGED <<flags, world, locks, texts, resume, tts, inputs, changes, history>>
          \/ pc[AI] = "heard" /\ Goto(AI, "barge") /\ UNCHANGED <<said, cause>> /\ UNCHANGED <<flags, world, locks, texts, resume, tts, inputs, changes, history>>
          \/ pc[AI] = "heard" /\ Goto(AI, "ready") /\ UNCHANGED <<said, cause>> /\ UNCHANGED <<flags, world, locks, texts, resume, tts, inputs, changes, history>>
      BY <1>6, Zenon DEF Understand
    <2>1. CASE pc[AI] = "heard" /\ Return(AI) /\ UNCHANGED <<flags, world, locks, texts, resume, tts, inputs, changes, history>>
      <3>1. TypeOK'
        BY <2>1 DEF Return, After, Forget, Cutters, Goto, Typing, TypeOK, Labels
      <3>2. Named'
        BY <2>1 DEF Return, After, Forget, Cutters, Goto, Typing, TypeOK, Named, Handles, IsCutting
      <3> QED
        BY <3>1, <3>2 DEF Typing
    <2>2. CASE pc[AI] = "heard" /\ Goto(AI, "barge") /\ UNCHANGED <<said, cause>> /\ UNCHANGED <<flags, world, locks, texts, resume, tts, inputs, changes, history>>
      <3>1. TypeOK'
        BY <2>2 DEF Return, After, Forget, Cutters, Goto, Typing, TypeOK, Labels
      <3>2. Named'
        BY <2>2 DEF Return, After, Forget, Cutters, Goto, Typing, TypeOK, Named, Handles, IsCutting
      <3> QED
        BY <3>1, <3>2 DEF Typing
    <2>3. CASE pc[AI] = "heard" /\ Goto(AI, "ready") /\ UNCHANGED <<said, cause>> /\ UNCHANGED <<flags, world, locks, texts, resume, tts, inputs, changes, history>>
      <3>1. TypeOK'
        BY <2>3 DEF Return, After, Forget, Cutters, Goto, Typing, TypeOK, Labels
      <3>2. Named'
        BY <2>3 DEF Return, After, Forget, Cutters, Goto, Typing, TypeOK, Named, Handles, IsCutting
      <3> QED
        BY <3>1, <3>2 DEF Typing
    <2> QED
      BY <2>0, <2>1, <2>2, <2>3
  <1>7. CASE BargeIn
    <2>1. TypeOK'
      BY <1>7, <1>0 DEF BargeIn, Cutters, CutOn, Goto, Typing, TypeOK, Labels
    <2>2. Named'
      BY <1>7 DEF BargeIn, Cutters, CutOn, Goto, Typing, TypeOK, Named, Handles, IsCutting
    <2> QED
      BY <2>1, <2>2 DEF Typing
  <1>8. CASE Attend
    <2>1. TypeOK'
      BY <1>8 DEF Attend, Cutters, Goto, Typing, TypeOK, Labels
    <2>2. Named'
      BY <1>8 DEF Attend, Cutters, Goto, Typing, TypeOK, Named, Handles, IsCutting
    <2> QED
      BY <2>1, <2>2 DEF Typing
  <1>9. CASE Obey
    <2>1. TypeOK'
      BY <1>9, ObeyType DEF Obey, Cutters, Goto, Typing, TypeOK, Labels
    <2>2. Named'
      BY <1>9, ObeyType DEF Obey, Cutters, Goto, Typing, TypeOK, Named, Handles, IsCutting
    <2> QED
      BY <2>1, <2>2 DEF Typing
  <1> QED
    BY <1>1, <1>2, <1>3, <1>4, <1>5, <1>6, <1>7, <1>8, <1>9 DEF Loop

\* The wake word, the wake button and what the AI loop hears.
LEMMA WakeType ==
    ASSUME Typing, NEW w \in Words, \/ Hear(w) \/ WakeListens \/ NoWakeWord \/ WakeWord \/ WakeButton
    PROVE  Typing'
  <1> USE DEF flags, world, locks, texts, threads, history
  <1>0. \A u \in Inputs : Append(queue, u) \in Seq(Inputs)
    BY QueueType
  <1>1. CASE Hear(w)
    <2>1. TypeOK'
      BY <1>1, InputType DEF Hear, Cutters, Goto, Typing, TypeOK, Labels
    <2>2. Named'
      BY <1>1, InputType, QueueType DEF Hear, Cutters, Goto, Typing, TypeOK, Named, Handles, IsCutting
    <2> QED
      BY <2>1, <2>2 DEF Typing
  <1>2. CASE WakeListens
    <2>1. TypeOK'
      BY <1>2 DEF WakeListens, Cutters, Goto, Typing, TypeOK, Labels
    <2>2. Named'
      BY <1>2 DEF WakeListens, Cutters, Goto, Typing, TypeOK, Named, Handles, IsCutting
    <2> QED
      BY <2>1, <2>2 DEF Typing
  <1>3. CASE NoWakeWord
    <2>1. TypeOK'
      BY <1>3 DEF NoWakeWord, Cutters, Goto, Typing, TypeOK, Labels
    <2>2. Named'
      BY <1>3 DEF NoWakeWord, Cutters, Goto, Typing, TypeOK, Named, Handles, IsCutting
    <2> QED
      BY <2>1, <2>2 DEF Typing
  <1>4. CASE WakeWord
    <2>1. {phoneMode, connected, online, recent}' \subseteq BOOLEAN
      BY <1>4, FlagType, Zenon DEF WakeWord, Typing, TypeOK
    <2>2. TypeOK'
      <3>1. "top" \in Labels
        BY DEF Labels
      <3>2. queue' \in Seq(Inputs) /\ inputs' \in Nat /\ inputs' + changes' <= MaxEvents
        BY <1>4, InputType, QueueType DEF WakeWord, Speak
      <3>3. /\ pc' \in [Cutters \cup {Wake} -> Labels \cup {"hearing"}]
            /\ mic' \in {AI, Wake, None} /\ {awake, speaking, interrupt, running}' \subseteq BOOLEAN
        BY <1>4, <3>1 DEF WakeWord, Goto, Typing, TypeOK
      <3>4. /\ lock' \in Typed \cup {None} /\ later' \subseteq Inputs
            /\ said' \in [Cutters -> Words \cup {""}]
            /\ cause' \in [Cutters -> Inputs \cup {Nobody}]
            /\ resume' \in [Cutters -> {"top", "act", "ready"}]
            /\ tts' \in [at : {"idle", "taken", "cleared", "route", "making", "made",
                               "playing", "ending"},
                         item : Inputs \cup {Nobody},
                         voice : {"none", "gemini", "edge", "offline", "local"},
                         sent : BOOLEAN]
            /\ changes' \in Nat /\ cut' \in [Cutters -> SUBSET Inputs]
            /\ silenced' \subseteq Inputs /\ excused' \subseteq Inputs
        BY <1>4 DEF WakeWord, Typing, TypeOK
      <3> QED
        BY <2>1, <3>2, <3>3, <3>4 DEF TypeOK
    <2>3. Named'
      BY <1>4 DEF WakeWord, Cutters, Speak, Goto, Typing, TypeOK, Named, Handles, IsCutting
    <2> QED
      BY <2>2, <2>3 DEF Typing
  <1>5. CASE WakeButton
    <2>1. {phoneMode, connected, online, recent}' \subseteq BOOLEAN
      BY <1>5, FlagType, Zenon DEF WakeButton, Typing, TypeOK
    <2>2. TypeOK'
      <3>1. queue' \in Seq(Inputs) /\ inputs' \in Nat /\ inputs' + changes' <= MaxEvents
        BY <1>5, InputType, QueueType DEF WakeButton, Speak
      <3>2. {awake, speaking, interrupt, running}' \subseteq BOOLEAN
        BY <1>5 DEF WakeButton, Typing, TypeOK
      <3> QED
        BY <1>5, <2>1, <3>1, <3>2 DEF WakeButton, Typing, TypeOK
    <2>3. Named'
      BY <1>5 DEF WakeButton, Cutters, Speak, Goto, Typing, TypeOK, Named, Handles, IsCutting
    <2> QED
      BY <2>2, <2>3 DEF Typing
  <1> QED
    BY <1>1, <1>2, <1>3, <1>4, <1>5 DEF Typing

\* The speech worker.
LEMMA WorkerType ==
    ASSUME Typing, Worker
    PROVE  Typing'
  <1> USE DEF flags, world, locks, texts, threads, history
  <1>1. CASE TakeText
    <2>1. TypeOK'
      BY <1>1, QueueType DEF TakeText, WorkerRest, Tts, Idle, Typing, TypeOK
    <2>2. Named'
      BY <1>1, QueueType DEF TakeText, WorkerRest, Tts, Idle, Typing, TypeOK, Named, Handles, IsCutting
    <2> QED
      BY <2>1, <2>2 DEF Typing
  <1>2. CASE LookAtFlag
    <2>0. \/ tts.at = "taken" /\ tts' = Idle /\ UNCHANGED <<speaking, queue, WorkerRest>>
          \/ tts.at = "taken" /\ Tts("cleared") /\ UNCHANGED <<speaking, queue, WorkerRest>>
      BY <1>2, Zenon DEF LookAtFlag
    <2>1. CASE tts.at = "taken" /\ tts' = Idle /\ UNCHANGED <<speaking, queue, WorkerRest>>
      <3>1. TypeOK'
        BY <2>1 DEF WorkerRest, Tts, Idle, Goto, Typing, TypeOK, Labels
      <3>2. Named'
        BY <2>1 DEF WorkerRest, Tts, Idle, Goto, Typing, TypeOK, Named, Handles, IsCutting
      <3> QED
        BY <3>1, <3>2 DEF Typing
    <2>2. CASE tts.at = "taken" /\ Tts("cleared") /\ UNCHANGED <<speaking, queue, WorkerRest>>
      <3>1. TypeOK'
        BY <2>2 DEF WorkerRest, Tts, Idle, Goto, Typing, TypeOK, Labels
      <3>2. Named'
        BY <2>2 DEF WorkerRest, Tts, Idle, Goto, Typing, TypeOK, Named, Handles, IsCutting
      <3> QED
        BY <3>1, <3>2 DEF Typing
    <2> QED
      BY <2>0, <2>1, <2>2
  <1>3. CASE Begin
    <2>1. TypeOK'
      BY <1>3 DEF Begin, WorkerRest, Tts, Idle, Typing, TypeOK
    <2>2. Named'
      BY <1>3 DEF Begin, WorkerRest, Tts, Idle, Typing, TypeOK, Named, Handles, IsCutting
    <2> QED
      BY <2>1, <2>2 DEF Typing
  <1>4. CASE Route
    <2>1. TypeOK'
      BY <1>4 DEF Route, WorkerRest, Tts, Idle, Typing, TypeOK
    <2>2. Named'
      BY <1>4 DEF Route, WorkerRest, Tts, Idle, Typing, TypeOK, Named, Handles, IsCutting
    <2> QED
      BY <2>1, <2>2 DEF Typing
  <1>5. CASE Made
    <2>1. TypeOK'
      BY <1>5 DEF Made, WorkerRest, Tts, Idle, Typing, TypeOK
    <2>2. Named'
      BY <1>5 DEF Made, WorkerRest, Tts, Idle, Typing, TypeOK, Named, Handles, IsCutting
    <2> QED
      BY <2>1, <2>2 DEF Typing
  <1>6. CASE NoSound
    <2>1. TypeOK'
      BY <1>6 DEF NoSound, WorkerRest, Tts, Idle, Typing, TypeOK
    <2>2. Named'
      BY <1>6 DEF NoSound, WorkerRest, Tts, Idle, Typing, TypeOK, Named, Handles, IsCutting
    <2> QED
      BY <2>1, <2>2 DEF Typing
  <1>7. CASE Play
    <2>1. TypeOK'
      BY <1>7 DEF Play, WorkerRest, Tts, Idle, Typing, TypeOK
    <2>2. Named'
      BY <1>7 DEF Play, WorkerRest, Tts, Idle, Typing, TypeOK, Named, Handles, IsCutting
    <2> QED
      BY <2>1, <2>2 DEF Typing
  <1>8. CASE PlayEnds
    <2>1. TypeOK'
      BY <1>8 DEF PlayEnds, WorkerRest, Tts, Idle, Typing, TypeOK
    <2>2. Named'
      BY <1>8 DEF PlayEnds, WorkerRest, Tts, Idle, Typing, TypeOK, Named, Handles, IsCutting
    <2> QED
      BY <2>1, <2>2 DEF Typing
  <1>9. CASE EndSpeech
    <2>1. TypeOK'
      BY <1>9 DEF EndSpeech, WorkerRest, Tts, Idle, Typing, TypeOK
    <2>2. Named'
      BY <1>9 DEF EndSpeech, WorkerRest, Tts, Idle, Typing, TypeOK, Named, Handles, IsCutting
    <2> QED
      BY <2>1, <2>2 DEF Typing
  <1> QED
    BY <1>1, <1>2, <1>3, <1>4, <1>5, <1>6, <1>7, <1>8, <1>9 DEF Worker

\* What happens outside.
LEMMA WorldType ==
    ASSUME Typing, Change \/ TimePasses
    PROVE  Typing'
  <1> USE DEF flags, world, locks, texts, threads, history
  <1>1. CASE Change
    <2>1. {phoneMode, connected, online, recent}' \subseteq BOOLEAN
      BY <1>1, FlagType, Zenon DEF Change, Typing, TypeOK
    <2>2. changes' = changes + 1 /\ inputs + changes < MaxEvents
      BY <1>1 DEF Change, Room
    <2>3. UNCHANGED <<flags, recent, locks, texts, threads, tts, inputs, history>>
      BY <1>1, Zenon DEF Change
    <2>a. inputs \in Nat /\ changes \in Nat /\ inputs' = inputs
      BY <2>3 DEF Typing, TypeOK
    <2>4. inputs' \in Nat /\ changes' \in Nat /\ inputs' + changes' <= MaxEvents
      BY <2>2, <2>a
    <2>5. TypeOK'
      BY <2>1, <2>3, <2>4 DEF Typing, TypeOK
    <2>6. Named'
      BY <2>3 DEF Typing, TypeOK, Named, Handles, IsCutting
    <2> QED
      BY <2>5, <2>6 DEF Typing
  <1>2. CASE TimePasses
    <2>1. TypeOK'
      BY <1>2 DEF TimePasses, Goto, Typing, TypeOK, Labels
    <2>2. Named'
      BY <1>2 DEF TimePasses, Goto, Typing, TypeOK, Named, Handles, IsCutting
    <2> QED
      BY <2>1, <2>2 DEF Typing
  <1> QED
    BY <1>1, <1>2 DEF Typing

\* A reply that is handed to the voice.
LEMMA ReplyType ==
    ASSUME Typing, NEW u \in later, Reply(u)
    PROVE  Typing'
  <1>1. u \in Inputs /\ later \ {u} \subseteq Inputs
    BY DEF Typing, TypeOK
  <1>2. queue' \in Seq(Inputs) /\ later' \subseteq Inputs
    BY <1>1, QueueType DEF Reply, Speak
  <1>3. UNCHANGED <<flags, world, locks, threads, tts, inputs, changes, history>>
    BY DEF Reply
  <1>4. TypeOK'
    BY <1>2, <1>3 DEF flags, world, locks, threads, history, Typing, TypeOK
  <1>5. Named'
    BY <1>3 DEF threads, Typing, TypeOK, Named, Handles, IsCutting
  <1> QED
    BY <1>4, <1>5 DEF Typing

LEMMA NextType == Typing /\ [Next]_vars => Typing'
  <1> SUFFICES ASSUME Typing, [Next]_vars PROVE Typing'
    OBVIOUS
  <1>1. CASE UNCHANGED vars
    BY <1>1 DEF vars, flags, world, locks, texts, threads, history,
                Typing, TypeOK, Named, Handles, IsCutting
  <1>2. ASSUME NEW t \in Cutters, Steps(t) PROVE Typing'
    <2>1. \/ Cutting(t) \/ Finishing(t) \/ Loop
          \/ t \in Typed /\ (Rouse(t) \/ Hush(t) \/ Act(t))
      BY <1>2, Zenon DEF Steps
    <2>2. "ask" \in Words
      BY DEF Words
    <2> QED
      BY <2>1, <2>2, CuttingType, FinishingType, LoopType, TypedType, ActType
  <1>3. ASSUME NEW t \in Typed, NEW w \in Words, Type(t, w) PROVE Typing'
    BY <1>3, TypedType
  <1>4. ASSUME NEW u \in later, Reply(u) PROVE Typing'
    BY <1>4, ReplyType
  <1>5. ASSUME NEW w \in Words, Hear(w) PROVE Typing'
    BY <1>5, WakeType
  <1>6. CASE WakeListens \/ NoWakeWord \/ WakeWord \/ WakeButton
    <2>1. "ask" \in Words
      BY DEF Words
    <2> QED
      BY <1>6, <2>1, WakeType
  <1>7. CASE Worker
    BY <1>7, WorkerType
  <1>8. CASE Change \/ TimePasses
    BY <1>8, WorldType
  <1> QED
    BY <1>1, <1>2, <1>3, <1>4, <1>5, <1>6, <1>7, <1>8 DEF Next

\* The flags, the threads and the texts keep their shapes (core/state.py,
\* main.py, interfaces/voice.py).
THEOREM AssistantTypeOK == Spec => []TypeOK
  <1>1. Typing => TypeOK
    BY DEF Typing
  <1> QED
    BY InitType, NextType, <1>1, PTL DEF Spec

-----------------------------------------------------------------------------
(* The interrupt flag                                                      *)

\* The step leaves the flag and state_lock alone, and no thread begins or ends an
\* interruption.
Calm == /\ interrupt' = interrupt /\ lock' = lock
        /\ \A s \in Cutters : IsCutting(s)' <=> IsCutting(s)

\* The last step of a command.
LEMMA FinishingCalm ==
    ASSUME Typing, NEW t \in Cutters, Finishing(t)
    PROVE  Calm
  <1> USE DEF flags, world, locks, texts, threads, history
  <1>d. /\ pc \in [Cutters \cup {Wake} -> Labels \cup {"hearing"}]
        /\ cause \in [Cutters -> Inputs \cup {Nobody}]
    BY DEF Typing, TypeOK
  <1>1. CASE Rest(t)
    BY <1>1, <1>d DEF Rest, Return, After, Forget, Goto, IsCutting, Calm
  <1>2. CASE Close(t)
    BY <1>2, <1>d DEF Close, Return, After, Forget, Goto, IsCutting, Calm
  <1>3. CASE Answer(t)
    BY <1>3, <1>d DEF Answer, Return, After, Forget, Goto, IsCutting, Calm
  <1> QED
    BY <1>1, <1>2, <1>3 DEF Finishing

\* A typed command.
LEMMA ActCalm ==
    ASSUME Typing, NEW t \in Typed, Act(t)
    PROVE  Calm
  <1> USE DEF flags, world, locks, texts, threads, history
  <1>d. /\ pc \in [Cutters \cup {Wake} -> Labels \cup {"hearing"}]
        /\ cause \in [Cutters -> Inputs \cup {Nobody}]
    BY DEF Typing, TypeOK
  <1>1. CASE TypedStop(t)
    BY <1>1, <1>d DEF TypedStop, Act, Return, After, Forget, Goto, Cutters, IsCutting, Calm
  <1>2. CASE Standby(t)
    BY <1>2, <1>d DEF Standby, Act, Goto, Cutters, IsCutting, Calm
  <1>3. CASE Shutdown(t)
    BY <1>3, <1>d DEF Shutdown, Act, Goto, Cutters, IsCutting, Calm
  <1>4. CASE Ask(t)
    BY <1>4, <1>d DEF Ask, Act, Goto, Cutters, IsCutting, Calm
  <1> QED
    BY <1>1, <1>2, <1>3, <1>4 DEF Act

\* A spoken command that does not stop the voice.
LEMMA ObeyCalm ==
    ASSUME Typing, Obey, ~SpokenStop
    PROVE  Calm
  <1> USE DEF flags, world, locks, texts, threads, history
  <1>d. /\ pc \in [Cutters \cup {Wake} -> Labels \cup {"hearing"}]
        /\ cause \in [Cutters -> Inputs \cup {Nobody}]
    BY DEF Typing, TypeOK
  <1>1. CASE Standby(AI)
    BY <1>1, <1>d DEF Standby, Obey, Goto, Cutters, IsCutting, Calm
  <1>2. CASE Shutdown(AI)
    BY <1>2, <1>d DEF Shutdown, Obey, Goto, Cutters, IsCutting, Calm
  <1>3. CASE Ask(AI)
    BY <1>3, <1>d DEF Ask, Obey, Goto, Cutters, IsCutting, Calm
  <1> QED
    BY <1>1, <1>2, <1>3 DEF Obey

\* The AI loop, while it does not stop the voice.
LEMMA LoopCalm ==
    ASSUME Typing, Loop, ~BargeIn, ~Obey
    PROVE  Calm
  <1> USE DEF flags, world, locks, texts, threads, history
  <1>d. /\ pc \in [Cutters \cup {Wake} -> Labels \cup {"hearing"}]
        /\ cause \in [Cutters -> Inputs \cup {Nobody}]
    BY DEF Typing, TypeOK
  <1>1. CASE StartListening
    BY <1>1, <1>d DEF StartListening, Goto, Cutters, IsCutting, Calm
  <1>2. CASE LoopEnds
    BY <1>2, <1>d DEF LoopEnds, Goto, Cutters, IsCutting, Calm
  <1>3. CASE TakeMic
    BY <1>3, <1>d DEF TakeMic, Goto, Cutters, IsCutting, Calm
  <1>4. CASE HearNothing
    BY <1>4, <1>d DEF HearNothing, Goto, Cutters, IsCutting, Calm
  <1>5. CASE Silence
    BY <1>5, <1>d DEF Silence, Goto, Cutters, IsCutting, Calm
  <1>6. CASE Understand
    BY <1>6, <1>d DEF Understand, Return, After, Forget, Goto, Cutters, IsCutting, Calm
  <1>7. CASE Attend
    BY <1>7, <1>d DEF Attend, Goto, Cutters, IsCutting, Calm
  <1> QED
    BY <1>1, <1>2, <1>3, <1>4, <1>5, <1>6, <1>7 DEF Loop

\* A typed message that does not stop the voice.
LEMMA TypedCalm ==
    ASSUME Typing, NEW t \in Typed, NEW w \in Words, Type(t, w) \/ Rouse(t)
    PROVE  Calm
  <1> USE DEF flags, world, locks, texts, threads, history
  <1>d. /\ pc \in [Cutters \cup {Wake} -> Labels \cup {"hearing"}]
        /\ cause \in [Cutters -> Inputs \cup {Nobody}]
    BY DEF Typing, TypeOK
  <1>1. CASE Type(t, w)
    BY <1>1, <1>d DEF Type, Goto, Cutters, IsCutting, Calm
  <1>2. CASE Rouse(t)
    BY <1>2, <1>d DEF Rouse, Goto, Cutters, IsCutting, Calm
  <1> QED
    BY <1>1, <1>2

\* What is heard, and the wake button.
LEMMA WakeCalm ==
    ASSUME Typing, NEW w \in Words, \/ Hear(w) \/ WakeListens \/ NoWakeWord \/ WakeWord \/ WakeButton
    PROVE  Calm
  <1> USE DEF flags, world, locks, texts, threads, history
  <1>d. /\ pc \in [Cutters \cup {Wake} -> Labels \cup {"hearing"}]
        /\ cause \in [Cutters -> Inputs \cup {Nobody}]
    BY DEF Typing, TypeOK
  <1>1. CASE Hear(w)
    BY <1>1, <1>d DEF Hear, Goto, Cutters, AI, Wake, IsCutting, Calm
  <1>2. CASE WakeListens
    BY <1>2, <1>d DEF WakeListens, Goto, Cutters, AI, Wake, IsCutting, Calm
  <1>3. CASE NoWakeWord
    BY <1>3, <1>d DEF NoWakeWord, Goto, Cutters, AI, Wake, IsCutting, Calm
  <1>4. CASE WakeWord
    BY <1>4, <1>d DEF WakeWord, Goto, Cutters, AI, Wake, IsCutting, Calm
  <1>5. CASE WakeButton
    BY <1>5, <1>d DEF WakeButton, Goto, Cutters, AI, Wake, IsCutting, Calm
  <1> QED
    BY <1>1, <1>2, <1>3, <1>4, <1>5

\* The speech worker.
LEMMA WorkerCalm ==
    ASSUME Typing, Worker
    PROVE  Calm
  <1> USE DEF flags, world, locks, texts, threads, history
  <1>d. /\ pc \in [Cutters \cup {Wake} -> Labels \cup {"hearing"}]
        /\ cause \in [Cutters -> Inputs \cup {Nobody}]
    BY DEF Typing, TypeOK
  <1>1. CASE TakeText
    BY <1>1, <1>d DEF TakeText, WorkerRest, Calm, IsCutting
  <1>2. CASE LookAtFlag
    BY <1>2, <1>d DEF LookAtFlag, WorkerRest, Calm, IsCutting
  <1>3. CASE Begin
    BY <1>3, <1>d DEF Begin, WorkerRest, Calm, IsCutting
  <1>4. CASE Route
    BY <1>4, <1>d DEF Route, WorkerRest, Calm, IsCutting
  <1>5. CASE Made
    BY <1>5, <1>d DEF Made, WorkerRest, Calm, IsCutting
  <1>6. CASE NoSound
    BY <1>6, <1>d DEF NoSound, WorkerRest, Calm, IsCutting
  <1>7. CASE Play
    BY <1>7, <1>d DEF Play, WorkerRest, Calm, IsCutting
  <1>8. CASE PlayEnds
    BY <1>8, <1>d DEF PlayEnds, WorkerRest, Calm, IsCutting
  <1>9. CASE EndSpeech
    BY <1>9, <1>d DEF EndSpeech, WorkerRest, Calm, IsCutting
  <1> QED
    BY <1>1, <1>2, <1>3, <1>4, <1>5, <1>6, <1>7, <1>8, <1>9 DEF Worker

\* What happens outside, and a reply that is handed to the voice.
LEMMA WorldCalm ==
    ASSUME Change \/ TimePasses \/ \E u \in later : Reply(u)
    PROVE  Calm
  BY DEF Change, TimePasses, Reply, flags, locks, threads, Calm, IsCutting

\* The flag goes up with the interruption of the thread that raises it.
LEMMA CutOnHeld ==
    ASSUME Typing, NEW t \in Cutters, NEW l, CutOn(t, l)
    PROVE  InterruptIsHeld'
  BY DEF CutOn, Goto, Typing, TypeOK, IsCutting, InterruptIsHeld

LEMMA CalmHeld ==
    ASSUME InterruptIsHeld, Calm
    PROVE  InterruptIsHeld'
  BY DEF Calm, InterruptIsHeld

\* Stopping the voice, but for its end.
LEMMA CuttingCalm ==
    ASSUME Typing, NEW t \in Cutters, Cutting(t), ~CutOff(t)
    PROVE  Calm
  <1>1. CASE Drain(t)
    BY <1>1 DEF Drain, Goto, flags, locks, Typing, TypeOK, IsCutting, Calm
  <1>2. CASE FellSilent(t)
    BY <1>2 DEF FellSilent, Goto, flags, locks, Typing, TypeOK, IsCutting, Calm
  <1>3. CASE GivesUp(t)
    BY <1>3 DEF GivesUp, Goto, flags, locks, Typing, TypeOK, IsCutting, Calm
  <1> QED
    BY <1>1, <1>2, <1>3 DEF Cutting

LEMMA CuttingHeld ==
    ASSUME Typing, InterruptIsHeld, NEW t \in Cutters, Cutting(t)
    PROVE  InterruptIsHeld'
  <1>1. CASE CutOff(t)
    BY <1>1 DEF CutOff, InterruptIsHeld
  <1>2. CASE ~CutOff(t)
    BY <1>2, CuttingCalm, CalmHeld
  <1> QED
    BY <1>1, <1>2

LEMMA HushHeld ==
    ASSUME Typing, InterruptIsHeld, NEW t \in Typed, Hush(t)
    PROVE  InterruptIsHeld'
  <1>1. t \in Cutters
    BY DEF Cutters
  <1>2. pc[t] = "roused"
    BY DEF Hush
  <1>3. CASE CutOn(t, "act")
    BY <1>1, <1>3, CutOnHeld
  <1>4. CASE Goto(t, "act") /\ interrupt' = interrupt /\ lock' = lock
    BY <1>1, <1>2, <1>4, CalmHeld DEF Goto, Typing, TypeOK, IsCutting, Calm
  <1> QED
    BY <1>3, <1>4, Zenon DEF Hush

LEMMA LoopHeld ==
    ASSUME Typing, InterruptIsHeld, Loop
    PROVE  InterruptIsHeld'
  <1>1. AI \in Cutters
    BY DEF Cutters
  <1>2. CASE BargeIn
    BY <1>1, <1>2, CutOnHeld DEF BargeIn
  <1>3. CASE SpokenStop
    BY <1>1, <1>3, CutOnHeld DEF SpokenStop
  <1>4. CASE Obey /\ ~SpokenStop
    BY <1>4, ObeyCalm, CalmHeld
  <1>5. CASE ~BargeIn /\ ~Obey
    BY <1>5, LoopCalm, CalmHeld
  <1> QED
    BY <1>2, <1>3, <1>4, <1>5

LEMMA StepsHeld ==
    ASSUME Typing, InterruptIsHeld, NEW t \in Cutters, Steps(t)
    PROVE  InterruptIsHeld'
  <1>1. \/ Cutting(t) \/ Finishing(t) \/ Loop
        \/ t \in Typed /\ (Rouse(t) \/ Hush(t) \/ Act(t))
    BY Zenon DEF Steps
  <1>2. CASE Cutting(t)
    BY <1>2, CuttingHeld
  <1>3. CASE Finishing(t)
    BY <1>3, FinishingCalm, CalmHeld
  <1>4. CASE Loop
    BY <1>4, LoopHeld
  <1>5. CASE t \in Typed /\ Hush(t)
    BY <1>5, HushHeld
  <1>6. CASE t \in Typed /\ Act(t)
    BY <1>6, ActCalm, CalmHeld
  <1>7. CASE t \in Typed /\ Rouse(t)
    <2>1. "ask" \in Words
      BY DEF Words
    <2> QED
      BY <1>7, <2>1, TypedCalm, CalmHeld
  <1> QED
    BY <1>1, <1>2, <1>3, <1>4, <1>5, <1>6, <1>7

LEMMA NextHeld == Typing /\ InterruptIsHeld /\ [Next]_vars => InterruptIsHeld'
  <1> SUFFICES ASSUME Typing, InterruptIsHeld, [Next]_vars PROVE InterruptIsHeld'
    OBVIOUS
  <1>1. CASE UNCHANGED vars
    BY <1>1 DEF vars, flags, threads, InterruptIsHeld, IsCutting
  <1>2. ASSUME NEW t \in Cutters, Steps(t) PROVE InterruptIsHeld'
    BY <1>2, StepsHeld
  <1>3. ASSUME NEW t \in Typed, NEW w \in Words, Type(t, w) PROVE InterruptIsHeld'
    BY <1>3, TypedCalm, CalmHeld
  <1>4. CASE Change \/ TimePasses \/ \E u \in later : Reply(u)
    BY <1>4, WorldCalm, CalmHeld
  <1>5. ASSUME NEW w \in Words, Hear(w) PROVE InterruptIsHeld'
    BY <1>5, WakeCalm, CalmHeld
  <1>6. CASE WakeListens \/ NoWakeWord \/ WakeWord \/ WakeButton
    <2>1. "ask" \in Words
      BY DEF Words
    <2> QED
      BY <1>6, <2>1, WakeCalm, CalmHeld
  <1>7. CASE Worker
    BY <1>7, WorkerCalm, CalmHeld
  <1> QED
    BY <1>1, <1>2, <1>3, <1>4, <1>5, <1>6, <1>7 DEF Next

\* The interrupt flag is up only while a thread is stopping the voice (main.py
\* 48-60, 227-245, 269-283).
THEOREM AssistantInterruptIsHeld == Spec => []InterruptIsHeld
  <1>1. Init => InterruptIsHeld
    BY DEF Init, InterruptIsHeld
  <1> QED
    BY InitType, NextType, NextHeld, <1>1, PTL DEF Spec

-----------------------------------------------------------------------------
(* state_lock                                                              *)

\* A typed message holds state_lock from the raising of the flag to its fall, and at
\* no other time; nobody else holds it beyond one step.
HeldToStop ==
  /\ \A t \in Typed : lock = t <=> IsCutting(t)
  /\ lock # None => lock \in Typed

LEMMA NotTyped == AI \notin Typed /\ None \notin Typed
  BY AssistantAssumption DEF AssistantAssumption

LEMMA CalmLock ==
    ASSUME HeldToStop, Calm
    PROVE  HeldToStop'
  BY DEF HeldToStop, Calm, Cutters

\* The lock is free when the flag is raised: no other typed message is stopping.
LEMMA CutOnLock ==
    ASSUME Typing, HeldToStop, NEW t \in Cutters, NEW l, CutOn(t, l)
    PROVE  HeldToStop'
  <1>1. /\ lock = None /\ lock' = IF t = AI THEN None ELSE t
        /\ pc' = [pc EXCEPT ![t] = "drain"]
    BY DEF CutOn, Free, Goto
  <1>2. \A u \in Typed : ~IsCutting(u)
    BY <1>1, NotTyped DEF HeldToStop
  <1>3. \A u \in Cutters : IsCutting(u)' <=> u = t \/ IsCutting(u)
    BY <1>1 DEF Typing, TypeOK, IsCutting
  <1>4. t = AI \/ t \in Typed
    BY DEF Cutters
  <1> QED
    BY <1>1, <1>2, <1>3, <1>4, NotTyped DEF HeldToStop, Cutters

\* The voice lets the flag fall only while no typed message holds the lock.
LEMMA CutOffLock ==
    ASSUME Typing, HeldToStop, NEW t \in Cutters, CutOff(t)
    PROVE  HeldToStop'
  <1>1. /\ IF t = AI THEN lock = None ELSE lock = t
        /\ lock' = None
        /\ t = AI \/ t \in Typed
    BY DEF CutOff, Free, Cutters
  <1>2. resume[t] \in {"top", "act", "ready"} /\ t \in Cutters \cup {Wake}
    BY DEF Typing, TypeOK
  <1>3. \E l \in {"top", "done", "act", "ready"} : pc' = [pc EXCEPT ![t] = l]
    <2>1. CASE resume[t] = "top"
      BY <2>1 DEF CutOff, Return, Goto, After
    <2>2. CASE resume[t] # "top"
      BY <1>2, <2>2 DEF CutOff, Goto
    <2> QED
      BY <2>1, <2>2
  <1>4. ~IsCutting(t)' /\ \A u \in Cutters \ {t} : IsCutting(u)' <=> IsCutting(u)
    BY <1>2, <1>3 DEF Typing, TypeOK, IsCutting
  <1>5. \A u \in Typed \ {t} : ~IsCutting(u)
    BY <1>1, NotTyped DEF HeldToStop
  <1>6. \A u \in Typed : ~IsCutting(u)'
    BY <1>1, <1>4, <1>5 DEF Cutters
  <1> QED
    BY <1>1, <1>6, NotTyped DEF HeldToStop

LEMMA StepsLock ==
    ASSUME Typing, HeldToStop, NEW t \in Cutters, Steps(t)
    PROVE  HeldToStop'
  <1>1. \/ Cutting(t) \/ Finishing(t) \/ Loop
        \/ t \in Typed /\ (Rouse(t) \/ Hush(t) \/ Act(t))
    BY Zenon DEF Steps
  <1>2. AI \in Cutters /\ "ask" \in Words
    BY DEF Cutters, Words
  <1>3. CASE Cutting(t)
    BY <1>3, CutOffLock, CuttingCalm, CalmLock
  <1>4. CASE Finishing(t)
    BY <1>4, FinishingCalm, CalmLock
  <1>5. CASE Loop
    <2>1. CASE BargeIn
      BY <1>2, <2>1, CutOnLock DEF BargeIn
    <2>2. CASE SpokenStop
      BY <1>2, <2>2, CutOnLock DEF SpokenStop
    <2>3. CASE Obey /\ ~SpokenStop
      BY <2>3, ObeyCalm, CalmLock
    <2>4. CASE ~BargeIn /\ ~Obey
      BY <1>5, <2>4, LoopCalm, CalmLock
    <2> QED
      BY <2>1, <2>2, <2>3, <2>4
  <1>6. CASE t \in Typed /\ Hush(t)
    <2>1. pc[t] = "roused"
      BY <1>6 DEF Hush
    <2>2. CASE CutOn(t, "act")
      BY <2>2, CutOnLock
    <2>3. CASE Goto(t, "act") /\ interrupt' = interrupt /\ lock' = lock
      BY <2>1, <2>3, CalmLock DEF Goto, Typing, TypeOK, IsCutting, Calm
    <2> QED
      BY <1>6, <2>2, <2>3, Zenon DEF Hush
  <1>7. CASE t \in Typed /\ Act(t)
    BY <1>7, ActCalm, CalmLock
  <1>8. CASE t \in Typed /\ Rouse(t)
    BY <1>2, <1>8, TypedCalm, CalmLock
  <1> QED
    BY <1>1, <1>3, <1>4, <1>5, <1>6, <1>7, <1>8

LEMMA NextLock == Typing /\ HeldToStop /\ [Next]_vars => HeldToStop'
  <1> SUFFICES ASSUME Typing, HeldToStop, [Next]_vars PROVE HeldToStop'
    OBVIOUS
  <1>0. "ask" \in Words
    BY DEF Words
  <1>1. CASE UNCHANGED vars
    BY <1>1 DEF vars, locks, threads, HeldToStop, IsCutting
  <1>2. ASSUME NEW t \in Cutters, Steps(t) PROVE HeldToStop'
    BY <1>2, StepsLock
  <1>3. ASSUME NEW t \in Typed, NEW w \in Words, Type(t, w) PROVE HeldToStop'
    BY <1>3, TypedCalm, CalmLock
  <1>4. CASE Change \/ TimePasses \/ \E u \in later : Reply(u)
    BY <1>4, WorldCalm, CalmLock
  <1>5. ASSUME NEW w \in Words, Hear(w) PROVE HeldToStop'
    BY <1>5, WakeCalm, CalmLock
  <1>6. CASE WakeListens \/ NoWakeWord \/ WakeWord \/ WakeButton
    BY <1>0, <1>6, WakeCalm, CalmLock
  <1>7. CASE Worker
    BY <1>7, WorkerCalm, CalmLock
  <1> QED
    BY <1>1, <1>2, <1>3, <1>4, <1>5, <1>6, <1>7 DEF Next

\* state_lock is held beyond one step only by a typed message that is stopping the voice,
\* and by that one all the time.  Nothing it does until the flag falls asks for a lock,
\* and the speech worker, for whose silence it waits, takes none: nobody waits in a
\* circle, and two typed messages never stop the voice at once (main.py 48-60, 269-283).
THEOREM AssistantHeldToStop == Spec => []HeldToStop
  <1>1. Init => HeldToStop
    BY NotTyped DEF Init, HeldToStop, IsCutting, Cutters
  <1> QED
    BY InitType, NextType, NextLock, <1>1, PTL DEF Spec

-----------------------------------------------------------------------------
(* What a stop silences                                                    *)

Queued == {queue[i] : i \in 1..Len(queue)}

\* An input's text has been handed to the voice.
Voiced(u) == u \in Waiting \cup silenced \/ \E s \in Cutters : u \in cut[s]

\* A thread that has yet to speak of its input.
Owes(t) == cause[t] # Nobody /\ pc[t] \notin {"resting", "closing"}

\* An input is answered by one text at most: what is still to be spoken of has
\* not been spoken of, so that a stop meets no text twice; and between the end
\* of its wait and the fall of the flag a stop has excused the text in hand.
Accounted ==
  /\ \A t \in Cutters : cause[t] <= inputs
  /\ \A u \in later : u <= inputs /\ ~Voiced(u)
  /\ \A u \in Inputs : Voiced(u) => u <= inputs
  /\ \A t \in Cutters : Owes(t) => cause[t] \notin later /\ ~Voiced(cause[t])
  /\ \A t, s \in Cutters : t # s /\ Owes(t) /\ Owes(s) => cause[t] # cause[s]
  /\ \A t \in Cutters : pc[t] = "wait" => cut[t] \cap Queued = {}
  /\ \A t \in Cutters : pc[t] = "cut_off" => cut[t] \cap Waiting \subseteq excused
  /\ \A u \in silenced \ excused : u \notin Waiting

Accounts == Typing /\ Accounted

\* Nobody begins to owe a text or comes to the end of a wait.
Steady == \A s \in Cutters :
            /\ cause'[s] \in {cause[s], Nobody}
            /\ Owes(s)' => Owes(s)
            /\ pc'[s] \in {"wait", "cut_off"} => pc'[s] = pc[s]

\* Nothing new is said, either.
Quiet == /\ Steady
         /\ Waiting' \subseteq Waiting /\ Queued' \subseteq Queued
         /\ UNCHANGED <<later, inputs, history>>

LEMMA Numbers ==
    ASSUME Accounts
    PROVE  /\ inputs \in Nat
           /\ \A s \in Cutters : cause[s] \in Nat /\ cause[s] <= inputs
           /\ \A u \in later : u \in Nat /\ u <= inputs /\ ~Voiced(u)
           /\ \A u \in Inputs : u \in Nat /\ (Voiced(u) => u <= inputs)
  <1>1. \A u \in Inputs \cup {Nobody} : u \in Nat
    BY DEF Inputs, Nobody
  <1>2. /\ inputs \in Nat /\ later \subseteq Inputs
        /\ \A s \in Cutters : cause[s] \in Inputs \cup {Nobody}
    BY DEF Accounts, Typing, TypeOK
  <1> QED
    BY <1>1, <1>2 DEF Accounts, Accounted

LEMMA QuietStep ==
    ASSUME Accounts, Quiet
    PROVE  Accounted'
  <1> USE DEF history
  <1>1. \A u : Voiced(u)' => Voiced(u)
    BY DEF Quiet, Voiced
  <1>2. \A s \in Cutters : Owes(s)' => Owes(s) /\ cause'[s] = cause[s]
    BY DEF Quiet, Steady, Owes
  <1>3. \A s \in Cutters : cause'[s] <= inputs'
    BY Numbers DEF Quiet, Steady, Nobody
  <1>4. \A u \in later' : u <= inputs' /\ ~Voiced(u)'
    BY <1>1 DEF Accounts, Accounted, Quiet
  <1>5. \A u \in Inputs : Voiced(u)' => u <= inputs'
    BY <1>1 DEF Accounts, Accounted, Quiet
  <1>6. \A t \in Cutters : (Owes(t) => cause[t] \notin later /\ ~Voiced(cause[t]))'
    BY <1>1, <1>2 DEF Accounts, Accounted, Quiet
  <1>7. \A t, s \in Cutters : t # s /\ Owes(t)' /\ Owes(s)' => cause'[t] # cause'[s]
    BY <1>2 DEF Accounts, Accounted
  <1>8. /\ \A t \in Cutters : pc'[t] = "wait" => cut'[t] \cap Queued' = {}
        /\ \A t \in Cutters : pc'[t] = "cut_off" => cut'[t] \cap Waiting' \subseteq excused'
        /\ \A u \in silenced' \ excused' : u \notin Waiting'
    BY DEF Accounts, Accounted, Quiet, Steady
  <1> QED
    BY <1>3, <1>4, <1>5, <1>6, <1>7, <1>8 DEF Accounted

\* A text is queued that nobody has spoken of and nobody owes any more.
LEMMA SpeakStep ==
    ASSUME Accounts, Steady, NEW u \in Inputs, ~Voiced(u), u <= inputs',
           queue' = Append(queue, u), UNCHANGED <<tts, history>>,
           inputs' \in Nat, inputs <= inputs', later' \subseteq later, u \notin later',
           \A s \in Cutters : Owes(s)' => cause[s] # u
    PROVE  Accounted'
  <1> USE DEF history
  <1>0. queue \in Seq(Inputs)
    BY DEF Accounts, Typing, TypeOK
  <1>a. Queued' = Queued \cup {u} /\ InHand' = InHand
    BY <1>0 DEF Queued, InHand
  <1>b. Waiting' = Waiting \cup {u}
    BY <1>a DEF Waiting, Queued
  <1>1. \A v : Voiced(v)' => Voiced(v) \/ v = u
    BY <1>b DEF Voiced
  <1>2. \A s \in Cutters : Owes(s)' => Owes(s) /\ cause'[s] = cause[s] /\ cause[s] # u
    BY DEF Steady, Owes
  <1>3. \A s \in Cutters : cause'[s] <= inputs'
    BY Numbers DEF Steady, Nobody
  <1>4. \A v \in later' : v <= inputs' /\ ~Voiced(v)'
    BY <1>1, Numbers
  <1>5. \A v \in Inputs : Voiced(v)' => v <= inputs'
    BY <1>1, Numbers
  <1>6. \A t \in Cutters : (Owes(t) => cause[t] \notin later /\ ~Voiced(cause[t]))'
    BY <1>1, <1>2 DEF Accounts, Accounted
  <1>7. \A t, s \in Cutters : t # s /\ Owes(t)' /\ Owes(s)' => cause'[t] # cause'[s]
    BY <1>2 DEF Accounts, Accounted
  <1>8. \A t \in Cutters : u \notin cut[t]
    BY DEF Voiced
  <1>9. /\ \A t \in Cutters : pc'[t] = "wait" => cut'[t] \cap Queued' = {}
        /\ \A t \in Cutters : pc'[t] = "cut_off" => cut'[t] \cap Waiting' \subseteq excused'
    BY <1>a, <1>b, <1>8 DEF Accounts, Accounted, Steady
  <1>10. \A v \in silenced' \ excused' : v \notin Waiting'
    BY <1>b DEF Accounts, Accounted, Voiced
  <1> QED
    BY <1>3, <1>4, <1>5, <1>6, <1>7, <1>9, <1>10 DEF Accounted

\* The voice and what it is to say are left alone.
Still == Steady /\ UNCHANGED <<queue, tts, later, inputs, history>>

LEMMA StillStep ==
    ASSUME Accounts, Still
    PROVE  Accounted'
  <1>1. Quiet
    BY DEF Still, Quiet, Waiting, InHand, Queued, history
  <1> QED
    BY <1>1, QuietStep

\* The end of a command that has said what it had to say.
LEMMA FinishingStill ==
    ASSUME Typing, NEW t \in Cutters, Rest(t) \/ Close(t)
    PROVE  Still
  <1> USE DEF flags, world, locks, texts, threads, history
  <1>d. /\ pc \in [Cutters \cup {Wake} -> Labels \cup {"hearing"}]
        /\ cause \in [Cutters -> Inputs \cup {Nobody}]
    BY DEF Typing, TypeOK
  <1>1. CASE Rest(t)
    BY <1>1, <1>d DEF Rest, Return, After, Forget, Goto, Nobody, Still, Steady, Owes
  <1>2. CASE Close(t)
    BY <1>2, <1>d DEF Close, Return, After, Forget, Goto, Nobody, Still, Steady, Owes
  <1> QED
    BY <1>1, <1>2

\* A command without a word.
LEMMA ActStill ==
    ASSUME Typing, NEW t \in Cutters, pc[t] = "act", TypedStop(t) \/ Ask(t)
    PROVE  Still
  <1> USE DEF flags, world, locks, texts, threads, history
  <1>d. /\ pc \in [Cutters \cup {Wake} -> Labels \cup {"hearing"}]
        /\ cause \in [Cutters -> Inputs \cup {Nobody}]
    BY DEF Typing, TypeOK
  <1>1. CASE TypedStop(t)
    BY <1>1, <1>d DEF TypedStop, Return, After, Forget, Goto, Nobody, Still, Steady, Owes
  <1>2. CASE Ask(t)
    BY <1>2, <1>d DEF Ask, Goto, Nobody, Still, Steady, Owes
  <1> QED
    BY <1>1, <1>2

\* The AI loop, while it says nothing.
LEMMA LoopStill ==
    ASSUME Typing, \/ StartListening \/ LoopEnds \/ TakeMic \/ HearNothing \/ Understand \/ Attend
    PROVE  Still
  <1> USE DEF flags, world, locks, texts, threads, history
  <1>d. /\ pc \in [Cutters \cup {Wake} -> Labels \cup {"hearing"}]
        /\ cause \in [Cutters -> Inputs \cup {Nobody}]
    BY DEF Typing, TypeOK
  <1>1. CASE StartListening
    BY <1>1, <1>d DEF StartListening, Goto, Cutters, Still, Steady, Owes, Nobody
  <1>2. CASE LoopEnds
    BY <1>2, <1>d DEF LoopEnds, Goto, Cutters, Still, Steady, Owes, Nobody
  <1>3. CASE TakeMic
    BY <1>3, <1>d DEF TakeMic, Goto, Cutters, Still, Steady, Owes, Nobody
  <1>4. CASE HearNothing
    BY <1>4, <1>d DEF HearNothing, Goto, Cutters, Still, Steady, Owes, Nobody
  <1>5. CASE Understand
    BY <1>5, <1>d DEF Understand, Return, After, Forget, Goto, Cutters, Still, Steady, Owes, Nobody
  <1>6. CASE Attend
    BY <1>6, <1>d DEF Attend, Goto, Cutters, Still, Steady, Owes, Nobody
  <1> QED
    BY <1>1, <1>2, <1>3, <1>4, <1>5, <1>6

\* A typed message wakes the assistant, the wake loop listens.
LEMMA RouseStill ==
    ASSUME Typing, \/ \E t \in Typed : Rouse(t)
           \/ WakeListens \/ NoWakeWord
    PROVE  Still
  <1> USE DEF flags, world, locks, texts, threads, history
  <1>d. /\ pc \in [Cutters \cup {Wake} -> Labels \cup {"hearing"}]
        /\ cause \in [Cutters -> Inputs \cup {Nobody}]
    BY DEF Typing, TypeOK
  <1>1. CASE \E t \in Typed : Rouse(t)
    BY <1>1, <1>d DEF Rouse, Goto, Cutters, Still, Steady, Owes, AI, Wake
  <1>2. CASE WakeListens
    BY <1>2, <1>d DEF WakeListens, Goto, Cutters, Still, Steady, Owes, AI, Wake
  <1>3. CASE NoWakeWord
    BY <1>3, <1>d DEF NoWakeWord, Goto, Cutters, Still, Steady, Owes, AI, Wake
  <1> QED
    BY <1>1, <1>2, <1>3

LEMMA WorldStill ==
    ASSUME Change \/ TimePasses
    PROVE  Still
  BY DEF Change, TimePasses, texts, threads, history, Still, Steady, Owes

\* The worker takes the texts in turn and lets go of them.
LEMMA WorkerAccounts ==
    ASSUME Accounts, Worker
    PROVE  Accounted'
  <1> USE DEF flags, world, locks, texts, threads, history, WorkerRest
  <1>1. Steady /\ UNCHANGED <<later, inputs, history>>
    BY DEF Worker, TakeText, LookAtFlag, Begin, Route, Made, NoSound, Play, PlayEnds,
           EndSpeech, Steady, Owes
  <1>2. Waiting' \subseteq Waiting /\ Queued' \subseteq Queued
    <2>1. CASE TakeText
      <3>1. queue \in Seq(Inputs) /\ queue # <<>>
        BY <2>1 DEF Accounts, Typing, TypeOK, TakeText
      <3>2. queue' = Tail(queue) /\ tts'.item = Head(queue)
        BY <2>1 DEF TakeText, Idle
      <3>3. Queued' \subseteq Queued /\ Head(queue) \in Queued
        BY <3>1, <3>2 DEF Queued
      <3> QED
        BY <3>2, <3>3 DEF Waiting, InHand, Queued
    <2>2. CASE ~TakeText
      <3>1. queue' = queue
        BY <2>2 DEF Worker, LookAtFlag, Begin, Route, Made, NoSound, Play, PlayEnds, EndSpeech
      <3>2. tts' = Idle \/ (tts.at # "idle" /\ tts'.item = tts.item)
        BY <2>2 DEF Worker, LookAtFlag, Begin, Route, Made, NoSound, Play, PlayEnds,
                    EndSpeech, Tts, Accounts, Typing, TypeOK
      <3> QED
        BY <3>1, <3>2 DEF Waiting, InHand, Queued, Idle
    <2> QED
      BY <2>1, <2>2
  <1> QED
    BY <1>1, <1>2, QuietStep DEF Quiet

\* Standby and shutdown say what they do before they do it.
LEMMA AnnounceAccounts ==
    ASSUME Accounts, NEW t \in Cutters, pc[t] = "act", Standby(t) \/ Shutdown(t)
    PROVE  Accounted'
  <1> USE DEF flags, world, locks, texts, threads, history
  <1>1. cause[t] \in Inputs /\ Owes(t)
    BY CauseType, QueueType DEF Accounts, Owes
  <1>2. /\ pc' = [pc EXCEPT ![t] = "resting"] \/ pc' = [pc EXCEPT ![t] = "closing"]
        /\ queue' = Append(queue, cause[t])
        /\ UNCHANGED <<cause, tts, later, inputs, history>>
    BY DEF Standby, Shutdown, Speak, Goto
  <1>3. pc \in [Cutters \cup {Wake} -> Labels \cup {"hearing"}]
    BY DEF Accounts, Typing, TypeOK
  <1>4. Steady /\ ~Owes(t)'
    BY <1>2, <1>3 DEF Steady, Owes
  <1>5. ~Voiced(cause[t]) /\ cause[t] \notin later /\ cause[t] <= inputs
    BY <1>1 DEF Accounts, Accounted
  <1>6. \A s \in Cutters : Owes(s)' => cause[s] # cause[t]
    BY <1>1, <1>4 DEF Accounts, Accounted, Steady
  <1> QED
    BY <1>1, <1>2, <1>4, <1>5, <1>6, SpeakStep, Numbers

\* What a new input makes the assistant say.
LEMMA NewTextAccounts ==
    ASSUME Accounts, Steady, NewInput, Speak(inputs + 1), UNCHANGED <<tts, later, history>>
    PROVE  Accounted'
  <1>1. /\ inputs + 1 \in Inputs /\ inputs' = inputs + 1 /\ inputs' \in Nat
    BY InputType DEF Accounts
  <1>2. ~Voiced(inputs + 1) /\ inputs + 1 \notin later
    BY <1>1, Numbers
  <1>3. \A s \in Cutters : Owes(s)' => cause[s] # inputs + 1
    BY Numbers
  <1> QED
    BY <1>1, <1>2, <1>3, SpeakStep, Numbers DEF Speak

LEMMA WakeAccounts ==
    ASSUME Accounts, WakeWord \/ WakeButton
    PROVE  Accounted'
  <1> USE DEF flags, world, locks, texts, threads, history
  <1>1. CASE WakeWord
    <2>1. Steady
      BY <1>1 DEF WakeWord, Goto, Accounts, Typing, TypeOK, Cutters, AI, Wake, Steady, Owes
    <2> QED
      BY <1>1, <2>1, NewTextAccounts DEF WakeWord
  <1>2. CASE WakeButton
    <2>1. Steady
      BY <1>2 DEF WakeButton, Steady, Owes
    <2> QED
      BY <1>2, <2>1, NewTextAccounts DEF WakeButton
  <1> QED
    BY <1>1, <1>2

LEMMA SilenceAccounts ==
    ASSUME Accounts, Silence
    PROVE  Accounted'
  <1> USE DEF flags, world, locks, texts, threads, history
  <1>1. /\ pc[AI] = "silence" /\ (Goto(AI, "top") \/ Goto(AI, "resting"))
        /\ UNCHANGED <<cause, tts, later, history>>
    BY Zenon DEF Silence
  <1>2. Steady
    BY <1>1 DEF Goto, Accounts, Typing, TypeOK, Cutters, Steady, Owes
  <1>3. CASE UNCHANGED <<queue, inputs>>
    BY <1>1, <1>2, <1>3, StillStep DEF Still
  <1>4. CASE NewInput /\ Speak(inputs + 1)
    BY <1>1, <1>2, <1>4, NewTextAccounts
  <1> QED
    BY <1>3, <1>4, Zenon DEF Silence

LEMMA ReplyAccounts ==
    ASSUME Accounts, NEW u \in later, Reply(u)
    PROVE  Accounted'
  <1> USE DEF flags, world, locks, texts, threads, history
  <1>1. u \in Inputs /\ u \in Nat /\ u <= inputs /\ ~Voiced(u)
    BY Numbers DEF Accounts, Typing, TypeOK
  <1>2. Steady
    BY DEF Reply, Steady, Owes
  <1>3. \A s \in Cutters : Owes(s)' => cause[s] # u
    BY DEF Reply, Owes, Accounts, Accounted
  <1> QED
    BY <1>1, <1>2, <1>3, SpeakStep, Numbers DEF Reply, Speak

LEMMA HeardAccounts ==
    ASSUME Accounts, NEW t \in Cutters, NEW w \in Words,
           (t \in Typed /\ Type(t, w)) \/ (t = AI /\ Hear(w))
    PROVE  Accounted'
  <1> USE DEF flags, world, locks, texts, threads, history
  <1>1. /\ cause' = [cause EXCEPT ![t] = inputs + 1] /\ inputs' = inputs + 1
        /\ pc' = [pc EXCEPT ![t] = "typed"] \/ pc' = [pc EXCEPT ![t] = "heard"]
        /\ UNCHANGED <<queue, tts, later, history>>
    BY DEF Type, Hear, NewInput, Goto
  <1>2. /\ pc \in [Cutters \cup {Wake} -> Labels \cup {"hearing"}]
        /\ cause \in [Cutters -> Inputs \cup {Nobody}]
    BY DEF Accounts, Typing, TypeOK
  <1>3. /\ cause'[t] = inputs + 1 /\ pc'[t] \in {"typed", "heard"}
        /\ \A s \in Cutters \ {t} : cause'[s] = cause[s] /\ pc'[s] = pc[s]
    BY <1>1, <1>2
  <1>4. Waiting' = Waiting /\ Queued' = Queued /\ \A u : Voiced(u)' = Voiced(u)
    BY <1>1 DEF Waiting, InHand, Queued, Voiced
  <1>5. inputs + 1 \in Inputs /\ ~Voiced(inputs + 1) /\ inputs + 1 \notin later
    <2>1. NewInput
      BY DEF Type, Hear
    <2> QED
      BY <2>1, InputType, Numbers DEF Accounts
  <1>6. \A s \in Cutters : cause'[s] <= inputs'
    BY <1>1, <1>3, Numbers
  <1>7. \A u \in later' : u <= inputs' /\ ~Voiced(u)'
    BY <1>1, <1>4, Numbers
  <1>8. \A u \in Inputs : Voiced(u)' => u <= inputs'
    BY <1>1, <1>4, Numbers
  <1>9. \A s \in Cutters : (Owes(s) => cause[s] \notin later /\ ~Voiced(cause[s]))'
    BY <1>1, <1>3, <1>4, <1>5 DEF Accounts, Accounted, Owes
  <1>10. \A s, r \in Cutters : s # r /\ Owes(s)' /\ Owes(r)' => cause'[s] # cause'[r]
    <2>1. \A s \in Cutters : cause[s] # inputs + 1
      BY Numbers
    <2> QED
      BY <1>3, <2>1 DEF Accounts, Accounted, Owes
  <1>11. /\ \A s \in Cutters : pc'[s] = "wait" => cut'[s] \cap Queued' = {}
         /\ \A s \in Cutters : pc'[s] = "cut_off" => cut'[s] \cap Waiting' \subseteq excused'
         /\ \A u \in silenced' \ excused' : u \notin Waiting'
    BY <1>1, <1>3, <1>4 DEF Accounts, Accounted
  <1> QED
    BY <1>6, <1>7, <1>8, <1>9, <1>10, <1>11 DEF Accounted

\* What is owed is left to a thread that will say it.
LEMMA AnswerAccounts ==
    ASSUME Accounts, NEW t \in Cutters, Answer(t)
    PROVE  Accounted'
  <1> USE DEF flags, world, locks, texts, threads, history
  <1>1. /\ pc[t] = "thinking" /\ Forget(t)
        /\ UNCHANGED <<queue, tts, inputs, history>>
        /\ \E l \in {"top", "done", "dead"} : Goto(t, l)
    BY Zenon DEF Answer, After
  <1>2. /\ pc \in [Cutters \cup {Wake} -> Labels \cup {"hearing"}]
        /\ cause \in [Cutters -> Inputs \cup {Nobody}]
    BY DEF Accounts, Typing, TypeOK
  <1>3. /\ cause'[t] = Nobody /\ pc'[t] \in {"top", "done", "dead"}
        /\ \A s \in Cutters \ {t} : cause'[s] = cause[s] /\ pc'[s] = pc[s]
    BY <1>1, <1>2 DEF Forget, Goto
  <1>4. Steady
    BY <1>3 DEF Steady, Owes
  <1>5. CASE later' = later
    BY <1>1, <1>4, <1>5, StillStep DEF Still
  <1>6. CASE later' = later \cup {cause[t]}
    <2>1. Owes(t) /\ cause[t] \in Inputs
      BY <1>1, CauseType, QueueType DEF Accounts, Owes
    <2>2. Waiting' = Waiting /\ Queued' = Queued /\ \A u : Voiced(u)' = Voiced(u)
      BY <1>1 DEF Waiting, InHand, Queued, Voiced
    <2>3. \A s \in Cutters : Owes(s)' => s # t /\ Owes(s) /\ cause'[s] = cause[s]
      BY <1>3 DEF Owes
    <2>4. \A s \in Cutters : cause'[s] <= inputs'
      BY <1>1, <1>3, Numbers DEF Nobody
    <2>5. \A u \in later' : u <= inputs' /\ ~Voiced(u)'
      BY <1>1, <1>6, <2>1, <2>2, Numbers DEF Accounts, Accounted
    <2>6. \A u \in Inputs : Voiced(u)' => u <= inputs'
      BY <1>1, <2>2, Numbers
    <2>7. \A s \in Cutters : (Owes(s) => cause[s] \notin later /\ ~Voiced(cause[s]))'
      BY <1>6, <2>1, <2>2, <2>3 DEF Accounts, Accounted
    <2>8. \A s, r \in Cutters : s # r /\ Owes(s)' /\ Owes(r)' => cause'[s] # cause'[r]
      BY <2>3 DEF Accounts, Accounted
    <2>9. /\ \A s \in Cutters : pc'[s] = "wait" => cut'[s] \cap Queued' = {}
          /\ \A s \in Cutters : pc'[s] = "cut_off" => cut'[s] \cap Waiting' \subseteq excused'
          /\ \A u \in silenced' \ excused' : u \notin Waiting'
      BY <1>1, <1>3, <2>2 DEF Accounts, Accounted
    <2> QED
      BY <2>4, <2>5, <2>6, <2>7, <2>8, <2>9 DEF Accounted
  <1> QED
    BY <1>5, <1>6 DEF Answer

\* A stop begins: it notes what it is to silence.
LEMMA CutOnAccounts ==
    ASSUME Accounts, NEW t \in Cutters, NEW l, CutOn(t, l),
           UNCHANGED <<queue, tts, later, cause, inputs, silenced, excused>>,
           pc[t] \in {"roused", "barge", "act"}
    PROVE  Accounted'
  <1>1. /\ pc \in [Cutters \cup {Wake} -> Labels \cup {"hearing"}]
        /\ cut \in [Cutters -> SUBSET Inputs]
    BY DEF Accounts, Typing, TypeOK
  <1>2. /\ cut'[t] = Waiting /\ pc'[t] = "drain"
        /\ \A s \in Cutters \ {t} : cut'[s] = cut[s] /\ pc'[s] = pc[s]
    BY <1>1 DEF CutOn, Goto
  <1>3. Waiting' = Waiting /\ Queued' = Queued
    BY DEF Waiting, InHand, Queued
  <1>4. \A u : Voiced(u)' => Voiced(u)
    BY <1>2, <1>3 DEF Voiced
  <1>5. \A s \in Cutters : Owes(s)' => Owes(s)
    BY <1>2 DEF Owes
  <1>6. /\ \A s \in Cutters : cause'[s] <= inputs'
        /\ \A u \in later' : u <= inputs' /\ ~Voiced(u)'
        /\ \A u \in Inputs : Voiced(u)' => u <= inputs'
    BY <1>4 DEF Accounts, Accounted
  <1>7. \A s \in Cutters : (Owes(s) => cause[s] \notin later /\ ~Voiced(cause[s]))'
    BY <1>4, <1>5 DEF Accounts, Accounted
  <1>8. \A s, r \in Cutters : s # r /\ Owes(s)' /\ Owes(r)' => cause'[s] # cause'[r]
    BY <1>5 DEF Accounts, Accounted
  <1>9. /\ \A s \in Cutters : pc'[s] = "wait" => cut'[s] \cap Queued' = {}
        /\ \A s \in Cutters : pc'[s] = "cut_off" => cut'[s] \cap Waiting' \subseteq excused'
        /\ \A u \in silenced' \ excused' : u \notin Waiting'
    BY <1>2, <1>3 DEF Accounts, Accounted
  <1> QED
    BY <1>6, <1>7, <1>8, <1>9 DEF Accounted

\* A stop goes on: the queue is emptied, the wait ends, the flag falls.
LEMMA CuttingAccounts ==
    ASSUME Accounts, NEW t \in Cutters, Cutting(t)
    PROVE  Accounted'
  <1> USE DEF flags, world, locks, texts, threads, history
  <1>0. /\ pc \in [Cutters \cup {Wake} -> Labels \cup {"hearing"}]
        /\ cut \in [Cutters -> SUBSET Inputs]
        /\ cause \in [Cutters -> Inputs \cup {Nobody}]
        /\ resume \in [Cutters -> {"top", "act", "ready"}]
        /\ excused \subseteq Inputs
    BY DEF Accounts, Typing, TypeOK
  <1>1. Waiting = InHand \cup Queued
    BY DEF Waiting, Queued
  <1>2. CASE Drain(t)
    <2>1. /\ pc[t] = "drain" /\ pc'[t] = "wait"
          /\ \A s \in Cutters \ {t} : pc'[s] = pc[s]
          /\ UNCHANGED <<cause, tts, later, inputs, history>>
      BY <1>0, <1>2 DEF Drain, Goto
    <2>2. Queued' = {} /\ InHand' = InHand
      BY <1>2, <2>1 DEF Drain, Queued, InHand
    <2>3. Waiting' = InHand
      BY <2>2 DEF Waiting, Queued
    <2>4. \A u : Voiced(u)' => Voiced(u)
      BY <1>1, <2>1, <2>3 DEF Voiced
    <2>5. \A s \in Cutters : Owes(s)' => Owes(s)
      BY <2>1 DEF Owes
    <2>6. /\ \A s \in Cutters : cause'[s] <= inputs'
          /\ \A u \in later' : u <= inputs' /\ ~Voiced(u)'
          /\ \A u \in Inputs : Voiced(u)' => u <= inputs'
      BY <2>1, <2>4 DEF Accounts, Accounted
    <2>7. \A s \in Cutters : (Owes(s) => cause[s] \notin later /\ ~Voiced(cause[s]))'
      BY <2>1, <2>4, <2>5 DEF Accounts, Accounted
    <2>8. \A s, r \in Cutters : s # r /\ Owes(s)' /\ Owes(r)' => cause'[s] # cause'[r]
      BY <2>1, <2>5 DEF Accounts, Accounted
    <2>9. /\ \A s \in Cutters : pc'[s] = "wait" => cut'[s] \cap Queued' = {}
          /\ \A s \in Cutters : pc'[s] = "cut_off" => cut'[s] \cap Waiting' \subseteq excused'
          /\ \A u \in silenced' \ excused' : u \notin Waiting'
      BY <1>1, <2>1, <2>2, <2>3 DEF Accounts, Accounted
    <2> QED
      BY <2>6, <2>7, <2>8, <2>9 DEF Accounted
  <1>3. CASE FellSilent(t) \/ GivesUp(t)
    <2>1. /\ pc[t] = "wait" /\ pc'[t] = "cut_off"
          /\ \A s \in Cutters \ {t} : pc'[s] = pc[s]
          /\ excused' = excused \cup (cut[t] \cap InHand)
          /\ UNCHANGED <<cause, queue, tts, later, inputs, cut, silenced>>
      BY <1>0, <1>3 DEF FellSilent, GivesUp, Goto
    <2>2. Waiting' = Waiting /\ Queued' = Queued /\ \A u : Voiced(u)' = Voiced(u)
      BY <2>1 DEF Waiting, InHand, Queued, Voiced
    <2>3. \A s \in Cutters : Owes(s)' => Owes(s)
      BY <2>1 DEF Owes
    <2>4. /\ \A s \in Cutters : cause'[s] <= inputs'
          /\ \A u \in later' : u <= inputs' /\ ~Voiced(u)'
          /\ \A u \in Inputs : Voiced(u)' => u <= inputs'
      BY <2>1, <2>2 DEF Accounts, Accounted
    <2>5. \A s \in Cutters : (Owes(s) => cause[s] \notin later /\ ~Voiced(cause[s]))'
      BY <2>1, <2>2, <2>3 DEF Accounts, Accounted
    <2>6. \A s, r \in Cutters : s # r /\ Owes(s)' /\ Owes(r)' => cause'[s] # cause'[r]
      BY <2>1, <2>3 DEF Accounts, Accounted
    <2>7. cut[t] \cap Waiting \subseteq cut[t] \cap InHand
      BY <1>1, <2>1 DEF Accounts, Accounted
    <2>8. /\ \A s \in Cutters : pc'[s] = "wait" => cut'[s] \cap Queued' = {}
          /\ \A s \in Cutters : pc'[s] = "cut_off" => cut'[s] \cap Waiting' \subseteq excused'
          /\ \A u \in silenced' \ excused' : u \notin Waiting'
      BY <2>1, <2>2, <2>7 DEF Accounts, Accounted
    <2> QED
      BY <2>4, <2>5, <2>6, <2>8 DEF Accounted
  <1>4. CASE CutOff(t)
    <2>1. /\ pc[t] = "cut_off"
          /\ silenced' = silenced \cup (cut[t] \cap Waiting)
          /\ cut' = [cut EXCEPT ![t] = {}]
          /\ UNCHANGED <<queue, tts, later, inputs, excused>>
      BY <1>4, Zenon DEF CutOff
    <2>2. \/ Return(t)
          \/ Goto(t, resume[t]) /\ resume[t] \in {"act", "ready"} /\ UNCHANGED cause
      BY <1>0, <1>4 DEF CutOff
    <2>3. /\ pc'[t] \notin {"wait", "cut_off"}
          /\ cause'[t] = Nobody \/ cause'[t] = cause[t]
          /\ \A s \in Cutters \ {t} : pc'[s] = pc[s] /\ cause'[s] = cause[s]
          /\ cut'[t] = {} /\ \A s \in Cutters \ {t} : cut'[s] = cut[s]
      BY <1>0, <2>1, <2>2 DEF Return, Goto, After, Forget
    <2>4. Waiting' = Waiting /\ Queued' = Queued
      BY <2>1 DEF Waiting, InHand, Queued
    <2>5. \A u : Voiced(u)' => Voiced(u)
      BY <2>1, <2>3, <2>4 DEF Voiced
    <2>6. \A s \in Cutters : Owes(s)' => Owes(s) /\ cause'[s] = cause[s]
      BY <2>1, <2>3 DEF Owes
    <2>7. \A s \in Cutters : cause'[s] <= inputs'
      BY <2>1, <2>3, Numbers DEF Nobody
    <2>8. /\ \A u \in later' : u <= inputs' /\ ~Voiced(u)'
          /\ \A u \in Inputs : Voiced(u)' => u <= inputs'
      BY <2>1, <2>5 DEF Accounts, Accounted
    <2>9. \A s \in Cutters : (Owes(s) => cause[s] \notin later /\ ~Voiced(cause[s]))'
      BY <2>1, <2>5, <2>6 DEF Accounts, Accounted
    <2>10. \A s, r \in Cutters : s # r /\ Owes(s)' /\ Owes(r)' => cause'[s] # cause'[r]
      BY <2>6 DEF Accounts, Accounted
    <2>11. cut[t] \cap Waiting \subseteq excused
      BY <2>1 DEF Accounts, Accounted
    <2>12. /\ \A s \in Cutters : pc'[s] = "wait" => cut'[s] \cap Queued' = {}
           /\ \A s \in Cutters : pc'[s] = "cut_off" => cut'[s] \cap Waiting' \subseteq excused'
           /\ \A u \in silenced' \ excused' : u \notin Waiting'
      BY <2>1, <2>3, <2>4, <2>11 DEF Accounts, Accounted
    <2> QED
      BY <2>7, <2>8, <2>9, <2>10, <2>12 DEF Accounted
  <1> QED
    BY <1>2, <1>3, <1>4 DEF Cutting

LEMMA HushAccounts ==
    ASSUME Accounts, NEW t \in Typed, Hush(t)
    PROVE  Accounted'
  <1> USE DEF flags, world, locks, texts, threads, history
  <1>1. /\ t \in Cutters /\ pc[t] = "roused"
        /\ UNCHANGED <<queue, tts, later, cause, inputs>>
    BY DEF Hush, Cutters
  <1>2. CASE CutOn(t, "act") /\ UNCHANGED <<silenced, excused>>
    BY <1>1, <1>2, CutOnAccounts
  <1>3. CASE Goto(t, "act") /\ UNCHANGED history
    <2>1. Steady
      BY <1>1, <1>3 DEF Goto, Accounts, Typing, TypeOK, Steady, Owes
    <2> QED
      BY <1>1, <1>3, <2>1, StillStep DEF Still
  <1> QED
    BY <1>2, <1>3, Zenon DEF Hush

LEMMA LoopAccounts ==
    ASSUME Accounts, Loop
    PROVE  Accounted'
  <1> USE DEF flags, world, locks, texts, threads, history
  <1>1. AI \in Cutters /\ Typing
    BY DEF Cutters, Accounts
  <1>2. CASE BargeIn
    BY <1>1, <1>2, CutOnAccounts DEF BargeIn
  <1>3. CASE Obey
    <2>1. pc[AI] = "act"
      BY <1>3 DEF Obey
    <2>2. CASE SpokenStop
      BY <1>1, <2>1, <2>2, CutOnAccounts DEF SpokenStop
    <2>3. CASE Standby(AI) \/ Shutdown(AI)
      BY <1>1, <2>1, <2>3, AnnounceAccounts
    <2>4. CASE Ask(AI)
      BY <1>1, <2>1, <2>4, ActStill, StillStep
    <2> QED
      BY <1>3, <2>2, <2>3, <2>4 DEF Obey
  <1>4. CASE Silence
    BY <1>4, SilenceAccounts
  <1>5. CASE \/ StartListening \/ LoopEnds \/ TakeMic \/ HearNothing \/ Understand \/ Attend
    BY <1>1, <1>5, LoopStill, StillStep
  <1> QED
    BY <1>2, <1>3, <1>4, <1>5 DEF Loop

LEMMA StepsAccounts ==
    ASSUME Accounts, NEW t \in Cutters, Steps(t)
    PROVE  Accounted'
  <1>0. Typing
    BY DEF Accounts
  <1>1. \/ Cutting(t) \/ Finishing(t) \/ Loop
        \/ t \in Typed /\ (Rouse(t) \/ Hush(t) \/ Act(t))
    BY Zenon DEF Steps
  <1>2. CASE Cutting(t)
    BY <1>2, CuttingAccounts
  <1>3. CASE Finishing(t)
    BY <1>0, <1>3, FinishingStill, StillStep, AnswerAccounts DEF Finishing
  <1>4. CASE Loop
    BY <1>4, LoopAccounts
  <1>5. CASE t \in Typed /\ Hush(t)
    BY <1>5, HushAccounts
  <1>6. CASE t \in Typed /\ Act(t)
    <2>1. /\ pc[t] = "act"
          /\ TypedStop(t) \/ Ask(t) \/ Standby(t) \/ Shutdown(t)
      BY <1>6 DEF Act
    <2> QED
      BY <1>0, <2>1, ActStill, StillStep, AnnounceAccounts
  <1>7. CASE t \in Typed /\ Rouse(t)
    BY <1>0, <1>7, RouseStill, StillStep
  <1> QED
    BY <1>1, <1>2, <1>3, <1>4, <1>5, <1>6, <1>7

LEMMA NextAccounts == Accounts /\ [Next]_vars => Accounts'
  <1> SUFFICES ASSUME Accounts, [Next]_vars PROVE Accounted'
    BY NextType DEF Accounts
  <1>0. Typing
    BY DEF Accounts
  <1>1. CASE UNCHANGED vars
    <2>1. Still
      BY <1>1 DEF vars, texts, threads, history, Still, Steady, Owes
    <2> QED
      BY <2>1, StillStep
  <1>2. ASSUME NEW t \in Cutters, Steps(t) PROVE Accounted'
    BY <1>2, StepsAccounts
  <1>3. ASSUME NEW t \in Typed, NEW w \in Words, Type(t, w) PROVE Accounted'
    BY <1>3, HeardAccounts DEF Cutters
  <1>4. ASSUME NEW u \in later, Reply(u) PROVE Accounted'
    BY <1>4, ReplyAccounts
  <1>5. ASSUME NEW w \in Words, Hear(w) PROVE Accounted'
    BY <1>5, HeardAccounts DEF Cutters
  <1>6. CASE WakeListens \/ NoWakeWord
    BY <1>0, <1>6, RouseStill, StillStep
  <1>7. CASE WakeWord \/ WakeButton
    BY <1>7, WakeAccounts
  <1>8. CASE Worker
    BY <1>8, WorkerAccounts
  <1>9. CASE Change \/ TimePasses
    BY <1>9, WorldStill, StillStep
  <1> QED
    BY <1>1, <1>2, <1>3, <1>4, <1>5, <1>6, <1>7, <1>8, <1>9 DEF Next

LEMMA InitAccounts == Init => Accounts
  <1> SUFFICES ASSUME Init PROVE Accounted
    BY InitType DEF Accounts
  <1>1. /\ \A t \in Cutters : cause[t] = Nobody /\ cut[t] = {} /\ pc[t] \in {"start", "top"}
        /\ later = {} /\ silenced = {} /\ inputs = 0
    BY DEF Init, Cutters
  <1>2. Waiting = {}
    <2>1. queue = <<>> /\ tts.at = "idle"
      BY DEF Init, Idle
    <2>2. 1..Len(queue) = {}
      BY <2>1
    <2> QED
      BY <2>1, <2>2 DEF Waiting, InHand
  <1>3. \A u : ~Voiced(u)
    BY <1>1, <1>2 DEF Voiced
  <1> QED
    BY <1>1, <1>2, <1>3 DEF Accounted, Owes, Nobody

\* What was queued or in hand when a stop began is not heard after it, but for
\* the text that was in hand when its wait ended (main.py 227-245, voice.py
\* 237-245).
THEOREM AssistantSilencedUnlessSlipped == Spec => []SilencedUnlessSlipped
  <1>1. Accounts => SilencedUnlessSlipped
    <2> SUFFICES ASSUME Accounts, tts.at = "playing" PROVE tts.item \notin silenced \ excused
      BY DEF SilencedUnlessSlipped
    <2>1. tts.item \in Waiting
      BY DEF Waiting, InHand
    <2> QED
      BY <2>1 DEF Accounts, Accounted
  <1> QED
    BY InitAccounts, NextAccounts, <1>1, PTL DEF Spec
=============================================================================
