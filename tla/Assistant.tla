----------------------------- MODULE Assistant -----------------------------
(***************************************************************************)
(* The voice assistant: src/edith/main.py with interfaces/voice.py, the    *)
(* socket handlers of interfaces/web/server.py that call into it, and the  *)
(* flags of core/state.py they all share.                                  *)
(*                                                                         *)
(* Threads: the AI loop (listen, answer), the speech worker (_tts_worker), *)
(* the wake-word loop, and one thread per typed message.  They share the   *)
(* flags awake, speaking, interrupt, running and phone_mode, the queue of  *)
(* texts to speak, state_lock and _mic_lock.  The speech worker takes no   *)
(* lock; a typed message waits for the voice to stop while it holds        *)
(* state_lock.                                                             *)
(*                                                                         *)
(* An utterance is named by the input that caused it: every input is       *)
(* answered by at most one.  Time is two facts: whether the last activity  *)
(* is less than 45 s old (recent), and that a wait of 3 s may run out.     *)
(***************************************************************************)
EXTENDS Naturals, Sequences

CONSTANTS Typed,        \* threads of typed messages
          MaxEvents     \* bound: inputs, and changes of phone and network

AI == "ai"
Wake == "wake"
None == "none"

ASSUME AssistantAssumption == MaxEvents \in Nat /\ Typed \cap {AI, Wake, None} = {}

Nobody == 0
Words == {"ask", "stop", "standby", "shutdown"}
Inputs == 1..MaxEvents
Cutters == Typed \cup {AI}

VARIABLES
  awake, speaking, interrupt, running,      \* flags of core/state.py
  phoneMode, connected, online, recent,
  lock, mic,                                \* holders of state_lock, _mic_lock
  queue,                                    \* _tts_queue
  later,                                    \* texts in threads that will call speak
  pc,                                       \* where each thread is
  said, cause, resume,                      \* its text, the input, where it goes on
  tts,                                      \* the speech worker
  inputs, changes,
  cut, silenced, excused                    \* history: what a stop was to silence

flags == <<awake, speaking, interrupt, running>>
world == <<phoneMode, connected, online, recent>>
locks == <<lock, mic>>
texts == <<queue, later>>
threads == <<pc, said, cause, resume>>
history == <<cut, silenced, excused>>
vars == <<flags, world, locks, texts, threads, tts, inputs, changes, history>>

Idle == [at |-> "idle", item |-> Nobody, voice |-> "none", sent |-> FALSE]

Init ==
  /\ awake = FALSE /\ speaking = FALSE /\ interrupt = FALSE /\ running = TRUE
  /\ phoneMode = FALSE /\ connected = FALSE /\ online = TRUE /\ recent = TRUE
  /\ lock = None /\ mic = None
  /\ queue = <<>> /\ later = {}
  /\ pc = [t \in Cutters \cup {Wake} |-> IF t \in Typed THEN "start" ELSE "top"]
  /\ said = [t \in Cutters |-> ""]
  /\ cause = [t \in Cutters |-> Nobody]
  /\ resume = [t \in Cutters |-> "top"]
  /\ tts = Idle
  /\ inputs = 0 /\ changes = 0
  /\ cut = [t \in Cutters |-> {}] /\ silenced = {} /\ excused = {}

-----------------------------------------------------------------------------
(* Moving on                                                               *)

Goto(t, l) == pc' = [pc EXCEPT ![t] = l]
Free == lock = None
Room == inputs + changes < MaxEvents
NewInput == Room /\ inputs' = inputs + 1

\* What follows a handled command: the AI loop listens again, a typed
\* message's thread ends.
After(t) == IF t = AI THEN "top" ELSE "done"

\* Its text and its input are forgotten.
Forget(t) == said' = [said EXCEPT ![t] = ""] /\ cause' = [cause EXCEPT ![t] = Nobody]
Return(t) == Goto(t, After(t)) /\ Forget(t)

Speak(u) == queue' = Append(queue, u)

-----------------------------------------------------------------------------
(* Interrupting the voice                                                  *)

InHand == IF tts.at = "idle" THEN {} ELSE {tts.item}
Waiting == InHand \cup {queue[i] : i \in 1..Len(queue)}

\* Variant: the voice keeps the lock, too.
CutOnKeeping(t, next) ==
  /\ Free
  /\ interrupt' = TRUE
  /\ lock' = t
  /\ resume' = [resume EXCEPT ![t] = next]
  /\ cut' = [cut EXCEPT ![t] = Waiting]
  /\ Goto(t, "drain")

\* The flag goes up; a typed message keeps state_lock from here to CutOff.
CutOn(t, next) ==
  /\ Free
  /\ interrupt' = TRUE
  /\ lock' = IF t = AI THEN None ELSE t
  /\ resume' = [resume EXCEPT ![t] = next]
  /\ cut' = [cut EXCEPT ![t] = Waiting]
  /\ Goto(t, "drain")

\* Variant: only the voice empties the queue.
DrainForVoice(t) ==
  /\ pc[t] = "drain"
  /\ queue' = IF t = AI THEN <<>> ELSE queue
  /\ Goto(t, "wait")
  /\ UNCHANGED <<flags, world, locks, later, said, cause, resume, tts, inputs,
                 changes, history>>

Drain(t) ==
  /\ pc[t] = "drain"
  /\ queue' = <<>>
  /\ Goto(t, "wait")
  /\ UNCHANGED <<flags, world, locks, later, said, cause, resume, tts, inputs,
                 changes, history>>

\* while state.speaking and less than 3 s gone: sleep.  A text the worker has
\* taken and not yet announced by speaking is in hand all the same.
FellSilent(t) ==
  /\ pc[t] = "wait" /\ ~speaking
  /\ excused' = excused \cup (cut[t] \cap InHand)
  /\ Goto(t, "cut_off")
  /\ UNCHANGED <<flags, world, locks, texts, said, cause, resume, tts, inputs,
                 changes, cut, silenced>>

\* Variant: the wait has no limit.
GivesUpNever(t) == FALSE /\ pc[t] = "wait" /\ UNCHANGED vars

\* A file that plays looks at the flag every 50 ms, a text that is being
\* turned into sound does not: only there can 3 s run out.
GivesUp(t) ==
  /\ pc[t] = "wait" /\ speaking /\ tts.at # "playing"
  /\ excused' = excused \cup (cut[t] \cap InHand)
  /\ Goto(t, "cut_off")
  /\ UNCHANGED <<flags, world, locks, texts, said, cause, resume, tts, inputs,
                 changes, cut, silenced>>

\* Variant: the voice leaves the flag up.
CutOffTypedOnly(t) ==
  /\ pc[t] = "cut_off" /\ (IF t = AI THEN Free ELSE lock = t)
  /\ interrupt' = (interrupt /\ t = AI)
  /\ lock' = None
  /\ silenced' = silenced \cup (cut[t] \cap Waiting)
  /\ cut' = [cut EXCEPT ![t] = {}]
  /\ IF resume[t] = "top"
     THEN Return(t)
     ELSE Goto(t, resume[t]) /\ UNCHANGED <<said, cause>>
  /\ resume' = [resume EXCEPT ![t] = "top"]
  /\ UNCHANGED <<awake, speaking, running, world, mic, texts, tts, inputs, changes, excused>>

CutOff(t) ==
  /\ pc[t] = "cut_off" /\ (IF t = AI THEN Free ELSE lock = t)
  /\ interrupt' = FALSE
  /\ lock' = None
  /\ silenced' = silenced \cup (cut[t] \cap Waiting)
  /\ cut' = [cut EXCEPT ![t] = {}]
  /\ IF resume[t] = "top"
     THEN Return(t)
     ELSE Goto(t, resume[t]) /\ UNCHANGED <<said, cause>>
  /\ resume' = [resume EXCEPT ![t] = "top"]
  /\ UNCHANGED <<awake, speaking, running, world, mic, texts, tts, inputs, changes, excused>>

Cutting(t) == Drain(t) \/ FellSilent(t) \/ GivesUp(t) \/ CutOff(t)

-----------------------------------------------------------------------------
(* Commands, typed or spoken                                               *)

\* The announcement is queued first; the flag falls under the lock later.
Standby(t) ==
  /\ said[t] = "standby"
  /\ Speak(cause[t]) /\ Goto(t, "resting")
  /\ UNCHANGED <<flags, world, locks, later, said, cause, resume, tts, inputs,
                 changes, history>>

Rest(t) ==
  /\ pc[t] = "resting" /\ Free
  /\ awake' = FALSE
  /\ Return(t)
  /\ UNCHANGED <<speaking, interrupt, running, world, locks, texts, resume, tts, inputs, changes, history>>

Shutdown(t) ==
  /\ said[t] = "shutdown"
  /\ Speak(cause[t]) /\ Goto(t, "closing")
  /\ UNCHANGED <<flags, world, locks, later, said, cause, resume, tts, inputs,
                 changes, history>>

\* sys.exit in a thread ends that thread; the web server goes on.
Close(t) ==
  /\ pc[t] = "closing" /\ Free
  /\ running' = FALSE
  /\ Goto(t, IF t = AI THEN "dead" ELSE "done") /\ Forget(t)
  /\ UNCHANGED <<awake, speaking, interrupt, world, locks, texts, resume, tts, inputs, changes, history>>

Ask(t) ==
  /\ said[t] = "ask"
  /\ Goto(t, "thinking")
  /\ UNCHANGED <<flags, world, locks, texts, said, cause, resume, tts, inputs,
                 changes, history>>

\* The reply is spoken by a thread of its own; there may be none; a typed
\* message survives an exception, the AI loop does not.
Answer(t) ==
  /\ pc[t] = "thinking"
  /\ \/ later' \in {later, later \cup {cause[t]}} /\ Goto(t, After(t))
     \/ later' = later /\ Goto(t, IF t = AI THEN "dead" ELSE "done")
  /\ Forget(t)
  /\ UNCHANGED <<flags, world, locks, queue, resume, tts, inputs, changes, history>>

Reply(u) ==
  /\ u \in later
  /\ later' = later \ {u} /\ Speak(u)
  /\ UNCHANGED <<flags, world, locks, threads, tts, inputs, changes, history>>

Finishing(t) == Rest(t) \/ Close(t) \/ Answer(t)

-----------------------------------------------------------------------------
(* A typed message (_process_typed)                                        *)

Type(t, w) ==
  /\ pc[t] = "start" /\ NewInput
  /\ said' = [said EXCEPT ![t] = w]
  /\ cause' = [cause EXCEPT ![t] = inputs + 1]
  /\ Goto(t, "typed")
  /\ UNCHANGED <<flags, world, locks, texts, resume, tts, changes, history>>

Rouse(t) ==
  /\ pc[t] = "typed" /\ Free
  /\ awake' = TRUE /\ recent' = TRUE
  /\ Goto(t, "roused")
  /\ UNCHANGED <<speaking, interrupt, running, phoneMode, connected, online, locks,
                 texts, said, cause, resume, tts, inputs, changes, history>>

Hush(t) ==
  /\ pc[t] = "roused" /\ Free
  /\ IF speaking
     THEN CutOn(t, "act") /\ UNCHANGED <<silenced, excused>>
     ELSE Goto(t, "act") /\ UNCHANGED <<interrupt, lock, resume, history>>
  /\ UNCHANGED <<awake, speaking, running, world, mic, texts, said, cause, tts,
                 inputs, changes>>

TypedStop(t) ==
  /\ said[t] = "stop"
  /\ Return(t)
  /\ UNCHANGED <<flags, world, locks, texts, resume, tts, inputs, changes, history>>

Act(t) ==
  /\ pc[t] = "act"
  /\ TypedStop(t) \/ Standby(t) \/ Shutdown(t) \/ Ask(t)

-----------------------------------------------------------------------------
(* The AI loop (ai_loop, listen)                                           *)

StartListening ==
  /\ pc[AI] = "top" /\ running /\ awake /\ ~phoneMode
  /\ Goto(AI, "want_mic")
  /\ UNCHANGED <<flags, world, locks, texts, said, cause, resume, tts, inputs,
                 changes, history>>

LoopEnds ==
  /\ pc[AI] = "top" /\ ~running
  /\ Goto(AI, "dead")
  /\ UNCHANGED <<flags, world, locks, texts, said, cause, resume, tts, inputs,
                 changes, history>>

TakeMic ==
  /\ pc[AI] = "want_mic" /\ mic = None
  /\ mic' = AI
  /\ Goto(AI, "listening")
  /\ UNCHANGED <<flags, world, lock, texts, said, cause, resume, tts, inputs,
                 changes, history>>

Hear(w) ==
  /\ pc[AI] = "listening" /\ NewInput
  /\ mic' = None
  /\ said' = [said EXCEPT ![AI] = w]
  /\ cause' = [cause EXCEPT ![AI] = inputs + 1]
  /\ Goto(AI, "heard")
  /\ UNCHANGED <<flags, world, lock, texts, resume, tts, changes, history>>

HearNothing ==
  /\ pc[AI] = "listening"
  /\ mic' = None
  /\ Goto(AI, "silence")
  /\ UNCHANGED <<flags, world, lock, texts, said, cause, resume, tts, inputs,
                 changes, history>>

Silence ==
  /\ pc[AI] = "silence"
  /\ recent' = (recent \/ speaking)
  /\ \/ recent' /\ Goto(AI, "top") /\ UNCHANGED <<queue, inputs>>
     \/ ~recent' /\ NewInput /\ Speak(inputs + 1) /\ Goto(AI, "resting")
  /\ UNCHANGED <<flags, phoneMode, connected, online, locks, later, said, cause,
                 resume, tts, changes, history>>

\* A text that resembles what is being spoken is taken for the assistant's
\* own voice; another one interrupts it.
Understand ==
  /\ pc[AI] = "heard"
  /\ IF speaking
     THEN Return(AI) \/ (Goto(AI, "barge") /\ UNCHANGED <<said, cause>>)
     ELSE Goto(AI, "ready") /\ UNCHANGED <<said, cause>>
  /\ UNCHANGED <<flags, world, locks, texts, resume, tts, inputs, changes, history>>

\* By the time the lock is free the voice may have ended.
BargeIn ==
  /\ pc[AI] = "barge" /\ CutOn(AI, "ready")
  /\ UNCHANGED <<awake, speaking, running, world, mic, texts, said, cause, tts,
                 inputs, changes, silenced, excused>>

Attend ==
  /\ pc[AI] = "ready" /\ Free
  /\ recent' = TRUE
  /\ Goto(AI, "act")
  /\ UNCHANGED <<flags, phoneMode, connected, online, locks, texts, said, cause,
                 resume, tts, inputs, changes, history>>

SpokenStop ==
  /\ said[AI] = "stop"
  /\ CutOn(AI, "top")
  /\ UNCHANGED <<awake, speaking, running, world, mic, texts, said, cause, tts,
                 inputs, changes, silenced, excused>>

Obey ==
  /\ pc[AI] = "act"
  /\ SpokenStop \/ Standby(AI) \/ Shutdown(AI) \/ Ask(AI)

-----------------------------------------------------------------------------
(* The wake-word loop and the wake button                                  *)

WakeListens ==
  /\ pc[Wake] = "top" /\ running /\ ~awake /\ ~speaking /\ ~phoneMode
  /\ mic = None
  /\ mic' = Wake
  /\ Goto(Wake, "hearing")
  /\ UNCHANGED <<flags, world, lock, texts, said, cause, resume, tts, inputs,
                 changes, history>>

NoWakeWord ==
  /\ pc[Wake] = "hearing"
  /\ mic' = None
  /\ Goto(Wake, "top")
  /\ UNCHANGED <<flags, world, lock, texts, said, cause, resume, tts, inputs,
                 changes, history>>

WakeWord ==
  /\ pc[Wake] = "hearing" /\ Free /\ NewInput
  /\ recent' = (recent \/ ~awake)
  /\ awake' = TRUE
  /\ Speak(inputs + 1)
  /\ mic' = None
  /\ Goto(Wake, "top")
  /\ UNCHANGED <<speaking, interrupt, running, phoneMode, connected, online, lock,
                 later, said, cause, resume, tts, changes, history>>

WakeButton ==
  /\ Free /\ NewInput
  /\ recent' = (recent \/ ~awake)
  /\ awake' = TRUE
  /\ Speak(inputs + 1)
  /\ UNCHANGED <<speaking, interrupt, running, phoneMode, connected, online, locks,
                 later, threads, tts, changes, history>>

-----------------------------------------------------------------------------
(* The speech worker (_tts_worker)                                         *)

Tts(l) == tts' = [tts EXCEPT !.at = l]
WorkerRest == <<awake, interrupt, running, world, locks, later, threads, inputs,
                changes, history>>

TakeText ==
  /\ tts.at = "idle" /\ queue # <<>>
  /\ tts' = [Idle EXCEPT !.at = "taken", !.item = Head(queue)]
  /\ queue' = Tail(queue)
  /\ UNCHANGED <<speaking, WorkerRest>>

LookAtFlag ==
  /\ tts.at = "taken"
  /\ IF interrupt THEN tts' = Idle ELSE Tts("cleared")
  /\ UNCHANGED <<speaking, queue, WorkerRest>>

Begin ==
  /\ tts.at = "cleared"
  /\ speaking' = TRUE
  /\ Tts("route")
  /\ UNCHANGED <<queue, WorkerRest>>

Route ==
  /\ tts.at = "route"
  /\ tts' = [tts EXCEPT !.at = "making", !.voice = IF online THEN "gemini" ELSE "offline"]
  /\ UNCHANGED <<speaking, queue, WorkerRest>>

\* Gemini and Edge send the sound to the phone when phone mode is on, the
\* local voice never does.
Made ==
  /\ tts.at = "making"
  /\ tts' = [tts EXCEPT !.at = "made",
                        !.sent = phoneMode /\ tts.voice \in {"gemini", "edge"}]
  /\ UNCHANGED <<speaking, queue, WorkerRest>>

\* Without a sound: Gemini falls back to Edge while the network is up, and to
\* the local voice otherwise; Edge swallows its failure and counts as a success;
\* the local voice that fails off line leaves the loop body by continue, with
\* speaking still up.
NoSound ==
  /\ tts.at = "making"
  /\ tts' = CASE tts.voice = "gemini" -> [tts EXCEPT !.voice = IF online THEN "edge" ELSE "local"]
              [] tts.voice = "offline" -> Idle
              [] OTHER -> [tts EXCEPT !.at = "ending"]
  /\ UNCHANGED <<speaking, queue, WorkerRest>>

Play ==
  /\ tts.at = "made"
  /\ Tts(IF connected /\ phoneMode THEN "ending" ELSE "playing")
  /\ UNCHANGED <<speaking, queue, WorkerRest>>

\* The file ends, or the player sees the flag and stops it.
PlayEnds ==
  /\ tts.at = "playing"
  /\ Tts("ending")
  /\ UNCHANGED <<speaking, queue, WorkerRest>>

EndSpeech ==
  /\ tts.at = "ending"
  /\ speaking' = FALSE
  /\ tts' = Idle
  /\ UNCHANGED <<queue, WorkerRest>>

Worker == \/ TakeText \/ LookAtFlag \/ Begin \/ Route \/ Made \/ NoSound
          \/ Play \/ PlayEnds \/ EndSpeech

-----------------------------------------------------------------------------
(* The world outside                                                       *)

Change ==
  /\ Room /\ changes' = changes + 1
  /\ \/ Free /\ phoneMode' = ~phoneMode /\ UNCHANGED <<connected, online>>
     \/ connected' = ~connected /\ UNCHANGED <<phoneMode, online>>
     \/ online' = ~online /\ UNCHANGED <<phoneMode, connected>>
  /\ UNCHANGED <<flags, recent, locks, texts, threads, tts, inputs, history>>

TimePasses ==
  /\ recent /\ Room
  /\ recent' = FALSE
  /\ UNCHANGED <<flags, phoneMode, connected, online, locks, texts, threads, tts,
                 inputs, changes, history>>

Loop == \/ StartListening \/ LoopEnds \/ TakeMic \/ HearNothing \/ Silence
        \/ Understand \/ BargeIn \/ Attend \/ Obey

\* The steps a thread takes by itself once it has its input.
Steps(t) == \/ Cutting(t) \/ Finishing(t)
            \/ t = AI /\ Loop
            \/ t \in Typed /\ (Rouse(t) \/ Hush(t) \/ Act(t))

Next ==
  \/ \E t \in Typed, w \in Words : Type(t, w)
  \/ \E t \in Cutters : Steps(t)
  \/ \E u \in later : Reply(u)
  \/ \E w \in Words : Hear(w)
  \/ WakeListens \/ NoWakeWord \/ WakeWord \/ WakeButton
  \/ Worker
  \/ Change \/ TimePasses

Spec == Init /\ [][Next]_vars

\* Threads are scheduled; a lock that is released again and again is granted.
FairSpec == Spec /\ WF_vars(Worker) /\ \A t \in Cutters : SF_vars(Steps(t))
=============================================================================
