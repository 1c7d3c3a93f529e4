--------------------------- MODULE AssistantProps ---------------------------
(***************************************************************************)
(* What the voice assistant promises, and what it does not keep.           *)
(***************************************************************************)
EXTENDS Assistant, FiniteSets

Labels == {"start", "typed", "roused", "act", "thinking", "resting", "closing",
           "done", "top", "want_mic", "listening", "heard", "barge", "silence", "ready",
           "drain", "wait", "cut_off", "dead"}

\* The flags, the threads and the texts have the shapes the code gives them
\* (core/state.py, main.py, interfaces/voice.py).
TypeOK ==
  /\ {awake, speaking, interrupt, running} \subseteq BOOLEAN
  /\ {phoneMode, connected, online, recent} \subseteq BOOLEAN
  /\ lock \in Typed \cup {None} /\ mic \in {AI, Wake, None}
  /\ queue \in Seq(Inputs) /\ later \subseteq Inputs
  /\ pc \in [Cutters \cup {Wake} -> Labels \cup {"hearing"}]
  /\ said \in [Cutters -> Words \cup {""}]
  /\ cause \in [Cutters -> Inputs \cup {Nobody}]
  /\ resume \in [Cutters -> {"top", "act", "ready"}]
  /\ tts \in [at : {"idle", "taken", "cleared", "route", "making", "made", "playing", "ending"},
              item : Inputs \cup {Nobody},
              voice : {"none", "gemini", "edge", "offline", "local"},
              sent : BOOLEAN]
  /\ inputs \in Nat /\ changes \in Nat /\ inputs + changes <= MaxEvents
  /\ cut \in [Cutters -> SUBSET Inputs]
  /\ silenced \subseteq Inputs /\ excused \subseteq Inputs

IsCutting(t) == pc[t] \in {"drain", "wait", "cut_off"}

\* The interrupt flag is up only while a thread is stopping the voice: left up,
\* the worker would throw every later text away (main.py 48-60, 227-245,
\* 269-283).
InterruptIsHeld == interrupt => \E t \in Cutters : IsCutting(t)

\* A text that was queued or in the worker's hand when a stop began is not
\* heard after the stop has ended, but for the one text that is in hand when the
\* wait ends: the 3 s ran out on it, or the worker has taken it and not yet
\* raised speaking (main.py 227-245, voice.py 237-245).
SilencedUnlessSlipped == tts.at = "playing" => tts.item \notin silenced \ excused

\* Whoever takes state_lock or begins to handle a command comes to its end,
\* even when speaking is stuck: the wait of 3 s is what ends it (main.py 58).
CommandsAreHandled ==
  /\ \A t \in Typed : pc[t] = "typed" ~> pc[t] = "done"
  /\ pc[AI] = "heard" ~> pc[AI] \in {"top", "dead"}

-----------------------------------------------------------------------------
(* What the code says of itself and does not keep                          *)

\* "Clear the TTS queue immediately so she doesn't keep talking", "Wait for
\* current audio file to finish stopping" (main.py 230, 239): after a stop the
\* texts it was to silence are not heard.
StopSilences == tts.at = "playing" => tts.item \notin silenced

\* speaking says that the worker is at work (voice.py 245, 299).  The local
\* voice that fails off line leaves it up (voice.py 268-270): the wake word is
\* not listened for until another text is spoken (voice.py 399).
SpeakingIsHonest == speaking => tts.at # "idle"

\* "Try Kokoro local offline fallback if all else fails" (voice.py 292): a text
\* ends without a sound only after the local voice has failed.
LocalVoiceIsTried ==
  [][tts.at = "making" /\ tts'.at = "ending" => tts.voice = "local"]_vars

\* The PC stays mute only when the phone has been sent the sound (voice.py
\* 139-156): not so when phone mode changes in between, nor with the local voice.
HeardSomewhere == [][tts.at = "made" /\ tts'.at = "ending" => tts.sent]_vars

\* The assistant acts on a voice only while awake (main.py 214): not so when it
\* is sent to standby by a typed message while it listens.
ActsOnlyAwake == [][pc[AI] = "act" /\ pc'[AI] = "thinking" => awake]_vars

\* The 45 s of silence put it to standby (main.py 253): not so when a message
\* is typed between the look at the clock and the flag.
RecentStaysAwake ==
  [][awake /\ ~awake' /\ recent => \E t \in Cutters : pc[t] = "resting" /\ said[t] = "standby"]_vars
=============================================================================
