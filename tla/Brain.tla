------------------------------- MODULE Brain -------------------------------
(***************************************************************************)
(* Answering a question: ask_edith of src/edith/core/brain.py.             *)
(*                                                                         *)
(* Every caller (the AI loop, a typed message's thread) asks one question. *)
(* They share CONVO_HISTORY, which brain_lock guards entry by entry and    *)
(* not for the length of a question.  A question goes to the support       *)
(* engine first when it carries a file, then to the main model, to the     *)
(* local one, to three OpenRouter models and to the support engine again;  *)
(* if all fail, the caller gets an apology.                                *)
(*                                                                         *)
(* Texts are abstracted to whose they are.  What a model returns is chosen *)
(* freely: a sure answer, an unsure one, nothing, or an exception.         *)
(***************************************************************************)
EXTENDS Naturals, Sequences, SequencesExt

CONSTANTS Callers,
          Clients,      \* of "local", "openrouter", "support": those configured
          Limit,        \* 20 entries of history
          Models,       \* 3 OpenRouter models
          MaxFaults     \* bound: exceptions while an answer is stored

ASSUME BrainAssumption ==
  /\ IsFiniteSet(Callers)
  /\ Limit \in Nat \ {0} /\ Models \in Nat \ {0} /\ MaxFaults \in Nat

VARIABLES
  history,              \* CONVO_HISTORY: <<[role, of]>>
  pc,
  sent,                 \* the messages of the caller's current call
  model,                \* the OpenRouter model it is at
  via,                  \* the engine whose answer it keeps
  file,                 \* its question carries a file
  logged,               \* exchanges logged in memory, by caller
  back,                 \* what it got back
  faults, failed,       \* exceptions while storing, in all and by caller
  timedOut              \* history: its main call timed out

call == <<sent, model, via>>
record == <<logged, back, faults, failed>>
vars == <<history, pc, call, file, record, timedOut>>

Question(c) == [role |-> "user", of |-> c]
Reply(c) == [role |-> "assistant", of |-> c]

Init ==
  /\ history = <<>>
  /\ pc = [c \in Callers |-> "start"]
  /\ sent = [c \in Callers |-> <<>>]
  /\ model = [c \in Callers |-> 1]
  /\ via = [c \in Callers |-> "none"]
  /\ file = [c \in Callers |-> FALSE]
  /\ logged = [c \in Callers |-> 0]
  /\ back = [c \in Callers |-> "none"]
  /\ faults = 0 /\ failed = [c \in Callers |-> 0]
  /\ timedOut = [c \in Callers |-> FALSE]

Goto(c, l) == pc' = [pc EXCEPT ![c] = l]
Has(engine) == engine \in Clients

\* Variant: one entry is popped at most.
TrimOne(s) == IF Len(s) > Limit THEN Tail(s) ELSE s

\* The last Limit entries: entries are popped from the front while there are
\* too many.
Trim(s) == IF Len(s) > Limit THEN SubSeq(s, Len(s) - Limit + 1, Len(s)) ELSE s

-----------------------------------------------------------------------------

Ask(c, f) ==
  /\ pc[c] = "start"
  /\ file' = [file EXCEPT ![c] = f]
  /\ Goto(c, IF f /\ Has("support") THEN "post_file" ELSE "post")
  /\ UNCHANGED <<history, call, record, timedOut>>

\* One section of brain_lock: append, trim and copy what will be sent.
Post(c) ==
  /\ pc[c] \in {"post_file", "post"}
  /\ history' = Trim(Append(history, Question(c)))
  /\ sent' = [sent EXCEPT ![c] = history']
  /\ Goto(c, IF pc[c] = "post_file" THEN "direct" ELSE "main")
  /\ UNCHANGED <<model, via, file, record, timedOut>>

\* An answer is kept in two steps: the history under the lock, then memory.
Keep(c, engine) == Goto(c, "keep") /\ via' = [via EXCEPT ![c] = engine]

\* The support engine that fails leaves its question in the history; it is
\* posted again for the main model.
Direct(c) ==
  /\ pc[c] = "direct"
  /\ \/ Keep(c, "direct")
     \/ Goto(c, "post") /\ UNCHANGED via
  /\ UNCHANGED <<history, sent, model, file, record, timedOut>>

\* An answer below the confidence threshold is enriched by the support engine,
\* if there is one; it is kept whether the enrichment comes or not.
Answered(c) ==
  \/ Keep(c, "main")
  \/ Has("support") /\ Goto(c, "assist") /\ UNCHANGED via

\* The local model is asked when the main call raises, not when it comes back
\* empty.
Main(c) ==
  /\ pc[c] = "main"
  /\ \/ Answered(c) /\ UNCHANGED timedOut
     \/ Goto(c, "openrouter") /\ UNCHANGED <<via, timedOut>>
     \/ \E t \in BOOLEAN :
          /\ timedOut' = [timedOut EXCEPT ![c] = t]
          /\ Goto(c, IF Has("local") THEN "local" ELSE "openrouter")
          /\ UNCHANGED via
  /\ UNCHANGED <<history, sent, model, file, record>>

Local(c) ==
  /\ pc[c] = "local"
  /\ \/ Answered(c)
     \/ Goto(c, "openrouter") /\ UNCHANGED via
  /\ UNCHANGED <<history, sent, model, file, record, timedOut>>

Assist(c) ==
  /\ pc[c] = "assist"
  /\ Keep(c, "main")
  /\ UNCHANGED <<history, sent, model, file, record, timedOut>>

\* The fallbacks copy the history anew, whatever others have posted since.
\* (The test of network_timed_out above them reads an attribute nobody sets.)
OpenRouter(c) ==
  /\ pc[c] = "openrouter"
  /\ IF Has("openrouter")
     THEN /\ sent' = [sent EXCEPT ![c] = history]
          /\ Goto(c, "try_model")
     ELSE Goto(c, "support") /\ UNCHANGED sent
  /\ model' = [model EXCEPT ![c] = 1]
  /\ UNCHANGED <<history, via, file, record, timedOut>>

\* Variant: one model too many.
NextModelBeyond(c) ==
  /\ model' = [model EXCEPT ![c] = @ + 1]
  /\ Goto(c, IF model[c] <= Models THEN "try_model" ELSE "support")

\* Variant: the last model is followed by the first.
NextModelWrapping(c) ==
  /\ model' = [model EXCEPT ![c] = IF @ < Models THEN @ + 1 ELSE 1]
  /\ Goto(c, "try_model")

NextModel(c) ==
  /\ model' = [model EXCEPT ![c] = @ + 1]
  /\ Goto(c, IF model[c] < Models THEN "try_model" ELSE "support")

TryModel(c) ==
  /\ pc[c] = "try_model"
  /\ \/ Keep(c, "openrouter") /\ UNCHANGED model
     \/ NextModel(c) /\ UNCHANGED via
  /\ UNCHANGED <<history, sent, file, record, timedOut>>

Support(c) ==
  /\ pc[c] = "support"
  /\ IF Has("support")
     THEN /\ sent' = [sent EXCEPT ![c] = history]
          /\ Goto(c, "try_support")
     ELSE Goto(c, "apologise") /\ UNCHANGED sent
  /\ UNCHANGED <<history, model, via, file, record, timedOut>>

TrySupport(c) ==
  /\ pc[c] = "try_support"
  /\ \/ Keep(c, "support")
     \/ Goto(c, "apologise") /\ UNCHANGED via
  /\ UNCHANGED <<history, sent, model, file, record, timedOut>>

Apologise(c) ==
  /\ pc[c] = "apologise"
  /\ back' = [back EXCEPT ![c] = "apology"]
  /\ Goto(c, "done")
  /\ UNCHANGED <<history, call, file, logged, faults, failed, timedOut>>

-----------------------------------------------------------------------------
(* Keeping an answer                                                       *)

AppendReply(c) ==
  /\ pc[c] = "keep"
  /\ history' = Append(history, Reply(c))
  /\ Goto(c, "store")
  /\ UNCHANGED <<call, file, record, timedOut>>

\* Variant: the answer of a fallback is not logged.
StoreForgetful(c) ==
  /\ pc[c] = "store"
  /\ logged' = IF via[c] = "openrouter" THEN logged ELSE [logged EXCEPT ![c] = @ + 1]
  /\ back' = [back EXCEPT ![c] = "reply"]
  /\ Goto(c, "done")
  /\ UNCHANGED <<history, call, file, faults, failed, timedOut>>

\* auto_remember, then log_exchange.
Store(c) ==
  /\ pc[c] = "store"
  /\ logged' = [logged EXCEPT ![c] = @ + 1]
  /\ back' = [back EXCEPT ![c] = "reply"]
  /\ Goto(c, "done")
  /\ UNCHANGED <<history, call, file, faults, failed, timedOut>>

\* auto_remember raises inside the try that holds the call: the answer is
\* dropped, the next engine is asked, the history keeps the reply.
StoreFails(c) ==
  /\ pc[c] = "store" /\ faults < MaxFaults
  /\ faults' = faults + 1
  /\ failed' = [failed EXCEPT ![c] = @ + 1]
  /\ CASE via[c] = "direct" -> Goto(c, "post") /\ UNCHANGED model
       [] via[c] = "main" -> Goto(c, "openrouter") /\ UNCHANGED model
       [] via[c] = "openrouter" -> NextModel(c)
       [] via[c] = "support" -> Goto(c, "apologise") /\ UNCHANGED model
  /\ UNCHANGED <<history, sent, via, file, logged, back, timedOut>>

-----------------------------------------------------------------------------

Steps(c) ==
  \/ Post(c) \/ Direct(c) \/ Main(c) \/ Local(c) \/ Assist(c)
  \/ OpenRouter(c) \/ TryModel(c) \/ Support(c) \/ TrySupport(c) \/ Apologise(c)
  \/ AppendReply(c) \/ Store(c) \/ StoreFails(c)

Next == \E c \in Callers : (\E f \in BOOLEAN : Ask(c, f)) \/ Steps(c)

Spec == Init /\ [][Next]_vars

\* A thread that runs is scheduled, and every call of an engine has a timeout.
FairSpec == Spec /\ \A c \in Callers : WF_vars(Steps(c))
=============================================================================
