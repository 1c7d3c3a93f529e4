----------------------------- MODULE BrainProps -----------------------------
(***************************************************************************)
(* What ask_edith promises when several callers ask at once.               *)
(***************************************************************************)
EXTENDS Brain, FiniteSets

Entries == [role : {"user", "assistant"}, of : Callers]

\* History and calls have the shapes core/brain.py gives them.
TypeOK ==
  /\ history \in Seq(Entries)
  /\ pc \in [Callers -> {"start", "post_file", "post", "direct", "main", "local",
                         "assist", "openrouter", "try_model", "support",
                         "try_support", "apologise", "keep", "store", "done"}]
  /\ sent \in [Callers -> Seq(Entries)]
  /\ model \in [Callers -> 1..(Models + 1)]
  /\ via \in [Callers -> {"none", "direct", "main", "openrouter", "support"}]
  /\ file \in [Callers -> BOOLEAN]
  /\ logged \in [Callers -> Nat]
  /\ back \in [Callers -> {"none", "reply", "apology"}]
  /\ faults \in 0..MaxFaults
  /\ failed \in [Callers -> 0..MaxFaults]
  /\ timedOut \in [Callers -> BOOLEAN]

EndsWithOwn(c) == sent[c] # <<>> /\ Last(sent[c]) = Question(c)

\* The history is bounded although replies are appended without trimming:
\* everything up to the last question fits the limit, and each question has one
\* reply and one more for every failure to store it (brain.py 487, 547, 652).
HistoryIsBounded ==
  /\ \A i \in 1..Len(history) : history[i].role = "user" => i <= Limit
  /\ Len(history) <= Limit + Cardinality(Callers) + faults

Replies(c) == Cardinality({i \in 1..Len(history) : history[i] = Reply(c)})

\* A caller that got a reply has its exchange in memory exactly once and one
\* that got an apology has none, whichever of the engines answered and however
\* many tries it took; nobody's reply is in the history twice unless storing
\* one failed (brain.py 510-515, 651-656, 687-693, 720-726).
RepliesAreRemembered ==
  \A c \in Callers :
    /\ pc[c] = "done" => logged[c] = (IF back[c] = "reply" THEN 1 ELSE 0)
    /\ Replies(c) <= 1 + failed[c]

\* Every question comes back to its caller (brain.py 428-732).
QuestionsReturn == \A c \in Callers : pc[c] # "start" ~> pc[c] = "done"

-----------------------------------------------------------------------------
(* What the code says of itself and does not keep                          *)

\* The fallback is told "YOU are now the Main Brain" (brain.py 670): what it is
\* sent should end with the question it is to answer.
FallbackSeesOwnQuestion ==
  \A c \in Callers : pc[c] \in {"try_model", "try_support"} => EndsWithOwn(c)

\* "Skipping cloud fallbacks because network previously timed out" (brain.py
\* 664): set_state takes the name of the flag for the name of the state and the
\* flag is never set (state.py 37-39).
TimeoutSkipsCloud ==
  [][\A c \in Callers : timedOut[c] => pc'[c] \notin {"try_model", "try_support"}]_vars

\* A question is in the history once: not so when the file route fails.
QuestionPostedOnce ==
  \A c \in Callers :
    Cardinality({i \in 1..Len(history) : history[i] = Question(c)}) <= 1
=============================================================================
