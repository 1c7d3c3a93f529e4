---------------------------- MODULE Brain_proofs ----------------------------
(***************************************************************************)
(* Proofs about ask_edith for every value of its constants.                *)
(***************************************************************************)
EXTENDS BrainProps, SequenceTheorems, FiniteSetTheorems, TLAPS

USE BrainAssumption DEF BrainAssumption

\* An answer that is being kept has come from somewhere, an OpenRouter model that is
\* asked is one of the list, and the failures of one caller are among those of all.
Going ==
  \A c \in Callers :
    /\ pc[c] \in {"keep", "store"} => via[c] # "none"
    /\ pc[c] = "try_model" \/ (pc[c] \in {"keep", "store"} /\ via[c] = "openrouter")
         => model[c] <= Models
    /\ failed[c] <= faults

Typing == TypeOK /\ Going

\* The last Limit entries of a sequence.
LEMMA TrimType ==
    ASSUME NEW S, NEW s \in Seq(S)
    PROVE  /\ Trim(s) \in Seq(S)
           /\ Len(s) <= Limit => Trim(s) = s
           /\ Len(s) > Limit => /\ Len(Trim(s)) = Limit
                                /\ \A i \in 1..Limit : Trim(s)[i] = s[Len(s) - Limit + i]
  <1>1. CASE Len(s) <= Limit
    BY <1>1 DEF Trim
  <1>2. CASE Len(s) > Limit
    <2>1. Trim(s) = SubSeq(s, Len(s) - Limit + 1, Len(s))
      BY <1>2 DEF Trim
    <2>2. Len(s) \in Nat /\ Len(s) - Limit + 1 \in 1..Len(s) + 1 /\ Len(s) \in Len(s) - Limit + 1 - 1 .. Len(s)
      BY <1>2
    <2>3. /\ SubSeq(s, Len(s) - Limit + 1, Len(s)) \in Seq(S)
          /\ Len(SubSeq(s, Len(s) - Limit + 1, Len(s))) = Limit
          /\ \A i \in 1..Limit : SubSeq(s, Len(s) - Limit + 1, Len(s))[i] = s[Len(s) - Limit + i]
      BY <1>2, <2>2, SubSeqProperties
    <2> QED
      BY <1>2, <2>1, <2>3
  <1> QED
    BY <1>1, <1>2

LEMMA InitType == Init => Typing
  <1> SUFFICES ASSUME Init PROVE Typing
    OBVIOUS
  <1>1. /\ history \in Seq(Entries) /\ sent \in [Callers -> Seq(Entries)]
    BY DEF Init
  <1>2. /\ model \in [Callers -> 1..(Models + 1)] /\ faults \in 0..MaxFaults
        /\ failed \in [Callers -> 0..MaxFaults] /\ logged \in [Callers -> Nat]
    BY DEF Init
  <1>3. TypeOK
    BY <1>1, <1>2 DEF Init, TypeOK
  <1>4. Going
    BY DEF Init, Going
  <1> QED
    BY <1>3, <1>4 DEF Typing

LEMMA AskType ==
    ASSUME Typing, NEW c \in Callers, NEW f \in BOOLEAN, Ask(c, f)
    PROVE  Typing'
  BY DEF Ask, call, record, Goto, Typing, TypeOK, Going

LEMMA DirectType ==
    ASSUME Typing, NEW c \in Callers, Direct(c)
    PROVE  Typing'
  BY DEF Direct, Keep, call, record, Goto, Typing, TypeOK, Going

LEMMA MainType ==
    ASSUME Typing, NEW c \in Callers, Main(c)
    PROVE  Typing'
  BY DEF Main, Answered, Keep, call, record, Goto, Typing, TypeOK, Going

LEMMA LocalType ==
    ASSUME Typing, NEW c \in Callers, Local(c)
    PROVE  Typing'
  BY DEF Local, Answered, Keep, call, record, Goto, Typing, TypeOK, Going

LEMMA AssistType ==
    ASSUME Typing, NEW c \in Callers, Assist(c)
    PROVE  Typing'
  BY DEF Assist, Keep, call, record, Goto, Typing, TypeOK, Going

LEMMA SupportType ==
    ASSUME Typing, NEW c \in Callers, Support(c)
    PROVE  Typing'
  BY DEF Support, call, record, Goto, Typing, TypeOK, Going

LEMMA TrySupportType ==
    ASSUME Typing, NEW c \in Callers, TrySupport(c)
    PROVE  Typing'
  BY DEF TrySupport, Keep, call, record, Goto, Typing, TypeOK, Going

LEMMA ApologiseType ==
    ASSUME Typing, NEW c \in Callers, Apologise(c)
    PROVE  Typing'
  BY DEF Apologise, call, record, Goto, Typing, TypeOK, Going

LEMMA StoreType ==
    ASSUME Typing, NEW c \in Callers, Store(c)
    PROVE  Typing'
  BY DEF Store, call, record, Goto, Typing, TypeOK, Going

LEMMA ModelType ==
    /\ 1 \in 1..(Models + 1)
    /\ \A m \in 1..(Models + 1) : m <= Models => m + 1 \in 1..(Models + 1)
    /\ \A m \in 1..(Models + 1) : m < Models => m + 1 <= Models
    /\ 1 <= Models
  OBVIOUS

LEMMA OpenRouterType ==
    ASSUME Typing, NEW c \in Callers, OpenRouter(c)
    PROVE  Typing'
  <1>1. /\ pc' = [pc EXCEPT ![c] = "try_model"] \/ pc' = [pc EXCEPT ![c] = "support"]
        /\ model' = [model EXCEPT ![c] = 1]
        /\ sent' = sent \/ sent' = [sent EXCEPT ![c] = history]
        /\ UNCHANGED <<history, via, file, record, timedOut>>
    BY DEF OpenRouter, Goto
  <1>2. model' \in [Callers -> 1..(Models + 1)] /\ model'[c] <= Models
    BY <1>1, ModelType DEF Typing, TypeOK
  <1>3. TypeOK'
    BY <1>1, <1>2 DEF record, Typing, TypeOK
  <1>4. Going'
    BY <1>1, <1>2 DEF record, Typing, TypeOK, Going
  <1> QED
    BY <1>3, <1>4 DEF Typing

\* The next model, and where it leads.
LEMMA NextModelType ==
    ASSUME Typing, NEW c \in Callers, NextModel(c), model[c] <= Models
    PROVE  /\ model' \in [Callers -> 1..(Models + 1)]
           /\ pc' = [pc EXCEPT ![c] = "try_model"] \/ pc' = [pc EXCEPT ![c] = "support"]
           /\ pc'[c] = "try_model" => model'[c] <= Models
           /\ \A d \in Callers \ {c} : model'[d] = model[d]
  <1>1. model[c] \in 1..(Models + 1)
    BY DEF Typing, TypeOK
  <1>2. /\ model[c] + 1 \in 1..(Models + 1)
        /\ model[c] < Models => model[c] + 1 <= Models
    BY <1>1, ModelType
  <1>3. model' = [model EXCEPT ![c] = model[c] + 1]
    BY DEF NextModel
  <1> QED
    BY <1>2, <1>3 DEF NextModel, Goto, Typing, TypeOK

LEMMA TryModelType ==
    ASSUME Typing, NEW c \in Callers, TryModel(c)
    PROVE  Typing'
  <1>1. pc[c] = "try_model" /\ UNCHANGED <<history, sent, file, record, timedOut>>
    BY DEF TryModel
  <1>2. model[c] <= Models
    BY <1>1 DEF Typing, Going
  <1>3. CASE Keep(c, "openrouter") /\ UNCHANGED model
    BY <1>1, <1>2, <1>3 DEF Keep, Goto, record, Typing, TypeOK, Going
  <1>4. CASE NextModel(c) /\ UNCHANGED via
    BY <1>1, <1>2, <1>4, NextModelType DEF record, Typing, TypeOK, Going
  <1> QED
    BY <1>3, <1>4 DEF TryModel

LEMMA PostType ==
    ASSUME Typing, NEW c \in Callers, Post(c)
    PROVE  Typing'
  <1>1. Append(history, Question(c)) \in Seq(Entries)
    BY DEF Typing, TypeOK, Question, Entries
  <1>2. history' \in Seq(Entries)
    BY <1>1, TrimType DEF Post
  <1> QED
    BY <1>2 DEF Post, Goto, record, Typing, TypeOK, Going

LEMMA AppendReplyType ==
    ASSUME Typing, NEW c \in Callers, AppendReply(c)
    PROVE  Typing'
  <1>1. history' \in Seq(Entries)
    BY DEF AppendReply, Typing, TypeOK, Reply, Entries
  <1> QED
    BY <1>1 DEF AppendReply, call, record, Goto, Typing, TypeOK, Going

LEMMA StoreFailsType ==
    ASSUME Typing, NEW c \in Callers, StoreFails(c)
    PROVE  Typing'
  <1>1. faults' \in 0..MaxFaults /\ faults' = faults + 1
    BY DEF StoreFails, Typing, TypeOK
  <1>2. /\ failed' \in [Callers -> 0..MaxFaults]
        /\ \A d \in Callers : failed'[d] <= faults'
    <2>1. failed[c] + 1 \in 0..MaxFaults
      BY <1>1 DEF StoreFails, Typing, TypeOK, Going
    <2>2. \A d \in Callers : failed[d] \in Nat /\ failed[d] <= faults
      BY DEF Typing, TypeOK, Going
    <2> QED
      BY <1>1, <2>1, <2>2 DEF StoreFails, Typing, TypeOK
  <1>3. via[c] \in {"direct", "main", "openrouter", "support"}
    BY DEF StoreFails, Typing, TypeOK, Going
  <1>4. \/ Goto(c, "post") /\ UNCHANGED model
        \/ Goto(c, "openrouter") /\ UNCHANGED model
        \/ NextModel(c) /\ model[c] <= Models
        \/ Goto(c, "apologise") /\ UNCHANGED model
    BY <1>3 DEF StoreFails, Typing, Going
  <1>5. /\ pc' \in [Callers -> {"start", "post_file", "post", "direct", "main", "local",
                               "assist", "openrouter", "try_model", "support",
                               "try_support", "apologise", "keep", "store", "done"}]
        /\ model' \in [Callers -> 1..(Models + 1)]
        /\ pc'[c] \notin {"keep", "store"} /\ (pc'[c] = "try_model" => model'[c] <= Models)
        /\ \A d \in Callers \ {c} : pc'[d] = pc[d] /\ model'[d] = model[d]
    <2>1. CASE NextModel(c) /\ model[c] <= Models
      BY <2>1, NextModelType DEF Typing, TypeOK
    <2>2. CASE /\ Goto(c, "post") \/ Goto(c, "openrouter") \/ Goto(c, "apologise")
               /\ UNCHANGED model
      BY <2>2 DEF Goto, Typing, TypeOK
    <2> QED
      BY <1>4, <2>1, <2>2
  <1>6. UNCHANGED <<history, sent, via, file, logged, back, timedOut>>
    BY DEF StoreFails
  <1>7. TypeOK'
    BY <1>1, <1>2, <1>5, <1>6 DEF Typing, TypeOK
  <1>8. Going'
    BY <1>2, <1>5, <1>6 DEF Typing, Going
  <1> QED
    BY <1>7, <1>8 DEF Typing

LEMMA NextType == Typing /\ [Next]_vars => Typing'
  <1> SUFFICES ASSUME Typing, [Next]_vars PROVE Typing'
    OBVIOUS
  <1>1. CASE UNCHANGED vars
    BY <1>1 DEF vars, call, record, Typing, TypeOK, Going
  <1>2. ASSUME NEW c \in Callers, NEW f \in BOOLEAN, Ask(c, f) PROVE Typing'
    BY <1>2, AskType
  <1>3. ASSUME NEW c \in Callers, Steps(c) PROVE Typing'
    BY <1>3, PostType, DirectType, MainType, LocalType, AssistType, OpenRouterType,
       TryModelType, SupportType, TrySupportType, ApologiseType, AppendReplyType,
       StoreType, StoreFailsType DEF Steps
  <1> QED
    BY <1>1, <1>2, <1>3 DEF Next

\* History and calls keep their shapes (core/brain.py 428-732).
THEOREM BrainTypeOK == Spec => []TypeOK
  <1>1. Typing => TypeOK
    BY DEF Typing
  <1> QED
    BY InitType, NextType, <1>1, PTL DEF Spec

-----------------------------------------------------------------------------
(* The history is bounded                                                  *)

\* Whose reply is in the history without a failure to store it.
Kept == {c \in Callers : pc[c] = "store" \/ back[c] = "reply"}

\* A question is within the limit, and behind the last one there is a reply of each
\* caller and one more of every failure.
Bounded ==
  /\ \A c \in Callers : back[c] # "none" => pc[c] = "done"
  /\ \A i \in 1..Len(history) : history[i].role = "user" => i <= Limit
  /\ Len(history) <= Limit + Cardinality(Kept) + faults

Bounds == Typing /\ Bounded

LEMMA KeptFinite ==
    /\ IsFiniteSet(Kept) /\ Cardinality(Kept) \in Nat
    /\ Cardinality(Kept) <= Cardinality(Callers) /\ Cardinality(Callers) \in Nat
  <1>1. Kept \in SUBSET Callers
    BY DEF Kept
  <1> QED
    BY <1>1, FS_Subset, FS_CardinalityType

\* Nothing is posted, kept or dropped.
LEMMA SameHistory ==
    ASSUME Bounds, UNCHANGED <<history, faults>>, Kept' = Kept,
           \A c \in Callers : back'[c] # "none" => pc'[c] = "done"
    PROVE  Bounded'
  BY DEF Bounds, Bounded

LEMMA QuietBounded ==
    ASSUME Bounds, NEW c \in Callers,
           \/ \E f \in BOOLEAN : Ask(c, f)
           \/ Direct(c) \/ Main(c) \/ Local(c) \/ Assist(c) \/ OpenRouter(c)
           \/ TryModel(c) \/ Support(c) \/ TrySupport(c) \/ Apologise(c) \/ Store(c)
    PROVE  Bounded'
  <1>1. UNCHANGED <<history, faults>>
    BY DEF Ask, Direct, Main, Local, Assist, OpenRouter, TryModel, Support, TrySupport,
       Apologise, Store, call, record
  <1>2. \A d \in Callers \ {c} : pc'[d] = pc[d] /\ back'[d] = back[d]
    BY DEF Ask, Direct, Main, Answered, Local, Assist, OpenRouter, TryModel, NextModel, Support,
       TrySupport, Apologise, Store, Keep, Goto, record, Bounds, Typing, TypeOK
  <1>3. \/ pc[c] # "store" /\ pc[c] # "done" /\ pc'[c] # "store" /\ back'[c] = back[c]
        \/ pc[c] = "apologise" /\ pc'[c] = "done" /\ back'[c] = "apology"
        \/ pc[c] = "store" /\ pc'[c] = "done" /\ back'[c] = "reply"
    BY DEF Ask, Direct, Main, Answered, Local, Assist, OpenRouter, TryModel, NextModel, Support,
       TrySupport, Apologise, Store, Keep, Goto, record, Bounds, Typing, TypeOK
  <1>4. \A d \in Callers : d \in Kept' <=> d \in Kept
    BY <1>2, <1>3 DEF Kept, Bounds, Bounded
  <1>5. Kept' = Kept
    BY <1>4 DEF Kept
  <1>6. \A d \in Callers : back'[d] # "none" => pc'[d] = "done"
    BY <1>2, <1>3 DEF Bounds, Bounded
  <1> QED
    BY <1>1, <1>5, <1>6, SameHistory

LEMMA PostBounded ==
    ASSUME Bounds, NEW c \in Callers, Post(c)
    PROVE  Bounded'
  <1>1. /\ \A d \in Callers \ {c} : pc'[d] = pc[d]
        /\ pc'[c] \in {"direct", "main"} /\ pc[c] \in {"post_file", "post"}
        /\ back' = back /\ faults' = faults
    BY DEF Post, Goto, record, Bounds, Typing, TypeOK
  <1>2. Append(history, Question(c)) \in Seq(Entries)
    BY DEF Bounds, Typing, TypeOK, Question, Entries
  <1>3. Len(history') <= Limit
    <2>1. history' = Trim(Append(history, Question(c)))
      BY DEF Post
    <2>2. Len(Append(history, Question(c))) \in Nat
      BY <1>2
    <2>3. /\ Len(Append(history, Question(c))) <= Limit
             => Trim(Append(history, Question(c))) = Append(history, Question(c))
          /\ Len(Append(history, Question(c))) > Limit
             => Len(Trim(Append(history, Question(c)))) = Limit
      BY <1>2, TrimType
    <2>4. CASE Len(Append(history, Question(c))) <= Limit
      BY <2>1, <2>3, <2>4
    <2>5. CASE Len(Append(history, Question(c))) > Limit
      BY <2>1, <2>3, <2>5
    <2> QED
      BY <2>2, <2>4, <2>5
  <1>4. history' \in Seq(Entries)
    BY <1>2, TrimType DEF Post
  <1>5. faults \in Nat
    BY DEF Bounds, Typing, TypeOK
  <1>6. IsFiniteSet(Kept') /\ Cardinality(Kept') \in Nat
    <2>1. Kept' \in SUBSET Callers
      BY DEF Kept
    <2> QED
      BY <2>1, FS_Subset, FS_CardinalityType
  <1>7. Len(history') <= Limit + Cardinality(Kept') + faults'
    BY <1>1, <1>3, <1>4, <1>5, <1>6
  <1>8. \A i \in 1..Len(history') : i <= Limit
    BY <1>3, <1>4
  <1>9. \A d \in Callers : back'[d] # "none" => pc'[d] = "done"
    BY <1>1 DEF Bounds, Bounded
  <1> QED
    BY <1>7, <1>8, <1>9 DEF Bounded

LEMMA AppendBounded ==
    ASSUME Bounds, NEW c \in Callers, AppendReply(c)
    PROVE  Bounded'
  <1>1. /\ \A d \in Callers \ {c} : pc'[d] = pc[d]
        /\ pc'[c] = "store" /\ pc[c] = "keep"
        /\ back' = back /\ faults' = faults /\ history' = Append(history, Reply(c))
    BY DEF AppendReply, Goto, record, Bounds, Typing, TypeOK
  <1>2. c \notin Kept /\ Kept' = Kept \cup {c}
    BY <1>1 DEF Kept, Bounds, Bounded
  <1>3. Cardinality(Kept') = Cardinality(Kept) + 1
    BY <1>2, KeptFinite, FS_AddElement
  <1>4. history \in Seq(Entries) /\ Len(history) \in Nat /\ faults \in Nat
    BY DEF Bounds, Typing, TypeOK
  <1>5. Len(history') = Len(history) + 1
    BY <1>1, <1>4
  <1>6. Len(history') <= Limit + Cardinality(Kept') + faults'
    BY <1>1, <1>3, <1>4, <1>5, KeptFinite DEF Bounds, Bounded
  <1>7. \A i \in 1..Len(history') : history'[i].role = "user" => i <= Limit
    <2>1. \A i \in 1..Len(history') : i \in 1..Len(history) \/ i = Len(history) + 1
      BY <1>4, <1>5
    <2>2. history'[Len(history) + 1].role # "user"
      BY <1>1, <1>4 DEF Reply
    <2>3. \A i \in 1..Len(history) : history'[i] = history[i]
      BY <1>1, <1>4
    <2> QED
      BY <2>1, <2>2, <2>3 DEF Bounds, Bounded
  <1>8. \A d \in Callers : back'[d] # "none" => pc'[d] = "done"
    BY <1>1 DEF Bounds, Bounded
  <1> QED
    BY <1>6, <1>7, <1>8 DEF Bounded

LEMMA FailBounded ==
    ASSUME Bounds, NEW c \in Callers, StoreFails(c)
    PROVE  Bounded'
  <1>1. pc[c] = "store" /\ UNCHANGED <<history, back>> /\ faults' = faults + 1
    BY DEF StoreFails
  <1>2. via[c] \in {"direct", "main", "openrouter", "support"}
    BY DEF StoreFails, Bounds, Typing, TypeOK, Going
  <1>3. /\ pc'[c] \in {"post", "openrouter", "try_model", "support", "apologise"}
        /\ \A d \in Callers \ {c} : pc'[d] = pc[d]
    BY <1>2 DEF StoreFails, NextModel, Goto, Bounds, Typing, TypeOK
  <1>4. Kept' = Kept \ {c} /\ c \in Kept
    BY <1>1, <1>3 DEF Kept, Bounds, Bounded
  <1>5. Cardinality(Kept') = Cardinality(Kept) - 1
    BY <1>4, KeptFinite, FS_RemoveElement
  <1>6. Len(history) \in Nat /\ faults \in Nat
    BY DEF Bounds, Typing, TypeOK
  <1>7. Len(history') <= Limit + Cardinality(Kept') + faults'
    BY <1>1, <1>5, <1>6, KeptFinite DEF Bounds, Bounded
  <1>8. \A d \in Callers : back'[d] # "none" => pc'[d] = "done"
    BY <1>1, <1>3 DEF Bounds, Bounded
  <1> QED
    BY <1>1, <1>7, <1>8 DEF Bounds, Bounded

LEMMA NextBounded == Bounds /\ [Next]_vars => Bounds'
  <1> SUFFICES ASSUME Bounds, [Next]_vars PROVE Bounded'
    BY NextType DEF Bounds
  <1>1. CASE UNCHANGED vars
    BY <1>1, SameHistory DEF vars, record, Kept, Bounds, Bounded
  <1>2. ASSUME NEW c \in Callers, (\E f \in BOOLEAN : Ask(c, f)) \/ Steps(c) PROVE Bounded'
    BY <1>2, QuietBounded, PostBounded, AppendBounded, FailBounded DEF Steps
  <1> QED
    BY <1>1, <1>2 DEF Next

\* Replies are appended without trimming, and yet the history is bounded: what is
\* beyond the limit are replies, one of each caller and one for every failure to store
\* one (brain.py 487, 547, 652).
THEOREM BrainHistoryIsBounded == Spec => []HistoryIsBounded
  <1>1. Init => Bounds
    <2> SUFFICES ASSUME Init PROVE Bounded
      BY InitType DEF Bounds
    <2>1. history = <<>> /\ faults = 0 /\ \A c \in Callers : back[c] = "none"
      BY DEF Init
    <2>2. Len(history) = 0
      BY <2>1
    <2> QED
      BY <2>1, <2>2, KeptFinite DEF Bounded
  <1>2. Bounds => HistoryIsBounded
    <2> SUFFICES ASSUME Bounds PROVE HistoryIsBounded
      OBVIOUS
    <2>1. Len(history) \in Nat /\ faults \in Nat
      BY DEF Bounds, Typing, TypeOK
    <2>2. Len(history) <= Limit + Cardinality(Callers) + faults
      BY <2>1, KeptFinite DEF Bounds, Bounded
    <2> QED
      BY <2>2 DEF Bounds, Bounded, HistoryIsBounded
  <1> QED
    BY <1>1, <1>2, NextBounded, PTL DEF Spec

-----------------------------------------------------------------------------
(* Replies are remembered                                                  *)

Positions(h, c) == {i \in 1..Len(h) : h[i] = Reply(c)}

LEMMA PositionsType ==
    ASSUME NEW h \in Seq(Entries), NEW c
    PROVE  IsFiniteSet(Positions(h, c)) /\ Cardinality(Positions(h, c)) \in Nat
  <1>1. IsFiniteSet(1..Len(h))
    BY FS_Interval
  <1>2. Positions(h, c) \in SUBSET (1..Len(h))
    BY DEF Positions
  <1> QED
    BY <1>1, <1>2, FS_Subset, FS_CardinalityType

\* Somebody else's entry at the end does not count.
LEMMA AppendOther ==
    ASSUME NEW h \in Seq(Entries), NEW e \in Entries, NEW c \in Callers, e # Reply(c)
    PROVE  Positions(Append(h, e), c) = Positions(h, c)
  BY DEF Positions

LEMMA AppendOwn ==
    ASSUME NEW h \in Seq(Entries), NEW c \in Callers
    PROVE  Cardinality(Positions(Append(h, Reply(c)), c)) = Cardinality(Positions(h, c)) + 1
  <1>1. Reply(c) \in Entries
    BY DEF Reply, Entries
  <1>2. Len(h) \in Nat /\ Len(Append(h, Reply(c))) = Len(h) + 1
    BY <1>1
  <1>3. Positions(Append(h, Reply(c)), c) = Positions(h, c) \cup {Len(h) + 1}
    BY <1>1, <1>2 DEF Positions
  <1>4. Len(h) + 1 \notin Positions(h, c)
    BY <1>2 DEF Positions
  <1> QED
    BY <1>3, <1>4, PositionsType, FS_AddElement

\* What is popped from the front takes replies with it and brings none.
LEMMA TrimFewer ==
    ASSUME NEW h \in Seq(Entries), NEW c \in Callers
    PROVE  Cardinality(Positions(Trim(h), c)) <= Cardinality(Positions(h, c))
  <1>1. CASE Len(h) <= Limit
    <2>1. Trim(h) = h
      BY <1>1, TrimType
    <2> QED
      BY <2>1, PositionsType
  <1>2. CASE Len(h) > Limit
    <2> DEFINE k == Len(h) - Limit
               f == [i \in Positions(Trim(h), c) |-> k + i]
    <2>1. /\ Len(Trim(h)) = Limit /\ Len(h) \in Nat
          /\ \A i \in 1..Limit : Trim(h)[i] = h[k + i]
      BY <1>2, TrimType
    <2>2. \A i \in Positions(Trim(h), c) : i \in 1..Limit /\ k + i \in Positions(h, c)
      BY <1>2, <2>1 DEF Positions
    <2>3. f \in [Positions(Trim(h), c) -> Positions(h, c)]
      BY <2>2
    <2>4. \A i, j \in Positions(Trim(h), c) : f[i] = f[j] => i = j
      BY <2>1, <2>2
    <2>5. f \in Injection(Positions(Trim(h), c), Positions(h, c))
      BY <2>3, <2>4 DEF Injection, IsInjective
    <2> QED
      BY <2>5, PositionsType, FS_Injection
  <1> QED
    BY <1>1, <1>2

Remembered ==
  /\ \A c \in Callers : logged[c] = IF back[c] = "reply" THEN 1 ELSE 0
  /\ \A c \in Callers :
       Cardinality(Positions(history, c)) <= (IF c \in Kept THEN 1 ELSE 0) + failed[c]

Remembers == Bounds /\ Remembered

LEMMA QuietRemembers ==
    ASSUME Remembers, NEW c \in Callers,
           \/ \E f \in BOOLEAN : Ask(c, f)
           \/ Direct(c) \/ Main(c) \/ Local(c) \/ Assist(c) \/ OpenRouter(c)
           \/ TryModel(c) \/ Support(c) \/ TrySupport(c) \/ Apologise(c) \/ Store(c)
    PROVE  Remembered'
  <1>1. UNCHANGED <<history, failed>>
    BY DEF Ask, Direct, Main, Local, Assist, OpenRouter, TryModel, Support, TrySupport,
       Apologise, Store, call, record
  <1>2. \A d \in Callers \ {c} : pc'[d] = pc[d] /\ back'[d] = back[d] /\ logged'[d] = logged[d]
    BY DEF Ask, Direct, Main, Answered, Local, Assist, OpenRouter, TryModel, NextModel, Support,
       TrySupport, Apologise, Store, Keep, Goto, record, Remembers, Bounds, Typing, TypeOK
  <1>3. \/ /\ pc[c] # "store" /\ pc[c] # "done" /\ pc'[c] # "store"
           /\ back'[c] = back[c] /\ logged'[c] = logged[c]
        \/ pc[c] = "apologise" /\ back'[c] = "apology" /\ logged'[c] = logged[c] /\ pc'[c] = "done"
        \/ pc[c] = "store" /\ back'[c] = "reply" /\ logged'[c] = logged[c] + 1
    BY DEF Ask, Direct, Main, Answered, Local, Assist, OpenRouter, TryModel, NextModel, Support,
       TrySupport, Apologise, Store, Keep, Goto, record, Remembers, Bounds, Typing, TypeOK
  <1>4. \A d \in Callers : d \in Kept' <=> d \in Kept
    BY <1>2, <1>3 DEF Kept, Remembers, Bounds, Bounded
  <1>5. \A d \in Callers : logged'[d] = IF back'[d] = "reply" THEN 1 ELSE 0
    BY <1>2, <1>3 DEF Remembers, Bounds, Bounded, Remembered
  <1> QED
    BY <1>1, <1>4, <1>5 DEF Remembers, Remembered

LEMMA PostRemembers ==
    ASSUME Remembers, NEW c \in Callers, Post(c)
    PROVE  Remembered'
  <1>1. /\ \A d \in Callers \ {c} : pc'[d] = pc[d]
        /\ pc'[c] \in {"direct", "main"} /\ pc[c] \in {"post_file", "post"}
        /\ UNCHANGED <<back, logged, failed>>
        /\ history' = Trim(Append(history, Question(c)))
    BY DEF Post, Goto, record, Remembers, Bounds, Typing, TypeOK
  <1>2. \A d \in Callers : d \in Kept' <=> d \in Kept
    BY <1>1 DEF Kept
  <1>3. history \in Seq(Entries) /\ \A d \in Callers : failed[d] \in Nat
    BY DEF Remembers, Bounds, Typing, TypeOK
  <1>4. ASSUME NEW d \in Callers
        PROVE  Cardinality(Positions(history', d)) <= Cardinality(Positions(history, d))
    <2>1. Question(c) \in Entries /\ Question(c) # Reply(d)
      BY DEF Question, Entries, Reply
    <2>2. Append(history, Question(c)) \in Seq(Entries)
      BY <1>3, <2>1
    <2>3. Positions(Append(history, Question(c)), d) = Positions(history, d)
      BY <1>3, <2>1, AppendOther
    <2> QED
      BY <1>1, <2>2, <2>3, TrimFewer
  <1>5. \A d \in Callers : Cardinality(Positions(history, d)) \in Nat
    BY <1>3, PositionsType
  <1>6. \A d \in Callers : Cardinality(Positions(history', d)) \in Nat
    <2>1. history' \in Seq(Entries)
      BY NextType DEF Remembers, Bounds, Typing, TypeOK, Next, Steps
    <2> QED
      BY <2>1, PositionsType
  <1>7. \A d \in Callers :
          Cardinality(Positions(history', d)) <= (IF d \in Kept' THEN 1 ELSE 0) + failed'[d]
    BY <1>1, <1>2, <1>3, <1>4, <1>5, <1>6 DEF Remembers, Remembered
  <1>8. \A d \in Callers : logged'[d] = IF back'[d] = "reply" THEN 1 ELSE 0
    BY <1>1 DEF Remembers, Remembered
  <1> QED
    BY <1>7, <1>8 DEF Remembered

LEMMA AppendRemembers ==
    ASSUME Remembers, NEW c \in Callers, AppendReply(c)
    PROVE  Remembered'
  <1>1. /\ \A d \in Callers \ {c} : pc'[d] = pc[d]
        /\ pc'[c] = "store" /\ pc[c] = "keep"
        /\ UNCHANGED <<back, logged, failed>> /\ history' = Append(history, Reply(c))
    BY DEF AppendReply, Goto, record, Remembers, Bounds, Typing, TypeOK
  <1>2. c \notin Kept /\ c \in Kept' /\ \A d \in Callers \ {c} : d \in Kept' <=> d \in Kept
    BY <1>1 DEF Kept, Remembers, Bounds, Bounded
  <1>3. history \in Seq(Entries) /\ \A d \in Callers : failed[d] \in Nat
    BY DEF Remembers, Bounds, Typing, TypeOK
  <1>4. Cardinality(Positions(history', c)) = Cardinality(Positions(history, c)) + 1
    BY <1>1, <1>3, AppendOwn
  <1>5. \A d \in Callers \ {c} : Positions(history', d) = Positions(history, d)
    <2>1. Reply(c) \in Entries /\ \A d \in Callers \ {c} : Reply(c) # Reply(d)
      BY DEF Reply, Entries
    <2> QED
      BY <1>1, <1>3, <2>1, AppendOther
  <1>6. \A d \in Callers : Cardinality(Positions(history, d)) \in Nat
    BY <1>3, PositionsType
  <1>7. \A d \in Callers :
          Cardinality(Positions(history', d)) <= (IF d \in Kept' THEN 1 ELSE 0) + failed'[d]
    BY <1>1, <1>2, <1>3, <1>4, <1>5, <1>6 DEF Remembers, Remembered
  <1>8. \A d \in Callers : logged'[d] = IF back'[d] = "reply" THEN 1 ELSE 0
    BY <1>1 DEF Remembers, Remembered
  <1> QED
    BY <1>7, <1>8 DEF Remembered

LEMMA FailRemembers ==
    ASSUME Remembers, NEW c \in Callers, StoreFails(c)
    PROVE  Remembered'
  <1>1. pc[c] = "store" /\ UNCHANGED <<history, back, logged>>
    BY DEF StoreFails
  <1>2. via[c] \in {"direct", "main", "openrouter", "support"}
    BY DEF StoreFails, Remembers, Bounds, Typing, TypeOK, Going
  <1>3. /\ pc'[c] \in {"post", "openrouter", "try_model", "support", "apologise"}
        /\ \A d \in Callers \ {c} : pc'[d] = pc[d]
    BY <1>2 DEF StoreFails, NextModel, Goto, Remembers, Bounds, Typing, TypeOK
  <1>4. failed'[c] = failed[c] + 1 /\ \A d \in Callers \ {c} : failed'[d] = failed[d]
    BY DEF StoreFails, Remembers, Bounds, Typing, TypeOK
  <1>5. c \in Kept /\ c \notin Kept' /\ \A d \in Callers \ {c} : d \in Kept' <=> d \in Kept
    BY <1>1, <1>3 DEF Kept, Remembers, Bounds, Bounded
  <1>6. \A d \in Callers : failed[d] \in Nat
    BY DEF Remembers, Bounds, Typing, TypeOK
  <1>7. \A d \in Callers :
          Cardinality(Positions(history', d)) <= (IF d \in Kept' THEN 1 ELSE 0) + failed'[d]
    BY <1>1, <1>4, <1>5, <1>6 DEF Remembers, Remembered
  <1>8. \A d \in Callers : logged'[d] = IF back'[d] = "reply" THEN 1 ELSE 0
    BY <1>1 DEF Remembers, Remembered
  <1> QED
    BY <1>7, <1>8 DEF Remembered

LEMMA NextRemembers == Remembers /\ [Next]_vars => Remembers'
  <1> SUFFICES ASSUME Remembers, [Next]_vars PROVE Remembered'
    BY NextBounded DEF Remembers
  <1>1. CASE UNCHANGED vars
    BY <1>1 DEF vars, record, Kept, Remembers, Remembered
  <1>2. ASSUME NEW c \in Callers, (\E f \in BOOLEAN : Ask(c, f)) \/ Steps(c) PROVE Remembered'
    BY <1>2, QuietRemembers, PostRemembers, AppendRemembers, FailRemembers DEF Steps
  <1> QED
    BY <1>1, <1>2 DEF Next

LEMMA InitRemembers == Init => Remembers
  <1> SUFFICES ASSUME Init PROVE Remembers
    OBVIOUS
  <1>1. /\ history = <<>> /\ faults = 0 /\ Len(history) = 0
        /\ \A c \in Callers : back[c] = "none" /\ logged[c] = 0 /\ failed[c] = 0
    BY DEF Init
  <1>2. Bounds
    BY <1>1, InitType, KeptFinite DEF Bounds, Bounded
  <1>3. \A c \in Callers : Cardinality(Positions(history, c)) = 0
    <2>1. \A c \in Callers : Positions(history, c) = {}
      BY <1>1 DEF Positions
    <2> QED
      BY <2>1, FS_EmptySet
  <1> QED
    BY <1>1, <1>2, <1>3 DEF Remembers, Remembered

\* A caller that got a reply has it in memory exactly once, whichever engine it came
\* from, one that got an apology has none, and a reply is in the history a second time
\* only when storing it failed (brain.py 510-515, 651-656, 687-693, 720-726).
THEOREM BrainRepliesAreRemembered == Spec => []RepliesAreRemembered
  <1>1. Remembers => RepliesAreRemembered
    <2> SUFFICES ASSUME Remembers, NEW c \in Callers
                 PROVE  /\ pc[c] = "done" => logged[c] = (IF back[c] = "reply" THEN 1 ELSE 0)
                        /\ Replies(c) <= 1 + failed[c]
      BY DEF RepliesAreRemembered
    <2>1. history \in Seq(Entries) /\ failed[c] \in Nat
      BY DEF Remembers, Bounds, Typing, TypeOK
    <2>2. Replies(c) = Cardinality(Positions(history, c))
      BY DEF Replies, Positions
    <2>3. Cardinality(Positions(history, c)) \in Nat
      BY <2>1, PositionsType
    <2> QED
      BY <2>1, <2>2, <2>3 DEF Remembers, Remembered
  <1> QED
    BY InitRemembers, NextRemembers, <1>1, PTL DEF Spec

=============================================================================
