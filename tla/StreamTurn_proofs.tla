-------------------------- MODULE StreamTurn_proofs --------------------------
(***************************************************************************)
(* Proofs about StreamTurn for every value of its constants.               *)
(***************************************************************************)
EXTENDS StreamTurnProps, SequenceTheorems, TLAPS

\* What a turn keeps: a count of pieces and one of calls.
KeptType == [pieces : 0..MaxPieces, calls : Nat]

USE TurnsAssumption DEF TurnsAssumption, KeptType

-----------------------------------------------------------------------------
(* What a turn keeps, by where it is.                                      *)

Before == {"start", "posted", "read"}

\* Nothing has happened before the stream begins.
Fresh(t) ==
  pc[t] \in Before =>
    /\ kept[t] = Nothing /\ shown[t] = 0 /\ ran[t] = 0
    /\ collected[t] = 0 /\ part[t] = 0
    /\ worker[t] = "none" /\ events[t] = <<>>

\* An ordinary turn keeps each piece before the client has it, and each call when
\* it has run.
OrdinaryInv(t) ==
  /\ pc[t] \notin DeepSuspended
  /\ worker[t] = "none" /\ events[t] = <<>>
  /\ kept[t].calls = ran[t]
  /\ shown[t] <= kept[t].pieces
  /\ collected[t] <= kept[t].pieces
  /\ pc[t] = "chunk" => shown[t] < kept[t].pieces
  /\ pc[t] \in {"engine", "chunk", "call", "tool", "called"} =>
       kept[t].pieces = collected[t] + part[t]
  /\ pc[t] = "round" => kept[t].pieces = collected[t]
  /\ pc[t] \in {"call", "tool"} => todo[t] > 0

\* The queue of a deep turn holds the calls its generator has not heard of, and
\* then the end of the thread.
DeepInv(t) ==
  /\ pc[t] \in Before \cup DeepSuspended \cup {"over"}
  /\ pc[t] \in Before <=> worker[t] = "none"
  /\ worker[t] = "run" =>
       /\ pc[t] # "words"
       /\ \A i \in DOMAIN events[t] : events[t][i] = "tool"
       /\ ran[t] = kept[t].calls + Len(events[t])
  /\ worker[t] = "end" /\ pc[t] \in {"poll", "show"} =>
       /\ events[t] # <<>>
       /\ \A i \in DOMAIN events[t] : events[t][i] = "tool" <=> i < Len(events[t])
       /\ ran[t] + 1 = kept[t].calls + Len(events[t])
  /\ pc[t] = "words" => ran[t] = kept[t].calls /\ kept[t].pieces = MaxPieces

\* A turn has at most one reply in the conversation, when it is over, made of what
\* it kept.
ReplyInv(t) ==
  /\ Replies(t) # {} => pc[t] = "over" /\ (t \in Deep => worker[t] = "end")
  /\ \A i, j \in Replies(t) : i = j
  /\ \A i \in Replies(t) : rows[i].pieces >= shown[t] /\ rows[i].calls = ran[t]
  /\ pc[t] = "over" /\ t \notin Deep /\ kept[t].pieces > 0 => Replies(t) # {}

TurnInv(t) ==
  /\ Fresh(t)
  /\ t \notin Deep => OrdinaryInv(t)
  /\ t \in Deep => DeepInv(t)
  /\ ReplyInv(t)

Inv == TypeOK /\ \A t \in Turns : TurnInv(t)

-----------------------------------------------------------------------------
(* The conversation.                                                       *)

LEMMA RemoveAtType ==
    ASSUME NEW S, NEW s \in Seq(S), NEW i \in DOMAIN s
    PROVE  RemoveAt(s, i) \in Seq(S)
  <1>1. i \in 1..Len(s) /\ Len(s) \in Nat /\ \A j \in 1..Len(s) : s[j] \in S
    OBVIOUS
  <1>2. SubSeq(s, 1, i - 1) \in Seq(S)
    <2>1. 1 \in Int /\ i - 1 \in Int /\ \A j \in 1..(i - 1) : s[j] \in S
      BY <1>1
    <2> QED
      BY <2>1, SubSeqProperties
  <1>3. SubSeq(s, i + 1, Len(s)) \in Seq(S)
    <2>1. i + 1 \in Int /\ Len(s) \in Int /\ \A j \in (i + 1)..Len(s) : s[j] \in S
      BY <1>1
    <2> QED
      BY <2>1, SubSeqProperties
  <1> QED
    BY <1>2, <1>3, ConcatProperties DEF RemoveAt

\* A row that is not a reply of t leaves the replies of t where they are.
LEMMA RowsOfOthers ==
    ASSUME NEW t, NEW r \in Row, rows \in Seq(Row), rows' = Append(rows, r),
           r.from = "user" \/ r.of # t
    PROVE  Replies(t)' = Replies(t) /\ \A i \in Replies(t) : rows'[i] = rows[i]
  <1>1. /\ Len(rows') = Len(rows) + 1 /\ rows' \in Seq(Row)
        /\ \A i \in 1..Len(rows) : rows'[i] = rows[i]
        /\ rows'[Len(rows) + 1] = r
    BY AppendProperties
  <1>2. DOMAIN rows = 1..Len(rows) /\ DOMAIN rows' = 1..(Len(rows) + 1) /\ Len(rows) \in Nat
    BY <1>1
  <1> QED
    BY <1>1, <1>2 DEF Replies

\* A reply of t is one more.
LEMMA RowOfMine ==
    ASSUME NEW t, NEW r \in Row, rows \in Seq(Row), rows' = Append(rows, r),
           r.from = "agent", r.of = t
    PROVE  /\ Replies(t)' = Replies(t) \cup {Len(rows) + 1}
           /\ rows'[Len(rows) + 1] = r
  <1>1. /\ Len(rows') = Len(rows) + 1 /\ rows' \in Seq(Row)
        /\ \A i \in 1..Len(rows) : rows'[i] = rows[i]
        /\ rows'[Len(rows) + 1] = r
    BY AppendProperties
  <1>2. DOMAIN rows = 1..Len(rows) /\ DOMAIN rows' = 1..(Len(rows) + 1) /\ Len(rows) \in Nat
    BY <1>1
  <1> QED
    BY <1>1, <1>2 DEF Replies

LEMMA SameRows ==
    ASSUME NEW t, rows' = rows
    PROVE  Replies(t)' = Replies(t)
  BY DEF Replies

\* A step of one turn leaves what is known of another as it was.
Same(u) ==
  /\ pc'[u] = pc[u] /\ kept'[u] = kept[u] /\ shown'[u] = shown[u] /\ ran'[u] = ran[u]
  /\ collected'[u] = collected[u] /\ part'[u] = part[u] /\ todo'[u] = todo[u]
  /\ worker'[u] = worker[u] /\ events'[u] = events[u]

LEMMA OthersStay ==
    ASSUME NEW u, TurnInv(u), Same(u),
           Replies(u)' = Replies(u), \A i \in Replies(u) : rows'[i] = rows[i]
    PROVE  TurnInv(u)'
  <1>1. Fresh(u)'
    BY DEF TurnInv, Same, Fresh
  <1>2. u \notin Deep => OrdinaryInv(u)'
    BY DEF TurnInv, Same, OrdinaryInv
  <1>3. u \in Deep => DeepInv(u)'
    BY DEF TurnInv, Same, DeepInv
  <1>4. ReplyInv(u)'
    BY DEF TurnInv, Same, ReplyInv
  <1> QED
    BY <1>1, <1>2, <1>3, <1>4 DEF TurnInv

-----------------------------------------------------------------------------
(* The turn that steps keeps its invariant and leaves the others alone.    *)

RowsFor(t) ==
  \A u \in Turns \ {t} : Replies(u)' = Replies(u) /\ \A i \in Replies(u) : rows'[i] = rows[i]

\* A good step of t.
StepOf(t) == TypeOK' /\ TurnInv(t)' /\ (\A u \in Turns \ {t} : Same(u)) /\ RowsFor(t)

LEMMA InitInv == Init => Inv
  <1> SUFFICES ASSUME Init PROVE Inv
    OBVIOUS
  <1>1. TypeOK
    BY DEF Init, Nothing, Labels, TypeOK
  <1>2. \A t \in Turns : TurnInv(t)
    BY DEF Init, Nothing, Before, DeepSuspended, Fresh, OrdinaryInv, DeepInv, Replies,
       ReplyInv, TurnInv
  <1> QED
    BY <1>1, <1>2 DEF Inv

LEMMA TypesOfTurn ==
    ASSUME TypeOK, NEW t \in Turns
    PROVE  /\ pc[t] \in Labels /\ round[t] \in 0..MaxRounds
           /\ kept[t] \in KeptType
           /\ kept[t].pieces \in 0..MaxPieces /\ kept[t].calls \in Nat
           /\ collected[t] \in 0..MaxPieces /\ part[t] \in 0..MaxPieces
           /\ todo[t] \in 0..MaxCalls /\ events[t] \in Seq({"tool", "done"})
           /\ answering[t] \in SUBSET (Turns \cup {Tick})
           /\ shown[t] \in 0..MaxPieces /\ ran[t] \in Nat
           /\ worker[t] \in {"none", "run", "end"}
  BY DEF TypeOK

LEMMA PostKeeps ==
    ASSUME TypeOK, NEW t \in Turns, TurnInv(t),
           Post(t)
    PROVE  StepOf(t)
  <1>1. /\ pc[t] = "start"
        /\ pc' = [pc EXCEPT ![t] = "posted"]
        /\ status' = [status EXCEPT ![t] = "pending"]
        /\ loop' = t
        /\ rows' = Append(rows, Asked(t))
        /\ UNCHANGED <<prompt, round, kept, collected, part, todo, worker, events, tick,
                       answering, shown, ran>>
    BY DEF Post, stream, deep, record, Goto, At
  <1>2. /\ "posted" \in Labels
        /\ "pending" \in {"unsent", "pending", "delivered"}
        /\ Asked(t) \in Row
    BY <1>1, TypesOfTurn DEF Labels, TurnInv, Fresh, Before, Nothing, Row, Asked
  <1>3. TypeOK'
    <2>1. rows' \in Seq(Row)
      BY <1>1, <1>2, AppendProperties DEF TypeOK
    <2> QED
      BY <1>1, <1>2, <2>1 DEF TypeOK
  <1>4. /\ pc'[t] = "posted"
        /\ kept'[t] = kept[t]
        /\ shown'[t] = shown[t]
        /\ ran'[t] = ran[t]
        /\ collected'[t] = collected[t]
        /\ part'[t] = part[t]
        /\ todo'[t] = todo[t]
        /\ worker'[t] = worker[t]
        /\ events'[t] = events[t]
    BY <1>1 DEF TypeOK
  <1>5. \A u \in Turns \ {t} : Same(u)
    BY <1>1 DEF TypeOK, Same
  <1>6. Replies(t)' = Replies(t) /\ \A i \in Replies(t) : rows'[i] = rows[i]
    BY <1>1, <1>2, RowsOfOthers DEF TypeOK, Asked
  <1>7. RowsFor(t)
    <2>1. \A u \in Turns \ {t} : /\ Replies(u)' = Replies(u)
                                 /\ \A i \in Replies(u) : rows'[i] = rows[i]
      BY <1>1, <1>2, RowsOfOthers DEF TypeOK, Asked
    <2> QED
      BY <2>1 DEF RowsFor
  <1>8. TurnInv(t)'
    <2>1. Fresh(t)'
      BY <1>1, <1>2, <1>4 DEF TurnInv, Fresh, Before, Nothing
    <2>2. t \notin Deep => OrdinaryInv(t)'
      BY <1>1, <1>2, <1>4, TypesOfTurn DEF TurnInv, OrdinaryInv, Fresh, Before, DeepSuspended,
         Nothing
    <2>3. t \in Deep => DeepInv(t)'
      BY <1>1, <1>2, <1>4 DEF TurnInv, DeepInv, Fresh, Before, DeepSuspended, Nothing
    <2>4. ReplyInv(t)'
      BY <1>1, <1>2, <1>4, <1>6, TypesOfTurn DEF TurnInv, ReplyInv, Fresh, OrdinaryInv,
         DeepInv, Before, DeepSuspended, Nothing
    <2> QED
      BY <2>1, <2>2, <2>3, <2>4 DEF TurnInv
  <1> QED
    BY <1>3, <1>5, <1>7, <1>8 DEF StepOf

LEMMA MarkDeliveredOfOrdinary ==
    ASSUME TypeOK, NEW t \in Turns, TurnInv(t),
           t \notin Deep, MarkDelivered(t)
    PROVE  StepOf(t)
  <1>1. /\ pc[t] = "read"
        /\ t \notin Deep
        /\ pc' = [pc EXCEPT ![t] = "round"]
        /\ status' = [status EXCEPT ![t] = "delivered"]
        /\ answering' = [answering EXCEPT ![t] = answering[t] \cup {t}]
        /\ loop' = None
        /\ UNCHANGED <<rows, prompt, round, kept, collected, part, todo, worker, events, tick,
                       shown, ran>>
    BY DEF MarkDelivered, stream, Goto
  <1>2. /\ "round" \in Labels
        /\ "delivered" \in {"unsent", "pending", "delivered"}
        /\ answering[t] \cup {t} \in SUBSET (Turns \cup {Tick})
    BY <1>1, TypesOfTurn DEF Labels, TurnInv, Fresh, Before, Nothing
  <1>3. TypeOK'
    BY <1>1, <1>2 DEF TypeOK
  <1>4. /\ pc'[t] = "round"
        /\ kept'[t] = kept[t]
        /\ shown'[t] = shown[t]
        /\ ran'[t] = ran[t]
        /\ collected'[t] = collected[t]
        /\ part'[t] = part[t]
        /\ todo'[t] = todo[t]
        /\ worker'[t] = worker[t]
        /\ events'[t] = events[t]
    BY <1>1 DEF TypeOK
  <1>5. \A u \in Turns \ {t} : Same(u)
    BY <1>1 DEF TypeOK, Same
  <1>6. Replies(t)' = Replies(t) /\ \A i \in Replies(t) : rows'[i] = rows[i]
    BY <1>1, SameRows
  <1>7. RowsFor(t)
    BY <1>1, SameRows DEF RowsFor
  <1>8. TurnInv(t)'
    <2>1. Fresh(t)'
      BY <1>1, <1>2, <1>4 DEF TurnInv, Fresh, Before, Nothing
    <2>2. t \notin Deep => OrdinaryInv(t)'
      BY <1>1, <1>2, <1>4, TypesOfTurn DEF TurnInv, OrdinaryInv, Fresh, Before, DeepSuspended,
         Nothing
    <2>3. t \in Deep => DeepInv(t)'
      BY <1>1, <1>2, <1>4 DEF TurnInv, DeepInv, Fresh, Before, DeepSuspended, Nothing
    <2>4. ReplyInv(t)'
      BY <1>1, <1>2, <1>4, <1>6, TypesOfTurn DEF TurnInv, ReplyInv, Fresh, OrdinaryInv,
         DeepInv, Before, DeepSuspended, Nothing
    <2> QED
      BY <2>1, <2>2, <2>3, <2>4 DEF TurnInv
  <1> QED
    BY <1>3, <1>5, <1>7, <1>8 DEF StepOf

LEMMA MarkDeliveredOfDeep ==
    ASSUME TypeOK, NEW t \in Turns, TurnInv(t),
           t \in Deep, MarkDelivered(t)
    PROVE  StepOf(t)
  <1>1. /\ pc[t] = "read"
        /\ t \in Deep
        /\ pc' = [pc EXCEPT ![t] = "poll"]
        /\ status' = [status EXCEPT ![t] = "delivered"]
        /\ answering' = [answering EXCEPT ![t] = answering[t] \cup {t}]
        /\ worker' = [worker EXCEPT ![t] = "run"]
        /\ loop' = None
        /\ UNCHANGED <<rows, prompt, round, kept, collected, part, todo, events, tick, shown,
                       ran>>
    BY DEF MarkDelivered, stream, Goto
  <1>2. /\ "poll" \in Labels
        /\ "delivered" \in {"unsent", "pending", "delivered"}
        /\ answering[t] \cup {t} \in SUBSET (Turns \cup {Tick})
        /\ "run" \in {"none", "run", "end"}
    BY <1>1, TypesOfTurn DEF Labels, TurnInv, Fresh, Before, Nothing
  <1>3. TypeOK'
    BY <1>1, <1>2 DEF TypeOK
  <1>4. /\ pc'[t] = "poll"
        /\ kept'[t] = kept[t]
        /\ shown'[t] = shown[t]
        /\ ran'[t] = ran[t]
        /\ collected'[t] = collected[t]
        /\ part'[t] = part[t]
        /\ todo'[t] = todo[t]
        /\ worker'[t] = "run"
        /\ events'[t] = events[t]
    BY <1>1 DEF TypeOK
  <1>5. \A u \in Turns \ {t} : Same(u)
    BY <1>1 DEF TypeOK, Same
  <1>6. Replies(t)' = Replies(t) /\ \A i \in Replies(t) : rows'[i] = rows[i]
    BY <1>1, SameRows
  <1>7. RowsFor(t)
    BY <1>1, SameRows DEF RowsFor
  <1>8. TurnInv(t)'
    <2>1. Fresh(t)'
      BY <1>1, <1>2, <1>4 DEF TurnInv, Fresh, Before, Nothing
    <2>2. t \notin Deep => OrdinaryInv(t)'
      BY <1>1, <1>2, <1>4, TypesOfTurn DEF TurnInv, OrdinaryInv, Fresh, Before, DeepSuspended,
         Nothing
    <2>3. t \in Deep => DeepInv(t)'
      BY <1>1, <1>2, <1>4 DEF TurnInv, DeepInv, Fresh, Before, DeepSuspended, Nothing
    <2>4. ReplyInv(t)'
      BY <1>1, <1>2, <1>4, <1>6, TypesOfTurn DEF TurnInv, ReplyInv, Fresh, OrdinaryInv,
         DeepInv, Before, DeepSuspended, Nothing
    <2> QED
      BY <2>1, <2>2, <2>3, <2>4 DEF TurnInv
  <1> QED
    BY <1>3, <1>5, <1>7, <1>8 DEF StepOf

LEMMA NextRoundBegins ==
    ASSUME TypeOK, NEW t \in Turns, TurnInv(t),
           round[t] < MaxRounds, NextRound(t)
    PROVE  StepOf(t)
  <1>1. /\ pc[t] = "round"
        /\ round[t] < MaxRounds
        /\ pc' = [pc EXCEPT ![t] = "engine"]
        /\ round' = [round EXCEPT ![t] = round[t] + 1]
        /\ part' = [part EXCEPT ![t] = 0]
        /\ UNCHANGED <<rows, status, loop, prompt, kept, collected, todo, worker, events, tick,
                       answering, shown, ran>>
    BY DEF NextRound, table, deep, record, Goto, Add, At
  <1>2. /\ "engine" \in Labels
        /\ round[t] + 1 \in 0..MaxRounds
        /\ 0 \in 0..MaxPieces
    BY <1>1, TypesOfTurn DEF Labels, TurnInv, OrdinaryInv, DeepInv
  <1>3. TypeOK'
    BY <1>1, <1>2 DEF TypeOK
  <1>4. /\ pc'[t] = "engine"
        /\ kept'[t] = kept[t]
        /\ shown'[t] = shown[t]
        /\ ran'[t] = ran[t]
        /\ collected'[t] = collected[t]
        /\ part'[t] = 0
        /\ todo'[t] = todo[t]
        /\ worker'[t] = worker[t]
        /\ events'[t] = events[t]
    BY <1>1 DEF TypeOK
  <1>5. \A u \in Turns \ {t} : Same(u)
    BY <1>1 DEF TypeOK, Same
  <1>6. Replies(t)' = Replies(t) /\ \A i \in Replies(t) : rows'[i] = rows[i]
    BY <1>1, SameRows
  <1>7. RowsFor(t)
    BY <1>1, SameRows DEF RowsFor
  <1>8. TurnInv(t)'
    <2>1. Fresh(t)'
      BY <1>1, <1>2, <1>4 DEF TurnInv, Fresh, Before, Nothing
    <2>2. t \notin Deep => OrdinaryInv(t)'
      BY <1>1, <1>2, <1>4, TypesOfTurn DEF TurnInv, OrdinaryInv, DeepSuspended
    <2>3. t \in Deep => DeepInv(t)'
      BY <1>1, <1>2, <1>4 DEF TurnInv, DeepInv, Before, DeepSuspended
    <2>4. ReplyInv(t)'
      BY <1>1, <1>2, <1>4, <1>6, TypesOfTurn DEF TurnInv, ReplyInv, OrdinaryInv, DeepInv,
         Before, DeepSuspended
    <2> QED
      BY <2>1, <2>2, <2>3, <2>4 DEF TurnInv
  <1> QED
    BY <1>3, <1>5, <1>7, <1>8 DEF StepOf

LEMMA NextRoundStops ==
    ASSUME TypeOK, NEW t \in Turns, TurnInv(t),
           ~(round[t] < MaxRounds), NextRound(t)
    PROVE  StepOf(t)
  <1>1. /\ pc[t] = "round"
        /\ pc' = [pc EXCEPT ![t] = "final"]
        /\ UNCHANGED <<rows, status, loop, prompt, round, kept, collected, part, todo, worker,
                       events, tick, answering, shown, ran>>
    BY DEF NextRound, table, deep, record, Goto, Add, At
  <1>2. /\ "final" \in Labels
    BY DEF Labels
  <1>3. TypeOK'
    BY <1>1, <1>2 DEF TypeOK
  <1>4. /\ pc'[t] = "final"
        /\ kept'[t] = kept[t]
        /\ shown'[t] = shown[t]
        /\ ran'[t] = ran[t]
        /\ collected'[t] = collected[t]
        /\ part'[t] = part[t]
        /\ todo'[t] = todo[t]
        /\ worker'[t] = worker[t]
        /\ events'[t] = events[t]
    BY <1>1 DEF TypeOK
  <1>5. \A u \in Turns \ {t} : Same(u)
    BY <1>1 DEF TypeOK, Same
  <1>6. Replies(t)' = Replies(t) /\ \A i \in Replies(t) : rows'[i] = rows[i]
    BY <1>1, SameRows
  <1>7. RowsFor(t)
    BY <1>1, SameRows DEF RowsFor
  <1>8. TurnInv(t)'
    <2>1. Fresh(t)'
      BY <1>1, <1>2, <1>4 DEF TurnInv, Fresh, Before, Nothing
    <2>2. t \notin Deep => OrdinaryInv(t)'
      BY <1>1, <1>2, <1>4, TypesOfTurn DEF TurnInv, OrdinaryInv, DeepSuspended
    <2>3. t \in Deep => DeepInv(t)'
      BY <1>1, <1>2, <1>4 DEF TurnInv, DeepInv, Before, DeepSuspended
    <2>4. ReplyInv(t)'
      BY <1>1, <1>2, <1>4, <1>6, TypesOfTurn DEF TurnInv, ReplyInv, OrdinaryInv, DeepInv,
         Before, DeepSuspended
    <2> QED
      BY <2>1, <2>2, <2>3, <2>4 DEF TurnInv
  <1> QED
    BY <1>3, <1>5, <1>7, <1>8 DEF StepOf

LEMMA ChunkKeeps ==
    ASSUME TypeOK, NEW t \in Turns, TurnInv(t),
           Chunk(t)
    PROVE  StepOf(t)
  <1>1. /\ pc[t] = "engine"
        /\ collected[t] + part[t] < MaxPieces
        /\ pc' = [pc EXCEPT ![t] = "chunk"]
        /\ part' = [part EXCEPT ![t] = part[t] + 1]
        /\ kept' = [kept EXCEPT ![t] = [kept[t] EXCEPT !.pieces = collected[t] + part[t] + 1]]
        /\ UNCHANGED <<rows, status, loop, prompt, round, collected, todo, worker, events,
                       tick, answering, shown, ran>>
    BY DEF Chunk, table, deep, record, Goto, Add, At, Mirror
  <1>2. /\ "chunk" \in Labels
        /\ part[t] + 1 \in 0..MaxPieces
        /\ [kept[t] EXCEPT !.pieces = collected[t] + part[t] + 1] \in KeptType
    <2>1. t \notin Deep
      BY <1>1 DEF TurnInv, DeepInv, Before, DeepSuspended
    <2>2. kept[t].pieces = collected[t] + part[t]
      BY <1>1, <2>1 DEF TurnInv, OrdinaryInv
    <2>3. "chunk" \in Labels
      BY DEF Labels
    <2>4. part[t] + 1 \in 0..MaxPieces /\ collected[t] + part[t] + 1 \in 0..MaxPieces
      BY <1>1, TypesOfTurn
    <2>5. [kept[t] EXCEPT !.pieces = collected[t] + part[t] + 1] \in KeptType
      BY <2>4, TypesOfTurn
    <2> QED
      BY <2>3, <2>4, <2>5
  <1>3. TypeOK'
    BY <1>1, <1>2 DEF TypeOK
  <1>4. /\ pc'[t] = "chunk"
        /\ kept'[t] = [kept[t] EXCEPT !.pieces = collected[t] + part[t] + 1]
        /\ shown'[t] = shown[t]
        /\ ran'[t] = ran[t]
        /\ collected'[t] = collected[t]
        /\ part'[t] = part[t] + 1
        /\ todo'[t] = todo[t]
        /\ worker'[t] = worker[t]
        /\ events'[t] = events[t]
        /\ kept'[t].pieces = collected[t] + part[t] + 1
        /\ kept'[t].calls = kept[t].calls
    BY <1>1 DEF TypeOK
  <1>5. \A u \in Turns \ {t} : Same(u)
    BY <1>1 DEF TypeOK, Same
  <1>6. Replies(t)' = Replies(t) /\ \A i \in Replies(t) : rows'[i] = rows[i]
    BY <1>1, SameRows
  <1>7. RowsFor(t)
    BY <1>1, SameRows DEF RowsFor
  <1>8. TurnInv(t)'
    <2>0. t \notin Deep
      BY <1>1 DEF TurnInv, DeepInv, Before, DeepSuspended
    <2>1. Fresh(t)'
      BY <1>1, <1>2, <1>4 DEF TurnInv, Fresh, Before, Nothing
    <2>2. t \notin Deep => OrdinaryInv(t)'
      <3>1. /\ shown[t] \in Nat /\ collected[t] \in Nat /\ part[t] \in Nat
            /\ kept[t].pieces = collected[t] + part[t]
        BY <1>1, <2>0, TypesOfTurn DEF TurnInv, OrdinaryInv
      <3> QED
        BY <1>1, <1>4, <2>0, <3>1 DEF TurnInv, OrdinaryInv, DeepSuspended
    <2>3. t \in Deep => DeepInv(t)'
      BY <1>1, <1>2, <1>4 DEF TurnInv, DeepInv, Before, DeepSuspended
    <2>4. ReplyInv(t)'
      BY <1>1, <1>2, <1>4, <1>6, TypesOfTurn DEF TurnInv, ReplyInv, OrdinaryInv, DeepInv,
         Before, DeepSuspended
    <2> QED
      BY <2>1, <2>2, <2>3, <2>4 DEF TurnInv
  <1> QED
    BY <1>3, <1>5, <1>7, <1>8 DEF StepOf

LEMMA ChunkSentKeeps ==
    ASSUME TypeOK, NEW t \in Turns, TurnInv(t),
           ChunkSent(t)
    PROVE  StepOf(t)
  <1>1. /\ pc[t] = "chunk"
        /\ pc' = [pc EXCEPT ![t] = "engine"]
        /\ shown' = [shown EXCEPT ![t] = shown[t] + 1]
        /\ UNCHANGED <<rows, status, loop, prompt, round, kept, collected, part, todo, worker,
                       events, tick, answering, ran>>
    BY DEF ChunkSent, table, stream, deep, Goto, Add, At
  <1>2. /\ "engine" \in Labels
        /\ shown[t] + 1 \in 0..MaxPieces
    <2>1. t \notin Deep
      BY <1>1 DEF TurnInv, DeepInv, Before, DeepSuspended
    <2> QED
      BY <1>1, <2>1, TypesOfTurn DEF Labels, TurnInv, OrdinaryInv, DeepInv
  <1>3. TypeOK'
    BY <1>1, <1>2 DEF TypeOK
  <1>4. /\ pc'[t] = "engine"
        /\ kept'[t] = kept[t]
        /\ shown'[t] = shown[t] + 1
        /\ ran'[t] = ran[t]
        /\ collected'[t] = collected[t]
        /\ part'[t] = part[t]
        /\ todo'[t] = todo[t]
        /\ worker'[t] = worker[t]
        /\ events'[t] = events[t]
    BY <1>1 DEF TypeOK
  <1>5. \A u \in Turns \ {t} : Same(u)
    BY <1>1 DEF TypeOK, Same
  <1>6. Replies(t)' = Replies(t) /\ \A i \in Replies(t) : rows'[i] = rows[i]
    BY <1>1, SameRows
  <1>7. RowsFor(t)
    BY <1>1, SameRows DEF RowsFor
  <1>8. TurnInv(t)'
    <2>1. Fresh(t)'
      BY <1>1, <1>2, <1>4 DEF TurnInv, Fresh, Before, Nothing
    <2>2. t \notin Deep => OrdinaryInv(t)'
      BY <1>1, <1>2, <1>4, TypesOfTurn DEF TurnInv, OrdinaryInv, DeepSuspended
    <2>3. t \in Deep => DeepInv(t)'
      BY <1>1, <1>2, <1>4 DEF TurnInv, DeepInv, Before, DeepSuspended
    <2>4. ReplyInv(t)'
      BY <1>1, <1>2, <1>4, <1>6, TypesOfTurn DEF TurnInv, ReplyInv, OrdinaryInv, DeepInv,
         Before, DeepSuspended
    <2> QED
      BY <2>1, <2>2, <2>3, <2>4 DEF TurnInv
  <1> QED
    BY <1>3, <1>5, <1>7, <1>8 DEF StepOf

LEMMA EngineFailsKeeps ==
    ASSUME TypeOK, NEW t \in Turns, TurnInv(t),
           EngineFails(t)
    PROVE  StepOf(t)
  <1>1. /\ pc[t] = "engine"
        /\ pc' = [pc EXCEPT ![t] = "background"]
        /\ UNCHANGED <<rows, status, loop, prompt, round, kept, collected, part, todo, worker,
                       events, tick, answering, shown, ran>>
    BY DEF EngineFails, table, stream, deep, record, Goto, At
  <1>2. /\ "background" \in Labels
    BY DEF Labels
  <1>3. TypeOK'
    BY <1>1, <1>2 DEF TypeOK
  <1>4. /\ pc'[t] = "background"
        /\ kept'[t] = kept[t]
        /\ shown'[t] = shown[t]
        /\ ran'[t] = ran[t]
        /\ collected'[t] = collected[t]
        /\ part'[t] = part[t]
        /\ todo'[t] = todo[t]
        /\ worker'[t] = worker[t]
        /\ events'[t] = events[t]
    BY <1>1 DEF TypeOK
  <1>5. \A u \in Turns \ {t} : Same(u)
    BY <1>1 DEF TypeOK, Same
  <1>6. Replies(t)' = Replies(t) /\ \A i \in Replies(t) : rows'[i] = rows[i]
    BY <1>1, SameRows
  <1>7. RowsFor(t)
    BY <1>1, SameRows DEF RowsFor
  <1>8. TurnInv(t)'
    <2>1. Fresh(t)'
      BY <1>1, <1>2, <1>4 DEF TurnInv, Fresh, Before, Nothing
    <2>2. t \notin Deep => OrdinaryInv(t)'
      BY <1>1, <1>2, <1>4, TypesOfTurn DEF TurnInv, OrdinaryInv, DeepSuspended
    <2>3. t \in Deep => DeepInv(t)'
      BY <1>1, <1>2, <1>4 DEF TurnInv, DeepInv, Before, DeepSuspended
    <2>4. ReplyInv(t)'
      BY <1>1, <1>2, <1>4, <1>6, TypesOfTurn DEF TurnInv, ReplyInv, OrdinaryInv, DeepInv,
         Before, DeepSuspended
    <2> QED
      BY <2>1, <2>2, <2>3, <2>4 DEF TurnInv
  <1> QED
    BY <1>3, <1>5, <1>7, <1>8 DEF StepOf

LEMMA EngineStopsKeeps ==
    ASSUME TypeOK, NEW t \in Turns, TurnInv(t),
           EngineStops(t)
    PROVE  StepOf(t)
  <1>1. /\ pc[t] = "engine"
        /\ pc' = [pc EXCEPT ![t] = "final"]
        /\ collected' = [collected EXCEPT ![t] = collected[t] + part[t]]
        /\ kept' = [kept EXCEPT ![t] = [kept[t] EXCEPT !.pieces = collected[t] + part[t]]]
        /\ UNCHANGED <<rows, status, loop, prompt, round, part, todo, worker, events, tick,
                       answering, shown, ran>>
    BY DEF EngineStops, table, deep, record, Goto, At, RoundEnds, Mirror, TypeOK
  <1>2. /\ "final" \in Labels
        /\ collected[t] + part[t] \in 0..MaxPieces
        /\ [kept[t] EXCEPT !.pieces = collected[t] + part[t]] \in KeptType
    <2>1. t \notin Deep
      BY <1>1 DEF TurnInv, DeepInv, Before, DeepSuspended
    <2> QED
      BY <1>1, <2>1, TypesOfTurn DEF Labels, TurnInv, OrdinaryInv, DeepInv
  <1>3. TypeOK'
    BY <1>1, <1>2 DEF TypeOK
  <1>4. /\ pc'[t] = "final"
        /\ kept'[t] = [kept[t] EXCEPT !.pieces = collected[t] + part[t]]
        /\ shown'[t] = shown[t]
        /\ ran'[t] = ran[t]
        /\ collected'[t] = collected[t] + part[t]
        /\ part'[t] = part[t]
        /\ todo'[t] = todo[t]
        /\ worker'[t] = worker[t]
        /\ events'[t] = events[t]
        /\ kept'[t].pieces = collected[t] + part[t]
        /\ kept'[t].calls = kept[t].calls
    BY <1>1 DEF TypeOK
  <1>5. \A u \in Turns \ {t} : Same(u)
    BY <1>1 DEF TypeOK, Same
  <1>6. Replies(t)' = Replies(t) /\ \A i \in Replies(t) : rows'[i] = rows[i]
    BY <1>1, SameRows
  <1>7. RowsFor(t)
    BY <1>1, SameRows DEF RowsFor
  <1>8. TurnInv(t)'
    <2>1. Fresh(t)'
      BY <1>1, <1>2, <1>4 DEF TurnInv, Fresh, Before, Nothing
    <2>2. t \notin Deep => OrdinaryInv(t)'
      BY <1>1, <1>2, <1>4, TypesOfTurn DEF TurnInv, OrdinaryInv, DeepSuspended
    <2>3. t \in Deep => DeepInv(t)'
      BY <1>1, <1>2, <1>4 DEF TurnInv, DeepInv, Before, DeepSuspended
    <2>4. ReplyInv(t)'
      BY <1>1, <1>2, <1>4, <1>6, TypesOfTurn DEF TurnInv, ReplyInv, OrdinaryInv, DeepInv,
         Before, DeepSuspended
    <2> QED
      BY <2>1, <2>2, <2>3, <2>4 DEF TurnInv
  <1> QED
    BY <1>3, <1>5, <1>7, <1>8 DEF StepOf

LEMMA EngineCallsKeeps ==
    ASSUME TypeOK, NEW t \in Turns, TurnInv(t),
           NEW n \in 1..MaxCalls, EngineCalls(t, n)
    PROVE  StepOf(t)
  <1>1. /\ pc[t] = "engine"
        /\ pc' = [pc EXCEPT ![t] = "call"]
        /\ todo' = [todo EXCEPT ![t] = n]
        /\ UNCHANGED <<rows, status, loop, prompt, round, kept, collected, part, worker,
                       events, tick, answering, shown, ran>>
    BY DEF EngineCalls, table, deep, record, Goto, At
  <1>2. /\ "call" \in Labels
        /\ n \in 0..MaxCalls
    BY <1>1, TypesOfTurn DEF Labels, TurnInv, OrdinaryInv, DeepInv
  <1>3. TypeOK'
    BY <1>1, <1>2 DEF TypeOK
  <1>4. /\ pc'[t] = "call"
        /\ kept'[t] = kept[t]
        /\ shown'[t] = shown[t]
        /\ ran'[t] = ran[t]
        /\ collected'[t] = collected[t]
        /\ part'[t] = part[t]
        /\ todo'[t] = n
        /\ worker'[t] = worker[t]
        /\ events'[t] = events[t]
    BY <1>1 DEF TypeOK
  <1>5. \A u \in Turns \ {t} : Same(u)
    BY <1>1 DEF TypeOK, Same
  <1>6. Replies(t)' = Replies(t) /\ \A i \in Replies(t) : rows'[i] = rows[i]
    BY <1>1, SameRows
  <1>7. RowsFor(t)
    BY <1>1, SameRows DEF RowsFor
  <1>8. TurnInv(t)'
    <2>1. Fresh(t)'
      BY <1>1, <1>2, <1>4 DEF TurnInv, Fresh, Before, Nothing
    <2>2. t \notin Deep => OrdinaryInv(t)'
      BY <1>1, <1>2, <1>4, TypesOfTurn DEF TurnInv, OrdinaryInv, DeepSuspended
    <2>3. t \in Deep => DeepInv(t)'
      BY <1>1, <1>2, <1>4 DEF TurnInv, DeepInv, Before, DeepSuspended
    <2>4. ReplyInv(t)'
      BY <1>1, <1>2, <1>4, <1>6, TypesOfTurn DEF TurnInv, ReplyInv, OrdinaryInv, DeepInv,
         Before, DeepSuspended
    <2> QED
      BY <2>1, <2>2, <2>3, <2>4 DEF TurnInv
  <1> QED
    BY <1>3, <1>5, <1>7, <1>8 DEF StepOf

LEMMA RunToolKeeps ==
    ASSUME TypeOK, NEW t \in Turns, TurnInv(t),
           RunTool(t)
    PROVE  StepOf(t)
  <1>1. /\ pc[t] = "call"
        /\ pc' = [pc EXCEPT ![t] = "tool"]
        /\ loop' = t
        /\ UNCHANGED <<rows, status, prompt, round, kept, collected, part, todo, worker,
                       events, tick, answering, shown, ran>>
    BY DEF RunTool, table, stream, deep, record, Goto, At
  <1>2. /\ "tool" \in Labels
    BY DEF Labels
  <1>3. TypeOK'
    BY <1>1, <1>2 DEF TypeOK
  <1>4. /\ pc'[t] = "tool"
        /\ kept'[t] = kept[t]
        /\ shown'[t] = shown[t]
        /\ ran'[t] = ran[t]
        /\ collected'[t] = collected[t]
        /\ part'[t] = part[t]
        /\ todo'[t] = todo[t]
        /\ worker'[t] = worker[t]
        /\ events'[t] = events[t]
    BY <1>1 DEF TypeOK
  <1>5. \A u \in Turns \ {t} : Same(u)
    BY <1>1 DEF TypeOK, Same
  <1>6. Replies(t)' = Replies(t) /\ \A i \in Replies(t) : rows'[i] = rows[i]
    BY <1>1, SameRows
  <1>7. RowsFor(t)
    BY <1>1, SameRows DEF RowsFor
  <1>8. TurnInv(t)'
    <2>1. Fresh(t)'
      BY <1>1, <1>2, <1>4 DEF TurnInv, Fresh, Before, Nothing
    <2>2. t \notin Deep => OrdinaryInv(t)'
      BY <1>1, <1>2, <1>4, TypesOfTurn DEF TurnInv, OrdinaryInv, DeepSuspended
    <2>3. t \in Deep => DeepInv(t)'
      BY <1>1, <1>2, <1>4 DEF TurnInv, DeepInv, Before, DeepSuspended
    <2>4. ReplyInv(t)'
      BY <1>1, <1>2, <1>4, <1>6, TypesOfTurn DEF TurnInv, ReplyInv, OrdinaryInv, DeepInv,
         Before, DeepSuspended
    <2> QED
      BY <2>1, <2>2, <2>3, <2>4 DEF TurnInv
  <1> QED
    BY <1>3, <1>5, <1>7, <1>8 DEF StepOf

LEMMA ToolReturnsKeeps ==
    ASSUME TypeOK, NEW t \in Turns, TurnInv(t),
           ToolReturns(t)
    PROVE  StepOf(t)
  <1>1. /\ pc[t] = "tool"
        /\ pc' = [pc EXCEPT ![t] = "called"]
        /\ ran' = [ran EXCEPT ![t] = ran[t] + 1]
        /\ kept' = [kept EXCEPT ![t] = [kept[t] EXCEPT !.calls = kept[t].calls + 1]]
        /\ todo' = [todo EXCEPT ![t] = todo[t] - 1]
        /\ loop' = None
        /\ UNCHANGED <<rows, status, prompt, round, collected, part, worker, events, tick,
                       answering, shown>>
    BY DEF ToolReturns, table, deep, Goto, Add, Mirror
  <1>2. /\ "called" \in Labels
        /\ ran[t] + 1 \in Nat
        /\ [kept[t] EXCEPT !.calls = kept[t].calls + 1] \in KeptType
        /\ todo[t] - 1 \in 0..MaxCalls
    <2>1. t \notin Deep
      BY <1>1 DEF TurnInv, DeepInv, Before, DeepSuspended
    <2> QED
      BY <1>1, <2>1, TypesOfTurn DEF Labels, TurnInv, OrdinaryInv, DeepInv
  <1>3. TypeOK'
    BY <1>1, <1>2 DEF TypeOK
  <1>4. /\ pc'[t] = "called"
        /\ kept'[t] = [kept[t] EXCEPT !.calls = kept[t].calls + 1]
        /\ shown'[t] = shown[t]
        /\ ran'[t] = ran[t] + 1
        /\ collected'[t] = collected[t]
        /\ part'[t] = part[t]
        /\ todo'[t] = todo[t] - 1
        /\ worker'[t] = worker[t]
        /\ events'[t] = events[t]
        /\ kept'[t].pieces = kept[t].pieces
        /\ kept'[t].calls = kept[t].calls + 1
    BY <1>1 DEF TypeOK
  <1>5. \A u \in Turns \ {t} : Same(u)
    BY <1>1 DEF TypeOK, Same
  <1>6. Replies(t)' = Replies(t) /\ \A i \in Replies(t) : rows'[i] = rows[i]
    BY <1>1, SameRows
  <1>7. RowsFor(t)
    BY <1>1, SameRows DEF RowsFor
  <1>8. TurnInv(t)'
    <2>1. Fresh(t)'
      BY <1>1, <1>2, <1>4 DEF TurnInv, Fresh, Before, Nothing
    <2>2. t \notin Deep => OrdinaryInv(t)'
      BY <1>1, <1>2, <1>4, TypesOfTurn DEF TurnInv, OrdinaryInv, DeepSuspended
    <2>3. t \in Deep => DeepInv(t)'
      BY <1>1, <1>2, <1>4 DEF TurnInv, DeepInv, Before, DeepSuspended
    <2>4. ReplyInv(t)'
      BY <1>1, <1>2, <1>4, <1>6, TypesOfTurn DEF TurnInv, ReplyInv, OrdinaryInv, DeepInv,
         Before, DeepSuspended
    <2> QED
      BY <2>1, <2>2, <2>3, <2>4 DEF TurnInv
  <1> QED
    BY <1>3, <1>5, <1>7, <1>8 DEF StepOf

LEMMA CalledCallsAgain ==
    ASSUME TypeOK, NEW t \in Turns, TurnInv(t),
           todo[t] > 0, Called(t)
    PROVE  StepOf(t)
  <1>1. /\ pc[t] = "called"
        /\ todo[t] > 0
        /\ pc' = [pc EXCEPT ![t] = "call"]
        /\ UNCHANGED <<rows, status, loop, prompt, round, kept, collected, part, todo, worker,
                       events, tick, answering, shown, ran>>
    BY DEF Called, table, deep, record, Goto, At, RoundEnds, Mirror, TypeOK
  <1>2. /\ "call" \in Labels
    BY DEF Labels
  <1>3. TypeOK'
    BY <1>1, <1>2 DEF TypeOK
  <1>4. /\ pc'[t] = "call"
        /\ kept'[t] = kept[t]
        /\ shown'[t] = shown[t]
        /\ ran'[t] = ran[t]
        /\ collected'[t] = collected[t]
        /\ part'[t] = part[t]
        /\ todo'[t] = todo[t]
        /\ worker'[t] = worker[t]
        /\ events'[t] = events[t]
    BY <1>1 DEF TypeOK
  <1>5. \A u \in Turns \ {t} : Same(u)
    BY <1>1 DEF TypeOK, Same
  <1>6. Replies(t)' = Replies(t) /\ \A i \in Replies(t) : rows'[i] = rows[i]
    BY <1>1, SameRows
  <1>7. RowsFor(t)
    BY <1>1, SameRows DEF RowsFor
  <1>8. TurnInv(t)'
    <2>1. Fresh(t)'
      BY <1>1, <1>2, <1>4 DEF TurnInv, Fresh, Before, Nothing
    <2>2. t \notin Deep => OrdinaryInv(t)'
      BY <1>1, <1>2, <1>4, TypesOfTurn DEF TurnInv, OrdinaryInv, DeepSuspended
    <2>3. t \in Deep => DeepInv(t)'
      BY <1>1, <1>2, <1>4 DEF TurnInv, DeepInv, Before, DeepSuspended
    <2>4. ReplyInv(t)'
      BY <1>1, <1>2, <1>4, <1>6, TypesOfTurn DEF TurnInv, ReplyInv, OrdinaryInv, DeepInv,
         Before, DeepSuspended
    <2> QED
      BY <2>1, <2>2, <2>3, <2>4 DEF TurnInv
  <1> QED
    BY <1>3, <1>5, <1>7, <1>8 DEF StepOf

LEMMA CalledEndsRound ==
    ASSUME TypeOK, NEW t \in Turns, TurnInv(t),
           ~(todo[t] > 0), Called(t)
    PROVE  StepOf(t)
  <1>1. /\ pc[t] = "called"
        /\ pc' = [pc EXCEPT ![t] = "round"]
        /\ collected' = [collected EXCEPT ![t] = collected[t] + part[t]]
        /\ kept' = [kept EXCEPT ![t] = [kept[t] EXCEPT !.pieces = collected[t] + part[t]]]
        /\ UNCHANGED <<rows, status, loop, prompt, round, part, todo, worker, events, tick,
                       answering, shown, ran>>
    BY DEF Called, table, deep, record, Goto, At, RoundEnds, Mirror, TypeOK
  <1>2. /\ "round" \in Labels
        /\ collected[t] + part[t] \in 0..MaxPieces
        /\ [kept[t] EXCEPT !.pieces = collected[t] + part[t]] \in KeptType
    <2>1. t \notin Deep
      BY <1>1 DEF TurnInv, DeepInv, Before, DeepSuspended
    <2> QED
      BY <1>1, <2>1, TypesOfTurn DEF Labels, TurnInv, OrdinaryInv, DeepInv
  <1>3. TypeOK'
    BY <1>1, <1>2 DEF TypeOK
  <1>4. /\ pc'[t] = "round"
        /\ kept'[t] = [kept[t] EXCEPT !.pieces = collected[t] + part[t]]
        /\ shown'[t] = shown[t]
        /\ ran'[t] = ran[t]
        /\ collected'[t] = collected[t] + part[t]
        /\ part'[t] = part[t]
        /\ todo'[t] = todo[t]
        /\ worker'[t] = worker[t]
        /\ events'[t] = events[t]
        /\ kept'[t].pieces = collected[t] + part[t]
        /\ kept'[t].calls = kept[t].calls
    BY <1>1 DEF TypeOK
  <1>5. \A u \in Turns \ {t} : Same(u)
    BY <1>1 DEF TypeOK, Same
  <1>6. Replies(t)' = Replies(t) /\ \A i \in Replies(t) : rows'[i] = rows[i]
    BY <1>1, SameRows
  <1>7. RowsFor(t)
    BY <1>1, SameRows DEF RowsFor
  <1>8. TurnInv(t)'
    <2>1. Fresh(t)'
      BY <1>1, <1>2, <1>4 DEF TurnInv, Fresh, Before, Nothing
    <2>2. t \notin Deep => OrdinaryInv(t)'
      BY <1>1, <1>2, <1>4, TypesOfTurn DEF TurnInv, OrdinaryInv, DeepSuspended
    <2>3. t \in Deep => DeepInv(t)'
      BY <1>1, <1>2, <1>4 DEF TurnInv, DeepInv, Before, DeepSuspended
    <2>4. ReplyInv(t)'
      BY <1>1, <1>2, <1>4, <1>6, TypesOfTurn DEF TurnInv, ReplyInv, OrdinaryInv, DeepInv,
         Before, DeepSuspended
    <2> QED
      BY <2>1, <2>2, <2>3, <2>4 DEF TurnInv
  <1> QED
    BY <1>3, <1>5, <1>7, <1>8 DEF StepOf

LEMMA FinalKeeps ==
    ASSUME TypeOK, NEW t \in Turns, TurnInv(t),
           Final(t)
    PROVE  StepOf(t)
  <1>1. /\ pc[t] = "final"
        /\ pc' = [pc EXCEPT ![t] = "background"]
        /\ UNCHANGED <<rows, status, loop, prompt, round, kept, collected, part, todo, worker,
                       events, tick, answering, shown, ran>>
    BY DEF Final, table, stream, deep, record, Goto, At
  <1>2. /\ "background" \in Labels
    BY DEF Labels
  <1>3. TypeOK'
    BY <1>1, <1>2 DEF TypeOK
  <1>4. /\ pc'[t] = "background"
        /\ kept'[t] = kept[t]
        /\ shown'[t] = shown[t]
        /\ ran'[t] = ran[t]
        /\ collected'[t] = collected[t]
        /\ part'[t] = part[t]
        /\ todo'[t] = todo[t]
        /\ worker'[t] = worker[t]
        /\ events'[t] = events[t]
    BY <1>1 DEF TypeOK
  <1>5. \A u \in Turns \ {t} : Same(u)
    BY <1>1 DEF TypeOK, Same
  <1>6. Replies(t)' = Replies(t) /\ \A i \in Replies(t) : rows'[i] = rows[i]
    BY <1>1, SameRows
  <1>7. RowsFor(t)
    BY <1>1, SameRows DEF RowsFor
  <1>8. TurnInv(t)'
    <2>1. Fresh(t)'
      BY <1>1, <1>2, <1>4 DEF TurnInv, Fresh, Before, Nothing
    <2>2. t \notin Deep => OrdinaryInv(t)'
      BY <1>1, <1>2, <1>4, TypesOfTurn DEF TurnInv, OrdinaryInv, DeepSuspended
    <2>3. t \in Deep => DeepInv(t)'
      BY <1>1, <1>2, <1>4 DEF TurnInv, DeepInv, Before, DeepSuspended
    <2>4. ReplyInv(t)'
      BY <1>1, <1>2, <1>4, <1>6, TypesOfTurn DEF TurnInv, ReplyInv, OrdinaryInv, DeepInv,
         Before, DeepSuspended
    <2> QED
      BY <2>1, <2>2, <2>3, <2>4 DEF TurnInv
  <1> QED
    BY <1>3, <1>5, <1>7, <1>8 DEF StepOf

LEMMA PersistStores ==
    ASSUME TypeOK, NEW t \in Turns, TurnInv(t),
           rows' = Append(rows, Reply(t, kept[t])), Goto(t, "over"), kept[t].pieces > 0, Persist(t)
    PROVE  StepOf(t)
  <1>1. /\ pc[t] = "background"
        /\ kept[t].pieces > 0
        /\ pc' = [pc EXCEPT ![t] = "over"]
        /\ rows' = Append(rows, Reply(t, kept[t]))
        /\ UNCHANGED <<status, loop, prompt, round, kept, collected, part, todo, worker,
                       events, tick, answering, shown, ran>>
    BY DEF Persist, stream, deep, record, Goto
  <1>2. /\ "over" \in Labels
        /\ Reply(t, kept[t]) \in Row
    BY <1>1, TypesOfTurn DEF Labels, TurnInv, OrdinaryInv, DeepInv, Row, Reply
  <1>3. TypeOK'
    <2>1. rows' \in Seq(Row)
      BY <1>1, <1>2, AppendProperties DEF TypeOK
    <2> QED
      BY <1>1, <1>2, <2>1 DEF TypeOK
  <1>4. /\ pc'[t] = "over"
        /\ kept'[t] = kept[t]
        /\ shown'[t] = shown[t]
        /\ ran'[t] = ran[t]
        /\ collected'[t] = collected[t]
        /\ part'[t] = part[t]
        /\ todo'[t] = todo[t]
        /\ worker'[t] = worker[t]
        /\ events'[t] = events[t]
    BY <1>1 DEF TypeOK
  <1>5. \A u \in Turns \ {t} : Same(u)
    BY <1>1 DEF TypeOK, Same
  <1>6. /\ Replies(t)' = Replies(t) \cup {Len(rows) + 1}
        /\ rows'[Len(rows) + 1] = Reply(t, kept[t])
    BY <1>1, <1>2, RowOfMine DEF TypeOK, Reply
  <1>7. RowsFor(t)
    <2>1. \A u \in Turns \ {t} : /\ Replies(u)' = Replies(u)
                                 /\ \A i \in Replies(u) : rows'[i] = rows[i]
      BY <1>1, <1>2, RowsOfOthers DEF TypeOK, Reply
    <2> QED
      BY <2>1 DEF RowsFor
  <1>8. TurnInv(t)'
    <2>1. Fresh(t)'
      BY <1>1, <1>2, <1>4 DEF TurnInv, Fresh, Before, Nothing
    <2>2. t \notin Deep => OrdinaryInv(t)'
      BY <1>1, <1>2, <1>4, TypesOfTurn DEF TurnInv, OrdinaryInv, DeepSuspended
    <2>3. t \in Deep => DeepInv(t)'
      BY <1>1, <1>2, <1>4 DEF TurnInv, DeepInv, Before, DeepSuspended
    <2>4. ReplyInv(t)'
      <3>1. t \notin Deep
        BY <1>1 DEF TurnInv, DeepInv, Before, DeepSuspended
      <3>2. Replies(t) = {}
        BY <1>1 DEF TurnInv, ReplyInv
      <3>3. kept[t].calls = ran[t] /\ shown[t] <= kept[t].pieces
        BY <3>1 DEF TurnInv, OrdinaryInv
      <3>4. Replies(t)' = {Len(rows) + 1} /\ rows'[Len(rows) + 1] = Reply(t, kept[t])
        BY <1>6, <3>2
      <3>5. \A i \in Replies(t)' : /\ rows'[i].pieces = kept[t].pieces
                                  /\ rows'[i].calls = kept[t].calls
        BY <3>4 DEF Reply
      <3>6. kept[t].pieces \in Nat /\ shown[t] \in Nat
        BY DEF TypeOK
      <3> QED
        BY <1>4, <3>1, <3>3, <3>4, <3>5, <3>6 DEF ReplyInv
    <2> QED
      BY <2>1, <2>2, <2>3, <2>4 DEF TurnInv
  <1> QED
    BY <1>3, <1>5, <1>7, <1>8 DEF StepOf

LEMMA PersistFails ==
    ASSUME TypeOK, NEW t \in Turns, TurnInv(t),
           rows' = rows, Goto(t, "failed"), Persist(t)
    PROVE  StepOf(t)
  <1>1. /\ pc[t] = "background"
        /\ pc' = [pc EXCEPT ![t] = "failed"]
        /\ UNCHANGED <<rows, status, loop, prompt, round, kept, collected, part, todo, worker,
                       events, tick, answering, shown, ran>>
    BY DEF Persist, stream, deep, record, Goto
  <1>2. /\ "failed" \in Labels
    BY DEF Labels
  <1>3. TypeOK'
    BY <1>1, <1>2 DEF TypeOK
  <1>4. /\ pc'[t] = "failed"
        /\ kept'[t] = kept[t]
        /\ shown'[t] = shown[t]
        /\ ran'[t] = ran[t]
        /\ collected'[t] = collected[t]
        /\ part'[t] = part[t]
        /\ todo'[t] = todo[t]
        /\ worker'[t] = worker[t]
        /\ events'[t] = events[t]
    BY <1>1 DEF TypeOK
  <1>5. \A u \in Turns \ {t} : Same(u)
    BY <1>1 DEF TypeOK, Same
  <1>6. Replies(t)' = Replies(t) /\ \A i \in Replies(t) : rows'[i] = rows[i]
    BY <1>1, SameRows
  <1>7. RowsFor(t)
    BY <1>1, SameRows DEF RowsFor
  <1>8. TurnInv(t)'
    <2>1. Fresh(t)'
      BY <1>1, <1>2, <1>4 DEF TurnInv, Fresh, Before, Nothing
    <2>2. t \notin Deep => OrdinaryInv(t)'
      BY <1>1, <1>2, <1>4, TypesOfTurn DEF TurnInv, OrdinaryInv, DeepSuspended
    <2>3. t \in Deep => DeepInv(t)'
      BY <1>1, <1>2, <1>4 DEF TurnInv, DeepInv, Before, DeepSuspended
    <2>4. ReplyInv(t)'
      BY <1>1, <1>2, <1>4, <1>6, TypesOfTurn DEF TurnInv, ReplyInv, OrdinaryInv, DeepInv,
         Before, DeepSuspended
    <2> QED
      BY <2>1, <2>2, <2>3, <2>4 DEF TurnInv
  <1> QED
    BY <1>3, <1>5, <1>7, <1>8 DEF StepOf

LEMMA PersistStoresNothing ==
    ASSUME TypeOK, NEW t \in Turns, TurnInv(t),
           kept[t].pieces = 0, Persist(t)
    PROVE  StepOf(t)
  <1>1. /\ pc[t] = "background"
        /\ kept[t].pieces = 0
        /\ pc' = [pc EXCEPT ![t] = "over"]
        /\ UNCHANGED <<rows, status, loop, prompt, round, kept, collected, part, todo, worker,
                       events, tick, answering, shown, ran>>
    BY DEF Persist, stream, deep, record, Goto
  <1>2. /\ "over" \in Labels
    BY DEF Labels
  <1>3. TypeOK'
    BY <1>1, <1>2 DEF TypeOK
  <1>4. /\ pc'[t] = "over"
        /\ kept'[t] = kept[t]
        /\ shown'[t] = shown[t]
        /\ ran'[t] = ran[t]
        /\ collected'[t] = collected[t]
        /\ part'[t] = part[t]
        /\ todo'[t] = todo[t]
        /\ worker'[t] = worker[t]
        /\ events'[t] = events[t]
    BY <1>1 DEF TypeOK
  <1>5. \A u \in Turns \ {t} : Same(u)
    BY <1>1 DEF TypeOK, Same
  <1>6. Replies(t)' = Replies(t) /\ \A i \in Replies(t) : rows'[i] = rows[i]
    BY <1>1, SameRows
  <1>7. RowsFor(t)
    BY <1>1, SameRows DEF RowsFor
  <1>8. TurnInv(t)'
    <2>1. Fresh(t)'
      BY <1>1, <1>2, <1>4 DEF TurnInv, Fresh, Before, Nothing
    <2>2. t \notin Deep => OrdinaryInv(t)'
      BY <1>1, <1>2, <1>4, TypesOfTurn DEF TurnInv, OrdinaryInv, DeepSuspended
    <2>3. t \in Deep => DeepInv(t)'
      BY <1>1, <1>2, <1>4 DEF TurnInv, DeepInv, Before, DeepSuspended
    <2>4. ReplyInv(t)'
      BY <1>1, <1>2, <1>4, <1>6, TypesOfTurn DEF TurnInv, ReplyInv, OrdinaryInv, DeepInv,
         Before, DeepSuspended
    <2> QED
      BY <2>1, <2>2, <2>3, <2>4 DEF TurnInv
  <1> QED
    BY <1>3, <1>5, <1>7, <1>8 DEF StepOf

LEMMA WorkerCallsKeeps ==
    ASSUME TypeOK, NEW t \in Turns, TurnInv(t),
           WorkerCalls(t)
    PROVE  StepOf(t)
  <1>1. /\ worker[t] = "run"
        /\ ran' = [ran EXCEPT ![t] = ran[t] + 1]
        /\ events' = [events EXCEPT ![t] = Append(events[t], "tool")]
        /\ UNCHANGED <<rows, status, loop, pc, prompt, round, kept, collected, part, todo,
                       worker, tick, answering, shown>>
    BY DEF WorkerCalls, table, stream, Add, Tell
  <1>2. /\ ran[t] + 1 \in Nat
        /\ Append(events[t], "tool") \in Seq({"tool", "done"})
    BY <1>1, TypesOfTurn DEF Labels, TurnInv, OrdinaryInv, DeepInv
  <1>3. TypeOK'
    BY <1>1, <1>2 DEF TypeOK
  <1>4. /\ pc'[t] = pc[t]
        /\ kept'[t] = kept[t]
        /\ shown'[t] = shown[t]
        /\ ran'[t] = ran[t] + 1
        /\ collected'[t] = collected[t]
        /\ part'[t] = part[t]
        /\ todo'[t] = todo[t]
        /\ worker'[t] = worker[t]
        /\ events'[t] = Append(events[t], "tool")
    BY <1>1 DEF TypeOK
  <1>5. \A u \in Turns \ {t} : Same(u)
    BY <1>1 DEF TypeOK, Same
  <1>6. Replies(t)' = Replies(t) /\ \A i \in Replies(t) : rows'[i] = rows[i]
    BY <1>1, SameRows
  <1>7. RowsFor(t)
    BY <1>1, SameRows DEF RowsFor
  <1>8. TurnInv(t)'
    <2>1. Fresh(t)'
      BY <1>1, <1>2, <1>4 DEF TurnInv, Fresh, Before, Nothing
    <2>2. t \notin Deep => OrdinaryInv(t)'
      BY <1>1, <1>2, <1>4, TypesOfTurn DEF TurnInv, OrdinaryInv, DeepSuspended
    <2>3. t \in Deep => DeepInv(t)'
      <3>1. SUFFICES ASSUME t \in Deep PROVE DeepInv(t)'
        OBVIOUS
      <3>2. /\ Len(events'[t]) = Len(events[t]) + 1 /\ Len(events[t]) \in Nat
            /\ DOMAIN events'[t] = 1..(Len(events[t]) + 1) /\ DOMAIN events[t] = 1..Len(events[t])
            /\ \A i \in 1..Len(events[t]) : events'[t][i] = events[t][i]
            /\ events'[t][Len(events[t]) + 1] = "tool" /\ events'[t] # <<>>
        <4>1. "tool" \in {"tool", "done"}
          OBVIOUS
        <4>2. events[t] \in Seq({"tool", "done"})
          BY TypesOfTurn
        <4>3. /\ Append(events[t], "tool") \in Seq({"tool", "done"})
              /\ Append(events[t], "tool") # <<>>
              /\ Len(Append(events[t], "tool")) = Len(events[t]) + 1
              /\ \A i \in 1..Len(events[t]) : Append(events[t], "tool")[i] = events[t][i]
              /\ Append(events[t], "tool")[Len(events[t]) + 1] = "tool"
          BY <4>1, <4>2, AppendProperties
        <4> QED
          BY <1>4, <4>2, <4>3
      <3>3. /\ \A i \in 1..Len(events[t]) : events[t][i] = "tool"
            /\ ran[t] = kept[t].calls + Len(events[t])
            /\ pc[t] # "words" /\ pc[t] \notin Before
        BY <1>1, <3>1, <3>2 DEF TurnInv, DeepInv
      <3>4. ran[t] \in Nat /\ kept[t].calls \in Nat
        BY TypesOfTurn
      <3> QED
        BY <1>1, <1>4, <3>1, <3>2, <3>3, <3>4 DEF TurnInv, DeepInv
    <2>4. ReplyInv(t)'
      <3>1. Replies(t) = {} /\ t \in Deep
        BY <1>1 DEF TurnInv, OrdinaryInv, ReplyInv
      <3> QED
        BY <1>4, <1>6, <3>1 DEF ReplyInv
    <2> QED
      BY <2>1, <2>2, <2>3, <2>4 DEF TurnInv
  <1> QED
    BY <1>3, <1>5, <1>7, <1>8 DEF StepOf

LEMMA WorkerEndsKeeps ==
    ASSUME TypeOK, NEW t \in Turns, TurnInv(t),
           WorkerEnds(t)
    PROVE  StepOf(t)
  <1>1. /\ worker[t] = "run"
        /\ worker' = [worker EXCEPT ![t] = "end"]
        /\ events' = [events EXCEPT ![t] = Append(events[t], "done")]
        /\ UNCHANGED <<rows, status, loop, pc, prompt, round, kept, collected, part, todo,
                       tick, answering, shown, ran>>
    BY DEF WorkerEnds, table, stream, record, Tell
  <1>2. /\ "end" \in {"none", "run", "end"}
        /\ Append(events[t], "done") \in Seq({"tool", "done"})
    BY <1>1, TypesOfTurn DEF Labels, TurnInv, OrdinaryInv, DeepInv
  <1>3. TypeOK'
    BY <1>1, <1>2 DEF TypeOK
  <1>4. /\ pc'[t] = pc[t]
        /\ kept'[t] = kept[t]
        /\ shown'[t] = shown[t]
        /\ ran'[t] = ran[t]
        /\ collected'[t] = collected[t]
        /\ part'[t] = part[t]
        /\ todo'[t] = todo[t]
        /\ worker'[t] = "end"
        /\ events'[t] = Append(events[t], "done")
    BY <1>1 DEF TypeOK
  <1>5. \A u \in Turns \ {t} : Same(u)
    BY <1>1 DEF TypeOK, Same
  <1>6. Replies(t)' = Replies(t) /\ \A i \in Replies(t) : rows'[i] = rows[i]
    BY <1>1, SameRows
  <1>7. RowsFor(t)
    BY <1>1, SameRows DEF RowsFor
  <1>8. TurnInv(t)'
    <2>1. Fresh(t)'
      BY <1>1, <1>2, <1>4 DEF TurnInv, Fresh, Before, Nothing
    <2>2. t \notin Deep => OrdinaryInv(t)'
      BY <1>1, <1>2, <1>4, TypesOfTurn DEF TurnInv, OrdinaryInv, DeepSuspended
    <2>3. t \in Deep => DeepInv(t)'
      <3>1. SUFFICES ASSUME t \in Deep PROVE DeepInv(t)'
        OBVIOUS
      <3>2. /\ Len(events'[t]) = Len(events[t]) + 1 /\ Len(events[t]) \in Nat
            /\ DOMAIN events'[t] = 1..(Len(events[t]) + 1) /\ DOMAIN events[t] = 1..Len(events[t])
            /\ \A i \in 1..Len(events[t]) : events'[t][i] = events[t][i]
            /\ events'[t][Len(events[t]) + 1] = "done" /\ events'[t] # <<>>
        <4>1. "done" \in {"tool", "done"}
          OBVIOUS
        <4>2. events[t] \in Seq({"tool", "done"})
          BY TypesOfTurn
        <4>3. /\ Append(events[t], "done") \in Seq({"tool", "done"})
              /\ Append(events[t], "done") # <<>>
              /\ Len(Append(events[t], "done")) = Len(events[t]) + 1
              /\ \A i \in 1..Len(events[t]) : Append(events[t], "done")[i] = events[t][i]
              /\ Append(events[t], "done")[Len(events[t]) + 1] = "done"
          BY <4>1, <4>2, AppendProperties
        <4> QED
          BY <1>4, <4>2, <4>3
      <3>3. /\ \A i \in 1..Len(events[t]) : events[t][i] = "tool"
            /\ ran[t] = kept[t].calls + Len(events[t])
            /\ pc[t] # "words" /\ pc[t] \notin Before
        BY <1>1, <3>1, <3>2 DEF TurnInv, DeepInv
      <3>4. ran[t] \in Nat /\ kept[t].calls \in Nat
        BY TypesOfTurn
      <3>5. \A i \in 1..(Len(events[t]) + 1) : events'[t][i] = "tool" <=> i < Len(events[t]) + 1
        <4>1. \A i \in 1..(Len(events[t]) + 1) : i \in 1..Len(events[t]) \/ i = Len(events[t]) + 1
          BY <3>2
        <4>2. \A i \in 1..Len(events[t]) : events'[t][i] = "tool" /\ i < Len(events[t]) + 1
          BY <3>2, <3>3
        <4> QED
          BY <3>2, <4>1, <4>2
      <3>6. /\ pc'[t] \in Before \cup DeepSuspended \cup {"over"}
            /\ pc'[t] \in Before <=> worker'[t] = "none"
            /\ worker'[t] # "run" /\ pc'[t] # "words"
        BY <1>1, <1>4, <3>1, <3>3 DEF TurnInv, DeepInv
      <3>7. \A i \in DOMAIN events'[t] :
                events'[t][i] = "tool" <=> i < Len(events'[t])
        BY <3>2, <3>5
      <3>8. ran'[t] + 1 = kept'[t].calls + Len(events'[t])
        BY <1>4, <3>2, <3>3, <3>4
      <3> QED
        BY <3>2, <3>6, <3>7, <3>8 DEF DeepInv
    <2>4. ReplyInv(t)'
      <3>1. Replies(t) = {} /\ t \in Deep
        BY <1>1 DEF TurnInv, OrdinaryInv, ReplyInv
      <3> QED
        BY <1>4, <1>6, <3>1 DEF ReplyInv
    <2> QED
      BY <2>1, <2>2, <2>3, <2>4 DEF TurnInv
  <1> QED
    BY <1>3, <1>5, <1>7, <1>8 DEF StepOf

LEMMA PollOfCall ==
    ASSUME TypeOK, NEW t \in Turns, TurnInv(t),
           Head(events[t]) = "tool", Poll(t)
    PROVE  StepOf(t)
  <1>1. /\ pc[t] = "poll"
        /\ events[t] # <<>>
        /\ Head(events[t]) = "tool"
        /\ pc' = [pc EXCEPT ![t] = "show"]
        /\ events' = [events EXCEPT ![t] = Tail(events[t])]
        /\ kept' = [kept EXCEPT ![t] = [kept[t] EXCEPT !.calls = kept[t].calls + 1]]
        /\ UNCHANGED <<rows, status, loop, prompt, round, collected, part, todo, worker, tick,
                       answering, shown, ran>>
    BY DEF Poll, table, record, Goto, At, Mirror
  <1>2. /\ "show" \in Labels
        /\ Tail(events[t]) \in Seq({"tool", "done"})
        /\ [kept[t] EXCEPT !.calls = kept[t].calls + 1] \in KeptType
    <2>1. events[t] \in Seq({"tool", "done"})
      BY DEF TypeOK
    <2>2. Tail(events[t]) \in Seq({"tool", "done"})
      BY <1>1, <2>1, HeadTailProperties
    <2>3. "show" \in Labels
      BY DEF Labels
    <2>4. [kept[t] EXCEPT !.calls = kept[t].calls + 1] \in KeptType
      BY TypesOfTurn
    <2> QED
      BY <2>2, <2>3, <2>4
  <1>3. TypeOK'
    BY <1>1, <1>2 DEF TypeOK
  <1>4. /\ pc'[t] = "show"
        /\ kept'[t] = [kept[t] EXCEPT !.calls = kept[t].calls + 1]
        /\ shown'[t] = shown[t]
        /\ ran'[t] = ran[t]
        /\ collected'[t] = collected[t]
        /\ part'[t] = part[t]
        /\ todo'[t] = todo[t]
        /\ worker'[t] = worker[t]
        /\ events'[t] = Tail(events[t])
        /\ kept'[t].pieces = kept[t].pieces
        /\ kept'[t].calls = kept[t].calls + 1
    BY <1>1 DEF TypeOK
  <1>5. \A u \in Turns \ {t} : Same(u)
    BY <1>1 DEF TypeOK, Same
  <1>6. Replies(t)' = Replies(t) /\ \A i \in Replies(t) : rows'[i] = rows[i]
    BY <1>1, SameRows
  <1>7. RowsFor(t)
    BY <1>1, SameRows DEF RowsFor
  <1>8. TurnInv(t)'
    <2>1. Fresh(t)'
      BY <1>1, <1>2, <1>4 DEF TurnInv, Fresh, Before, Nothing
    <2>2. t \notin Deep => OrdinaryInv(t)'
      BY <1>1, <1>2, <1>4, TypesOfTurn DEF TurnInv, OrdinaryInv, DeepSuspended
    <2>3. t \in Deep => DeepInv(t)'
      <3>1. /\ events[t] \in Seq({"tool", "done"}) /\ ran[t] \in Nat
            /\ kept[t] \in KeptType
        BY TypesOfTurn
      <3>2. /\ Tail(events[t]) \in Seq({"tool", "done"})
            /\ Len(Tail(events[t])) = Len(events[t]) - 1
            /\ \A i \in 1..Len(Tail(events[t])) : Tail(events[t])[i] = events[t][i + 1]
        BY <1>1, <3>1, HeadTailProperties
      <3>3. Head(events[t]) = events[t][1] /\ Len(events[t]) > 0 /\ Len(events[t]) \in Nat
        BY <1>1, <3>1
      <3>4. DOMAIN events[t] = 1..Len(events[t]) /\ DOMAIN Tail(events[t]) = 1..(Len(events[t]) - 1)
        BY <3>1, <3>2
      <3>5. kept'[t].calls = kept[t].calls + 1 /\ kept[t].calls \in Nat
        BY <1>4, <3>1
      <3>6. ASSUME t \in Deep, worker[t] = "run"
            PROVE  /\ \A i \in DOMAIN Tail(events[t]) : Tail(events[t])[i] = "tool"
                   /\ ran[t] = kept'[t].calls + Len(Tail(events[t]))
        <4>1. /\ \A i \in 1..Len(events[t]) : events[t][i] = "tool"
              /\ ran[t] = kept[t].calls + Len(events[t])
          BY <3>4, <3>6 DEF TurnInv, DeepInv
        <4>2. \A i \in 1..(Len(events[t]) - 1) : i + 1 \in 1..Len(events[t])
          BY <3>3
        <4>3. \A i \in 1..(Len(events[t]) - 1) : Tail(events[t])[i] = events[t][i + 1]
          BY <3>2
        <4>4. \A i \in DOMAIN Tail(events[t]) : Tail(events[t])[i] = "tool"
          BY <3>4, <4>1, <4>2, <4>3
        <4>5. ran[t] = kept'[t].calls + (Len(events[t]) - 1)
          BY <3>1, <3>3, <3>5, <4>1
        <4> QED
          BY <3>2, <4>4, <4>5
      <3>7. ASSUME t \in Deep, worker[t] = "end"
            PROVE  /\ Tail(events[t]) # <<>>
                   /\ \A i \in DOMAIN Tail(events[t]) :
                        Tail(events[t])[i] = "tool" <=> i < Len(Tail(events[t]))
                   /\ ran[t] + 1 = kept'[t].calls + Len(Tail(events[t]))
        <4>1. /\ \A i \in 1..Len(events[t]) : events[t][i] = "tool" <=> i < Len(events[t])
              /\ ran[t] + 1 = kept[t].calls + Len(events[t])
          BY <1>1, <3>4, <3>7 DEF TurnInv, DeepInv
        <4>2. Len(events[t]) > 1
          BY <1>1, <3>3, <4>1
        <4>3. \A i \in 1..(Len(events[t]) - 1) :
                Tail(events[t])[i] = "tool" <=> i < Len(events[t]) - 1
          <5>1. \A i \in 1..(Len(events[t]) - 1) :
                  i + 1 \in 1..Len(events[t]) /\ (i + 1 < Len(events[t]) <=> i < Len(events[t]) - 1)
            BY <3>3
          <5>2. \A i \in 1..(Len(events[t]) - 1) : Tail(events[t])[i] = events[t][i + 1]
            BY <3>2
          <5> QED
            BY <4>1, <5>1, <5>2
        <4>4. Tail(events[t]) # <<>>
          <5>1. Len(Tail(events[t])) # 0
            <6>1. \A n \in Nat : n > 1 => n - 1 # 0
              OBVIOUS
            <6> QED
              BY <3>2, <3>3, <4>2, <6>1, Zenon
          <5> QED
            BY <5>1, <3>2, EmptySeq
        <4>5. ran[t] + 1 = kept'[t].calls + (Len(events[t]) - 1)
          BY <3>1, <3>3, <3>5, <4>1
        <4> QED
          BY <3>2, <3>4, <4>3, <4>4, <4>5
      <3>8. /\ pc'[t] = "show" /\ pc[t] = "poll" /\ worker'[t] = worker[t]
            /\ events'[t] = Tail(events[t]) /\ ran'[t] = ran[t]
        BY <1>1, <1>4
      <3>9. t \in Deep => worker[t] \in {"run", "end"}
        BY <3>8, TypesOfTurn DEF TurnInv, DeepInv, Before
      <3> QED
        BY <3>6, <3>7, <3>8, <3>9 DEF DeepInv, Before, DeepSuspended
    <2>4. ReplyInv(t)'
      BY <1>1, <1>2, <1>4, <1>6, TypesOfTurn DEF TurnInv, ReplyInv, OrdinaryInv, DeepInv,
         Before, DeepSuspended
    <2> QED
      BY <2>1, <2>2, <2>3, <2>4 DEF TurnInv
  <1> QED
    BY <1>3, <1>5, <1>7, <1>8 DEF StepOf

LEMMA PollOfEnd ==
    ASSUME TypeOK, NEW t \in Turns, TurnInv(t),
           Head(events[t]) # "tool", Poll(t)
    PROVE  StepOf(t)
  <1>1. /\ pc[t] = "poll"
        /\ events[t] # <<>>
        /\ Head(events[t]) # "tool"
        /\ pc' = [pc EXCEPT ![t] = "words"]
        /\ events' = [events EXCEPT ![t] = Tail(events[t])]
        /\ kept' = [kept EXCEPT ![t] = [kept[t] EXCEPT !.pieces = MaxPieces]]
        /\ UNCHANGED <<rows, status, loop, prompt, round, collected, part, todo, worker, tick,
                       answering, shown, ran>>
    BY DEF Poll, table, record, Goto, At, Mirror
  <1>2. /\ "words" \in Labels
        /\ Tail(events[t]) \in Seq({"tool", "done"})
        /\ [kept[t] EXCEPT !.pieces = MaxPieces] \in KeptType
    <2>1. events[t] \in Seq({"tool", "done"})
      BY DEF TypeOK
    <2>2. Tail(events[t]) \in Seq({"tool", "done"})
      BY <1>1, <2>1, HeadTailProperties
    <2> QED
      BY <1>1, <2>2, TypesOfTurn DEF Labels, TurnInv, OrdinaryInv, DeepInv
  <1>3. TypeOK'
    BY <1>1, <1>2 DEF TypeOK
  <1>4. /\ pc'[t] = "words"
        /\ kept'[t] = [kept[t] EXCEPT !.pieces = MaxPieces]
        /\ shown'[t] = shown[t]
        /\ ran'[t] = ran[t]
        /\ collected'[t] = collected[t]
        /\ part'[t] = part[t]
        /\ todo'[t] = todo[t]
        /\ worker'[t] = worker[t]
        /\ events'[t] = Tail(events[t])
        /\ kept'[t].pieces = MaxPieces
        /\ kept'[t].calls = kept[t].calls
    BY <1>1 DEF TypeOK
  <1>5. \A u \in Turns \ {t} : Same(u)
    BY <1>1 DEF TypeOK, Same
  <1>6. Replies(t)' = Replies(t) /\ \A i \in Replies(t) : rows'[i] = rows[i]
    BY <1>1, SameRows
  <1>7. RowsFor(t)
    BY <1>1, SameRows DEF RowsFor
  <1>8. TurnInv(t)'
    <2>1. Fresh(t)'
      BY <1>1, <1>2, <1>4 DEF TurnInv, Fresh, Before, Nothing
    <2>2. t \notin Deep => OrdinaryInv(t)'
      BY <1>1, <1>2, <1>4, TypesOfTurn DEF TurnInv, OrdinaryInv, DeepSuspended
    <2>3. t \in Deep => DeepInv(t)'
      <3>1. /\ events[t] \in Seq({"tool", "done"}) /\ ran[t] \in Nat
            /\ kept[t] \in KeptType
        BY TypesOfTurn
      <3>2. /\ Tail(events[t]) \in Seq({"tool", "done"})
            /\ Len(Tail(events[t])) = Len(events[t]) - 1
            /\ \A i \in 1..Len(Tail(events[t])) : Tail(events[t])[i] = events[t][i + 1]
        BY <1>1, <3>1, HeadTailProperties
      <3>3. Head(events[t]) = events[t][1] /\ Len(events[t]) > 0 /\ Len(events[t]) \in Nat
        BY <1>1, <3>1
      <3>4. DOMAIN events[t] = 1..Len(events[t])
        BY <3>1
      <3>5. kept'[t].calls = kept[t].calls /\ kept'[t].pieces = MaxPieces /\ kept[t].calls \in Nat
        BY <1>4, <3>1
      <3>6. t \in Deep => worker[t] = "end"
        <4>1. 1 \in DOMAIN events[t]
          BY <3>3, <3>4
        <4>2. t \in Deep => worker[t] # "run" /\ worker[t] # "none"
          BY <1>1, <3>3, <4>1 DEF TurnInv, DeepInv, Before
        <4>3. worker[t] \in {"none", "run", "end"}
          BY DEF TypeOK
        <4> QED
          BY <4>2, <4>3
      <3>7. ASSUME t \in Deep PROVE ran[t] = kept'[t].calls
        <4>1. /\ \A i \in 1..Len(events[t]) : events[t][i] = "tool" <=> i < Len(events[t])
              /\ ran[t] + 1 = kept[t].calls + Len(events[t])
          BY <1>1, <3>4, <3>6, <3>7 DEF TurnInv, DeepInv
        <4>2. Len(events[t]) = 1
          <5>1. events[t][1] # "tool" /\ 1 \in 1..Len(events[t])
            BY <1>1, <3>3
          <5>2. ~(1 < Len(events[t]))
            BY <4>1, <5>1
          <5>3. \A n \in Nat : n > 0 /\ ~(1 < n) => n = 1
            OBVIOUS
          <5> QED
            BY <3>3, <5>2, <5>3
        <4> QED
          BY <3>1, <3>5, <4>1, <4>2
      <3> QED
        BY <1>1, <1>4, <3>1, <3>5, <3>6, <3>7 DEF TurnInv, DeepInv, Before, DeepSuspended
    <2>4. ReplyInv(t)'
      BY <1>1, <1>2, <1>4, <1>6, TypesOfTurn DEF TurnInv, ReplyInv, OrdinaryInv, DeepInv,
         Before, DeepSuspended
    <2> QED
      BY <2>1, <2>2, <2>3, <2>4 DEF TurnInv
  <1> QED
    BY <1>3, <1>5, <1>7, <1>8 DEF StepOf

LEMMA PollTimesOutKeeps ==
    ASSUME TypeOK, NEW t \in Turns, TurnInv(t),
           PollTimesOut(t)
    PROVE  StepOf(t)
  <1>1. /\ pc[t] = "poll"
        /\ events[t] = <<>>
        /\ pc' = [pc EXCEPT ![t] = "over"]
        /\ UNCHANGED <<rows, status, loop, prompt, round, kept, collected, part, todo, worker,
                       events, tick, answering, shown, ran>>
    BY DEF PollTimesOut, table, stream, deep, record, Goto, At
  <1>2. /\ "over" \in Labels
    BY DEF Labels
  <1>3. TypeOK'
    BY <1>1, <1>2 DEF TypeOK
  <1>4. /\ pc'[t] = "over"
        /\ kept'[t] = kept[t]
        /\ shown'[t] = shown[t]
        /\ ran'[t] = ran[t]
        /\ collected'[t] = collected[t]
        /\ part'[t] = part[t]
        /\ todo'[t] = todo[t]
        /\ worker'[t] = worker[t]
        /\ events'[t] = events[t]
    BY <1>1 DEF TypeOK
  <1>5. \A u \in Turns \ {t} : Same(u)
    BY <1>1 DEF TypeOK, Same
  <1>6. Replies(t)' = Replies(t) /\ \A i \in Replies(t) : rows'[i] = rows[i]
    BY <1>1, SameRows
  <1>7. RowsFor(t)
    BY <1>1, SameRows DEF RowsFor
  <1>8. TurnInv(t)'
    <2>1. Fresh(t)'
      BY <1>1, <1>2, <1>4 DEF TurnInv, Fresh, Before, Nothing
    <2>2. t \notin Deep => OrdinaryInv(t)'
      BY <1>1, <1>2, <1>4, TypesOfTurn DEF TurnInv, OrdinaryInv, DeepSuspended
    <2>3. t \in Deep => DeepInv(t)'
      BY <1>1, <1>2, <1>4 DEF TurnInv, DeepInv, Before, DeepSuspended
    <2>4. ReplyInv(t)'
      BY <1>1, <1>2, <1>4, <1>6, TypesOfTurn DEF TurnInv, ReplyInv, OrdinaryInv, DeepInv,
         Before, DeepSuspended
    <2> QED
      BY <2>1, <2>2, <2>3, <2>4 DEF TurnInv
  <1> QED
    BY <1>3, <1>5, <1>7, <1>8 DEF StepOf

LEMMA ShowKeeps ==
    ASSUME TypeOK, NEW t \in Turns, TurnInv(t),
           Show(t)
    PROVE  StepOf(t)
  <1>1. /\ pc[t] = "show"
        /\ pc' = [pc EXCEPT ![t] = "poll"]
        /\ UNCHANGED <<rows, status, loop, prompt, round, kept, collected, part, todo, worker,
                       events, tick, answering, shown, ran>>
    BY DEF Show, table, stream, deep, record, Goto, At
  <1>2. /\ "poll" \in Labels
    BY DEF Labels
  <1>3. TypeOK'
    BY <1>1, <1>2 DEF TypeOK
  <1>4. /\ pc'[t] = "poll"
        /\ kept'[t] = kept[t]
        /\ shown'[t] = shown[t]
        /\ ran'[t] = ran[t]
        /\ collected'[t] = collected[t]
        /\ part'[t] = part[t]
        /\ todo'[t] = todo[t]
        /\ worker'[t] = worker[t]
        /\ events'[t] = events[t]
    BY <1>1 DEF TypeOK
  <1>5. \A u \in Turns \ {t} : Same(u)
    BY <1>1 DEF TypeOK, Same
  <1>6. Replies(t)' = Replies(t) /\ \A i \in Replies(t) : rows'[i] = rows[i]
    BY <1>1, SameRows
  <1>7. RowsFor(t)
    BY <1>1, SameRows DEF RowsFor
  <1>8. TurnInv(t)'
    <2>1. Fresh(t)'
      BY <1>1, <1>2, <1>4 DEF TurnInv, Fresh, Before, Nothing
    <2>2. t \notin Deep => OrdinaryInv(t)'
      BY <1>1, <1>2, <1>4, TypesOfTurn DEF TurnInv, OrdinaryInv, DeepSuspended
    <2>3. t \in Deep => DeepInv(t)'
      BY <1>1, <1>2, <1>4 DEF TurnInv, DeepInv, Before, DeepSuspended
    <2>4. ReplyInv(t)'
      BY <1>1, <1>2, <1>4, <1>6, TypesOfTurn DEF TurnInv, ReplyInv, OrdinaryInv, DeepInv,
         Before, DeepSuspended
    <2> QED
      BY <2>1, <2>2, <2>3, <2>4 DEF TurnInv
  <1> QED
    BY <1>3, <1>5, <1>7, <1>8 DEF StepOf

LEMMA WordSent ==
    ASSUME TypeOK, NEW t \in Turns, TurnInv(t),
           shown[t] < MaxPieces, Word(t)
    PROVE  StepOf(t)
  <1>1. /\ pc[t] = "words"
        /\ shown[t] < MaxPieces
        /\ shown' = [shown EXCEPT ![t] = shown[t] + 1]
        /\ UNCHANGED <<rows, status, loop, pc, prompt, round, kept, collected, part, todo,
                       worker, events, tick, answering, ran>>
    BY DEF Word, stream, deep, Goto, Add, At
  <1>2. /\ shown[t] + 1 \in 0..MaxPieces
    BY <1>1, TypesOfTurn DEF Labels, TurnInv, OrdinaryInv, DeepInv
  <1>3. TypeOK'
    BY <1>1, <1>2 DEF TypeOK
  <1>4. /\ pc'[t] = pc[t]
        /\ kept'[t] = kept[t]
        /\ shown'[t] = shown[t] + 1
        /\ ran'[t] = ran[t]
        /\ collected'[t] = collected[t]
        /\ part'[t] = part[t]
        /\ todo'[t] = todo[t]
        /\ worker'[t] = worker[t]
        /\ events'[t] = events[t]
    BY <1>1 DEF TypeOK
  <1>5. \A u \in Turns \ {t} : Same(u)
    BY <1>1 DEF TypeOK, Same
  <1>6. Replies(t)' = Replies(t) /\ \A i \in Replies(t) : rows'[i] = rows[i]
    BY <1>1, SameRows
  <1>7. RowsFor(t)
    BY <1>1, SameRows DEF RowsFor
  <1>8. TurnInv(t)'
    <2>1. Fresh(t)'
      BY <1>1, <1>2, <1>4 DEF TurnInv, Fresh, Before, Nothing
    <2>2. t \notin Deep => OrdinaryInv(t)'
      BY <1>1, <1>2, <1>4, TypesOfTurn DEF TurnInv, OrdinaryInv, DeepSuspended
    <2>3. t \in Deep => DeepInv(t)'
      BY <1>1, <1>2, <1>4 DEF TurnInv, DeepInv, Before, DeepSuspended
    <2>4. ReplyInv(t)'
      BY <1>1, <1>2, <1>4, <1>6, TypesOfTurn DEF TurnInv, ReplyInv, OrdinaryInv, DeepInv,
         Before, DeepSuspended
    <2> QED
      BY <2>1, <2>2, <2>3, <2>4 DEF TurnInv
  <1> QED
    BY <1>3, <1>5, <1>7, <1>8 DEF StepOf

LEMMA WordLast ==
    ASSUME TypeOK, NEW t \in Turns, TurnInv(t),
           ~(shown[t] < MaxPieces), Word(t)
    PROVE  StepOf(t)
  <1>1. /\ pc[t] = "words"
        /\ ~(shown[t] < MaxPieces)
        /\ pc' = [pc EXCEPT ![t] = "over"]
        /\ rows' = Append(rows, Reply(t, kept[t]))
        /\ UNCHANGED <<status, loop, prompt, round, kept, collected, part, todo, worker,
                       events, tick, answering, shown, ran>>
    BY DEF Word, stream, deep, Goto, Add, At
  <1>2. /\ "over" \in Labels
        /\ Reply(t, kept[t]) \in Row
    BY <1>1, TypesOfTurn DEF Labels, TurnInv, OrdinaryInv, DeepInv, Row, Reply
  <1>3. TypeOK'
    <2>1. rows' \in Seq(Row)
      BY <1>1, <1>2, AppendProperties DEF TypeOK
    <2> QED
      BY <1>1, <1>2, <2>1 DEF TypeOK
  <1>4. /\ pc'[t] = "over"
        /\ kept'[t] = kept[t]
        /\ shown'[t] = shown[t]
        /\ ran'[t] = ran[t]
        /\ collected'[t] = collected[t]
        /\ part'[t] = part[t]
        /\ todo'[t] = todo[t]
        /\ worker'[t] = worker[t]
        /\ events'[t] = events[t]
    BY <1>1 DEF TypeOK
  <1>5. \A u \in Turns \ {t} : Same(u)
    BY <1>1 DEF TypeOK, Same
  <1>6. /\ Replies(t)' = Replies(t) \cup {Len(rows) + 1}
        /\ rows'[Len(rows) + 1] = Reply(t, kept[t])
    BY <1>1, <1>2, RowOfMine DEF TypeOK, Reply
  <1>7. RowsFor(t)
    <2>1. \A u \in Turns \ {t} : /\ Replies(u)' = Replies(u)
                                 /\ \A i \in Replies(u) : rows'[i] = rows[i]
      BY <1>1, <1>2, RowsOfOthers DEF TypeOK, Reply
    <2> QED
      BY <2>1 DEF RowsFor
  <1>8. TurnInv(t)'
    <2>1. Fresh(t)'
      BY <1>1, <1>2, <1>4 DEF TurnInv, Fresh, Before, Nothing
    <2>2. t \notin Deep => OrdinaryInv(t)'
      BY <1>1, <1>2, <1>4, TypesOfTurn DEF TurnInv, OrdinaryInv, DeepSuspended
    <2>3. t \in Deep => DeepInv(t)'
      BY <1>1, <1>2, <1>4 DEF TurnInv, DeepInv, Before, DeepSuspended
    <2>4. ReplyInv(t)'
      <3>1. t \in Deep
        BY <1>1 DEF TurnInv, OrdinaryInv, DeepSuspended
      <3>2. Replies(t) = {} /\ worker[t] = "end"
        BY <1>1, <3>1, TypesOfTurn DEF TurnInv, DeepInv, ReplyInv, Before
      <3>3. kept[t].calls = ran[t] /\ kept[t].pieces >= shown[t]
        BY <1>1, <3>1, TypesOfTurn DEF TurnInv, DeepInv
      <3>4. Replies(t)' = {Len(rows) + 1} /\ rows'[Len(rows) + 1] = Reply(t, kept[t])
        BY <1>6, <3>2
      <3>5. \A i \in Replies(t)' : /\ rows'[i].pieces = kept[t].pieces
                                  /\ rows'[i].calls = kept[t].calls
        BY <3>4 DEF Reply
      <3> QED
        BY <1>4, <3>1, <3>2, <3>3, <3>4, <3>5 DEF ReplyInv
    <2> QED
      BY <2>1, <2>2, <2>3, <2>4 DEF TurnInv
  <1> QED
    BY <1>3, <1>5, <1>7, <1>8 DEF StepOf

LEMMA DisconnectOfOrdinary ==
    ASSUME TypeOK, NEW t \in Turns, TurnInv(t),
           pc[t] \in Suspended, Disconnect(t)
    PROVE  StepOf(t)
  <1>1. /\ pc[t] \in Suspended
        /\ pc' = [pc EXCEPT ![t] = "background"]
        /\ UNCHANGED <<rows, status, loop, prompt, round, kept, collected, part, todo, worker,
                       events, tick, answering, shown, ran>>
    BY DEF Disconnect, table, stream, deep, record, Goto, Suspended, DeepSuspended
  <1>2. /\ "background" \in Labels
    BY DEF Labels
  <1>3. TypeOK'
    BY <1>1, <1>2 DEF TypeOK
  <1>4. /\ pc'[t] = "background"
        /\ kept'[t] = kept[t]
        /\ shown'[t] = shown[t]
        /\ ran'[t] = ran[t]
        /\ collected'[t] = collected[t]
        /\ part'[t] = part[t]
        /\ todo'[t] = todo[t]
        /\ worker'[t] = worker[t]
        /\ events'[t] = events[t]
    BY <1>1 DEF TypeOK
  <1>5. \A u \in Turns \ {t} : Same(u)
    BY <1>1 DEF TypeOK, Same
  <1>6. Replies(t)' = Replies(t) /\ \A i \in Replies(t) : rows'[i] = rows[i]
    BY <1>1, SameRows
  <1>7. RowsFor(t)
    BY <1>1, SameRows DEF RowsFor
  <1>8. TurnInv(t)'
    <2>1. Fresh(t)'
      BY <1>1, <1>2, <1>4 DEF TurnInv, Fresh, Before, Nothing
    <2>2. t \notin Deep => OrdinaryInv(t)'
      BY <1>1, <1>2, <1>4, TypesOfTurn DEF TurnInv, OrdinaryInv, Suspended, DeepSuspended
    <2>3. t \in Deep => DeepInv(t)'
      BY <1>1, <1>2, <1>4 DEF TurnInv, DeepInv, Before, Suspended, DeepSuspended
    <2>4. ReplyInv(t)'
      BY <1>1, <1>2, <1>4, <1>6, TypesOfTurn DEF TurnInv, ReplyInv, OrdinaryInv, DeepInv,
         Before, Suspended, DeepSuspended
    <2> QED
      BY <2>1, <2>2, <2>3, <2>4 DEF TurnInv
  <1> QED
    BY <1>3, <1>5, <1>7, <1>8 DEF StepOf

LEMMA DisconnectOfDeep ==
    ASSUME TypeOK, NEW t \in Turns, TurnInv(t),
           pc[t] \in DeepSuspended, Disconnect(t)
    PROVE  StepOf(t)
  <1>1. /\ pc[t] \in DeepSuspended
        /\ pc' = [pc EXCEPT ![t] = "over"]
        /\ UNCHANGED <<rows, status, loop, prompt, round, kept, collected, part, todo, worker,
                       events, tick, answering, shown, ran>>
    BY DEF Disconnect, table, stream, deep, record, Goto, Suspended, DeepSuspended
  <1>2. /\ "over" \in Labels
    BY DEF Labels
  <1>3. TypeOK'
    BY <1>1, <1>2 DEF TypeOK
  <1>4. /\ pc'[t] = "over"
        /\ kept'[t] = kept[t]
        /\ shown'[t] = shown[t]
        /\ ran'[t] = ran[t]
        /\ collected'[t] = collected[t]
        /\ part'[t] = part[t]
        /\ todo'[t] = todo[t]
        /\ worker'[t] = worker[t]
        /\ events'[t] = events[t]
    BY <1>1 DEF TypeOK
  <1>5. \A u \in Turns \ {t} : Same(u)
    BY <1>1 DEF TypeOK, Same
  <1>6. Replies(t)' = Replies(t) /\ \A i \in Replies(t) : rows'[i] = rows[i]
    BY <1>1, SameRows
  <1>7. RowsFor(t)
    BY <1>1, SameRows DEF RowsFor
  <1>8. TurnInv(t)'
    <2>1. Fresh(t)'
      BY <1>1, <1>2, <1>4 DEF TurnInv, Fresh, Before, Nothing
    <2>2. t \notin Deep => OrdinaryInv(t)'
      BY <1>1, <1>2, <1>4, TypesOfTurn DEF TurnInv, OrdinaryInv, Suspended, DeepSuspended
    <2>3. t \in Deep => DeepInv(t)'
      BY <1>1, <1>2, <1>4 DEF TurnInv, DeepInv, Before, Suspended, DeepSuspended
    <2>4. ReplyInv(t)'
      BY <1>1, <1>2, <1>4, <1>6, TypesOfTurn DEF TurnInv, ReplyInv, OrdinaryInv, DeepInv,
         Before, Suspended, DeepSuspended
    <2> QED
      BY <2>1, <2>2, <2>3, <2>4 DEF TurnInv
  <1> QED
    BY <1>3, <1>5, <1>7, <1>8 DEF StepOf

-----------------------------------------------------------------------------
(* Every step.                                                             *)

\* What one turn does keeps everything.
LEMMA TurnKeeps ==
    ASSUME Inv, NEW t \in Turns,
           StepOf(t)
    PROVE  Inv'
  <1>1. ASSUME NEW u \in Turns, u # t PROVE TurnInv(u)'
    BY <1>1, OthersStay DEF Inv, RowsFor, StepOf
  <1> QED
    BY <1>1 DEF Inv, StepOf

LEMMA ReadHistoryKeeps ==
    ASSUME TypeOK, NEW t \in Turns, TurnInv(t), ReadHistory(t)
    PROVE  StepOf(t)
  <1>1. /\ pc[t] = "posted"
        /\ pc' = [pc EXCEPT ![t] = "read"]
        /\ UNCHANGED <<rows, status, loop, round, kept, collected, part, todo, worker, events,
                       tick, answering, shown, ran>>
    BY DEF ReadHistory, table, stream, deep, record, Goto
  <1>2. PICK i \in DOMAIN rows : prompt' = [prompt EXCEPT ![t] = Append(RemoveAt(rows, i), Asked(t))]
    BY DEF ReadHistory
  <1>3. Append(RemoveAt(rows, i), Asked(t)) \in Seq(Row)
    <2>1. RemoveAt(rows, i) \in Seq(Row)
      BY RemoveAtType DEF TypeOK
    <2>2. Asked(t) \in Row
      BY DEF Asked, Row
    <2> QED
      BY <2>1, <2>2, AppendProperties
  <1>4. TypeOK'
    <2>1. prompt' \in [Turns -> Seq(Row)]
      BY <1>2, <1>3 DEF TypeOK
    <2>2. pc' \in [Turns -> Labels]
      BY <1>1 DEF TypeOK, Labels
    <2> QED
      BY <1>1, <2>1, <2>2 DEF TypeOK
  <1>5. /\ pc'[t] = "read" /\ kept'[t] = kept[t] /\ shown'[t] = shown[t] /\ ran'[t] = ran[t]
        /\ collected'[t] = collected[t] /\ part'[t] = part[t] /\ todo'[t] = todo[t]
        /\ worker'[t] = worker[t] /\ events'[t] = events[t]
    BY <1>1 DEF TypeOK
  <1>6. (\A u \in Turns \ {t} : Same(u)) /\ RowsFor(t)
    BY <1>1, SameRows DEF TypeOK, Same, RowsFor
  <1>7. Replies(t)' = Replies(t)
    BY <1>1, SameRows
  <1>8. TurnInv(t)'
    <2>1. Fresh(t)'
      BY <1>1, <1>5 DEF TurnInv, Fresh, Before
    <2>2. t \notin Deep => OrdinaryInv(t)'
      BY <1>1, <1>5 DEF TurnInv, OrdinaryInv, DeepSuspended
    <2>3. t \in Deep => DeepInv(t)'
      BY <1>1, <1>5 DEF TurnInv, DeepInv, Before
    <2>4. ReplyInv(t)'
      BY <1>1, <1>5, <1>7 DEF TurnInv, ReplyInv
    <2> QED
      BY <2>1, <2>2, <2>3, <2>4 DEF TurnInv
  <1> QED
    BY <1>4, <1>6, <1>8 DEF StepOf

\* What the tick does is no matter of the turns.
LEMMA TickKeeps ==
    ASSUME Inv, TickLists \/ TickMarks
    PROVE  Inv'
  <1>1. UNCHANGED <<rows, loop, pc, prompt, round, kept, collected, part, todo, worker, events,
                    shown, ran>>
    BY DEF TickLists, TickMarks, table, stream, deep, record
  <1>2. TypeOK'
    <2>1. CASE TickLists
      BY <2>1 DEF TickLists, table, stream, deep, record, Inv, TypeOK
    <2>2. CASE TickMarks
      <3>1. status' \in [Turns -> {"unsent", "pending", "delivered"}]
        BY <2>2 DEF TickMarks, Inv, TypeOK
      <3>2. answering' \in [Turns -> SUBSET (Turns \cup {Tick})]
        BY <2>2 DEF TickMarks, Inv, TypeOK
      <3>3. tick' = {}
        BY <2>2 DEF TickMarks
      <3> QED
        BY <1>1, <3>1, <3>2, <3>3 DEF Inv, TypeOK
    <2> QED
      BY <2>1, <2>2
  <1>3. ASSUME NEW u \in Turns PROVE TurnInv(u)'
    BY <1>1, OthersStay, SameRows DEF Inv, Same
  <1> QED
    BY <1>2, <1>3 DEF Inv

LEMMA NextInv == Inv /\ [Next]_vars => Inv'
  <1> SUFFICES ASSUME Inv, [Next]_vars PROVE Inv'
    OBVIOUS
  <1>0. TypeOK /\ \A t \in Turns : TurnInv(t)
    BY DEF Inv
  <1>1. ASSUME NEW t \in Turns, Request(t) PROVE Inv'
    <2>1. CASE Post(t)
      BY <1>0, <2>1, PostKeeps, TurnKeeps
    <2>2. CASE ReadHistory(t)
      BY <1>0, <2>2, ReadHistoryKeeps, TurnKeeps
    <2>3. CASE MarkDelivered(t)
      BY <1>0, <2>3, MarkDeliveredOfDeep, MarkDeliveredOfOrdinary, TurnKeeps
    <2> QED
      BY <1>1, <2>1, <2>2, <2>3 DEF Request
  <1>2. ASSUME NEW t \in Turns, Stream(t) PROVE Inv'
    <2>1. CASE NextRound(t)
      BY <1>0, <2>1, NextRoundBegins, NextRoundStops, TurnKeeps
    <2>2. CASE Chunk(t) \/ ChunkSent(t) \/ EngineFails(t) \/ EngineStops(t)
      BY <1>0, <2>2, ChunkKeeps, ChunkSentKeeps, EngineFailsKeeps, EngineStopsKeeps, TurnKeeps
    <2>3. ASSUME NEW n \in 1..MaxCalls, EngineCalls(t, n) PROVE Inv'
      BY <1>0, <2>3, EngineCallsKeeps, TurnKeeps
    <2>4. CASE RunTool(t) \/ ToolReturns(t) \/ Final(t)
      BY <1>0, <2>4, RunToolKeeps, ToolReturnsKeeps, FinalKeeps, TurnKeeps
    <2>5. CASE Called(t)
      BY <1>0, <2>5, CalledCallsAgain, CalledEndsRound, TurnKeeps
    <2>6. CASE Persist(t)
      <3>1. \/ rows' = Append(rows, Reply(t, kept[t])) /\ Goto(t, "over") /\ kept[t].pieces > 0
            \/ rows' = rows /\ Goto(t, "failed")
            \/ kept[t].pieces = 0
        BY <2>6 DEF Persist
      <3> QED
        BY <1>0, <2>6, <3>1, PersistStores, PersistFails, PersistStoresNothing, TurnKeeps
    <2> QED
      BY <1>2, <2>1, <2>2, <2>3, <2>4, <2>5, <2>6 DEF Stream
  <1>3. ASSUME NEW t \in Turns, Research(t) PROVE Inv'
    <2>1. CASE Poll(t)
      BY <1>0, <2>1, PollOfCall, PollOfEnd, TurnKeeps
    <2>2. CASE PollTimesOut(t) \/ Show(t)
      BY <1>0, <2>2, PollTimesOutKeeps, ShowKeeps, TurnKeeps
    <2>3. CASE Word(t)
      BY <1>0, <2>3, WordSent, WordLast, TurnKeeps
    <2> QED
      BY <1>3, <2>1, <2>2, <2>3 DEF Research
  <1>4. ASSUME NEW t \in Turns, Thread(t) PROVE Inv'
    BY <1>0, <1>4, WorkerCallsKeeps, WorkerEndsKeeps, TurnKeeps DEF Thread
  <1>5. ASSUME NEW t \in Turns, Disconnect(t) PROVE Inv'
    <2>1. pc[t] \in Suspended \/ pc[t] \in DeepSuspended
      BY <1>5 DEF Disconnect
    <2> QED
      BY <1>0, <1>5, <2>1, DisconnectOfOrdinary, DisconnectOfDeep, TurnKeeps
  <1>6. CASE UNCHANGED vars
    <2>1. UNCHANGED <<rows, status, loop, pc, prompt, round, kept, collected, part, todo,
                      worker, events, tick, answering, shown, ran>>
      BY <1>6 DEF vars, table, stream, deep, record
    <2>2. TypeOK'
      BY <1>0, <2>1 DEF TypeOK
    <2>3. ASSUME NEW u \in Turns PROVE TurnInv(u)'
      BY <1>0, <2>1, OthersStay, SameRows DEF Same
    <2> QED
      BY <2>2, <2>3 DEF Inv
  <1> QED
    BY <1>1, <1>2, <1>3, <1>4, <1>5, <1>6, TickKeeps DEF Next

LEMMA Invariance == Spec => []Inv
  <1> QED
    BY InitInv, NextInv, PTL DEF Spec

-----------------------------------------------------------------------------

\* Rows, turns and their threads have the shapes the code gives them; no tool is
\* called that the engine did not ask for, and a reply has no more pieces than it can
\* (agent_manager_routes.py 615-1301).
THEOREM TurnTypes == Spec => []TypeOK
  <1>1. Inv => TypeOK
    BY DEF Inv
  <1> QED
    BY <1>1, Invariance, PTL

\* Whenever a turn ends, by itself, by an error or because the client has left, the
\* conversation holds at most one reply of it, with all the pieces that the client was
\* shown and all the tools that ran, and an ordinary turn that showed anything has one,
\* however many turns share the loop (agent_manager_routes.py 980-1301).
THEOREM ShownIsKept == Spec => []WhatWasShownIsKept
  <1>1. Inv => WhatWasShownIsKept
    <2> SUFFICES ASSUME Inv, NEW t \in Turns, Over(t)
                 PROVE  /\ \A i, j \in Replies(t) : i = j
                        /\ t \notin Deep /\ shown[t] > 0 => Replies(t) # {}
                        /\ \A i \in Replies(t) : rows[i].pieces >= shown[t] /\ rows[i].calls = ran[t]
      BY DEF WhatWasShownIsKept
    <2>1. TurnInv(t) /\ TypeOK
      BY DEF Inv
    <2>2. t \notin Deep /\ shown[t] > 0 => kept[t].pieces > 0
      BY <2>1, TypesOfTurn DEF TurnInv, OrdinaryInv
    <2> QED
      BY <2>1, <2>2 DEF TurnInv, ReplyInv, Over
  <1> QED
    BY <1>1, Invariance, PTL
=============================================================================
