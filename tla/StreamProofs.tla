---------------------------- MODULE StreamProofs ----------------------------
(***************************************************************************)
(* Proofs about the stream parser of trusted_session.py, for any number of *)
(* tools and lines and any limit of retries: ParserInv is inductive, and   *)
(* what the parser knows of the lines earns its verdict.                   *)
(***************************************************************************)
EXTENDS StreamParser, FiniteSetTheorems, TLAPS

\* What a line of a phase may be.
Ordinary ==
  {"other", "text", "error", "garbage", "tool", "answer", "success", "retry", "retry503"}
LEMMA LineKinds ==
  ASSUME NEW p \in {"diagnosing", "executing", "inspecting"}, NEW line \in Lines(p)
  PROVE  /\ line.kind \in Ordinary \cup Markers
         /\ line.kind \in Markers => p = "executing"
         /\ line.kind \in {"retry", "retry503"} => p = "inspecting"
         /\ line.kind \in {"tool", "answer"} => line.id \in Tools
<1> USE DEF Markers, Verifications, Ordinary
<1>1. CASE line \in Common
  <2>1. CASE line \in OfKind({"other", "text", "error", "garbage"})  BY <2>1 DEF OfKind
  <2>2. CASE line \in [kind : {"tool", "answer"}, id : Tools]  BY <2>2
  <2>3. CASE line \in [kind : {"success"}, output : {"good", "bad", "none"}]  BY <2>3
  <2> QED BY <1>1, <2>1, <2>2, <2>3 DEF Common
<1>2. CASE p = "executing" /\ line \in OfKind(Markers)  BY <1>2 DEF OfKind
<1>3. CASE p = "inspecting" /\ line \in OfKind({"retry", "retry503"})  BY <1>3 DEF OfKind
<1> QED BY <1>1, <1>2, <1>3 DEF Lines

\* Counting in a set of numbers up to n + 1.
LEMMA CountNext ==
  ASSUME NEW n \in Nat, NEW S \in SUBSET (1..n + 1)
  PROVE  /\ Cardinality(S) \in Nat /\ Cardinality(S \cap (1..n)) \in Nat
         /\ Cardinality(S) = Cardinality(S \cap (1..n)) + (IF n + 1 \in S THEN 1 ELSE 0)
<1> DEFINE T == S \cap (1..n)
<1>0. n + 1 \notin 1..n /\ \A i \in S : i \in 1..n \/ i = n + 1  OBVIOUS
<1>1. IsFiniteSet(1..n + 1)  BY FS_Interval
<1>2. IsFiniteSet(S) /\ IsFiniteSet(T)  BY <1>1, FS_Subset
<1>3. Cardinality(S) \in Nat /\ Cardinality(T) \in Nat  BY <1>2, FS_CardinalityType
<1>4. CASE n + 1 \in S
  <2>1. S = T \cup {n + 1} /\ n + 1 \notin T  BY <1>0, <1>4
  <2> QED BY <1>2, <1>3, <1>4, <2>1, FS_AddElement
<1>5. CASE n + 1 \notin S
  <2>1. S = T  BY <1>0, <1>5
  <2> QED BY <1>3, <1>5, <2>1
<1> QED BY <1>4, <1>5

\* How often a tool was used is a number.
LEMMA UsesAreNat == ASSUME NEW kind, NEW id, NEW n \in Nat PROVE Uses(kind, id, n) \in Nat
<1>1. IsFiniteSet(1..n)  BY FS_Interval
<1>2. {i \in 1..n : stream[i].kind = kind /\ stream[i].id = id} \in SUBSET (1..n)  OBVIOUS
<1> QED BY <1>1, <1>2, FS_Subset, FS_CardinalityType DEF Uses

\* Lines that are no tool's change no uses.
LEMMA UsesStay ==
  ASSUME NEW kind, NEW id, NEW m \in Nat, NEW n \in Nat, m <= n,
         \A j \in m + 1..n : KindAt(j) # kind
  PROVE  Uses(kind, id, n) = Uses(kind, id, m)
<1>1. {i \in 1..n : stream[i].kind = kind /\ stream[i].id = id} =
      {i \in 1..m : stream[i].kind = kind /\ stream[i].id = id}
  BY DEF KindAt
<1> QED BY <1>1 DEF Uses

\* A line read is the last of the stream, and the others are as they were.
LEMMA StreamGrows ==
  ASSUME StreamTypeOK, NEW line \in Lines(phase), stream' = Append(stream, line)
  PROVE  /\ Len(stream) \in Nat /\ Len(stream') = Len(stream) + 1
         /\ stream'[Len(stream) + 1] = line
         /\ \A i \in 1..Len(stream) : stream'[i] = stream[i]
         /\ stream' \in Seq(Lines(phase)) /\ stream' # <<>>
         /\ \A i \in 1..Len(stream) : stream[i] \in Lines(phase)
<1>1. stream \in Seq(Lines(phase))  BY DEF StreamTypeOK
<1> QED BY <1>1

\* And so are the uses among them.
LEMMA UsesKept ==
  ASSUME NEW n \in Nat, \A i \in 1..n : stream'[i] = stream[i], NEW kind, NEW id, NEW m \in 0..n
  PROVE  Uses(kind, id, m)' = Uses(kind, id, m)
<1>1. {i \in 1..m : stream'[i].kind = kind /\ stream'[i].id = id} =
      {i \in 1..m : stream[i].kind = kind /\ stream[i].id = id}
  OBVIOUS
<1> QED BY <1>1 DEF Uses

\* One line more is one use more, or none.
LEMMA UsesGrow ==
  ASSUME NEW n \in Nat, \A i \in 1..n : stream'[i] = stream[i], NEW kind, NEW id
  PROVE  Uses(kind, id, n + 1)' = Uses(kind, id, n) +
           (IF stream'[n + 1].kind = kind /\ stream'[n + 1].id = id THEN 1 ELSE 0)
<1> DEFINE S == {i \in 1..n + 1 : stream'[i].kind = kind /\ stream'[i].id = id}
<1>1. S \cap (1..n) = {i \in 1..n : stream[i].kind = kind /\ stream[i].id = id}  OBVIOUS
<1>2. S \in SUBSET (1..n + 1)  OBVIOUS
<1>3. n + 1 \in S <=> stream'[n + 1].kind = kind /\ stream'[n + 1].id = id  OBVIOUS
<1>4. Uses(kind, id, n + 1)' = Cardinality(S)  BY DEF Uses
<1> HIDE DEF S
<1>5. Cardinality(S) = Cardinality(S \cap (1..n)) + (IF n + 1 \in S THEN 1 ELSE 0)
  BY <1>2, CountNext
<1> QED BY <1>1, <1>3, <1>4, <1>5 DEF Uses

\* What an accepted line does to each field.
LEMMA LineEffect ==
  ASSUME StreamTypeOK, NEW line \in Lines(phase), ~Refused(line), parser' = AfterLine(line)
  PROVE  /\ parser' \in ParsedStream
         /\ ~parser.terminal /\ line.kind # "garbage"
         /\ parser'.terminal <=> line.kind \in {"success", "error"}
         /\ parser'.error <=> parser.error \/ line.kind = "error"
         /\ parser'.open = CASE line.kind = "tool" -> parser.open \cup {line.id}
                             [] line.kind = "answer" -> parser.open \ {line.id}
                             [] OTHER -> parser.open
         /\ line.kind = "tool" => line.id \notin parser.open
         /\ line.kind = "answer" => line.id \in parser.open
         /\ parser'.risk <=> parser.risk \/ line.kind = "risk"
         /\ parser'.markers = parser.markers + (IF line.kind \in Verifications THEN 1 ELSE 0)
         /\ parser'.outcome =
              CASE line.kind = "text" /\ parser.markers > 0 -> "unknown"
                [] line.kind \in Verifications -> Outcome(line.kind, parser.markers + 1)
                [] OTHER -> parser.outcome
         /\ parser.risk => line.kind \notin {"text", "tool", "answer"} \cup Markers
         /\ parser.markers > 0 => line.kind \notin {"tool", "answer", "risk", "plan"}
         /\ line.kind = "retry503" => parser'.retries = parser.retries + 1
         /\ line.kind \in {"text", "tool", "answer", "retry"} => parser'.retries = 0
         /\ line.kind = "other" => parser' = parser
         /\ parser'.early <=> IF line.kind = "retry503" THEN parser.retries + 1 >= RetryLimit
                              ELSE parser.early
<1> DEFINE P == parser' k == line.kind
<1>0. parser \in ParsedStream /\ phase \in {"diagnosing", "executing", "inspecting"}
  BY DEF StreamTypeOK
<1>1. k \in Ordinary \cup Markers /\ (k \in {"tool", "answer"} => line.id \in Tools)
  BY <1>0, LineKinds
<1>2. /\ ~parser.terminal /\ k # "garbage" /\ ~RefusesAssistant(line) /\ ~RefusesAnswer(line)
  BY DEF Refused
<1>3. /\ parser.terminal \in BOOLEAN /\ parser.error \in BOOLEAN /\ parser.risk \in BOOLEAN
      /\ parser.open \in SUBSET Tools /\ parser.markers \in Nat /\ parser.retries \in Nat
      /\ parser.early \in BOOLEAN
  BY <1>0 DEF ParsedStream
<1> DEFINE fresh == [parser EXCEPT !.retries = 0]
<1>f. fresh \in ParsedStream  BY <1>0 DEF ParsedStream
<1>4. CASE k = "other"
  <2>1. P = parser  BY <1>4 DEF AfterLine, Markers, Verifications
  <2> QED BY <1>0, <1>2, <1>3, <1>4, <2>1 DEF Markers, Verifications
<1>5. CASE k = "text"
  <2>1. P = IF parser.markers > 0 THEN [fresh EXCEPT !.outcome = "unknown"] ELSE fresh
    BY <1>0, <1>5 DEF AfterLine, AfterText, Markers, Verifications, ParsedStream
  <2>2. ~parser.risk
    BY <1>2, <1>5 DEF RefusesAssistant, Assistant
  <2>3. P \in ParsedStream  BY <1>0, <1>f, <1>1, <1>3, <2>1, <2>2 DEF ParsedStream
  <2>4. /\ P.terminal = parser.terminal /\ P.error = parser.error /\ P.risk = parser.risk
        /\ P.open = parser.open /\ P.markers = parser.markers /\ P.early = parser.early
        /\ P.retries = 0
        /\ P.outcome = (IF parser.markers > 0 THEN "unknown" ELSE parser.outcome)
    BY <1>0, <2>1 DEF ParsedStream
  <2> QED BY <1>2, <1>3, <1>5, <2>3, <2>4, <2>2 DEF Markers, Verifications
<1>6. CASE k = "tool"
  <2>1. P = [fresh EXCEPT !.open = parser.open \cup {line.id}]
    BY <1>0, <1>6 DEF AfterLine, Markers, Verifications, ParsedStream
  <2>2. ~parser.risk /\ ~(parser.markers > 0) /\ line.id \notin parser.open
    BY <1>2, <1>6 DEF RefusesAssistant, Assistant
  <2>3. parser.open \cup {line.id} \in SUBSET Tools
    BY <1>1, <1>3, <1>6
  <2>4. P \in ParsedStream  BY <1>0, <1>f, <1>1, <1>3, <2>1, <2>2, <2>3 DEF ParsedStream
  <2>5. /\ P.terminal = parser.terminal /\ P.error = parser.error /\ P.risk = parser.risk
        /\ P.markers = parser.markers /\ P.outcome = parser.outcome /\ P.early = parser.early
        /\ P.retries = 0
        /\ P.open = parser.open \cup {line.id}
    BY <1>0, <2>1 DEF ParsedStream
  <2> QED BY <1>2, <1>3, <1>6, <2>4, <2>5, <2>2, <2>3 DEF Markers, Verifications
<1>7. CASE k = "answer"
  <2>1. P = [fresh EXCEPT !.open = parser.open \ {line.id}]
    BY <1>0, <1>7 DEF AfterLine, Markers, Verifications, ParsedStream
  <2>2. ~parser.risk /\ ~(parser.markers > 0) /\ line.id \in parser.open
    BY <1>2, <1>7 DEF RefusesAnswer
  <2>3. parser.open \ {line.id} \in SUBSET Tools  BY <1>3
  <2>4. P \in ParsedStream  BY <1>0, <1>f, <2>1, <2>3 DEF ParsedStream
  <2>5. /\ P.terminal = parser.terminal /\ P.error = parser.error /\ P.risk = parser.risk
        /\ P.markers = parser.markers /\ P.outcome = parser.outcome /\ P.early = parser.early
        /\ P.retries = 0
        /\ P.open = parser.open \ {line.id}
    BY <1>0, <2>1 DEF ParsedStream
  <2> QED BY <1>2, <1>3, <1>7, <2>4, <2>5, <2>2 DEF Markers, Verifications
<1>8. CASE k \in Verifications
  <2>1. P = [fresh EXCEPT !.markers = parser.markers + 1,
                          !.outcome = Outcome(k, parser.markers + 1)]
    BY <1>0, <1>8 DEF AfterLine, AfterMarker, Markers, Verifications, ParsedStream
  <2>2. Outcome(k, parser.markers + 1) \in {"success", "failed", "unknown"}
        /\ parser.markers + 1 \in Nat
    BY <1>3 DEF Outcome
  <2>3. ~parser.risk
    BY <1>2, <1>8 DEF RefusesAssistant, Assistant, Markers
  <2>4. P \in ParsedStream  BY <1>0, <1>f, <2>1, <2>2 DEF ParsedStream
  <2>5. /\ P.terminal = parser.terminal /\ P.error = parser.error /\ P.risk = parser.risk
        /\ P.open = parser.open /\ P.early = parser.early /\ P.markers = parser.markers + 1
        /\ P.outcome = Outcome(k, parser.markers + 1)
    BY <1>0, <2>1 DEF ParsedStream
  <2> QED BY <1>2, <1>3, <1>8, <2>3, <2>4, <2>5 DEF Markers, Verifications
<1>9. CASE k = "risk"
  <2>1. P = [fresh EXCEPT !.risk = TRUE]
    BY <1>0, <1>9 DEF AfterLine, AfterMarker, Markers, Verifications
  <2>2. ~parser.risk /\ ~(parser.markers > 0)
    BY <1>2, <1>9 DEF RefusesAssistant, Assistant, Markers
  <2>3. P \in ParsedStream  BY <1>0, <1>f, <1>1, <1>3, <2>1, <2>2 DEF ParsedStream
  <2>4. /\ P.terminal = parser.terminal /\ P.error = parser.error /\ P.open = parser.open
        /\ P.markers = parser.markers /\ P.outcome = parser.outcome /\ P.early = parser.early
        /\ P.retries = 0
        /\ P.risk = TRUE
    BY <1>0, <2>1 DEF ParsedStream
  <2> QED BY <1>2, <1>3, <1>9, <2>3, <2>4, <2>2 DEF Markers, Verifications
<1>10. CASE k = "plan"
  <2>1. P = fresh
    BY <1>0, <1>10 DEF AfterLine, AfterMarker, Markers, Verifications
  <2>2. ~parser.risk /\ ~(parser.markers > 0)
    BY <1>2, <1>10 DEF RefusesAssistant, Assistant, Markers
  <2>3. P \in ParsedStream  BY <1>0, <1>f, <1>1, <1>3, <2>1, <2>2 DEF ParsedStream
  <2>4. /\ P.terminal = parser.terminal /\ P.error = parser.error /\ P.risk = parser.risk
        /\ P.open = parser.open /\ P.markers = parser.markers /\ P.outcome = parser.outcome
        /\ P.early = parser.early
        /\ P.retries = 0
    BY <1>0, <2>1 DEF ParsedStream
  <2> QED BY <1>2, <1>3, <1>10, <2>3, <2>4, <2>2 DEF Markers, Verifications
<1>11. CASE k = "retry"
  <2>1. P = fresh
    BY <1>0, <1>11 DEF AfterLine, AfterRetry, Markers, Verifications
  <2>2. P \in ParsedStream  BY <1>0, <1>f, <1>1, <1>3, <2>1 DEF ParsedStream
  <2>3. /\ P.terminal = parser.terminal /\ P.error = parser.error /\ P.risk = parser.risk
        /\ P.open = parser.open /\ P.markers = parser.markers /\ P.outcome = parser.outcome
        /\ P.early = parser.early
        /\ P.retries = 0
    BY <1>0, <2>1 DEF ParsedStream
  <2> QED BY <1>2, <1>3, <1>11, <2>2, <2>3 DEF Markers, Verifications
<1>12. CASE k = "retry503"
  <2>1. P = [parser EXCEPT !.retries = parser.retries + 1,
                           !.early = (parser.retries + 1 >= RetryLimit)]
    BY <1>0, <1>12 DEF AfterLine, AfterRetry, Markers, Verifications, ParsedStream
  <2>2. (parser.retries + 1 >= RetryLimit) \in BOOLEAN /\ parser.retries + 1 \in Nat
    BY <1>3
  <2>3. P \in ParsedStream  BY <1>0, <1>f, <1>1, <1>3, <2>1, <2>2 DEF ParsedStream
  <2>4. /\ P.terminal = parser.terminal /\ P.error = parser.error /\ P.risk = parser.risk
        /\ P.open = parser.open /\ P.markers = parser.markers /\ P.outcome = parser.outcome
        /\ P.retries = parser.retries + 1
        /\ P.early <=> parser.retries + 1 >= RetryLimit
    BY <1>0, <2>1 DEF ParsedStream
  <2> QED BY <1>2, <1>3, <1>12, <2>3, <2>4, <2>2 DEF Markers, Verifications
<1>13. CASE k = "error"
  <2>1. P = [parser EXCEPT !.terminal = TRUE, !.error = TRUE]
    BY <1>0, <1>13 DEF AfterLine, Markers, Verifications
  <2>2. P \in ParsedStream  BY <1>0, <1>f, <1>1, <1>3, <2>1 DEF ParsedStream
  <2>3. /\ P.risk = parser.risk /\ P.open = parser.open /\ P.markers = parser.markers
        /\ P.outcome = parser.outcome /\ P.retries = parser.retries /\ P.early = parser.early
        /\ P.terminal = TRUE
        /\ P.error = TRUE
    BY <1>0, <2>1 DEF ParsedStream
  <2> QED BY <1>2, <1>3, <1>13, <2>2, <2>3 DEF Markers, Verifications
<1>14. CASE k = "success"
  <2>1. P = [parser EXCEPT !.terminal = TRUE,
                           !.outputs = IF line.output = "none" THEN 0 ELSE 1]
    BY <1>0, <1>14 DEF AfterLine, Markers, Verifications
  <2>2. P \in ParsedStream  BY <1>0, <1>f, <1>1, <1>3, <2>1 DEF ParsedStream
  <2>3. /\ P.error = parser.error /\ P.risk = parser.risk /\ P.open = parser.open
        /\ P.markers = parser.markers /\ P.outcome = parser.outcome /\ P.retries = parser.retries
        /\ P.early = parser.early
        /\ P.terminal = TRUE
    BY <1>0, <2>1 DEF ParsedStream
  <2> QED BY <1>2, <1>3, <1>14, <2>2, <2>3 DEF Markers, Verifications
<1> QED
  BY <1>1, <1>2, <1>4, <1>5, <1>6, <1>7, <1>8, <1>9, <1>10, <1>11, <1>12, <1>13, <1>14
  DEF Ordinary, Markers
-----------------------------------------------------------------------------
(* Two kinds of steps: one that accepts a line, and one that only stops.   *)

Stops ==
  /\ UNCHANGED <<phase, parser>> /\ reading' # "lines"
  /\ Accepted = Len(stream) /\ Accepted' = Accepted /\ Spoken' = Spoken
  /\ \A i \in 1..Accepted : stream'[i] = stream[i]
Accepts(line) ==
  /\ line \in Lines(phase) /\ ~Refused(line) /\ reading = "lines" /\ ~parser.early
  /\ stream' = Append(stream, line) /\ parser' = AfterLine(line)
  /\ reading' = (IF parser'.early THEN "refused" ELSE "lines")
  /\ UNCHANGED <<phase, exitcode, verdict>>
  /\ Accepted = Len(stream) /\ Spoken = Len(stream) /\ Accepted' = Len(stream) + 1
  /\ Spoken' = IF line.kind \in {"success", "error"} THEN Len(stream) ELSE Len(stream) + 1

\* What a refused line or the end of the output does.
LEMMA RefusedStops ==
  ASSUME StreamTypeOK, EndIsKnown, NEW line \in Lines(phase), ReadsLine(line), Refused(line)
  PROVE  Stops
<1>1. /\ reading = "lines" /\ stream' = Append(stream, line) /\ reading' = "refused"
      /\ UNCHANGED <<phase, parser>>
  BY DEF ReadsLine
<1>2. Len(stream) \in Nat /\ Len(stream') = Len(stream) + 1
      /\ \A i \in 1..Len(stream) : stream'[i] = stream[i]
  BY <1>1, StreamGrows
<1>3. ~parser.early  BY <1>1 DEF EndIsKnown
<1>4. Accepted = Len(stream)  BY <1>1 DEF Accepted
<1>5. Accepted' = Len(stream)  BY <1>1, <1>2, <1>3 DEF Accepted
<1>6. Spoken' = Spoken  BY <1>1, <1>4, <1>5 DEF Spoken
<1> QED BY <1>1, <1>2, <1>4, <1>5, <1>6 DEF Stops

LEMMA EndStops ==
  ASSUME StreamTypeOK, EndIsKnown, NEW code \in {0, 1}, StreamEnds(code) PROVE Stops
<1>1. /\ reading = "lines" /\ reading' \in {"failed", "ended"}
      /\ UNCHANGED <<phase, stream, parser>>
  BY DEF StreamEnds
<1>2. Accepted = Len(stream) /\ Accepted' = Accepted  BY <1>1 DEF Accepted
<1>3. Spoken' = Spoken  BY <1>1, <1>2 DEF Spoken
<1> QED BY <1>1, <1>2, <1>3 DEF Stops

\* And what a line that is not refused does.
LEMMA LineAccepted ==
  ASSUME StreamTypeOK, EndIsKnown, NEW line \in Lines(phase), ReadsLine(line), ~Refused(line)
  PROVE  Accepts(line)
<1>1. /\ reading = "lines" /\ stream' = Append(stream, line) /\ parser' = AfterLine(line)
      /\ reading' = (IF parser'.early THEN "refused" ELSE "lines")
      /\ UNCHANGED <<phase, exitcode, verdict>>
  BY DEF ReadsLine
<1>2. Len(stream) \in Nat /\ Len(stream') = Len(stream) + 1  BY <1>1, StreamGrows
<1>3. ~parser.early  BY <1>1 DEF EndIsKnown
<1>4. ~parser.terminal /\ (parser'.terminal <=> line.kind \in {"success", "error"})
  BY <1>1, LineEffect
<1>5. Accepted = Len(stream) /\ Spoken = Len(stream)  BY <1>1, <1>4 DEF Accepted, Spoken
<1>6. Accepted' = Len(stream) + 1  BY <1>1, <1>2 DEF Accepted
<1>7. Spoken' = IF line.kind \in {"success", "error"} THEN Len(stream) ELSE Len(stream) + 1
  BY <1>2, <1>4, <1>6 DEF Spoken
<1> QED BY <1>1, <1>3, <1>5, <1>6, <1>7 DEF Accepts

\* The types.
LEMMA TypeKept == ASSUME StreamTypeOK, EndIsKnown, StreamNext PROVE StreamTypeOK'
<1>1. ASSUME NEW line \in Lines(phase), ReadsLine(line) PROVE StreamTypeOK'
  <2>1. stream' \in Seq(Lines(phase)) /\ phase' = phase /\ exitcode' = exitcode
    BY <1>1, StreamGrows DEF ReadsLine
  <2>2. parser' \in ParsedStream /\ reading' \in {"lines", "refused"}
    BY <1>1, LineEffect DEF ReadsLine, StreamTypeOK
  <2> QED BY <2>1, <2>2 DEF StreamTypeOK
<1>2. ASSUME NEW code \in {0, 1}, StreamEnds(code) PROVE StreamTypeOK'
  BY <1>2 DEF StreamEnds, StreamTypeOK
<1> QED BY <1>1, <1>2 DEF StreamNext

\* The end.
LEMMA EndKept == ASSUME StreamTypeOK, EndIsKnown, StreamNext PROVE EndIsKnown'
<1>0. Len(stream) \in Nat  BY DEF StreamTypeOK
<1>1. ASSUME NEW line \in Lines(phase), ReadsLine(line), Refused(line) PROVE EndIsKnown'
  <2>1. /\ reading = "lines" /\ stream' = Append(stream, line) /\ reading' = "refused"
        /\ UNCHANGED <<phase, parser, exitcode, verdict>>
    BY <1>1 DEF ReadsLine
  <2>2. Stops  BY <1>1, RefusedStops
  <2>3. /\ Len(stream') = Len(stream) + 1 /\ stream' # <<>>
        /\ stream'[Len(stream')] = line
    BY <2>1, StreamGrows
  <2>4. Refused(line)'  BY <1>1, <2>1 DEF Refused, RefusesAssistant, RefusesAnswer, RefusesOutput
  <2>5. \A i \in 1..Accepted : KindAt(i)' = KindAt(i)  BY <2>2 DEF Stops, KindAt
  <2>6. Spoken \in Int /\ Spoken <= Accepted /\ Accepted = Len(stream)
    BY <1>0, <2>2 DEF Spoken, Stops
  <2>7. \A i \in 1..Spoken' : KindAt(i)' \notin {"success", "error", "garbage"}
    BY <2>2, <2>5, <2>6 DEF EndIsKnown, Stops
  <2>8. parser'.terminal =>
          Accepted' > 0 /\ KindAt(Accepted)' = IF parser'.error THEN "error" ELSE "success"
    <3>1. KindAt(Accepted)' = stream'[Accepted'].kind  BY DEF KindAt
    <3>2. Accepted > 0 => KindAt(Accepted) = stream'[Accepted].kind
      BY <1>0, <2>2, <2>6 DEF KindAt, Stops
    <3> QED BY <2>1, <2>2, <3>1, <3>2 DEF EndIsKnown, Stops, KindAt
  <2> QED BY <2>1, <2>3, <2>4, <2>7, <2>8 DEF EndIsKnown
<1>2. ASSUME NEW code \in {0, 1}, StreamEnds(code) PROVE EndIsKnown'
  <2>1. /\ reading = "lines" /\ UNCHANGED <<phase, stream, parser>> /\ exitcode' = code
        /\ IF Incomplete(code) THEN reading' = "failed" /\ verdict' = verdict
           ELSE reading' = "ended" /\ verdict' = Status
    BY <1>2 DEF StreamEnds
  <2>2. Stops  BY <1>2, EndStops
  <2>3. Incomplete(exitcode)' = Incomplete(code)' /\ Status' = Status
        /\ (Incomplete(code)' <=> Incomplete(code))
    BY <2>1 DEF Incomplete, Status
  <2>4. \A i : KindAt(i)' = KindAt(i)  BY <2>1 DEF KindAt
  <2>5. verdict = "none" /\ ~parser.early  BY <2>1 DEF EndIsKnown
  <2> QED BY <2>1, <2>2, <2>3, <2>4, <2>5 DEF EndIsKnown, Stops, Incomplete, Status, KindAt
<1>3. ASSUME NEW line \in Lines(phase), Accepts(line) PROVE EndIsKnown'
  <2>1. /\ reading = "lines" /\ stream' = Append(stream, line) /\ parser' = AfterLine(line)
        /\ reading' = (IF parser'.early THEN "refused" ELSE "lines")
        /\ UNCHANGED <<phase, exitcode, verdict>> /\ ~parser.early /\ ~Refused(line)
        /\ Spoken = Len(stream) /\ Accepted' = Len(stream) + 1
        /\ Spoken' = IF line.kind \in {"success", "error"} THEN Len(stream) ELSE Len(stream) + 1
    BY <1>3 DEF Accepts
  <2>2. /\ Len(stream') = Len(stream) + 1 /\ stream'[Len(stream) + 1] = line
        /\ \A i \in 1..Len(stream) : stream'[i] = stream[i]
    BY <2>1, StreamGrows
  <2>3. /\ ~parser.terminal /\ line.kind # "garbage"
        /\ parser'.terminal <=> line.kind \in {"success", "error"}
        /\ parser'.error <=> parser.error \/ line.kind = "error"
        /\ parser'.early <=> IF line.kind = "retry503" THEN parser.retries + 1 >= RetryLimit
                             ELSE parser.early
    BY <2>1, LineEffect
  <2>4. ~parser.error /\ exitcode = 0 /\ verdict = "none"
    BY <2>1, <2>3 DEF EndIsKnown
  <2>5. line.kind = "retry503" => phase = "inspecting"  BY LineKinds DEF StreamTypeOK
  <2>6. \A i \in 1..Spoken' : KindAt(i)' \notin {"success", "error", "garbage"}
    BY <1>0, <2>1, <2>2, <2>3 DEF EndIsKnown, KindAt
  <2>7. parser'.terminal =>
          Accepted' > 0 /\ KindAt(Accepted)' = IF parser'.error THEN "error" ELSE "success"
    BY <1>0, <2>1, <2>2, <2>3, <2>4 DEF KindAt
  <2>8. parser'.early => reading' = "refused" /\ phase' = "inspecting"
    BY <2>1, <2>3, <2>5
  <2> QED BY <2>1, <2>3, <2>4, <2>6, <2>7, <2>8 DEF EndIsKnown
<1> QED BY <1>1, <1>2, <1>3, LineAccepted DEF StreamNext

\* The tools.
LEMMA ToolsKept == ASSUME StreamTypeOK, EndIsKnown, ToolsAreKnown, StreamNext PROVE ToolsAreKnown'
<1>0. Len(stream) \in Nat  BY DEF StreamTypeOK
<1>1. ASSUME Stops PROVE ToolsAreKnown'
  <2>1. PICK n \in Nat : n = Accepted  BY <1>0, <1>1 DEF Stops
  <2>2. /\ Accepted' = n /\ parser' = parser /\ \A i \in 1..n : stream'[i] = stream[i]
    BY <1>1, <2>1 DEF Stops
  <2>3. \A kind, id : \A m \in 0..n : Uses(kind, id, m)' = Uses(kind, id, m)
    BY <2>2, UsesKept
  <2>4. n \in 0..n /\ \A m \in 1..n : m \in 0..n  OBVIOUS
  <2>5. ASSUME NEW id \in Tools
        PROVE  /\ \A m \in 1..n : Uses("tool", id, m)' - Uses("answer", id, m)' \in {0, 1}
               /\ Uses("tool", id, n)' =
                    Uses("answer", id, n)' + (IF id \in parser'.open THEN 1 ELSE 0)
    BY <2>1, <2>2, <2>3, <2>4 DEF ToolsAreKnown
  <2> QED BY <2>2, <2>5 DEF ToolsAreKnown
<1>2. ASSUME NEW line \in Lines(phase), Accepts(line) PROVE ToolsAreKnown'
  <2>1. PICK n \in Nat : n = Len(stream)  BY <1>0
  <2>2. /\ stream' = Append(stream, line) /\ parser' = AfterLine(line) /\ ~Refused(line)
        /\ Accepted = n /\ Accepted' = n + 1
    BY <1>2, <2>1 DEF Accepts
  <2>3. stream'[n + 1] = line /\ \A i \in 1..n : stream'[i] = stream[i]
    BY <2>1, <2>2, StreamGrows
  <2>4. \A kind, id : \A m \in 0..n : Uses(kind, id, m)' = Uses(kind, id, m)
    BY <2>3, UsesKept
  <2>5. \A kind, id : Uses(kind, id, n + 1)' = Uses(kind, id, n) +
          (IF line.kind = kind /\ line.id = id THEN 1 ELSE 0)
    BY <2>3, UsesGrow
  <2>6. \A kind, id : Uses(kind, id, n) \in Nat  BY UsesAreNat
  <2>7. /\ parser'.open = CASE line.kind = "tool" -> parser.open \cup {line.id}
                            [] line.kind = "answer" -> parser.open \ {line.id}
                            [] OTHER -> parser.open
        /\ line.kind = "tool" => line.id \notin parser.open
        /\ line.kind = "answer" => line.id \in parser.open
    BY <2>2, LineEffect
  <2>8. ASSUME NEW id \in Tools
        PROVE  /\ \A m \in 1..n + 1 : Uses("tool", id, m)' - Uses("answer", id, m)' \in {0, 1}
               /\ Uses("tool", id, n + 1)' =
                    Uses("answer", id, n + 1)' + (IF id \in parser'.open THEN 1 ELSE 0)
    <3>1. Uses("tool", id, n) = Uses("answer", id, n) + (IF id \in parser.open THEN 1 ELSE 0)
      BY <2>2 DEF ToolsAreKnown
    <3>2. \A m \in 1..n : Uses("tool", id, m)' - Uses("answer", id, m)' \in {0, 1}
      BY <2>2, <2>4 DEF ToolsAreKnown
    <3>3. Uses("tool", id, n + 1)' =
            Uses("answer", id, n + 1)' + (IF id \in parser'.open THEN 1 ELSE 0)
      BY <2>5, <2>6, <2>7, <3>1
    <3>4. Uses("answer", id, n + 1)' \in Nat
      BY <2>5, <2>6
    <3>5. Uses("tool", id, n + 1)' - Uses("answer", id, n + 1)' \in {0, 1}
      BY <3>3, <3>4
    <3> QED BY <3>2, <3>3, <3>5
  <2> QED BY <2>2, <2>8 DEF ToolsAreKnown
<1> QED BY <1>1, <1>2, LineAccepted, RefusedStops, EndStops DEF StreamNext

\* The markers of a repair.
LEMMA MarkersKept ==
  ASSUME StreamTypeOK, EndIsKnown, phase = "executing", MarkersAreKnown, StreamNext
  PROVE  MarkersAreKnown'
<1>0. Len(stream) \in Nat /\ parser \in ParsedStream  BY DEF StreamTypeOK
<1>1. ASSUME Stops PROVE MarkersAreKnown'
  <2>0. Accepted \in Nat /\ Spoken \in Int /\ Spoken <= Accepted
    BY <1>0, <1>1 DEF Stops, Spoken
  <2>1. PICK n \in Int : n = Spoken /\ n <= Accepted /\ Accepted \in Nat  BY <2>0
  <2>2. Spoken' = n /\ parser' = parser /\ \A i \in 1..n : KindAt(i)' = KindAt(i)
    BY <1>1, <2>1 DEF Stops, KindAt
  <2>3. \A marker : MarkedBy(marker) => MarkedBy(marker)'
    BY <2>1, <2>2 DEF MarkedBy, Noise, KindAt
  <2>4. Muddled => Muddled'  BY <2>1, <2>2 DEF Muddled
  <2> QED BY <2>1, <2>2, <2>3, <2>4 DEF MarkersAreKnown
<1>2. ASSUME NEW line \in Lines(phase), Accepts(line) PROVE MarkersAreKnown'
  <2> DEFINE k == line.kind
  <2>1. PICK n \in Nat : n = Len(stream)  BY <1>0
  <2>2. /\ stream' = Append(stream, line) /\ parser' = AfterLine(line) /\ ~Refused(line)
        /\ Spoken = n /\ Spoken' = IF k \in {"success", "error"} THEN n ELSE n + 1
    BY <1>2, <2>1 DEF Accepts
  <2>3. KindAt(n + 1)' = k /\ \A i \in 1..n : KindAt(i)' = KindAt(i)
    BY <2>1, <2>2, StreamGrows DEF KindAt
  <2>4. /\ parser'.risk <=> parser.risk \/ k = "risk"
        /\ parser'.markers = parser.markers + (IF k \in Verifications THEN 1 ELSE 0)
        /\ parser'.outcome =
             CASE k = "text" /\ parser.markers > 0 -> "unknown"
               [] k \in Verifications -> Outcome(k, parser.markers + 1)
               [] OTHER -> parser.outcome
        /\ parser.risk => k \notin {"text", "tool", "answer"} \cup Markers
        /\ parser.markers > 0 => k \notin {"tool", "answer", "risk", "plan"}
    BY <2>2, LineEffect
  <2>5. k \in {"other", "text", "error", "success", "tool", "answer"} \cup Markers
    BY <2>2, LineKinds, LineEffect DEF StreamTypeOK, Ordinary
  <2>6. parser.markers \in Nat /\ parser.risk \in BOOLEAN
        /\ parser.outcome \in {"none", "success", "failed", "unknown"}
    BY <1>0 DEF ParsedStream
  <2>7. ASSUME NEW marker, MarkedBy(marker), k \in {"success", "error", "other"}
        PROVE  MarkedBy(marker)'
    <3>1. PICK i \in 1..n : /\ KindAt(i) = marker /\ \A j \in 1..i - 1 : KindAt(j) \in Talk
                            /\ \A j \in i + 1..n : KindAt(j) = "other"
      BY <2>2, <2>7 DEF MarkedBy, Noise, KindAt
    <3>2. \A j \in i + 1..Spoken' : KindAt(j)' = "other"
      BY <2>2, <2>3, <2>7, <3>1
    <3>3. i \in 1..Spoken' /\ KindAt(i)' = marker /\ \A j \in 1..i - 1 : KindAt(j)' \in Talk
      BY <2>2, <2>3, <3>1
    <3> QED BY <3>2, <3>3 DEF MarkedBy, Noise, KindAt
  <2>8. Muddled => Muddled'  BY <2>2, <2>3 DEF Muddled
  <2>9. ASSUME k \in Talk \cup {"success", "error"},
               \A i \in 1..n : KindAt(i) \in Talk
        PROVE  \A i \in 1..Spoken' : KindAt(i)' \in Talk
    BY <2>2, <2>3, <2>9 DEF Talk
  <2>10. ASSUME parser.markers > 0, k \in {"text"} \cup Verifications
         PROVE  Muddled'
    <3>1. ASSUME NEW m \in Verifications, MarkedBy(m) PROVE Muddled'
      <4>1. PICK i \in 1..n : KindAt(i) = m  BY <2>2, <3>1 DEF MarkedBy
      <4>2. KindAt(i)' \in Verifications /\ i \in 1..n + 1 /\ n + 1 \in i + 1..n + 1
        BY <2>3, <4>1
      <4>3. Spoken' = n + 1  BY <2>2, <2>10 DEF Verifications
      <4> QED BY <2>3, <2>10, <4>2, <4>3 DEF Muddled
    <3> QED BY <2>6, <2>8, <2>10, <3>1 DEF MarkersAreKnown, Verifications
  <2>11. ASSUME NEW marker, k = marker, marker \in Verifications \cup {"risk"},
                \A i \in 1..n : KindAt(i) \in Talk
         PROVE  MarkedBy(marker)'
    <3>1. Spoken' = n + 1  BY <2>2, <2>11 DEF Verifications
    <3>2. \A j \in 1..(n + 1) - 1 : KindAt(j)' \in Talk  BY <2>3, <2>11
    <3> QED BY <2>3, <2>11, <3>1, <3>2 DEF MarkedBy
  <2>12. CASE k \in {"success", "error", "other"}
    <3>1. /\ parser'.risk <=> parser.risk
          /\ parser'.markers = parser.markers /\ parser'.outcome = parser.outcome
      BY <2>4, <2>6, <2>12 DEF Verifications
    <3>2. parser.markers = 0 /\ ~parser.risk => \A i \in 1..Spoken' : KindAt(i)' \in Talk
      BY <2>2, <2>9, <2>12 DEF MarkersAreKnown, Talk
    <3> QED BY <2>7, <2>8, <2>12, <3>1, <3>2 DEF MarkersAreKnown
  <2>13. CASE k \in {"text", "tool", "answer", "plan"} /\ parser.markers = 0
    <3>1. /\ ~parser.risk /\ ~parser'.risk /\ parser'.markers = 0
          /\ parser'.outcome = parser.outcome /\ parser.outcome = "none"
      BY <2>4, <2>6, <2>13 DEF Verifications, Markers, MarkersAreKnown
    <3>2. \A i \in 1..Spoken' : KindAt(i)' \in Talk
      BY <2>2, <2>9, <2>13, <3>1 DEF MarkersAreKnown, Talk
    <3> QED BY <3>1, <3>2 DEF MarkersAreKnown
  <2>14. CASE k = "text" /\ parser.markers > 0
    <3>1. ~parser'.risk /\ parser'.markers = parser.markers /\ parser'.outcome = "unknown"
      BY <2>4, <2>6, <2>14 DEF Verifications
    <3> QED BY <2>6, <2>10, <2>14, <3>1 DEF MarkersAreKnown
  <2>15. CASE k = "risk"
    <3>1. /\ parser.markers = 0 /\ ~parser.risk /\ parser'.risk /\ parser'.markers = 0
          /\ parser'.outcome = parser.outcome /\ parser.outcome = "none"
      BY <2>4, <2>6, <2>15 DEF Verifications, Markers, MarkersAreKnown
    <3>2. MarkedBy("risk")'  BY <2>2, <2>11, <2>15, <3>1 DEF MarkersAreKnown
    <3> QED BY <3>1, <3>2 DEF MarkersAreKnown
  <2>16. CASE k \in Verifications
    <3>1. /\ ~parser.risk /\ ~parser'.risk /\ parser'.markers = parser.markers + 1
          /\ parser'.outcome = Outcome(k, parser.markers + 1) /\ parser'.markers # 0
      BY <2>4, <2>6, <2>16 DEF Verifications, Markers
    <3>2. CASE parser.markers > 0
      <4>1. parser'.outcome = "unknown"  BY <2>6, <3>1, <3>2 DEF Outcome
      <4> QED BY <2>10, <2>16, <3>1, <3>2, <4>1 DEF MarkersAreKnown
    <3>3. CASE parser.markers = 0
      <4>1. MarkedBy(k)'  BY <2>2, <2>11, <2>16, <3>1, <3>3 DEF MarkersAreKnown
      <4>2. /\ parser'.outcome = "success" <=> k = "verified"
            /\ parser'.outcome = "failed" <=> k = "refuted"
            /\ parser'.outcome = "unknown" <=> k = "unclear"
            /\ parser'.outcome # "none"
        BY <2>16, <3>1, <3>3 DEF Outcome, Verifications
      <4>3. k = "unclear" => Muddled'
        <5> SUFFICES ASSUME k = "unclear" PROVE Muddled'
          OBVIOUS
        <5>1. Spoken' = n + 1 /\ n + 1 \in 1..n + 1  BY <2>2
        <5> QED BY <2>3, <5>1 DEF Muddled, Verifications
      <4> QED BY <3>1, <4>1, <4>2, <4>3 DEF MarkersAreKnown
    <3> QED BY <2>6, <3>2, <3>3
  <2> QED BY <2>4, <2>5, <2>6, <2>12, <2>13, <2>14, <2>15, <2>16 DEF Markers
<1> QED BY <1>1, <1>2, LineAccepted, RefusedStops, EndStops DEF StreamNext

\* A part of some of the lines is no larger.
LEMMA FewerLines ==
  ASSUME NEW n \in Nat, NEW S \in SUBSET (1..n), NEW T \in SUBSET S
  PROVE  Cardinality(T) <= Cardinality(S) /\ Cardinality(T) \in Nat /\ Cardinality(S) \in Nat
<1>1. IsFiniteSet(1..n)  BY FS_Interval
<1>2. IsFiniteSet(S)  BY <1>1, FS_Subset
<1> QED BY <1>2, FS_Subset, FS_CardinalityType

\* One line more is one failure more, or none.
LEMMA FailuresGrow ==
  ASSUME NEW n \in Nat, \A i \in 1..n : KindAt(i)' = KindAt(i), NEW from \in 1..n + 1
  PROVE  Failures(from, n + 1)' =
           Failures(from, n) + (IF KindAt(n + 1)' = "retry503" THEN 1 ELSE 0)
<1> DEFINE S == {i \in from..n + 1 : KindAt(i)' = "retry503"}
<1>1. S \cap (1..n) = {i \in from..n : KindAt(i) = "retry503"}  OBVIOUS
<1>2. S \in SUBSET (1..n + 1)  OBVIOUS
<1>3. n + 1 \in S <=> KindAt(n + 1)' = "retry503"  OBVIOUS
<1>4. Failures(from, n + 1)' = Cardinality(S)  BY DEF Failures
<1> HIDE DEF S
<1>5. Cardinality(S) = Cardinality(S \cap (1..n)) + (IF n + 1 \in S THEN 1 ELSE 0)
  BY <1>2, CountNext
<1> QED BY <1>1, <1>3, <1>4, <1>5 DEF Failures

\* The retries of an inspection.
LEMMA RetriesKept ==
  ASSUME StreamTypeOK, EndIsKnown, phase = "inspecting", RetriesAreKnown, StreamNext
  PROVE  RetriesAreKnown'
<1>0. Len(stream) \in Nat /\ parser \in ParsedStream /\ RetryLimit \in Nat \ {0}
  BY StreamParserAssumption DEF StreamTypeOK
<1> DEFINE Given(last) ==
      /\ KindAt(last) = "retry503" /\ \A i \in 1..last : KindAt(i) \notin {"success", "error"}
      /\ \E from \in 1..last : Failing(from, last) /\ Failures(from, last) >= RetryLimit
<1>1. GaveUp <=> \E last \in 1..Len(stream) : Given(last)  BY DEF GaveUp
<1>2. ASSUME NEW n \in Nat, \A i \in 1..n : KindAt(i)' = KindAt(i), NEW last \in 1..n
      PROVE  Given(last)' <=> Given(last)
  <2>1. KindAt(last)' = KindAt(last) /\ \A i \in 1..last : KindAt(i)' = KindAt(i)  BY <1>2
  <2>2. \A from \in 1..last : /\ Failing(from, last)' <=> Failing(from, last)
                              /\ Failures(from, last)' = Failures(from, last)
    <3> TAKE from \in 1..last
    <3>1. \A i \in from..last : KindAt(i)' = KindAt(i)  BY <2>1
    <3>2. {i \in from..last : KindAt(i)' = "retry503"} =
          {i \in from..last : KindAt(i) = "retry503"}
      BY <3>1
    <3> QED BY <3>1, <3>2 DEF Failing, Failures
  <2> QED BY <2>1, <2>2
<1>3. (GaveUp <=> \E last \in 1..Len(stream) : Given(last))'
  BY DEF GaveUp
<1> HIDE DEF Given
<1>4. ASSUME NEW line \in Lines(phase), ReadsLine(line), Refused(line) PROVE RetriesAreKnown'
  <2>1. PICK n \in Nat : n = Len(stream)  BY <1>0
  <2>2. /\ stream' = Append(stream, line) /\ reading = "lines" /\ reading' = "refused"
        /\ parser' = parser /\ ~parser.early
    BY <1>4 DEF ReadsLine, EndIsKnown
  <2>3. /\ Len(stream') = n + 1 /\ KindAt(n + 1)' = line.kind
        /\ \A i \in 1..n : KindAt(i)' = KindAt(i)
    BY <2>1, <2>2, StreamGrows DEF KindAt
  <2>4. ~Given(n + 1)'
    <3> SUFFICES ASSUME Given(n + 1)' PROVE FALSE
      OBVIOUS
    <3>1. line.kind = "retry503" /\ \A i \in 1..n + 1 : KindAt(i)' \notin {"success", "error"}
      BY <2>3 DEF Given
    <3>2. parser.terminal
      BY <1>4, <3>1 DEF Refused, RefusesAssistant, RefusesAnswer, RefusesOutput, Assistant,
         Markers, Verifications
    <3>3. n > 0 /\ KindAt(n) \in {"success", "error"}
      BY <2>1, <2>2, <3>2 DEF EndIsKnown, Accepted
    <3> QED BY <2>3, <3>1, <3>3
  <2>5. ~GaveUp  BY <2>2 DEF RetriesAreKnown
  <2>6. ~GaveUp'  BY <1>1, <1>2, <1>3, <2>1, <2>3, <2>4, <2>5
  <2> QED BY <2>2, <2>6 DEF RetriesAreKnown
<1>5. ASSUME NEW code \in {0, 1}, StreamEnds(code) PROVE RetriesAreKnown'
  <2>1. reading' \in {"failed", "ended"} /\ UNCHANGED <<stream, parser>>  BY <1>5 DEF StreamEnds
  <2>2. GaveUp' <=> GaveUp  BY <2>1 DEF GaveUp, KindAt, Failing, Failures
  <2> QED BY <2>1, <2>2 DEF RetriesAreKnown
<1>6. ASSUME NEW line \in Lines(phase), Accepts(line) PROVE RetriesAreKnown'
  <2> DEFINE k == line.kind
  <2>1. PICK n \in Nat : n = Len(stream)  BY <1>0
  <2>2. /\ stream' = Append(stream, line) /\ parser' = AfterLine(line) /\ ~Refused(line)
        /\ reading = "lines" /\ ~parser.early /\ Spoken = n
        /\ reading' = (IF parser'.early THEN "refused" ELSE "lines")
    BY <1>6, <2>1 DEF Accepts
  <2>3. /\ Len(stream') = n + 1 /\ KindAt(n + 1)' = k
        /\ \A i \in 1..n : KindAt(i)' = KindAt(i)
    BY <2>1, <2>2, StreamGrows DEF KindAt
  <2>4. /\ ~parser.terminal /\ k # "garbage"
        /\ parser'.terminal <=> k \in {"success", "error"}
        /\ k = "retry503" => parser'.retries = parser.retries + 1
        /\ k \in {"text", "tool", "answer", "retry"} => parser'.retries = 0
        /\ k = "other" => parser' = parser
        /\ parser'.early <=> IF k = "retry503" THEN parser.retries + 1 >= RetryLimit
                             ELSE parser.early
    BY <2>2, LineEffect
  <2>5. k \in Ordinary /\ k # "garbage"  BY <2>4, LineKinds DEF StreamTypeOK
  <2>6. PICK from \in 1..n + 1 :
          /\ Failing(from, n) /\ Failures(from, n) = parser.retries
          /\ from > 1 => KindAt(from - 1) \notin {"retry503", "other"}
    BY <2>1, <2>2, <2>4 DEF RetriesAreKnown
  <2>7. Failures(from, n + 1)' = parser.retries + (IF k = "retry503" THEN 1 ELSE 0)
    BY <2>3, <2>6, FailuresGrow
  <2>8. k \in {"retry503", "other"} => Failing(from, n + 1)'
    BY <2>3, <2>6 DEF Failing
  <2>9. \A i \in 1..n : KindAt(i)' \notin {"success", "error"}
    BY <2>2, <2>3 DEF EndIsKnown
  <2>10. Given(n + 1)' <=> k = "retry503" /\ parser.retries + 1 >= RetryLimit
    <3>1. ASSUME k = "retry503", parser.retries + 1 >= RetryLimit PROVE Given(n + 1)'
      <4>1. from \in 1..n + 1 /\ Failing(from, n + 1)' /\ Failures(from, n + 1)' >= RetryLimit
        BY <2>7, <2>8, <3>1
      <4>2. \A i \in 1..n + 1 : KindAt(i)' \notin {"success", "error"}  BY <2>3, <2>9, <3>1
      <4> QED BY <2>3, <3>1, <4>1, <4>2 DEF Given
    <3>2. ASSUME Given(n + 1)' PROVE k = "retry503" /\ parser.retries + 1 >= RetryLimit
      <4>1. k = "retry503"  BY <2>3, <3>2 DEF Given
      <4>2. PICK first \in 1..n + 1 :
              Failing(first, n + 1)' /\ Failures(first, n + 1)' >= RetryLimit
        BY <3>2 DEF Given
      <4>3. from <= first
        <5> SUFFICES ASSUME first < from PROVE FALSE
          OBVIOUS
        <5>1. from > 1 /\ from - 1 \in first..n + 1 /\ from - 1 \in 1..n  OBVIOUS
        <5>2. KindAt(from - 1)' \in {"retry503", "other"}  BY <4>2, <5>1 DEF Failing
        <5> QED BY <2>3, <2>6, <5>1, <5>2
      <4>4. Failures(first, n + 1)' <= Failures(from, n + 1)' /\ Failures(first, n + 1)' \in Nat
        <5> DEFINE T == {i \in first..n + 1 : KindAt(i)' = "retry503"}
                   S == {i \in from..n + 1 : KindAt(i)' = "retry503"}
        <5>1. T \in SUBSET S /\ S \in SUBSET (1..n + 1)  BY <4>3
        <5>2. Failures(first, n + 1)' = Cardinality(T) /\ Failures(from, n + 1)' = Cardinality(S)
          BY DEF Failures
        <5> HIDE DEF S, T
        <5>3. n + 1 \in Nat  OBVIOUS
        <5>4. Cardinality(T) <= Cardinality(S) /\ Cardinality(T) \in Nat
          BY ONLY <5>1, <5>3, FewerLines
        <5> QED BY ONLY <5>2, <5>4
      <4>5. parser.retries \in Nat  BY <1>0 DEF ParsedStream
      <4> QED BY <1>0, <2>7, <4>1, <4>2, <4>4, <4>5
    <3> QED BY <3>1, <3>2
  <2>11. ~GaveUp  BY <2>2 DEF RetriesAreKnown
  <2>12. GaveUp' <=> Given(n + 1)'  BY <1>1, <1>2, <1>3, <2>1, <2>3, <2>11
  <2>13. parser'.early <=> GaveUp'  BY <2>2, <2>4, <2>10, <2>12
  <2>14. ASSUME reading' = "lines", ~parser'.terminal
         PROVE  \E f \in 1..n + 2 :
                  /\ Failing(f, n + 1)' /\ Failures(f, n + 1)' = parser'.retries
                  /\ f > 1 => KindAt(f - 1)' \notin {"retry503", "other"}
    <3>1. CASE k \in {"retry503", "other"}
      <4>1. Failures(from, n + 1)' = parser'.retries
        <5>1. parser.retries \in Nat  BY <1>0 DEF ParsedStream
        <5> QED BY <2>4, <2>7, <3>1, <5>1
      <4>2. from > 1 => KindAt(from - 1)' \notin {"retry503", "other"}
        BY <2>3, <2>6
      <4> QED BY <2>8, <3>1, <4>1, <4>2
    <3>2. CASE k \notin {"retry503", "other"}
      <4>1. parser'.retries = 0  BY <2>4, <2>5, <2>14, <3>2 DEF Ordinary
      <4>2. (n + 2)..(n + 1) = {}  OBVIOUS
      <4>3. Failing(n + 2, n + 1)' /\ Failures(n + 2, n + 1)' = 0
        BY <4>2, FS_EmptySet DEF Failing, Failures
      <4>4. KindAt((n + 2) - 1)' = k  BY <2>3
      <4> QED BY <3>2, <4>1, <4>3, <4>4
    <3> QED BY <3>1, <3>2
  <2> QED BY <2>3, <2>13, <2>14 DEF RetriesAreKnown
<1> QED BY <1>4, <1>5, <1>6, LineAccepted DEF StreamNext
-----------------------------------------------------------------------------
(* The verdict.                                                            *)

Outcomes == {"verified", "refuted", "risk"}

\* One marker at most is what was said last.
LEMMA OneMarker ==
  ASSUME Spoken \in Int, NEW m \in Outcomes, MarkedBy(m), NEW o \in Outcomes, MarkedBy(o)
  PROVE  m = o
<1>1. PICK i \in 1..Spoken : /\ KindAt(i) = m /\ \A j \in 1..i - 1 : KindAt(j) \in Talk
                             /\ \A j \in i + 1..Spoken : Noise(j)
  BY DEF MarkedBy
<1>2. PICK h \in 1..Spoken : /\ KindAt(h) = o /\ \A j \in 1..h - 1 : KindAt(j) \in Talk
                             /\ \A j \in h + 1..Spoken : Noise(j)
  BY DEF MarkedBy
<1>3. m \notin Talk /\ o \notin Talk  BY DEF Talk, Outcomes
<1>4. i \notin 1..h - 1 /\ h \notin 1..i - 1  BY <1>1, <1>2, <1>3
<1>5. i = h  BY <1>4
<1> QED BY <1>1, <1>2, <1>5

\* And not when something unclear, or too much, was said; nor when only talk was.
LEMMA NoMarkerMuddled ==
  ASSUME Spoken \in Int, NEW m \in Outcomes, MarkedBy(m) PROVE ~Muddled
<1> SUFFICES ASSUME Muddled PROVE FALSE
  OBVIOUS
<1>1. PICK i \in 1..Spoken : /\ KindAt(i) = m /\ \A j \in 1..i - 1 : KindAt(j) \in Talk
                             /\ \A j \in i + 1..Spoken : KindAt(j) = "other"
  BY DEF MarkedBy, Noise, KindAt
<1>2. PICK h \in 1..Spoken :
        /\ KindAt(h) \in Verifications
        /\ \/ KindAt(h) = "unclear"
           \/ \E j \in h + 1..Spoken : KindAt(j) \in {"text"} \cup Verifications
  BY DEF Muddled
<1>3. h \notin 1..i - 1 /\ h \notin i + 1..Spoken
  BY <1>1, <1>2 DEF Talk, Verifications
<1>4. h = i  BY <1>3
<1>5. KindAt(h) # "unclear"  BY <1>1, <1>4 DEF Outcomes
<1>6. \A j \in h + 1..Spoken : KindAt(j) \notin {"text"} \cup Verifications
  BY <1>1, <1>4 DEF Verifications
<1> QED BY <1>2, <1>5, <1>6
LEMMA NoMarkerInTalk ==
  ASSUME NEW m \in Outcomes, \A i \in 1..Spoken : KindAt(i) \in Talk PROVE ~MarkedBy(m)
  BY DEF MarkedBy, Outcomes, Talk

\* After the last marker no tool is used.
LEMMA UsesRest ==
  ASSUME Len(stream) \in Nat, Len(stream) > 0, KindAt(Len(stream)) = "success",
         NEW i \in 1..Len(stream) - 1, \A j \in i + 1..Len(stream) - 1 : Noise(j),
         NEW kind \in {"tool", "answer"}, NEW id
  PROVE  Uses(kind, id, Len(stream)) = Uses(kind, id, i)
<1>1. \A j \in i + 1..Len(stream) : KindAt(j) # kind  BY DEF Noise, KindAt
<1> QED BY <1>1, UsesStay

\* The whole stream says what the parser was told, when it ended well.
LEMMA EndsAsMarked ==
  ASSUME StreamTypeOK, EndIsKnown, ToolsAreKnown, reading = "ended", NEW m \in Outcomes
  PROVE  EndsWith(m) <=> MarkedBy(m)
<1> DEFINE n == Len(stream)
<1>0. n \in Nat /\ parser \in ParsedStream  BY DEF StreamTypeOK
<1>1. Accepted = n /\ parser.terminal /\ ~parser.error /\ parser.open = {}
  BY <1>0 DEF EndIsKnown, Incomplete, Accepted
<1>2. n > 0 /\ KindAt(n) = "success" /\ Spoken = n - 1
  BY <1>1 DEF EndIsKnown, Spoken
<1>3. ASSUME EndsWith(m) PROVE MarkedBy(m)
  BY <1>2, <1>3 DEF EndsWith, MarkedBy, KindAt, Talk
<1>4. ASSUME MarkedBy(m) PROVE EndsWith(m)
  <2>1. PICK i \in 1..n - 1 : /\ KindAt(i) = m /\ \A j \in 1..i - 1 : KindAt(j) \in Talk
                              /\ \A j \in i + 1..n - 1 : Noise(j)
    BY <1>2, <1>4 DEF MarkedBy
  <2>2. ASSUME NEW id \in Tools PROVE Uses("tool", id, i) = Uses("answer", id, i)
    <3>1. /\ Uses("tool", id, n) = Uses("tool", id, i)
          /\ Uses("answer", id, n) = Uses("answer", id, i)
      BY <1>0, <1>2, <2>1, UsesRest
    <3>2. Uses("tool", id, n) = Uses("answer", id, n) + 0  BY <1>1 DEF ToolsAreKnown
    <3>3. Uses("answer", id, n) \in Nat  BY <1>0, UsesAreNat
    <3> QED BY <3>1, <3>2, <3>3
  <2>3. \A id \in Tools : \A h \in 1..i : Uses("tool", id, h) - Uses("answer", id, h) \in {0, 1}
    <3>1. \A h \in 1..i : h \in 1..Accepted  BY <1>0, <1>1
    <3> QED BY <3>1 DEF ToolsAreKnown
  <2>4. Balanced(i)  BY <2>2, <2>3 DEF Balanced
  <2> QED BY <1>2, <2>1, <2>4 DEF EndsWith, KindAt, Talk
<1> QED BY <1>3, <1>4

\* And nothing of the kind, when a line was refused or the end was not good.
LEMMA EndsUnsaid ==
  ASSUME StreamTypeOK, EndIsKnown, ToolsAreKnown, phase = "executing", exitcode = 0,
         reading \in {"refused", "failed"}, NEW m \in Outcomes
  PROVE  ~EndsWith(m)
<1> SUFFICES ASSUME EndsWith(m) PROVE FALSE
  OBVIOUS
<1> DEFINE n == Len(stream)
<1>0. n \in Nat /\ parser \in ParsedStream  BY DEF StreamTypeOK
<1>1. n > 0 /\ KindAt(n) = "success"  BY DEF EndsWith, KindAt
<1>2. PICK i \in 1..n - 1 :
        /\ KindAt(i) = m /\ Balanced(i) /\ \A j \in 1..i - 1 : KindAt(j) \in Talk
        /\ \A j \in i + 1..n - 1 : Noise(j)
  BY DEF EndsWith, KindAt, Talk
<1>3. n - 1 \in 1..n - 1 /\ KindAt(n - 1) \notin {"success", "error"}
  <2>1. n - 1 = i \/ n - 1 \in i + 1..n - 1  BY <1>0, <1>2
  <2> QED BY <1>0, <1>2, <2>1 DEF Noise, KindAt, Outcomes
<1>4. CASE reading = "refused"
  <2>1. ~parser.early /\ Refused(stream[n])  BY <1>4 DEF EndIsKnown
  <2>2. parser.terminal
    BY <1>1, <2>1 DEF Refused, RefusesAssistant, RefusesAnswer, RefusesOutput, Assistant,
       Markers, Verifications, KindAt
  <2>3. Accepted = n - 1  BY <1>4, <2>1 DEF Accepted
  <2> QED BY <1>3, <2>2, <2>3 DEF EndIsKnown
<1>5. CASE reading = "failed"
  <2>1. Accepted = n  BY <1>5 DEF Accepted
  <2>2. parser.terminal
    <3> SUFFICES ASSUME ~parser.terminal PROVE FALSE
      OBVIOUS
    <3>1. Spoken = n  BY <2>1 DEF Spoken
    <3> QED BY <1>0, <1>1, <3>1 DEF EndIsKnown
  <2>3. ~parser.error  BY <1>1, <2>1, <2>2 DEF EndIsKnown
  <2>4. PICK id \in Tools : id \in parser.open
    <3>1. parser.open # {} /\ parser.open \in SUBSET Tools
      BY <1>0, <1>5, <2>2, <2>3 DEF EndIsKnown, Incomplete, ParsedStream
    <3> QED BY <3>1
  <2>5. /\ Uses("tool", id, n) = Uses("tool", id, i)
        /\ Uses("answer", id, n) = Uses("answer", id, i)
    BY <1>0, <1>1, <1>2, UsesRest
  <2>6. Uses("tool", id, n) = Uses("answer", id, n) + 1  BY <2>1, <2>4 DEF ToolsAreKnown
  <2>7. Uses("tool", id, i) = Uses("answer", id, i)  BY <1>2 DEF Balanced
  <2>8. Uses("answer", id, n) \in Nat  BY <1>0, UsesAreNat
  <2> QED BY <2>5, <2>6, <2>7, <2>8
<1> QED BY <1>4, <1>5

\* What the parser knows earns its verdict.
LEMMA Earned ==
  ASSUME StreamTypeOK, EndIsKnown, ToolsAreKnown,
         phase = "executing" => MarkersAreKnown, phase = "inspecting" => RetriesAreKnown
  PROVE  VerdictIsEarned
<1>0. Len(stream) \in Nat /\ parser \in ParsedStream  BY DEF StreamTypeOK
<1>1. ASSUME phase = "executing", Whole
      PROVE  /\ verdict = "SUCCEEDED" <=> EndsWith("verified")
             /\ verdict = "FAILED" <=> EndsWith("refuted")
             /\ verdict = "AWAITING_RISK_CONFIRMATION" <=> EndsWith("risk")
  <2>1. exitcode = 0 /\ reading \in {"refused", "ended", "failed"}
    BY <1>1 DEF Whole, StreamTypeOK
  <2>2. CASE reading \in {"refused", "failed"}
    <3>1. verdict = "none"  BY <2>2 DEF EndIsKnown
    <3>2. \A m \in Outcomes : ~EndsWith(m)  BY <1>1, <2>1, <2>2, EndsUnsaid
    <3> QED BY <3>1, <3>2 DEF Outcomes
  <2>3. CASE reading = "ended"
    <3>1. \A m \in Outcomes : EndsWith(m) <=> MarkedBy(m)  BY <2>3, EndsAsMarked
    <3>2. verdict = CASE parser.risk -> "AWAITING_RISK_CONFIRMATION"
                      [] ~parser.risk /\ parser.outcome = "success" -> "SUCCEEDED"
                      [] ~parser.risk /\ parser.outcome = "failed" -> "FAILED"
                      [] OTHER -> "MANUAL_INTERVENTION"
      <4>1. verdict = Status  BY <2>3 DEF EndIsKnown
      <4>2. CASE parser.risk
        <5>1. parser.outcome = "none"  BY <1>1, <4>2 DEF MarkersAreKnown
        <5> QED BY <1>1, <4>1, <4>2, <5>1 DEF Status
      <4>3. CASE ~parser.risk  BY <1>1, <4>1, <4>3 DEF Status
      <4> QED BY <4>2, <4>3
    <3>3. Spoken \in Int  BY <1>0, <2>3 DEF Spoken, Accepted
    <3>4. MarkersAreKnown /\ parser.markers \in Nat
          /\ parser.outcome \in {"none", "success", "failed", "unknown"}
      BY <1>0, <1>1 DEF ParsedStream
    <3>5. CASE parser.risk
      <4>1. MarkedBy("risk")  BY <3>4, <3>5 DEF MarkersAreKnown
      <4>2. ~MarkedBy("verified") /\ ~MarkedBy("refuted")
        BY <3>3, <4>1, OneMarker DEF Outcomes
      <4> QED BY <3>1, <3>2, <3>5, <4>1, <4>2 DEF Outcomes
    <3>6. CASE ~parser.risk /\ parser.outcome = "success"
      <4>1. MarkedBy("verified")  BY <3>4, <3>6 DEF MarkersAreKnown
      <4>2. ~MarkedBy("risk") /\ ~MarkedBy("refuted")
        BY <3>3, <4>1, OneMarker DEF Outcomes
      <4> QED BY <3>1, <3>2, <3>6, <4>1, <4>2 DEF Outcomes
    <3>7. CASE ~parser.risk /\ parser.outcome = "failed"
      <4>1. MarkedBy("refuted")  BY <3>4, <3>7 DEF MarkersAreKnown
      <4>2. ~MarkedBy("risk") /\ ~MarkedBy("verified")
        BY <3>3, <4>1, OneMarker DEF Outcomes
      <4> QED BY <3>1, <3>2, <3>7, <4>1, <4>2 DEF Outcomes
    <3>8. CASE ~parser.risk /\ parser.outcome = "unknown"
      <4>1. Muddled  BY <3>4, <3>8 DEF MarkersAreKnown
      <4>2. \A m \in Outcomes : ~MarkedBy(m)  BY <3>3, <4>1, NoMarkerMuddled
      <4> QED BY <3>1, <3>2, <3>8, <4>2 DEF Outcomes
    <3>9. CASE ~parser.risk /\ parser.outcome = "none"
      <4>1. \A i \in 1..Spoken : KindAt(i) \in Talk  BY <3>4, <3>9 DEF MarkersAreKnown
      <4>2. \A m \in Outcomes : ~MarkedBy(m)  BY <4>1, NoMarkerInTalk
      <4> QED BY <3>1, <3>2, <3>9, <4>2 DEF Outcomes
    <3> QED BY <3>4, <3>5, <3>6, <3>7, <3>8, <3>9
  <2> QED BY <2>1, <2>2, <2>3
<1>2. ASSUME verdict # "none" PROVE exitcode = 0 /\ stream[Len(stream)].kind = "success"
  <2>1. reading = "ended" /\ ~Incomplete(exitcode)  BY <1>2 DEF EndIsKnown
  <2>2. Accepted = Len(stream)  BY <2>1 DEF Accepted
  <2> QED BY <2>1, <2>2 DEF EndIsKnown, Incomplete, KindAt
<1>3. parser.early <=> phase = "inspecting" /\ GaveUp
  BY DEF EndIsKnown, RetriesAreKnown
<1> QED BY <1>1, <1>2, <1>3 DEF VerdictIsEarned

\* At first nothing was said.
LEMMA ParserStarts == StreamInit => ParserInv
<1> SUFFICES ASSUME StreamInit PROVE ParserInv
  OBVIOUS
<1>1. /\ phase \in {"diagnosing", "executing", "inspecting"} /\ stream = <<>>
      /\ parser = NewParser /\ reading = "lines" /\ exitcode = 0 /\ verdict = "none"
  BY DEF StreamInit
<1>2. parser \in ParsedStream  BY <1>1 DEF NewParser, ParsedStream
<1>3. StreamTypeOK  BY <1>1, <1>2 DEF StreamTypeOK
<1>4. Len(stream) = 0 /\ Accepted = 0 /\ Spoken = 0 /\ 1..0 = {}
  BY <1>1 DEF Accepted, Spoken, NewParser
<1>5. EndIsKnown  BY <1>1, <1>4 DEF EndIsKnown, NewParser
<1>6. ToolsAreKnown
  <2>1. \A kind, id : Uses(kind, id, 0) = 0  BY FS_EmptySet DEF Uses
  <2> QED BY <1>1, <1>4, <2>1 DEF ToolsAreKnown, NewParser
<1>7. MarkersAreKnown  BY <1>1, <1>4 DEF MarkersAreKnown, NewParser
<1>8. RetriesAreKnown
  <2>1. Failing(1, 0) /\ Failures(1, 0) = 0  BY FS_EmptySet DEF Failing, Failures
  <2>2. ~GaveUp  BY <1>4 DEF GaveUp
  <2> QED BY <1>1, <1>4, <2>1, <2>2 DEF RetriesAreKnown, NewParser
<1> QED BY <1>3, <1>5, <1>6, <1>7, <1>8, Earned DEF ParserInv

\* A step keeps what is known, and so does a step of another component.
LEMMA ParserNextKeeps == ASSUME ParserInv, StreamNext PROVE ParserInv'
<1>1. /\ StreamTypeOK /\ EndIsKnown /\ ToolsAreKnown
      /\ phase = "executing" => MarkersAreKnown
      /\ phase = "inspecting" => RetriesAreKnown
  BY DEF ParserInv
<1>2. phase' = phase  BY DEF StreamNext, ReadsLine, StreamEnds
<1>3. StreamTypeOK' /\ EndIsKnown' /\ ToolsAreKnown'
  BY <1>1, TypeKept, EndKept, ToolsKept
<1>4. /\ phase' = "executing" => MarkersAreKnown'
      /\ phase' = "inspecting" => RetriesAreKnown'
  BY <1>1, <1>2, MarkersKept, RetriesKept
<1>5. (StreamTypeOK /\ EndIsKnown /\ ToolsAreKnown
        /\ (phase = "executing" => MarkersAreKnown)
        /\ (phase = "inspecting" => RetriesAreKnown))' => VerdictIsEarned'
  BY Earned, PTL
<1> QED BY <1>3, <1>4, <1>5 DEF ParserInv
LEMMA ParserStutters == ParserInv /\ UNCHANGED streamVars => ParserInv'
<1> SUFFICES ASSUME ParserInv, UNCHANGED streamVars PROVE ParserInv'
  OBVIOUS
<1>1. /\ phase' = phase /\ stream' = stream /\ parser' = parser /\ reading' = reading
      /\ exitcode' = exitcode /\ verdict' = verdict
  BY DEF streamVars
<1>2. StreamTypeOK'  BY <1>1 DEF ParserInv, StreamTypeOK
<1>3. Accepted' = Accepted /\ Spoken' = Spoken  BY <1>1 DEF Accepted, Spoken
<1>4. \A i : KindAt(i)' = KindAt(i)  BY <1>1 DEF KindAt
<1>5. \A kind, id, m : Uses(kind, id, m)' = Uses(kind, id, m)  BY <1>1 DEF Uses
<1>6. EndIsKnown'
  BY <1>1, <1>3, <1>4 DEF ParserInv, EndIsKnown, Refused, RefusesAssistant, RefusesAnswer,
     RefusesOutput, Incomplete, Status, Accepted, Spoken, KindAt
<1>7. ToolsAreKnown'
  <2>1. \A kind, id : Uses(kind, id, Accepted)' = Uses(kind, id, Accepted)
    BY <1>1 DEF Uses, Accepted
  <2> QED BY <1>1, <1>3, <1>5, <2>1 DEF ParserInv, ToolsAreKnown
<1>8. phase' = "executing" => MarkersAreKnown'
  BY <1>1, <1>3, <1>4 DEF ParserInv, MarkersAreKnown, MarkedBy, Muddled, Noise, KindAt
<1>9. phase' = "inspecting" => RetriesAreKnown'
  BY <1>1 DEF ParserInv, RetriesAreKnown, GaveUp, Failing, Failures, KindAt
<1>10. (StreamTypeOK /\ EndIsKnown /\ ToolsAreKnown
         /\ (phase = "executing" => MarkersAreKnown)
         /\ (phase = "inspecting" => RetriesAreKnown))' => VerdictIsEarned'
  BY Earned, PTL
<1> QED BY <1>2, <1>6, <1>7, <1>8, <1>9, <1>10 DEF ParserInv

\* For any number of tools and lines, and any limit of retries: at any time the verdict
\* of a run is what the lines of its output earned, and the parser knows why.
THEOREM VerdictsAreEarned == StreamSpec => [](VerdictIsEarned /\ ParserInv)
<1>1. ParserInv => VerdictIsEarned  BY DEF ParserInv
<1> QED BY <1>1, ParserStarts, ParserNextKeeps, ParserStutters, PTL DEF StreamSpec
=============================================================================
