---------------------------- MODULE StreamParser ----------------------------
(***************************************************************************)
(* What a run of Claude amounts to (StreamJsonParser of                    *)
(* trusted_session.py): the lines of its output are read one by one, most  *)
(* of a repair's order is checked as they come, and the status of the      *)
(* session is what is left of them at the end.                             *)
(*                                                                         *)
(* A message of several blocks is read as several lines of one block.      *)
(* A line that is JSON but no object is ignored by parse_line before it    *)
(* looks at anything, also after the end; it changes nothing, and is left  *)
(* out of the stream.                                                      *)
(***************************************************************************)
EXTENDS Naturals, Sequences, FiniteSets

CONSTANTS
  Tools,       \* tool ids
  RetryLimit,  \* _INSPECTION_PROVIDER_UNAVAILABLE_RETRY_LIMIT
  MaxLines     \* bound: lines of the stream

ASSUME StreamParserAssumption == RetryLimit \in Nat \ {0} /\ MaxLines \in Nat

VARIABLES
  phase,     \* of the parser
  stream,    \* history: the lines it was given, but for those that are no objects
  parser,    \* ParsedStream
  reading,   \* "lines"; "refused", when a line raised; "ended"; or "failed" at the end
  exitcode,  \* how Claude exited, zero or not
  verdict    \* the status the session is given, "none" without one

streamVars == <<phase, stream, parser, reading, exitcode, verdict>>

\* The kinds of lines.  "other" is an object of a kind the parser does not know; like
\* every object it is refused after the end.  A "marker" is an assistant's text that is
\* exactly one JSON object: a verification ("verified", "refuted" or "unclear"), a
\* request for a risk confirmation, or anything else ("plan").  Repeated API errors
\* count in inspections only.
Verifications == {"verified", "refuted", "unclear"}
Markers == Verifications \cup {"risk", "plan"}
OfKind(kinds) == {[kind |-> k] : k \in kinds}
Common ==
  OfKind({"other", "text", "error", "garbage"}) \cup
  [kind : {"tool", "answer"}, id : Tools] \cup
  [kind : {"success"}, output : {"good", "bad", "none"}]
Lines(p) ==
  Common \cup CASE p = "executing" -> OfKind(Markers)
                [] p = "inspecting" -> OfKind({"retry", "retry503"})
                [] OTHER -> {}

NewParser ==
  [terminal |-> FALSE, error |-> FALSE, risk |-> FALSE, open |-> {}, markers |-> 0,
   outcome |-> "none", retries |-> 0, early |-> FALSE, outputs |-> 0]

StreamInit ==
  /\ phase \in {"diagnosing", "executing", "inspecting"}
  /\ stream = <<>> /\ parser = NewParser
  /\ reading = "lines" /\ exitcode = 0 /\ verdict = "none"
-----------------------------------------------------------------------------
\* The lines that raise: out of order, or not what they should be.
Assistant(line) == line.kind \in {"text", "tool"} \cup Markers
RefusesAssistant(line) ==
  /\ Assistant(line)
  /\ \/ parser.risk
     \/ line.kind = "tool" /\ (parser.markers > 0 \/ line.id \in parser.open)
     \/ line.kind \in {"risk", "plan"} /\ parser.markers > 0
RefusesAnswer(line) ==
  /\ line.kind = "answer"
  /\ parser.risk \/ parser.markers > 0 \/ line.id \notin parser.open
RefusesOutput(line) == line.kind = "success" /\ phase = "diagnosing" /\ line.output = "bad"
Refused(line) ==
  line.kind = "garbage" \/ parser.terminal \/ RefusesAssistant(line) \/ RefusesAnswer(line)
    \/ RefusesOutput(line)

IgnoredText(s) == s  \* mutant of AfterText: the marker need not be the last text

\* Text after a verification makes its outcome unknown; before it, it is ignored.
AfterText(s) == IF s.markers > 0 THEN [s EXCEPT !.outcome = "unknown"] ELSE s

\* A second verification is one too many, whatever it says.
Outcome(kind, count) ==
  CASE kind = "verified" /\ count = 1 -> "success"
    [] kind = "refuted" /\ count = 1 -> "failed"
    [] OTHER -> "unknown"
AfterMarker(s, kind) ==
  CASE kind \in Verifications ->
         [s EXCEPT !.markers = @ + 1, !.outcome = Outcome(kind, s.markers + 1)]
    [] kind = "risk" -> [s EXCEPT !.risk = TRUE]
    [] OTHER -> s

\* _api_retry: so many errors 503 in a row end an inspection early.
AfterRetry(s, kind) ==
  IF kind = "retry" THEN [s EXCEPT !.retries = 0]
  ELSE [s EXCEPT !.retries = @ + 1, !.early = (s.retries + 1 >= RetryLimit)]

AfterLine(line) ==
  LET fresh == [parser EXCEPT !.retries = 0]
  IN CASE line.kind = "text" -> AfterText(fresh)
       [] line.kind = "tool" -> [fresh EXCEPT !.open = @ \cup {line.id}]
       [] line.kind = "answer" -> [fresh EXCEPT !.open = @ \ {line.id}]
       [] line.kind \in Markers -> AfterMarker(fresh, line.kind)
       [] line.kind \in {"retry", "retry503"} -> AfterRetry(parser, line.kind)
       [] line.kind = "error" -> [parser EXCEPT !.terminal = TRUE, !.error = TRUE]
       [] line.kind = "success" ->
            [parser EXCEPT !.terminal = TRUE, !.outputs = IF line.output = "none" THEN 0 ELSE 1]
       [] OTHER -> parser

\* parse_line, and the loop of run around it.
ReadsLine(line) ==
  /\ reading = "lines" /\ Len(stream) < MaxLines
  /\ stream' = Append(stream, line)
  /\ IF Refused(line) THEN reading' = "refused" /\ UNCHANGED parser
     ELSE /\ parser' = AfterLine(line)
          /\ reading' = IF parser'.early THEN "refused" ELSE "lines"
  /\ UNCHANGED <<phase, exitcode, verdict>>

\* finalize, at the end of the output.
Incomplete(code) == parser.error \/ code # 0 \/ parser.open # {} \/ ~parser.terminal

\* _persist_result; a diagnosis needs its proposal, an inspection its report.
Status ==
  CASE phase = "diagnosing" -> IF parser.outputs = 1 THEN "PENDING_APPROVAL" ELSE "none"
    [] phase = "inspecting" -> IF parser.outputs = 1 THEN "REPORT" ELSE "none"
    [] parser.risk -> "AWAITING_RISK_CONFIRMATION"
    [] parser.outcome = "success" -> "SUCCEEDED"
    [] parser.outcome = "failed" -> "FAILED"
    [] OTHER -> "MANUAL_INTERVENTION"

StreamEnds(code) ==
  /\ reading = "lines"
  /\ exitcode' = code
  /\ IF Incomplete(code) THEN reading' = "failed" /\ UNCHANGED verdict
     ELSE reading' = "ended" /\ verdict' = Status
  /\ UNCHANGED <<phase, stream, parser>>

StreamNext ==
  (\E line \in Lines(phase) : ReadsLine(line)) \/ (\E code \in {0, 1} : StreamEnds(code))
StreamSpec == StreamInit /\ [][StreamNext]_streamVars
-----------------------------------------------------------------------------
\* The completion contract of a repair (_execution_completion_contract), on the
\* stream as a whole: the last thing Claude says is one marker, each tool it used
\* has been answered by then, once, and it ends in success.
Noise(i) == stream[i].kind \in {"other"}
Uses(kind, id, n) == Cardinality({i \in 1..n : stream[i].kind = kind /\ stream[i].id = id})
Balanced(n) ==
  \A id \in Tools : /\ \A m \in 1..n : Uses("tool", id, m) - Uses("answer", id, m) \in {0, 1}
                    /\ Uses("tool", id, n) = Uses("answer", id, n)
EndsWith(marker) ==
  LET n == Len(stream)
  IN /\ n > 0 /\ stream[n].kind = "success"
     /\ \E i \in 1..n - 1 :
          /\ stream[i].kind = marker /\ Balanced(i)
          /\ \A j \in 1..i - 1 : stream[j].kind \in {"other", "text", "plan", "tool", "answer"}
          /\ \A j \in i + 1..n - 1 : Noise(j)

\* As many 503 in a row as the limit, before any end and with no sign of life between
\* them.
KindAt(i) == stream[i].kind
Failing(from, last) == \A i \in from..last : KindAt(i) \in {"retry503", "other"}
Failures(from, last) == Cardinality({i \in from..last : KindAt(i) = "retry503"})
GaveUp ==
  \E last \in 1..Len(stream) :
    /\ KindAt(last) = "retry503" /\ \A i \in 1..last : KindAt(i) \notin {"success", "error"}
    /\ \E from \in 1..last : Failing(from, last) /\ Failures(from, last) >= RetryLimit

Whole == stream # <<>> /\ exitcode = 0 /\ reading # "lines"

\* A repair is a success, a failure or a pause exactly when the whole stream says
\* so under the contract: no order of lines makes a success of anything else, and
\* none that keeps the contract is refused.  No verdict comes without a
\* successful end; and an inspection is given up for the provider only when it was.
VerdictIsEarned ==
  /\ phase = "executing" /\ Whole =>
       /\ verdict = "SUCCEEDED" <=> EndsWith("verified")
       /\ verdict = "FAILED" <=> EndsWith("refuted")
       /\ verdict = "AWAITING_RISK_CONFIRMATION" <=> EndsWith("risk")
  /\ verdict # "none" => exitcode = 0 /\ stream[Len(stream)].kind = "success"
  /\ parser.early <=> phase = "inspecting" /\ GaveUp

-----------------------------------------------------------------------------
(* Why it holds: what the parser knows of the lines it has accepted.       *)

ParsedStream ==
  [terminal : BOOLEAN, error : BOOLEAN, risk : BOOLEAN, open : SUBSET Tools, markers : Nat,
   outcome : {"none", "success", "failed", "unknown"}, retries : Nat, early : BOOLEAN,
   outputs : {0, 1}]
StreamTypeOK ==
  /\ phase \in {"diagnosing", "executing", "inspecting"}
  /\ stream \in Seq(Lines(phase)) /\ parser \in ParsedStream
  /\ reading \in {"lines", "refused", "ended", "failed"} /\ exitcode \in {0, 1}

\* The line that raised is not among the accepted ones, nor the end among those spoken.
Accepted == IF reading = "refused" /\ ~parser.early THEN Len(stream) - 1 ELSE Len(stream)
Spoken == IF parser.terminal THEN Accepted - 1 ELSE Accepted

\* Nothing is accepted after an end, and nothing concluded without one.
EndIsKnown ==
  /\ \A i \in 1..Spoken : KindAt(i) \notin {"success", "error", "garbage"}
  /\ parser.terminal =>
       Accepted > 0 /\ KindAt(Accepted) = IF parser.error THEN "error" ELSE "success"
  /\ parser.error => parser.terminal
  /\ parser.early => reading = "refused" /\ phase = "inspecting"
  /\ reading = "refused" /\ ~parser.early => stream # <<>> /\ Refused(stream[Len(stream)])
  /\ reading \in {"lines", "refused"} => exitcode = 0
  /\ IF reading = "ended" THEN ~Incomplete(exitcode) /\ verdict = Status ELSE verdict = "none"
  /\ reading = "failed" => Incomplete(exitcode)

\* The open tools are those used once more than answered; none ever is twice more.
ToolsAreKnown ==
  \A id \in Tools :
    /\ \A m \in 1..Accepted : Uses("tool", id, m) - Uses("answer", id, m) \in {0, 1}
    /\ Uses("tool", id, Accepted) =
         Uses("answer", id, Accepted) + (IF id \in parser.open THEN 1 ELSE 0)

\* What has been said of the outcome: one marker after ordinary talk and nothing since,
\* something unclear or too much, or nothing yet.
Talk == {"other", "text", "plan", "tool", "answer"}
MarkedBy(marker) ==
  \E i \in 1..Spoken :
    /\ KindAt(i) = marker
    /\ \A j \in 1..i - 1 : KindAt(j) \in Talk
    /\ \A j \in i + 1..Spoken : Noise(j)
Muddled ==
  \E i \in 1..Spoken :
    /\ KindAt(i) \in Verifications
    /\ KindAt(i) = "unclear" \/ \E j \in i + 1..Spoken : KindAt(j) \in {"text"} \cup Verifications
MarkersAreKnown ==
  /\ parser.risk => parser.markers = 0 /\ MarkedBy("risk")
  /\ parser.markers = 0 <=> parser.outcome = "none"
  /\ parser.markers = 0 /\ ~parser.risk => \A i \in 1..Spoken : KindAt(i) \in Talk
  /\ parser.outcome = "success" => MarkedBy("verified")
  /\ parser.outcome = "failed" => MarkedBy("refuted")
  /\ parser.outcome = "unknown" => Muddled

\* The retries are those since the last sign of life.
RetriesAreKnown ==
  /\ parser.early <=> GaveUp
  /\ reading = "lines" /\ ~parser.terminal =>
       \E from \in 1..Len(stream) + 1 :
         /\ Failing(from, Len(stream)) /\ Failures(from, Len(stream)) = parser.retries
         /\ from > 1 => KindAt(from - 1) \notin {"retry503", "other"}

\* The verdict is earned, and by this.
ParserInv ==
  /\ VerdictIsEarned /\ StreamTypeOK /\ EndIsKnown /\ ToolsAreKnown
  /\ phase = "executing" => MarkersAreKnown
  /\ phase = "inspecting" => RetriesAreKnown
=============================================================================
