----------------------------- MODULE SseRelay -----------------------------
(***************************************************************************)
(* One run's events on their way from the Agent to the page: the Agent's   *)
(* SSE lines, the parser _iter_sse, the service that forwards events and   *)
(* stores the answer, the writer _sse_chunks, and readSSE in the page,     *)
(* which gets the bytes in pieces. Module ChatTurn has what the run does   *)
(* to the session; here it is one step, Save.                              *)
(***************************************************************************)
EXTENDS Naturals, Sequences, SequencesExt

CONSTANTS Frames,     \* what the Agent may send: [name, body]
          MaxFrames   \* bound: how many frames it sends

Names == {"message", "loop", "interrupt", "cancelled", "error"}
Bodies == {"delta", "done", "hollow", "error", "other",
           "malformed", "marker", "garbled"}
Types == {"loop", "delta", "interrupt", "cancelled", "done", "error"}
Events == [type : Types, n : 0..MaxFrames]
Err == [type |-> "error", n |-> 0]
Marker == [type |-> "[DONE]", n |-> 0]

ASSUME FramesAssumption == Frames \subseteq [name : Names, body : Bodies]
ASSUME BoundAssumption == MaxFrames \in Nat

VARIABLES agent,   \* open, closed or broken: the Agent's end of the connection
          sent,    \* how many frames it has sent
          wire,    \* its lines the parser has not read
          name,    \* event_name of _iter_sse
          relay,   \* where the backend is: connect, read, save, ended, crashed
          answer,  \* the frame whose message the service is about to store
          saved,   \* the answer is stored
          out,     \* SSE frames written for the page
          half,    \* the head of out has arrived without its blank line
          page,    \* reading, or how readSSE ended
          shown,   \* the events the page has handled
          meant,   \* history: the events the Agent meant, up to the last of the run
          fault    \* history: a connection, a store or the user cut the run short

vars == <<agent, sent, wire, name, relay, answer, saved, out, half, page, shown,
          meant, fault>>
upstream == <<agent, sent, wire, meant>>
backend == <<name, relay, answer, saved>>
client == <<half, page, shown>>

Lines == {[line |-> "blank"]} \cup [line : {"event"}, name : Names]
           \cup [line : {"data"}, body : Bodies, n : 1..MaxFrames]

TypeOK ==
  /\ agent \in {"open", "closed", "broken"} /\ sent \in 0..MaxFrames
  /\ wire \in Seq(Lines)
  /\ name \in Names
  /\ relay \in {"connect", "read", "save", "ended", "crashed"}
  /\ answer \in 0..MaxFrames /\ saved \in BOOLEAN
  /\ out \in Seq(Events \cup {Marker})
  /\ half \in BOOLEAN /\ (half => out # <<>>)
  /\ page \in {"reading", "resolved", "interrupt", "cancelled", "error",
               "aborted", "failed"}
  /\ shown \in Seq(Events) /\ meant \in Seq(Events)
  /\ fault \in BOOLEAN

Init ==
  /\ agent = "open" /\ sent = 0 /\ wire = <<>> /\ name = "message"
  /\ relay = "connect" /\ answer = 0 /\ saved = FALSE
  /\ out = <<>> /\ half = FALSE /\ page = "reading" /\ shown = <<>>
  /\ meant = <<>> /\ fault = FALSE

-----------------------------------------------------------------------------
(* The Agent, as _iter_sse expects it *)

\* What a data line means under an event name: _iter_sse skips a payload that is
\* empty, [DONE] or no JSON before it looks at the name, and a line that is not
\* UTF-8 ends the run with an error. A done message may be an empty object.
Meaning(event, body) ==
  CASE body = "garbled" -> "error"
    [] body \in {"malformed", "marker"} -> "none"
    [] body \notin {"garbled", "malformed", "marker"} ->
         IF event # "message" THEN event
         ELSE IF body = "other" THEN "none" ELSE body

IsTerminal(type) == type \in {"interrupt", "cancelled", "done", "error"}
RunEnded == meant # <<>> /\ IsTerminal(Last(meant).type)

LinesOf(f, n) ==
  (IF f.name = "message" THEN <<>> ELSE <<[line |-> "event", name |-> f.name]>>)
    \o <<[line |-> "data", body |-> f.body, n |-> n], [line |-> "blank"]>>

\* The service has no use for a done without a message: that is an error too.
Meant(f, n) ==
  LET m == Meaning(f.name, f.body)
  IN  [type |-> IF m = "hollow" THEN "error" ELSE m,
       n |-> IF m = "hollow" THEN 0 ELSE n]

Emit(f) ==
  /\ agent = "open" /\ relay # "connect" /\ sent < MaxFrames
  /\ sent' = sent + 1
  /\ wire' = wire \o LinesOf(f, sent + 1)
  /\ meant' = IF RunEnded \/ Meaning(f.name, f.body) = "none" THEN meant
              ELSE Append(meant, Meant(f, sent + 1))
  /\ UNCHANGED <<agent, backend, out, client, fault>>

Hangup == agent = "open" /\ agent' = "closed"
          /\ UNCHANGED <<sent, wire, meant, backend, out, client, fault>>

\* The connection breaks: lines that are still on their way may be lost.
Break ==
  /\ agent = "open"
  /\ agent' = "broken" /\ fault' = TRUE
  /\ \E k \in 0..Len(wire) : wire' = SubSeq(wire, 1, k)
  /\ UNCHANGED <<sent, meant, backend, out, client>>

-----------------------------------------------------------------------------
(* The backend: _iter_sse, _relay_agent_events, _sse_chunks, _sse_body *)

\* The page is no longer there for a chunk: _sse_body closes the generators.
Gone == page \in {"aborted", "failed"}

\* A chunk is written, and the backend goes on to the next state; once the page
\* is gone the chunk is dropped and the generators are closed.
Write(frames, next) ==
  /\ out' = IF Gone THEN out ELSE out \o frames
  /\ relay' = IF Gone THEN "ended" ELSE next

\* requests.post fails: an HTTP status or a late answer is reported, a refused
\* connection is not.
Connect ==
  /\ relay = "connect"
  /\ \/ relay' = "read" /\ UNCHANGED <<out, fault>>
     \/ Write(<<Err>>, "ended") /\ fault' = TRUE
     \/ relay' = "ended" /\ fault' = TRUE /\ UNCHANGED out
  /\ UNCHANGED <<upstream, name, answer, saved, client>>

\* Mutant: no line resets event_name.
NameKept(l) == IF l.line = "event" THEN l.name ELSE name

\* event_name after a line: an event line sets it, a blank line and every data
\* line reset it.
NameAfter(l) == IF l.line = "event" THEN l.name ELSE "message"

\* A line without an event for the service: an event line, a blank line, or
\* data that is skipped.
Silent(l) == l.line = "data" => Meaning(name, l.body) = "none"

Skip ==
  /\ relay = "read" /\ wire # <<>> /\ Silent(Head(wire))
  /\ wire' = Tail(wire)
  /\ name' = NameAfter(Head(wire))
  /\ UNCHANGED <<agent, sent, meant, relay, answer, saved, out, client, fault>>

\* What the service does with an event: a loop or delta is passed on; the
\* others return from _relay_agent_events, a done after the answer is stored.
\* Counting the usage of a pause may fail, which is reported in its place.
Forward ==
  /\ relay = "read" /\ wire # <<>> /\ ~Silent(Head(wire))
  /\ wire' = Tail(wire)
  /\ name' = NameAfter(Head(wire))
  /\ LET n == Head(wire).n
         type == Meaning(name, Head(wire).body)
     IN  CASE type = "done" ->
                relay' = "save" /\ answer' = n /\ UNCHANGED <<out, fault>>
           [] type = "hollow" -> Write(<<Err>>, "ended") /\ UNCHANGED <<answer, fault>>
           [] type \in {"loop", "delta"} ->
                Write(<<[type |-> type, n |-> n]>>, "read") /\ UNCHANGED <<answer, fault>>
           [] type \in {"interrupt", "cancelled", "error"} ->
                /\ \/ Write(<<[type |-> type, n |-> n]>>, "ended") /\ UNCHANGED fault
                   \/ type # "error" /\ Write(<<Err>>, "ended") /\ fault' = TRUE
                /\ UNCHANGED answer
  /\ UNCHANGED <<agent, sent, meant, saved, client>>

\* Mutant: an error of the store is swallowed and the answer reported.
SaveOrNot ==
  /\ relay = "save"
  /\ saved' \in BOOLEAN
  /\ Write(<<[type |-> "done", n |-> answer], Marker>>, "ended")
  /\ UNCHANGED <<upstream, name, answer, client, fault>>

\* The answer is stored and reported, or the store raises: the exception leaves
\* the generators and the response is cut off.
Save ==
  /\ relay = "save"
  /\ \/ /\ saved' = TRUE
        /\ Write(<<[type |-> "done", n |-> answer], Marker>>, "ended")
        /\ UNCHANGED fault
     \/ relay' = "crashed" /\ fault' = TRUE /\ UNCHANGED <<saved, out>>
  /\ UNCHANGED <<upstream, name, answer, client>>

\* Nothing more to read: a clean end without done is an error, a broken
\* connection ends the stream without a word.
Exhausted ==
  /\ relay = "read" /\ wire = <<>> /\ agent # "open"
  /\ IF agent = "closed" THEN Write(<<Err>>, "ended")
                         ELSE relay' = "ended" /\ UNCHANGED out
  /\ UNCHANGED <<upstream, name, answer, saved, client, fault>>

\* Mutant: requests.post without a timeout.
NoTimeout == FALSE /\ UNCHANGED vars

\* REQUEST_TIMEOUT_SECONDS pass without a byte from the Agent. While a body is
\* read, requests raises this as a ConnectionError: the stream ends silently.
Timeout ==
  /\ relay = "read" /\ wire = <<>> /\ agent = "open"
  /\ relay' = "ended" /\ fault' = TRUE
  /\ UNCHANGED <<upstream, name, answer, saved, out, client>>

-----------------------------------------------------------------------------
(* The page: streamAgent and readSSE *)

\* A piece of the response ends inside a frame: readSSE keeps it in its buffer.
Partial ==
  /\ page = "reading" /\ out # <<>> /\ ~half
  /\ half' = TRUE
  /\ UNCHANGED <<upstream, backend, out, page, shown, fault>>

\* How readSSE goes on after a frame.
After(type) ==
  CASE type = "[DONE]" -> "resolved"
    [] type \in {"interrupt", "cancelled", "error"} -> type
    [] OTHER -> "reading"

Handled(list, e) == IF e = Marker THEN list ELSE Append(list, e)

\* Mutant: the buffer is emptied between two pieces.
ReceiveWhole ==
  /\ page = "reading" /\ out # <<>>
  /\ out' = Tail(out) /\ half' = FALSE
  /\ IF half THEN UNCHANGED <<shown, page>>
             ELSE /\ shown' = Handled(shown, Head(out))
                  /\ page' = After(Head(out).type)
  /\ UNCHANGED <<upstream, backend, fault>>

\* The blank line of the frame has arrived.
Receive ==
  /\ page = "reading" /\ out # <<>>
  /\ out' = Tail(out) /\ half' = FALSE
  /\ shown' = Handled(shown, Head(out))
  /\ page' = After(Head(out).type)
  /\ UNCHANGED <<upstream, backend, fault>>

\* The response ends: cleanly, or cut off by an exception in the backend.
EndOfBody ==
  /\ page = "reading" /\ out = <<>> /\ relay \in {"ended", "crashed"}
  /\ page' = IF relay = "ended" THEN "resolved" ELSE "failed"
  /\ UNCHANGED <<upstream, backend, out, half, shown, fault>>

\* Mutant: what readSSE has buffered survives it.
LeaveHalf(how) ==
  /\ page = "reading"
  /\ page' = how /\ out' = <<>> /\ fault' = TRUE
  /\ UNCHANGED <<upstream, backend, half, shown>>

\* The user stops the reply, or the page's own connection breaks; what was
\* under way to it is lost.
Leave(how) ==
  /\ page = "reading"
  /\ page' = how /\ out' = <<>> /\ half' = FALSE /\ fault' = TRUE
  /\ UNCHANGED <<upstream, backend, shown>>

-----------------------------------------------------------------------------

Next ==
  \/ \E f \in Frames : Emit(f)
  \/ Hangup \/ Break
  \/ Connect \/ Skip \/ Forward \/ Save \/ Exhausted \/ Timeout
  \/ Partial \/ Receive \/ EndOfBody
  \/ \E how \in {"aborted", "failed"} : Leave(how)

Spec == Init /\ [][Next]_vars

\* A worker thread keeps running its generators, requests reports a silent
\* Agent, and the browser keeps calling back with what arrives. Nothing is
\* assumed of the Agent, the user or the connections.
Fairness ==
  /\ WF_vars(Connect \/ Skip \/ Forward \/ Save \/ Exhausted \/ Timeout)
  /\ WF_vars(Receive \/ EndOfBody)

FairSpec == Spec /\ Fairness

-----------------------------------------------------------------------------
(* Properties *)

Stream == INSTANCE EventStream WITH sent <- meant, got <- shown,
                                    open <- (page = "reading")

\* The line parser, the relay, the writer and the reader together keep the
\* order and the kind of what the Agent sent, and nothing follows the event
\* that ends a run, whatever the Agent still sends and wherever pieces end.
ImplementsStream == Stream!Spec

\* A run that nothing cut short is shown in full once the page stops reading,
\* with an error added when the Agent stopped without saying how it ended.
NothingLost ==
  page # "reading" /\ ~fault => shown = IF RunEnded THEN meant ELSE Append(meant, Err)

\* The page takes an answer for final (streamFinalized) only if it is stored:
\* a reload shows it again.
FinalMeansSaved == (\E i \in DOMAIN shown : shown[i].type = "done") => saved

\* Every stream ends on both sides: the page stops reading and the worker thread
\* is free, however long the Agent holds the connection or stays silent.
StreamsEnd == <>(page # "reading") /\ <>(relay \in {"ended", "crashed"})
=============================================================================
