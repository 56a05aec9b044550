--------------------------- MODULE SseRelay_proofs ---------------------------
(***************************************************************************)
(* Proofs about SseRelay, for any frames and any number of them: its types *)
(* and that an answer the page takes for final is stored.                  *)
(***************************************************************************)
EXTENDS SseRelay, SequenceTheorems, TLAPS

Chunks == Events \cup {Marker}

(***************************************************************************)
(* The parts of TypeOK, by who disturbs them.                              *)
(***************************************************************************)
UpstreamOK ==
  /\ agent \in {"open", "closed", "broken"} /\ sent \in 0..MaxFrames
  /\ wire \in Seq(Lines) /\ meant \in Seq(Events)
BackendOK ==
  /\ name \in Names
  /\ relay \in {"connect", "read", "save", "ended", "crashed"}
  /\ answer \in 0..MaxFrames /\ saved \in BOOLEAN
OutOK == out \in Seq(Chunks)
ClientOK ==
  /\ half \in BOOLEAN /\ (half => out # <<>>)
  /\ page \in {"reading", "resolved", "interrupt", "cancelled", "error",
               "aborted", "failed"}
  /\ shown \in Seq(Events) /\ fault \in BOOLEAN

\* The types, split by who changes them.
LEMMA TypeParts == TypeOK <=> UpstreamOK /\ BackendOK /\ OutOK /\ ClientOK
BY DEF TypeOK, UpstreamOK, BackendOK, OutOK, ClientOK, Chunks

(***************************************************************************)
(* What a frame means is an event or nothing.                              *)
(***************************************************************************)
LEMMA MeaningType ==
  ASSUME NEW event \in Names, NEW body \in Bodies
  PROVE  Meaning(event, body) \in Types \cup {"none", "hollow"}
<1>1. CASE body = "garbled"
  BY <1>1 DEF Meaning, Types
<1>2. CASE body \in {"malformed", "marker"}
  BY <1>2 DEF Meaning
<1>3. CASE body \in {"delta", "done", "hollow", "error", "other"}
  BY <1>3 DEF Meaning, Types, Names
<1> QED BY <1>1, <1>2, <1>3 DEF Bodies

\* A frame has a known name and a known body.
LEMMA FrameType ==
  ASSUME NEW f \in Frames
  PROVE  f.name \in Names /\ f.body \in Bodies
BY FramesAssumption

\* An error, and whatever a frame may mean, is an event; the opening comment is a chunk.
LEMMA EventType ==
  /\ Err \in Events /\ Err \in Chunks /\ Marker \in Chunks
  /\ \A type \in Types, n \in 0..MaxFrames : [type |-> type, n |-> n] \in Events
BY BoundAssumption DEF Err, Events, Types, Chunks

\* The lines of a frame are lines.
LEMMA LinesType ==
  ASSUME NEW f \in Frames, NEW n \in 1..MaxFrames
  PROVE  LinesOf(f, n) \in Seq(Lines)
<1>1. [line |-> "data", body |-> f.body, n |-> n] \in Lines /\ [line |-> "blank"] \in Lines
      /\ [line |-> "event", name |-> f.name] \in Lines
  BY FrameType DEF Lines
<1>2. <<[line |-> "data", body |-> f.body, n |-> n], [line |-> "blank"]>> \in Seq(Lines)
  BY <1>1
<1>3. <<>> \in Seq(Lines) /\ <<[line |-> "event", name |-> f.name]>> \in Seq(Lines)
  BY <1>1
<1> QED BY <1>2, <1>3 DEF LinesOf

\* The next line carries a name, a body or nothing.
LEMMA HeadType ==
  ASSUME UpstreamOK, BackendOK, wire # <<>>
  PROVE  /\ Head(wire) \in Lines /\ Tail(wire) \in Seq(Lines)
         /\ NameAfter(Head(wire)) \in Names
         /\ Head(wire).line = "data" =>
              Head(wire).body \in Bodies /\ Head(wire).n \in 1..MaxFrames
<1>1. Head(wire) \in Lines /\ Tail(wire) \in Seq(Lines)
  BY HeadTailProperties DEF UpstreamOK
<1>2. NameAfter(Head(wire)) \in Names
  BY <1>1 DEF NameAfter, Lines, Names
<1>3. Head(wire).line = "data" => Head(wire).body \in Bodies /\ Head(wire).n \in 1..MaxFrames
  BY <1>1 DEF Lines
<1> QED BY <1>1, <1>2, <1>3

\* A write adds its chunks, or finds the page gone and ends the relay.
LEMMA WriteType ==
  ASSUME OutOK, NEW frames \in Seq(Chunks),
         NEW next \in {"connect", "read", "save", "ended", "crashed"}, Write(frames, next)
  PROVE  /\ OutOK' /\ relay' \in {next, "ended"}
         /\ out # <<>> => out' # <<>>
         /\ \/ out' = out /\ relay' = "ended" /\ Gone
            \/ out' = out \o frames /\ relay' = next /\ ~Gone
<1>1. out \o frames \in Seq(Chunks) /\ (out # <<>> => out \o frames # <<>>)
  BY DEF OutOK
<1> QED BY <1>1 DEF OutOK, Write

(***************************************************************************)
(* Which steps disturb which part.                                         *)
(***************************************************************************)
LEMMA UpstreamStep ==
  ASSUME TypeOK, [Next]_vars
  PROVE  UpstreamOK'
<1> USE TypeParts DEF UpstreamOK, upstream, backend, client
<1>1. ASSUME NEW f \in Frames, Emit(f) PROVE UpstreamOK'
  <2>1. sent + 1 \in 1..MaxFrames
    BY <1>1, BoundAssumption DEF Emit
  <2>2. wire \o LinesOf(f, sent + 1) \in Seq(Lines)
    BY <2>1, LinesType
  <2>3. ASSUME Meaning(f.name, f.body) # "none" PROVE Meant(f, sent + 1) \in Events
    <3>1. Meaning(f.name, f.body) \in Types \cup {"hollow"}
      BY <2>3, FrameType, MeaningType
    <3> QED BY <2>1, <3>1, EventType, BoundAssumption DEF Meant, Types
  <2>4. meant' \in Seq(Events)
    BY <1>1, <2>3 DEF Emit
  <2> QED BY <1>1, <2>1, <2>2, <2>4 DEF Emit
<1>2. CASE Break
  <2>1. PICK k \in 0..Len(wire) : wire' = SubSeq(wire, 1, k)
    BY <1>2 DEF Break
  <2>2. SubSeq(wire, 1, k) \in Seq(Lines)
    OBVIOUS
  <2> QED BY <1>2, <2>1, <2>2 DEF Break
<1>3. CASE Hangup \/ UNCHANGED vars
  BY <1>3 DEF Hangup, vars
<1>4. CASE Skip \/ Forward
  BY <1>4, HeadType DEF Skip, Forward
<1>5. CASE Connect \/ Save \/ Exhausted \/ Timeout
  BY <1>5 DEF Connect, Save, Exhausted, Timeout
<1>6. CASE Partial \/ Receive \/ EndOfBody \/ \E how \in {"aborted", "failed"} : Leave(how)
  BY <1>6 DEF Partial, Receive, EndOfBody, Leave
<1> QED BY <1>1, <1>2, <1>3, <1>4, <1>5, <1>6 DEF Next

(***************************************************************************)
(* The cases of Forward, by what the line at the head of the wire means.   *)
(***************************************************************************)
ForwardCases(n, type) ==
  \/ /\ type = "done" /\ relay' = "save" /\ answer' = n
     /\ UNCHANGED <<out, fault>>
  \/ type = "hollow" /\ Write(<<Err>>, "ended") /\ UNCHANGED <<answer, fault>>
  \/ /\ type \in {"loop", "delta"} /\ Write(<<[type |-> type, n |-> n]>>, "read")
     /\ UNCHANGED <<answer, fault>>
  \/ /\ type \in {"interrupt", "cancelled", "error"} /\ answer' = answer
     /\ \/ Write(<<[type |-> type, n |-> n]>>, "ended") /\ UNCHANGED fault
        \/ type # "error" /\ Write(<<Err>>, "ended") /\ fault' = TRUE

\* A line that is forwarded carries an event, a done, an error or a body without content.
LEMMA Forwards ==
  ASSUME TypeOK, Forward
  PROVE  /\ Head(wire).line = "data" /\ Head(wire).body \in Bodies
         /\ Head(wire).n \in 1..MaxFrames
         /\ Meaning(name, Head(wire).body) \in Types \cup {"hollow"}
         /\ ForwardCases(Head(wire).n, Meaning(name, Head(wire).body))
<1>1. Head(wire).line = "data" /\ Meaning(name, Head(wire).body) # "none"
  BY DEF Forward, Silent
<1>2. Head(wire).body \in Bodies /\ Head(wire).n \in 1..MaxFrames
  BY <1>1, HeadType, TypeParts DEF Forward
<1> DEFINE type == Meaning(name, Head(wire).body)
<1>3. type \in Types \cup {"hollow"}
  BY <1>1, <1>2, MeaningType, TypeParts DEF BackendOK
<1> DEFINE n == Head(wire).n
<1>4. (CASE type = "done" ->
             relay' = "save" /\ answer' = n /\ UNCHANGED <<out, fault>>
        [] type = "hollow" -> Write(<<Err>>, "ended") /\ UNCHANGED <<answer, fault>>
        [] type \in {"loop", "delta"} ->
             Write(<<[type |-> type, n |-> n]>>, "read") /\ UNCHANGED <<answer, fault>>
        [] type \in {"interrupt", "cancelled", "error"} ->
             /\ \/ Write(<<[type |-> type, n |-> n]>>, "ended") /\ UNCHANGED fault
                \/ type # "error" /\ Write(<<Err>>, "ended") /\ fault' = TRUE
             /\ UNCHANGED answer)
  BY DEF Forward
<1> HIDE DEF n, type
<1>5. ForwardCases(n, type)
  <2>1. CASE type = "done"
    BY <1>4, <2>1 DEF ForwardCases
  <2>2. CASE type = "hollow"
    BY <1>4, <2>2 DEF ForwardCases
  <2>3. CASE type \in {"loop", "delta"}
    BY <1>4, <2>3 DEF ForwardCases
  <2>4. CASE type \in {"interrupt", "cancelled", "error"}
    BY <1>4, <2>4 DEF ForwardCases
  <2> QED BY <1>3, <2>1, <2>2, <2>3, <2>4 DEF Types
<1> QED BY <1>1, <1>2, <1>3, <1>5 DEF n, type

(***************************************************************************)
(* What the backend writes, and how it goes on.                            *)
(***************************************************************************)
LEMMA Writings ==
  ASSUME TypeOK, Connect \/ Forward \/ Save \/ Exhausted
  PROVE  \/ out' = out /\ relay' \in {"read", "save", "ended", "crashed"}
         \/ \E frames \in Seq(Chunks) : /\ frames # <<>> /\ ~Gone /\ out' = out \o frames
                                        /\ relay' \in {"read", "ended"}
<1> USE TypeParts
<1>1. ASSUME NEW frames \in Seq(Chunks), frames # <<>>, NEW next \in {"read", "ended"},
             Write(frames, next)
      PROVE  \/ out' = out /\ relay' \in {"read", "save", "ended", "crashed"}
             \/ \E fs \in Seq(Chunks) : /\ fs # <<>> /\ ~Gone /\ out' = out \o fs
                                        /\ relay' \in {"read", "ended"}
  BY <1>1, WriteType
<1>2. \A e \in Events : <<e>> \in Seq(Chunks) /\ <<e>> # <<>>
                        /\ <<e, Marker>> \in Seq(Chunks) /\ <<e, Marker>> # <<>>
  BY DEF Chunks
<1>3. CASE Connect
  BY <1>1, <1>2, <1>3, EventType DEF Connect
<1>4. CASE Forward
  <2> DEFINE n == Head(wire).n
             type == Meaning(name, Head(wire).body)
  <2>1. n \in 0..MaxFrames /\ ForwardCases(n, type)
    BY <1>4, Forwards, BoundAssumption
  <2> HIDE DEF n, type
  <2>2. type \in Types => [type |-> type, n |-> n] \in Events
    BY <2>1, EventType
  <2>3. \/ out' = out /\ relay' = "save"
        \/ Write(<<Err>>, "ended")
        \/ type \in Types /\ Write(<<[type |-> type, n |-> n]>>, "read")
        \/ type \in Types /\ Write(<<[type |-> type, n |-> n]>>, "ended")
    BY <2>1 DEF ForwardCases, Types
  <2> QED BY <1>1, <1>2, <2>2, <2>3, EventType
<1>5. CASE Save
  <2>1. [type |-> "done", n |-> answer] \in Events
    BY EventType DEF BackendOK, Types
  <2> QED BY <1>1, <1>2, <1>5, <2>1 DEF Save
<1>6. CASE Exhausted
  BY <1>1, <1>2, <1>6, EventType DEF Exhausted
<1> QED BY <1>3, <1>4, <1>5, <1>6

\* Every step keeps the types of the parser and of the service.
LEMMA BackendStep ==
  ASSUME TypeOK, [Next]_vars
  PROVE  BackendOK'
<1> USE TypeParts DEF BackendOK, upstream, backend, client
<1>1. CASE Connect \/ Save \/ Exhausted
  BY <1>1, Writings DEF Connect, Save, Exhausted
<1>2. CASE Forward
  <2>1. relay' \in {"read", "save", "ended", "crashed"}
    BY <1>2, Writings
  <2>2. name' \in Names /\ saved' = saved
    BY <1>2, HeadType DEF Forward
  <2>3. answer' \in 0..MaxFrames
    <3> DEFINE n == Head(wire).n
               type == Meaning(name, Head(wire).body)
    <3>1. n \in 0..MaxFrames /\ ForwardCases(n, type)
      BY <1>2, Forwards, BoundAssumption
    <3> HIDE DEF n, type
    <3>2. answer' = n \/ answer' = answer
      BY <3>1 DEF ForwardCases
    <3> QED BY <3>1, <3>2
  <2> QED BY <2>1, <2>2, <2>3
<1>3. CASE Skip \/ Timeout
  BY <1>3, HeadType DEF Skip, Timeout
<1>4. CASE Hangup \/ Break \/ (\E f \in Frames : Emit(f)) \/ UNCHANGED vars
  BY <1>4 DEF Hangup, Break, Emit, vars
<1>5. CASE Partial \/ Receive \/ EndOfBody \/ \E how \in {"aborted", "failed"} : Leave(how)
  BY <1>5 DEF Partial, Receive, EndOfBody, Leave
<1> QED BY <1>1, <1>2, <1>3, <1>4, <1>5 DEF Next

\* What the page does with the chunk at the head of out.
LEMMA Received ==
  ASSUME TypeOK, Receive
  PROVE  /\ Head(out) \in Chunks /\ Tail(out) \in Seq(Chunks)
         /\ shown' = IF Head(out) = Marker THEN shown ELSE Append(shown, Head(out))
         /\ shown' \in Seq(Events)
         /\ page' \in {"reading", "resolved", "interrupt", "cancelled", "error"}
<1>1. Head(out) \in Chunks /\ Tail(out) \in Seq(Chunks)
  BY HeadTailProperties, TypeParts DEF Receive, OutOK
<1>2. shown' = IF Head(out) = Marker THEN shown ELSE Append(shown, Head(out))
  BY DEF Receive, Handled
<1>3. page' \in {"reading", "resolved", "interrupt", "cancelled", "error"}
  <2> DEFINE type == Head(out).type
  <2>1. page' = After(type)
    BY DEF Receive
  <2> HIDE DEF type
  <2>2. CASE type = "[DONE]"
    BY <2>1, <2>2 DEF After
  <2>3. CASE type \in {"interrupt", "cancelled", "error"}
    BY <2>1, <2>3 DEF After
  <2>4. CASE type \notin {"[DONE]", "interrupt", "cancelled", "error"}
    BY <2>1, <2>4 DEF After
  <2> QED BY <2>2, <2>3, <2>4
<1>4. shown' \in Seq(Events)
  <2>1. CASE Head(out) = Marker
    BY <1>2, <2>1, TypeParts DEF ClientOK
  <2>2. CASE Head(out) # Marker
    BY <1>1, <1>2, <2>2, TypeParts DEF ClientOK, Chunks
  <2> QED BY <2>1, <2>2
<1> QED BY <1>1, <1>2, <1>3, <1>4

\* Every step keeps the types of what is under way and of what is shown.
LEMMA OutClientStep ==
  ASSUME TypeOK, [Next]_vars
  PROVE  OutOK' /\ ClientOK'
<1> USE TypeParts DEF upstream, backend, client
<1>1. ASSUME Connect \/ Forward \/ Save \/ Exhausted PROVE OutOK' /\ ClientOK'
  <2>1. OutOK' /\ (out # <<>> => out' # <<>>)
    <3>1. CASE out' = out
      BY <3>1 DEF OutOK
    <3>2. ASSUME NEW frames \in Seq(Chunks), frames # <<>>, out' = out \o frames
          PROVE  OutOK' /\ (out # <<>> => out' # <<>>)
      BY <3>2 DEF OutOK
    <3> QED BY <1>1, <3>1, <3>2, Writings
  <2>2. UNCHANGED client
    BY <1>1 DEF Connect, Forward, Save, Exhausted
  <2>3. fault' \in BOOLEAN
    <3>1. CASE Connect
      BY <3>1 DEF Connect, ClientOK
    <3>2. CASE Forward
      BY <3>2, Forwards DEF ForwardCases, ClientOK
    <3>3. CASE Save \/ Exhausted
      BY <3>3 DEF Save, Exhausted, ClientOK
    <3> QED BY <1>1, <3>1, <3>2, <3>3
  <2> QED BY <2>1, <2>2, <2>3 DEF ClientOK
<1>2. ASSUME Receive PROVE OutOK' /\ ClientOK'
  <2>1. OutOK'
    BY <1>2, Received DEF Receive, OutOK
  <2>2. half' = FALSE /\ fault' = fault
    BY <1>2 DEF Receive
  <2>3. /\ shown' \in Seq(Events)
        /\ page' \in {"reading", "resolved", "interrupt", "cancelled", "error"}
    BY <1>2, Received
  <2> QED BY <2>1, <2>2, <2>3 DEF ClientOK
<1>3. ASSUME NEW how \in {"aborted", "failed"}, Leave(how) PROVE OutOK' /\ ClientOK'
  <2>1. page' = how /\ out' = <<>> /\ half' = FALSE /\ fault' = TRUE /\ shown' = shown
    BY <1>3 DEF Leave
  <2>2. <<>> \in Seq(Chunks)
    OBVIOUS
  <2>3. shown \in Seq(Events)
    BY DEF ClientOK
  <2> QED BY <2>1, <2>2, <2>3 DEF OutOK, ClientOK
<1>4. CASE Partial \/ EndOfBody
  <2>1. out' = out /\ shown' = shown /\ fault' = fault
    BY <1>4 DEF Partial, EndOfBody
  <2>2. half' \in BOOLEAN /\ (half' => out # <<>>)
    <3>1. CASE Partial
      BY <3>1 DEF Partial
    <3>2. CASE EndOfBody
      BY <3>2 DEF EndOfBody, ClientOK
    <3> QED BY <1>4, <3>1, <3>2
  <2>3. page' \in {"reading", "resolved", "failed"}
    <3>1. CASE Partial
      BY <3>1 DEF Partial
    <3>2. CASE EndOfBody
      BY <3>2 DEF EndOfBody
    <3> QED BY <1>4, <3>1, <3>2
  <2> QED BY <2>1, <2>2, <2>3 DEF OutOK, ClientOK
<1>5. CASE \/ (\E f \in Frames : Emit(f)) \/ Hangup \/ Break \/ Skip \/ Timeout
           \/ UNCHANGED vars
  <2>1. UNCHANGED <<out, client>> /\ (fault' = fault \/ fault' = TRUE)
    <3>1. ASSUME NEW f \in Frames, Emit(f) PROVE UNCHANGED <<out, client, fault>>
      BY <3>1 DEF Emit
    <3>2. CASE Hangup \/ Skip \/ UNCHANGED vars
      BY <3>2 DEF Hangup, Skip, vars
    <3>3. CASE Break \/ Timeout
      BY <3>3 DEF Break, Timeout
    <3> QED BY <1>5, <3>1, <3>2, <3>3
  <2> QED BY <2>1 DEF OutOK, ClientOK
<1> QED BY <1>1, <1>2, <1>3, <1>4, <1>5 DEF Next

(***************************************************************************)
(* Type correctness of the relay, from the Agent's lines to the page.      *)
(***************************************************************************)
THEOREM TypeCorrect == Spec => []TypeOK
<1>1. Init => TypeOK
  <2> SUFFICES ASSUME Init PROVE TypeOK
    OBVIOUS
  <2>1. <<>> \in Seq(Lines) /\ <<>> \in Seq(Events) /\ <<>> \in Seq(Events \cup {Marker})
    OBVIOUS
  <2>2. 0 \in 0..MaxFrames
    BY BoundAssumption
  <2>3. name \in Names
    BY DEF Init, Names
  <2> QED BY <2>1, <2>2, <2>3 DEF Init, TypeOK
<1>2. TypeOK /\ [Next]_vars => TypeOK'
  <2> SUFFICES ASSUME TypeOK, [Next]_vars PROVE TypeOK'
    OBVIOUS
  <2>1. UpstreamOK' /\ BackendOK' /\ OutOK' /\ ClientOK'
    BY UpstreamStep, BackendStep, OutClientStep
  <2> QED BY <2>1 DEF TypeOK, UpstreamOK, BackendOK, OutOK, ClientOK, Chunks
<1> QED BY <1>1, <1>2, PTL DEF Spec

-----------------------------------------------------------------------------
(* A final answer is stored *)

(***************************************************************************)
(* No done is on its way to the page, or shown, before the answer is       *)
(* stored.                                                                 *)
(***************************************************************************)
Backed ==
  /\ (\E i \in DOMAIN shown : shown[i].type = "done") => saved
  /\ (\E i \in DOMAIN out : out[i].type = "done") => saved

\* A done is on its way or shown only when the answer is stored.
LEMMA BackedStep ==
  ASSUME TypeOK, Backed, [Next]_vars
  PROVE  Backed'
<1> USE TypeParts DEF upstream, backend, client
<1>1. ASSUME NEW frames \in Seq(Chunks), shown' = shown, saved' = saved,
             out' = out \/ out' = out \o frames,
             saved \/ \A i \in DOMAIN frames : frames[i].type # "done"
      PROVE  Backed'
  <2>1. CASE out' = out
    BY <1>1, <2>1 DEF Backed
  <2>2. CASE out' = out \o frames
    <3>1. \A i \in DOMAIN out' :
            \/ i \in DOMAIN out /\ out'[i] = out[i]
            \/ \E j \in DOMAIN frames : out'[i] = frames[j]
      BY <2>2 DEF OutOK
    <3> QED BY <1>1, <3>1 DEF Backed
  <2> QED BY <1>1, <2>1, <2>2
<1>2. \A e \in Chunks : <<e>> \in Seq(Chunks) /\ \A i \in DOMAIN <<e>> : <<e>>[i] = e
  OBVIOUS
<1>3. ASSUME NEW e \in Chunks, e.type # "done", NEW next, Write(<<e>>, next),
             shown' = shown, saved' = saved
      PROVE  Backed'
  BY <1>1, <1>2, <1>3 DEF Write
<1>4. Err \in Chunks /\ Err.type # "done"
  BY EventType DEF Err
<1>5. CASE Connect
  BY <1>1, <1>2, <1>3, <1>4, <1>5 DEF Connect, Backed
<1>6. CASE Forward
  <2> DEFINE n == Head(wire).n
             type == Meaning(name, Head(wire).body)
  <2>1. n \in 0..MaxFrames /\ ForwardCases(n, type) /\ shown' = shown /\ saved' = saved
    <3>1. n \in 0..MaxFrames /\ ForwardCases(n, type)
      BY <1>6, Forwards, BoundAssumption
    <3>2. shown' = shown /\ saved' = saved
      BY <1>6 DEF Forward
    <3> QED BY <3>1, <3>2
  <2> HIDE DEF n, type
  <2>2. type \in Types => [type |-> type, n |-> n] \in Chunks
    BY <2>1, EventType DEF Chunks
  <2>3. \/ out' = out
        \/ Write(<<Err>>, "ended")
        \/ \E next : /\ type \in Types /\ type # "done"
                     /\ Write(<<[type |-> type, n |-> n]>>, next)
    BY <2>1 DEF ForwardCases, Types
  <2> QED BY <1>3, <1>4, <2>1, <2>2, <2>3 DEF Backed
<1>7. CASE Save
  BY <1>7 DEF Save, Backed, Write
<1>8. CASE Exhausted
  BY <1>3, <1>4, <1>8 DEF Exhausted, Backed
<1>9. CASE Receive
  <2>1. /\ Head(out) \in Chunks /\ saved' = saved /\ out' = Tail(out) /\ out # <<>>
        /\ shown' = IF Head(out) = Marker THEN shown ELSE Append(shown, Head(out))
    BY <1>9, Received DEF Receive
  <2>2. out \in Seq(Chunks) /\ shown \in Seq(Events)
    BY DEF OutOK, ClientOK
  <2>3. \A i \in DOMAIN out' : i + 1 \in DOMAIN out /\ out'[i] = out[i + 1]
    BY <2>1, <2>2
  <2>4. 1 \in DOMAIN out /\ Head(out) = out[1]
    BY <2>1, <2>2
  <2>5. \A i \in DOMAIN shown' : \/ i \in DOMAIN shown /\ shown'[i] = shown[i]
                                 \/ shown'[i] = Head(out)
    BY <2>1, <2>2, AppendProperties
  <2> QED BY <2>1, <2>3, <2>4, <2>5 DEF Backed
<1>10. ASSUME NEW how \in {"aborted", "failed"}, Leave(how) PROVE Backed'
  BY <1>10 DEF Leave, Backed
<1>11. CASE UNCHANGED <<out, shown, saved>>
  BY <1>11 DEF Backed
<1>12. CASE \/ (\E f \in Frames : Emit(f)) \/ Hangup \/ Break \/ Skip \/ Timeout
            \/ Partial \/ EndOfBody \/ UNCHANGED vars
  BY <1>11, <1>12 DEF Emit, Hangup, Break, Skip, Timeout, Partial, EndOfBody, vars
<1> QED BY <1>5, <1>6, <1>7, <1>8, <1>9, <1>10, <1>12 DEF Next

(***************************************************************************)
(* The page takes an answer for final only if it is stored, whatever the   *)
(* Agent sends and wherever a connection or the store fails.               *)
(***************************************************************************)
THEOREM FinalIsSaved == Spec => []FinalMeansSaved
<1>1. Init => Backed
  BY DEF Init, Backed
<1>2. TypeOK /\ Backed /\ [Next]_vars => Backed'
  BY BackedStep
<1>3. Backed => FinalMeansSaved
  BY DEF Backed, FinalMeansSaved
<1> QED BY <1>1, <1>2, <1>3, TypeCorrect, PTL DEF Spec
=============================================================================
