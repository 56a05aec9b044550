-------------------------- MODULE SseStream_proofs --------------------------
(***************************************************************************)
(* Proofs that the relay implements EventStream, and that a run nothing    *)
(* cut short is shown in full: for any frames, any number of them, and any *)
(* point at which a connection breaks or the user leaves.                  *)
(***************************************************************************)
EXTENDS SseRelay_proofs

(***************************************************************************)
(* The invariant follows an event by its place in meant. Two parts say     *)
(* what the lines on the wire stand for: the name the parser will have in  *)
(* front of line k, and a tally of the events up to line k, counted from   *)
(* those the page has or is about to get.                                  *)
(***************************************************************************)
NameAt(event, lines, k) == IF k = 1 THEN event ELSE NameAfter(lines[k - 1])
EventAt(event, lines, k) ==
  lines[k].line = "data" /\ Meaning(NameAt(event, lines, k), lines[k].body) # "none"
MeantAt(event, lines, k) ==
  Meant([name |-> NameAt(event, lines, k), body |-> lines[k].body], lines[k].n)

Tallied(m) ==
  /\ m[0] = Len(shown) + Len(out)
  /\ \A k \in 1..Len(wire) :
       /\ m[k] = m[k - 1] + (IF EventAt(name, wire, k) THEN 1 ELSE 0)
       /\ EventAt(name, wire, k) /\ m[k] <= Len(meant) => meant[m[k]] = MeantAt(name, wire, k)
  /\ \A k \in 0..Len(wire) : m[k] > Len(meant) => RunEnded
  /\ agent # "broken" => m[Len(wire)] >= Len(meant)

Reading ==
  relay = "read" /\ page = "reading" => \E m \in [0..Len(wire) -> Nat] : Tallied(m)

\* Nothing the Agent means follows the event that ends the run.
OneEnd == \A i \in DOMAIN meant : IsTerminal(meant[i].type) => i = Len(meant)

\* Between two frames the parser is, or will be, back at "message".
NameReset == agent # "broken" => NameAt(name, wire, Len(wire) + 1) = "message"

Unconnected == relay = "connect" => wire = <<>> /\ meant = <<>> /\ out = <<>> /\ shown = <<>>

\* As long as the service works on the run, the page has, or is about to get, a
\* part of it that does not end it.
Underway == relay \in {"connect", "read", "save"} /\ page = "reading"
Delivered == Len(shown) + Len(out)
InOrder ==
  Underway => /\ Delivered <= Len(meant)
              /\ \A i \in DOMAIN shown : shown[i] = meant[i] /\ ~IsTerminal(shown[i].type)
              /\ \A i \in DOMAIN out : /\ out[i] = meant[Len(shown) + i]
                                       /\ ~IsTerminal(out[i].type)

\* The answer about to be stored is what the Agent meant next.
Saving ==
  relay = "save" /\ page = "reading" =>
    /\ Delivered < Len(meant)
    /\ meant[Delivered + 1] = [type |-> "done", n |-> answer]

\* Whatever became of the run, the page gets no more than EventStream allows.
ShownEnded == shown # <<>> /\ IsTerminal(shown[Len(shown)].type)
Due(i) == \/ out[i] \in {Marker, Err}
          \/ Len(shown) + i <= Len(meant) /\ out[i] = meant[Len(shown) + i]
LastDue(i) == i = Len(out) \/ (i = Len(out) - 1 /\ out[i + 1] = Marker)
Allowed ==
  page = "reading" =>
    /\ \A i \in DOMAIN out : Due(i)
    /\ \A i \in DOMAIN out : IsTerminal(out[i].type) \/ out[i] = Marker => LastDue(i)
    /\ ShownEnded => out \in {<<>>, <<Marker>>} /\ ~Underway

RelayInv == TypeOK /\ OneEnd /\ NameReset /\ Unconnected /\ InOrder /\ Reading
              /\ Saving /\ Allowed

-----------------------------------------------------------------------------
(* The lines and what they mean *)

\* Every step keeps the types of the relay (module SseRelay_proofs).
LEMMA TypeStep == ASSUME TypeOK, [Next]_vars PROVE TypeOK'
<1>1. UpstreamOK' /\ BackendOK' /\ OutOK' /\ ClientOK'
  BY UpstreamStep, BackendStep, OutClientStep
<1> QED BY <1>1 DEF TypeOK, UpstreamOK, BackendOK, OutOK, ClientOK, Chunks

\* The shape of a frame on the wire: where its data line is, and what is around it.
Place(f) == IF f.name = "message" THEN 1 ELSE 2

\* What a frame is on the wire: a name of its own if it is no message, its data, a blank line.
LEMMA FrameLines ==
  ASSUME NEW f \in Frames, NEW n \in 1..MaxFrames
  PROVE  /\ LinesOf(f, n) \in Seq(Lines) /\ Len(LinesOf(f, n)) = Place(f) + 1
         /\ LinesOf(f, n)[Place(f)] = [line |-> "data", body |-> f.body, n |-> n]
         /\ LinesOf(f, n)[Place(f) + 1] = [line |-> "blank"]
         /\ Place(f) = 2 => LinesOf(f, n)[1] = [line |-> "event", name |-> f.name]
<1> USE DEF Place
<1> DEFINE data == [line |-> "data", body |-> f.body, n |-> n]
           blank == [line |-> "blank"]
           event == [line |-> "event", name |-> f.name]
<1>1. data \in Lines /\ blank \in Lines /\ event \in Lines
  BY FrameType DEF Lines
<1>2. LinesOf(f, n) \in Seq(Lines)
  BY LinesType
<1>3. LinesOf(f, n) = (IF f.name = "message" THEN <<>> ELSE <<event>>) \o <<data, blank>>
  BY DEF LinesOf
<1> HIDE DEF data, blank, event
<1>4. CASE f.name = "message"
  <2>1. <<data, blank>> \in Seq(Lines) /\ <<>> \in Seq(Lines)
    BY <1>1
  <2>2. LinesOf(f, n) = <<>> \o <<data, blank>>
    BY <1>3, <1>4
  <2>3. LinesOf(f, n) = <<data, blank>>
    BY <2>1, <2>2
  <2> QED BY <1>2, <1>4, <2>3 DEF data, blank
<1>5. CASE f.name # "message"
  <2>1. <<data, blank>> \in Seq(Lines) /\ <<event>> \in Seq(Lines)
    BY <1>1
  <2>2. LinesOf(f, n) = <<event>> \o <<data, blank>>
    BY <1>3, <1>5
  <2>3. /\ Len(LinesOf(f, n)) = 3 /\ LinesOf(f, n)[1] = event /\ LinesOf(f, n)[2] = data
        /\ LinesOf(f, n)[3] = blank
    BY <2>1, <2>2
  <2> QED BY <1>2, <1>5, <2>3 DEF data, blank, event
<1> QED BY <1>4, <1>5

\* What an Emit adds to the wire: its data line comes at place d.
LEMMA Emitted ==
  ASSUME TypeOK, NEW f \in Frames, Emit(f), NEW d \in Nat, d = Len(wire) + Place(f)
  PROVE  /\ Len(wire') = d + 1 /\ sent + 1 \in 1..MaxFrames /\ Place(f) \in 1..2
         /\ \A k \in 1..Len(wire) : wire'[k] = wire[k]
         /\ wire'[d] = [line |-> "data", body |-> f.body, n |-> sent + 1]
         /\ wire'[d + 1] = [line |-> "blank"]
         /\ Place(f) = 2 => wire'[Len(wire) + 1] = [line |-> "event", name |-> f.name]
<1>1. sent + 1 \in 1..MaxFrames /\ wire' = wire \o LinesOf(f, sent + 1)
  BY BoundAssumption DEF Emit, TypeOK
<1> DEFINE lines == LinesOf(f, sent + 1)
           c == Place(f)
<1>2. /\ lines \in Seq(Lines) /\ Len(lines) = c + 1
      /\ lines[c] = [line |-> "data", body |-> f.body, n |-> sent + 1]
      /\ lines[c + 1] = [line |-> "blank"]
      /\ c = 2 => lines[1] = [line |-> "event", name |-> f.name]
  BY <1>1, FrameLines
<1>3. c \in 1..2 /\ d = Len(wire) + c /\ wire' = wire \o lines
  BY <1>1 DEF Place
<1> HIDE DEF c, lines
<1>4. wire \in Seq(Lines)
  BY DEF TypeOK
<1>5. /\ Len(wire') = Len(wire) + c + 1
      /\ \A k \in 1..Len(wire) : wire'[k] = wire[k]
      /\ \A k \in 1..Len(lines) : wire'[Len(wire) + k] = lines[k]
  BY <1>2, <1>3, <1>4
<1>6. wire'[Len(wire) + c] = lines[c] /\ wire'[Len(wire) + (c + 1)] = lines[c + 1]
      /\ wire'[Len(wire) + 1] = lines[1]
  BY <1>2, <1>3, <1>5
<1>7. Len(wire) \in Nat
  BY <1>4
<1> DEFINE before == Len(wire)
<1> HIDE DEF before
<1>8. /\ Len(wire') = d + 1 /\ d = before + c /\ before + (c + 1) = d + 1
      /\ wire'[d] = lines[c] /\ wire'[d + 1] = lines[c + 1]
      /\ wire'[before + 1] = lines[1]
  BY <1>3, <1>5, <1>6, <1>7 DEF before
<1>9. wire'[Len(wire) + 1] = lines[1]
  BY <1>6
<1> QED BY <1>1, <1>2, <1>3, <1>5, <1>8, <1>9 DEF c

\* The line read is gone, the others move up with the names in front of them.
LEMMA LineRead ==
  ASSUME TypeOK, Skip \/ Forward
  PROVE  /\ Len(wire) > 0 /\ Head(wire) = wire[1] /\ Len(wire') = Len(wire) - 1
         /\ \A k \in 1..Len(wire') : wire'[k] = wire[k + 1]
         /\ \A k \in 1..(Len(wire') + 1) : NameAt(name', wire', k) = NameAt(name, wire, k + 1)
         /\ \A k \in 1..Len(wire') : /\ EventAt(name', wire', k) = EventAt(name, wire, k + 1)
                                     /\ MeantAt(name', wire', k) = MeantAt(name, wire, k + 1)
<1>1. /\ wire # <<>> /\ wire' = Tail(wire) /\ name' = NameAfter(Head(wire))
      /\ wire \in Seq(Lines)
  BY DEF Skip, Forward, TypeOK
<1>2. /\ Len(wire) > 0 /\ Head(wire) = wire[1] /\ Len(wire') = Len(wire) - 1
      /\ \A k \in 1..Len(wire') : wire'[k] = wire[k + 1]
  BY <1>1
<1>3. ASSUME NEW k \in 1..(Len(wire') + 1) PROVE NameAt(name', wire', k) = NameAt(name, wire, k + 1)
  <2>1. NameAt(name, wire, k + 1) = NameAfter(wire[k])
    BY DEF NameAt
  <2>2. CASE k = 1
    BY <1>1, <1>2, <2>1, <2>2 DEF NameAt
  <2>3. CASE k # 1
    <3>1. NameAt(name', wire', k) = NameAfter(wire'[k - 1])
      BY <2>3 DEF NameAt
    <3>2. k - 1 \in 1..Len(wire') /\ (k - 1) + 1 = k
      BY <1>1, <1>2, <2>3
    <3>3. wire'[k - 1] = wire[k]
      BY <1>2, <3>2
    <3> QED BY <2>1, <3>1, <3>3
  <2> QED BY <2>2, <2>3
<1>4. ASSUME NEW k \in 1..Len(wire')
      PROVE  EventAt(name', wire', k) = EventAt(name, wire, k + 1) /\ MeantAt(name', wire', k) = MeantAt(name, wire, k + 1)
  <2>1. NameAt(name', wire', k) = NameAt(name, wire, k + 1) /\ wire'[k] = wire[k + 1]
    BY <1>1, <1>2, <1>3
  <2> QED BY <2>1 DEF EventAt, MeantAt
<1> QED BY <1>2, <1>3, <1>4

\* What the Agent meant grows only as long as it has not ended the run.
LEMMA MeantGrows ==
  ASSUME TypeOK, [Next]_vars
  PROVE  /\ Len(meant) <= Len(meant') /\ meant' \in Seq(Events)
         /\ \A i \in DOMAIN meant : i \in DOMAIN meant' /\ meant'[i] = meant[i]
         /\ meant' = meant
              \/ \E f \in Frames : /\ Emit(f) /\ ~RunEnded
                                   /\ meant' = Append(meant, Meant(f, sent + 1))
<1>1. meant \in Seq(Events) /\ meant' \in Seq(Events)
  BY TypeStep DEF TypeOK
<1>2. ASSUME NEW f \in Frames, Emit(f), meant' # meant
      PROVE  ~RunEnded /\ meant' = Append(meant, Meant(f, sent + 1))
  BY <1>2 DEF Emit
<1>3. meant' = meant \/ \E f \in Frames : Emit(f)
  BY DEF Next, vars, upstream, Hangup, Break, Connect, Skip, Forward, Save, Exhausted,
         Timeout, Partial, Receive, EndOfBody, Leave
<1>4. ASSUME NEW e, meant' = Append(meant, e)
      PROVE  Len(meant) <= Len(meant') /\ \A i \in DOMAIN meant : i \in DOMAIN meant' /\ meant'[i] = meant[i]
  BY <1>1, <1>4
<1> QED BY <1>1, <1>2, <1>3, <1>4

\* The names in front of the lines an Emit adds, and what they give.
LEMMA EmittedNames ==
  ASSUME TypeOK, NameReset, NEW f \in Frames, Emit(f), NEW d \in Nat, d = Len(wire) + Place(f)
  PROVE  /\ \A k \in 1..Len(wire) : EventAt(name', wire', k) = EventAt(name, wire, k) /\ MeantAt(name', wire', k) = MeantAt(name, wire, k)
         /\ \A k \in (Len(wire) + 1)..(d + 1) : k # d => ~EventAt(name', wire', k)
         /\ EventAt(name', wire', d) <=> Meaning(f.name, f.body) # "none"
         /\ MeantAt(name', wire', d) = Meant(f, sent + 1)
         /\ NameAt(name', wire', d + 2) = "message"
<1> DEFINE L == Len(wire)
<1>1. L \in Nat /\ d \in (L + 1)..(L + 2) /\ name' = name /\ agent = "open"
  <2>1. L \in Nat /\ Place(f) \in 1..2
    BY DEF TypeOK, Place
  <2> QED BY <2>1 DEF Emit, backend
<1>2. /\ \A k \in 1..L : wire'[k] = wire[k]
      /\ wire'[d] = [line |-> "data", body |-> f.body, n |-> sent + 1]
      /\ wire'[d + 1] = [line |-> "blank"]
      /\ d = L + 2 => wire'[L + 1] = [line |-> "event", name |-> f.name]
      /\ d = L + 1 => f.name = "message"
      /\ NameAt(name, wire, L + 1) = "message"
  BY <1>1, Emitted DEF NameReset, Place
<1> HIDE DEF L
<1>3. ASSUME NEW k \in 1..(L + 1) PROVE NameAt(name', wire', k) = NameAt(name, wire, k)
  <2>1. CASE k = 1
    BY <1>1, <2>1 DEF NameAt
  <2>2. CASE k # 1
    <3>1. k - 1 \in 1..L
      BY <1>1, <2>2
    <3> QED BY <1>2, <2>2, <3>1 DEF NameAt
  <2> QED BY <2>1, <2>2
<1>4. \A k \in 1..L : EventAt(name', wire', k) = EventAt(name, wire, k) /\ MeantAt(name', wire', k) = MeantAt(name, wire, k)
  BY <1>1, <1>2, <1>3 DEF EventAt, MeantAt
<1>5. NameAt(name', wire', d) = f.name
  <2>1. CASE d = L + 1
    BY <1>1, <1>2, <1>3, <2>1
  <2>2. CASE d = L + 2
    <3>1. NameAt(name', wire', d) = NameAfter(wire'[L + 1])
      BY <1>1, <2>2 DEF NameAt
    <3> QED BY <1>2, <2>2, <3>1 DEF NameAfter
  <2> QED BY <1>1, <2>1, <2>2
<1>6. EventAt(name', wire', d) <=> Meaning(f.name, f.body) # "none"
  BY <1>2, <1>5 DEF EventAt
<1>7. MeantAt(name', wire', d) = Meant(f, sent + 1)
  BY <1>2, <1>5 DEF MeantAt, Meant
<1>8. ~EventAt(name', wire', d + 1) /\ (d = L + 2 => ~EventAt(name', wire', L + 1))
  BY <1>2 DEF EventAt
<1>9. NameAt(name', wire', d + 2) = "message"
  <2>1. NameAt(name', wire', d + 2) = NameAfter(wire'[d + 1])
    BY <1>1 DEF NameAt
  <2> QED BY <1>2, <2>1 DEF NameAfter
<1>10. \A k \in (L + 1)..(d + 1) : k # d => k = d + 1 \/ (d = L + 2 /\ k = L + 1)
  BY <1>1
<1> QED BY <1>4, <1>6, <1>7, <1>8, <1>9, <1>10 DEF L

\* The meaning of a run grows at its end only, and not after the event that ends it.
LEMMA OneEndStep ==
  ASSUME TypeOK, OneEnd, [Next]_vars
  PROVE  OneEnd'
<1>1. CASE meant' = meant
  BY <1>1 DEF OneEnd
<1>2. ASSUME NEW e, ~RunEnded, meant' = Append(meant, e) PROVE OneEnd'
  <2>1. meant \in Seq(Events)
    BY DEF TypeOK
  <2>2. \A i \in DOMAIN meant : ~IsTerminal(meant[i].type)
    BY <1>2, <2>1 DEF OneEnd, RunEnded, Last
  <2>3. \A i \in DOMAIN meant' : i # Len(meant') => i \in DOMAIN meant /\ meant'[i] = meant[i]
    BY <1>2, <2>1
  <2> QED BY <2>2, <2>3 DEF OneEnd
<1> QED BY <1>1, <1>2, MeantGrows

\* Between two frames the parser has forgotten the name of the last one.
LEMMA NameResetStep ==
  ASSUME TypeOK, NameReset, [Next]_vars
  PROVE  NameReset'
<1>1. ASSUME NEW f \in Frames, Emit(f) PROVE NameReset'
  <2> DEFINE d == Len(wire) + Place(f)
  <2>1. d \in Nat
    BY DEF TypeOK, Place
  <2> HIDE DEF d
  <2>2. Len(wire') = d + 1 /\ NameAt(name', wire', d + 2) = "message"
    BY <1>1, <2>1, Emitted, EmittedNames DEF d
  <2> QED BY <2>1, <2>2 DEF NameReset
<1>2. CASE Break
  BY <1>2 DEF Break, NameReset
<1>3. CASE Skip \/ Forward
  <2>1. /\ Len(wire') + 1 = Len(wire) /\ Len(wire) \in Nat /\ agent' = agent
        /\ \A k \in 1..(Len(wire') + 1) : NameAt(name', wire', k) = NameAt(name, wire, k + 1)
    <3>1. agent' = agent /\ wire \in Seq(Lines)
      BY <1>3 DEF Skip, Forward, TypeOK
    <3> HIDE DEF TypeOK
    <3>2. /\ Len(wire') = Len(wire) - 1
          /\ \A k \in 1..(Len(wire') + 1) : NameAt(name', wire', k) = NameAt(name, wire, k + 1)
      BY <1>3, LineRead
    <3> QED BY <3>1, <3>2
  <2>2. Len(wire') + 1 \in 1..(Len(wire') + 1)
    BY <2>1
  <2> QED BY <2>1, <2>2 DEF NameReset
<1>4. CASE Hangup \/ UNCHANGED <<upstream, name>>
  <2>1. wire' = wire /\ name' = name /\ (agent' # "broken" => agent # "broken")
    BY <1>4 DEF Hangup, upstream, backend
  <2>2. NameAt(name', wire', Len(wire') + 1) = NameAt(name, wire, Len(wire) + 1)
    BY <2>1 DEF NameAt
  <2> QED BY <2>1, <2>2 DEF NameReset
<1>5. CASE \/ Connect \/ Save \/ Exhausted \/ Timeout \/ Partial \/ Receive \/ EndOfBody
           \/ (\E how \in {"aborted", "failed"} : Leave(how)) \/ UNCHANGED vars
  BY <1>4, <1>5 DEF Connect, Save, Exhausted, Timeout, Partial, Receive, EndOfBody, Leave,
                    vars, upstream, backend
<1> QED BY <1>1, <1>2, <1>3, <1>4, <1>5 DEF Next

\* Nothing is read before the Agent was called.
LEMMA UnconnectedStep ==
  ASSUME TypeOK, Unconnected, [Next]_vars
  PROVE  Unconnected'
<1>1. ASSUME NEW f \in Frames, Emit(f) PROVE Unconnected'
  BY <1>1 DEF Emit, backend, Unconnected
<1>2. CASE Break
  <2>1. PICK k \in 0..Len(wire) : wire' = SubSeq(wire, 1, k)
    BY <1>2 DEF Break
  <2>2. wire = <<>> => wire' = <<>>
    BY <2>1
  <2> QED BY <1>2, <2>2 DEF Break, backend, client, Unconnected
<1>3. CASE Connect \/ Forward \/ Save \/ Exhausted
  <2>1. relay' # "connect"
    BY <1>3, Writings
  <2> QED BY <2>1 DEF Unconnected
<1>4. CASE Hangup \/ Skip \/ Timeout
  BY <1>4 DEF Hangup, Skip, Timeout, backend, client, Unconnected
<1>5. ASSUME Receive PROVE Unconnected'
  BY <1>5 DEF Receive, backend, Unconnected
<1>6. CASE Partial \/ EndOfBody \/ (\E how \in {"aborted", "failed"} : Leave(how))
           \/ UNCHANGED vars
  BY <1>6 DEF Partial, EndOfBody, Leave, upstream, backend, client, vars, Unconnected
<1> QED BY <1>1, <1>2, <1>3, <1>4, <1>5, <1>6 DEF Next

-----------------------------------------------------------------------------
(* The tally *)

\* A line is read: the tally starts from what it adds.
LEMMA TallyRead ==
  ASSUME TypeOK, NEW m \in [0..Len(wire) -> Nat], Tallied(m), Skip \/ Forward,
         Len(shown') + Len(out') = m[1]
  PROVE  \E t \in [0..Len(wire') -> Nat] : Tallied(t)'
<1>1. /\ meant' = meant /\ agent' = agent /\ Len(wire') + 1 = Len(wire)
      /\ Len(wire) \in Nat /\ Len(wire') \in Nat /\ RunEnded' = RunEnded
  <2>1. meant' = meant /\ agent' = agent /\ wire \in Seq(Lines)
    BY DEF Skip, Forward, TypeOK
  <2>2. Len(wire') = Len(wire) - 1 /\ Len(wire) > 0
    BY LineRead
  <2> QED BY <2>1, <2>2 DEF RunEnded
<1>2. \A k \in 1..Len(wire') :
         /\ EventAt(name', wire', k) = EventAt(name, wire, k + 1)
         /\ MeantAt(name', wire', k) = MeantAt(name, wire, k + 1)
  BY LineRead
<1> DEFINE t == [k \in 0..Len(wire') |-> m[k + 1]]
<1>3. t \in [0..Len(wire') -> Nat] /\ \A k \in 0..Len(wire') : t[k] = m[k + 1]
  BY <1>1
<1> HIDE DEF t
<1>4. /\ \A k \in 1..Len(wire) :
           /\ m[k] = m[k - 1] + (IF EventAt(name, wire, k) THEN 1 ELSE 0)
           /\ EventAt(name, wire, k) /\ m[k] <= Len(meant) => meant[m[k]] = MeantAt(name, wire, k)
      /\ \A k \in 0..Len(wire) : m[k] > Len(meant) => RunEnded
      /\ agent # "broken" => m[Len(wire)] >= Len(meant)
  BY DEF Tallied
<1>5. t[0] = Len(shown') + Len(out')
  BY <1>1, <1>3
<1>6. ASSUME NEW k \in 1..Len(wire')
      PROVE  /\ t[k] = t[k - 1] + (IF EventAt(name', wire', k) THEN 1 ELSE 0)
             /\ EventAt(name', wire', k) /\ t[k] <= Len(meant')
                  => meant'[t[k]] = MeantAt(name', wire', k)
  <2>1. k + 1 \in 1..Len(wire) /\ (k + 1) - 1 = k /\ k \in 0..Len(wire') /\ k - 1 \in 0..Len(wire')
        /\ (k - 1) + 1 = k
    BY <1>1
  <2>2. t[k] = m[k + 1] /\ t[k - 1] = m[k]
    BY <1>3, <2>1
  <2>3. /\ m[k + 1] = m[k] + (IF EventAt(name, wire, k + 1) THEN 1 ELSE 0)
        /\ EventAt(name, wire, k + 1) /\ m[k + 1] <= Len(meant)
             => meant[m[k + 1]] = MeantAt(name, wire, k + 1)
    BY <1>4, <2>1
  <2> QED BY <1>1, <1>2, <2>2, <2>3
<1>7. \A k \in 0..Len(wire') : t[k] > Len(meant') => RunEnded'
  BY <1>1, <1>3, <1>4
<1>8. agent' # "broken" => t[Len(wire')] >= Len(meant')
  BY <1>1, <1>3, <1>4
<1> QED BY <1>3, <1>5, <1>6, <1>7, <1>8 DEF Tallied

\* A frame is sent: its event, if the run goes on, is the next the Agent means.
LEMMA TallySent ==
  ASSUME TypeOK, NameReset, NEW m \in [0..Len(wire) -> Nat], Tallied(m),
         NEW f \in Frames, Emit(f)
  PROVE  \E t \in [0..Len(wire') -> Nat] : Tallied(t)'
<1> DEFINE L == Len(wire)
           d == L + Place(f)
           gives == Meaning(f.name, f.body) # "none"
<1>1. L \in Nat /\ d \in (L + 1)..(L + 2) /\ d \in Nat
  BY DEF TypeOK, Place
<1>2. agent = "open" /\ agent' = agent /\ shown' = shown /\ out' = out
  BY DEF Emit, client
<1>3. meant \in Seq(Events) /\ Len(meant) \in Nat
  BY DEF TypeOK
<1>4. meant' = IF RunEnded \/ ~gives THEN meant ELSE Append(meant, Meant(f, sent + 1))
  BY DEF Emit
<1>5. d = L + Place(f)
  OBVIOUS
<1> HIDE DEF d
<1>6. Len(wire') = d + 1
  BY <1>1, <1>5, Emitted
<1>7. /\ \A k \in 1..L : EventAt(name', wire', k) = EventAt(name, wire, k)
                         /\ MeantAt(name', wire', k) = MeantAt(name, wire, k)
      /\ \A k \in (L + 1)..(d + 1) : k # d => ~EventAt(name', wire', k)
      /\ EventAt(name', wire', d) <=> gives
      /\ MeantAt(name', wire', d) = Meant(f, sent + 1)
  BY <1>1, <1>5, EmittedNames
<1>8. /\ m[0] = Len(shown) + Len(out)
      /\ \A k \in 1..L :
           /\ m[k] = m[k - 1] + (IF EventAt(name, wire, k) THEN 1 ELSE 0)
           /\ EventAt(name, wire, k) /\ m[k] <= Len(meant) => meant[m[k]] = MeantAt(name, wire, k)
      /\ \A k \in 0..L : m[k] > Len(meant) => RunEnded
      /\ m[L] >= Len(meant) /\ \A k \in 0..L : m[k] \in Nat
  BY <1>2 DEF Tallied
<1> DEFINE g == IF gives THEN 1 ELSE 0
           t == [k \in 0..Len(wire') |-> IF k <= L THEN m[k] ELSE IF k < d THEN m[L] ELSE m[L] + g]
<1>9. g \in 0..1 /\ (g = 1 <=> gives)
  OBVIOUS
<1>10. /\ t \in [0..Len(wire') -> Nat]
       /\ \A k \in 0..L : t[k] = m[k]
       /\ \A k \in (L + 1)..(d - 1) : t[k] = m[L]
       /\ t[d] = m[L] + g /\ t[d + 1] = m[L] + g
  <2> HIDE DEF g, gives
  <2> QED BY <1>1, <1>6, <1>8, <1>9
<1> HIDE DEF g, t, L, gives
\* The events counted so far are where they were.
<1>11. /\ Len(meant') >= Len(meant) /\ Len(meant') \in Nat
       /\ \A i \in 1..Len(meant) : meant'[i] = meant[i]
       /\ RunEnded => meant' = meant /\ RunEnded'
  BY <1>3, <1>4 DEF RunEnded
<1>12. \A k \in 0..L : m[k] > Len(meant') => RunEnded'
  BY <1>3, <1>8, <1>11
<1>13. m[L] + g > Len(meant') => RunEnded'
  <2>1. CASE RunEnded
    BY <1>11, <2>1
  <2>2. CASE ~RunEnded
    <3>1. m[L] = Len(meant)
      BY <1>1, <1>3, <1>8, <2>2
    <3>2. Len(meant') = Len(meant) + g
      BY <1>3, <1>4, <1>9, <2>2
    <3> QED BY <1>9, <1>11, <3>1, <3>2
  <2> QED BY <2>1, <2>2
<1>14. m[L] + g >= Len(meant')
  <2>1. Len(meant') <= Len(meant) + g
    BY <1>3, <1>4, <1>9
  <2> QED BY <1>1, <1>3, <1>8, <1>9, <1>11, <2>1
<1>15. gives /\ m[L] + g <= Len(meant') => meant'[m[L] + g] = Meant(f, sent + 1)
  <2> SUFFICES ASSUME gives, m[L] + g <= Len(meant')
               PROVE  meant'[m[L] + g] = Meant(f, sent + 1)
    OBVIOUS
  <2>1. ~RunEnded
    BY <1>1, <1>3, <1>4, <1>8, <1>9
  <2>2. m[L] = Len(meant) /\ g = 1
    BY <1>1, <1>3, <1>8, <1>9, <2>1
  <2>3. meant' = Append(meant, Meant(f, sent + 1))
    BY <1>4, <2>1
  <2> QED BY <1>3, <2>2, <2>3
<1>16. ASSUME NEW k \in 1..Len(wire')
       PROVE  /\ t[k] = t[k - 1] + (IF EventAt(name', wire', k) THEN 1 ELSE 0)
              /\ EventAt(name', wire', k) /\ t[k] <= Len(meant')
                   => meant'[t[k]] = MeantAt(name', wire', k)
  <2>1. CASE k \in 1..L
    <3>1. k - 1 \in 0..L /\ t[k] = m[k] /\ t[k - 1] = m[k - 1] /\ m[k] \in Nat /\ m[k - 1] \in Nat
      BY <1>1, <1>8, <1>10, <2>1
    <3>2. ASSUME EventAt(name, wire, k), m[k] <= Len(meant')
          PROVE  meant'[m[k]] = MeantAt(name, wire, k)
      <4>1. m[k] <= Len(meant)
        BY <1>3, <1>8, <1>11, <2>1, <3>1, <3>2
      <4>2. m[k] \in 1..Len(meant)
        BY <1>3, <1>8, <2>1, <3>1, <3>2, <4>1
      <4> QED BY <1>8, <1>11, <2>1, <3>2, <4>2
    <3> QED BY <1>7, <1>8, <2>1, <3>1, <3>2
  <2>2. CASE k \in (L + 1)..(d - 1)
    <3>1. t[k] = m[L] /\ t[k - 1] = m[L] /\ ~EventAt(name', wire', k) /\ m[L] \in Nat
      BY <1>1, <1>7, <1>8, <1>10, <2>2
    <3> QED BY <3>1
  <2>3. CASE k = d
    <3>1. t[d] = m[L] + g /\ t[d - 1] = m[L] /\ m[L] \in Nat
      <4>1. t[d] = m[L] + g /\ L \in 0..L /\ m[L] \in Nat
        BY <1>1, <1>8, <1>10
      <4>2. CASE d - 1 = L
        BY <1>10, <4>1, <4>2
      <4>3. CASE d - 1 \in (L + 1)..(d - 1)
        BY <1>10, <4>1, <4>3
      <4> QED BY <1>1, <4>1, <4>2, <4>3
    <3> QED BY <1>7, <1>9, <1>15, <2>3, <3>1
  <2>4. CASE k = d + 1
    <3>1. t[d + 1] = m[L] + g /\ t[d] = m[L] + g /\ m[L] + g \in Nat /\ ~EventAt(name', wire', d + 1)
      BY <1>1, <1>7, <1>8, <1>9, <1>10
    <3> QED BY <1>1, <2>4, <3>1
  <2> QED BY <1>1, <1>6, <2>1, <2>2, <2>3, <2>4
<1>17. \A k \in 0..Len(wire') : t[k] > Len(meant') => RunEnded'
  <2> SUFFICES ASSUME NEW k \in 0..Len(wire'), t[k] > Len(meant') PROVE RunEnded'
    OBVIOUS
  <2>1. CASE k \in 0..L
    BY <1>10, <1>12, <2>1
  <2>2. CASE k \in (L + 1)..(d - 1)
    <3>1. L \in 0..L /\ t[k] = m[L]
      BY <1>1, <1>10, <2>2
    <3> QED BY <1>12, <3>1
  <2>3. CASE k \in {d, d + 1}
    BY <1>10, <1>13, <2>3
  <2> QED BY <1>1, <1>6, <2>1, <2>2, <2>3
<1>18. t[Len(wire')] >= Len(meant')
  BY <1>6, <1>10, <1>14
<1>19. t[0] = Len(shown') + Len(out')
  BY <1>1, <1>2, <1>8, <1>10
<1> QED BY <1>10, <1>16, <1>17, <1>18, <1>19 DEF Tallied

\* The connection breaks: the lines that still arrive are counted as before.
LEMMA TallyBroken ==
  ASSUME TypeOK, NEW m \in [0..Len(wire) -> Nat], Tallied(m), Break
  PROVE  \E t \in [0..Len(wire') -> Nat] : Tallied(t)'
<1>1. PICK n \in 0..Len(wire) : wire' = SubSeq(wire, 1, n)
  BY DEF Break
<1>2. /\ Len(wire') = n /\ Len(wire) \in Nat /\ n \in 0..Len(wire)
      /\ \A k \in 1..n : wire'[k] = wire[k]
  BY <1>1 DEF TypeOK
<1>3. /\ name' = name /\ meant' = meant /\ shown' = shown /\ out' = out /\ agent' = "broken"
      /\ RunEnded' = RunEnded
  BY DEF Break, backend, client, RunEnded
<1>4. \A k \in 1..n : NameAt(name', wire', k) = NameAt(name, wire, k)
  <2> SUFFICES ASSUME NEW k \in 1..n PROVE NameAt(name', wire', k) = NameAt(name, wire, k)
    OBVIOUS
  <2>1. k # 1 => k - 1 \in 1..n
    BY <1>2
  <2> QED BY <1>2, <1>3, <2>1 DEF NameAt
<1>5. \A k \in 1..n : /\ EventAt(name', wire', k) = EventAt(name, wire, k)
                      /\ MeantAt(name', wire', k) = MeantAt(name, wire, k)
  BY <1>2, <1>4 DEF EventAt, MeantAt
<1> DEFINE t == [k \in 0..Len(wire') |-> m[k]]
<1>6. t \in [0..Len(wire') -> Nat] /\ \A k \in 0..n : t[k] = m[k]
  BY <1>2
<1> HIDE DEF t
<1>7. /\ m[0] = Len(shown) + Len(out)
      /\ \A k \in 1..Len(wire) :
           /\ m[k] = m[k - 1] + (IF EventAt(name, wire, k) THEN 1 ELSE 0)
           /\ EventAt(name, wire, k) /\ m[k] <= Len(meant) => meant[m[k]] = MeantAt(name, wire, k)
      /\ \A k \in 0..Len(wire) : m[k] > Len(meant) => RunEnded
  BY DEF Tallied
<1>8. ASSUME NEW k \in 1..n
      PROVE  /\ t[k] = t[k - 1] + (IF EventAt(name', wire', k) THEN 1 ELSE 0)
             /\ EventAt(name', wire', k) /\ t[k] <= Len(meant')
                  => meant'[t[k]] = MeantAt(name', wire', k)
  <2>1. k \in 1..Len(wire) /\ k \in 0..n /\ k - 1 \in 0..n
    BY <1>2
  <2> QED BY <1>3, <1>5, <1>6, <1>7, <2>1
<1>9. \A k \in 0..n : t[k] > Len(meant') => RunEnded'
  BY <1>2, <1>3, <1>6, <1>7
<1>10. t[0] = Len(shown') + Len(out')
  BY <1>2, <1>3, <1>6, <1>7
<1> QED BY <1>2, <1>3, <1>6, <1>8, <1>9, <1>10 DEF Tallied

\* Nothing happens to the lines, and the page has or is about to get as much.
LEMMA TallyStays ==
  ASSUME NEW m \in [0..Len(wire) -> Nat], Tallied(m),
         UNCHANGED <<wire, meant, name>>, agent' # "broken" => agent # "broken",
         Len(shown') + Len(out') = Len(shown) + Len(out)
  PROVE  \E t \in [0..Len(wire') -> Nat] : Tallied(t)'
<1>1. RunEnded' = RunEnded
  BY DEF RunEnded
<1>2. m \in [0..Len(wire') -> Nat] /\ Tallied(m)'
  BY <1>1 DEF Tallied
<1> QED BY <1>2

\* What the page has, or is about to get, does not end the run.
LEMMA NotEndedYet ==
  ASSUME TypeOK, InOrder, Underway, Delivered = Len(meant)
  PROVE  ~RunEnded
<1>1. shown \in Seq(Events) /\ meant \in Seq(Events) /\ out \in Seq(Events \cup {Marker})
  BY DEF TypeOK
<1>2. /\ \A i \in DOMAIN shown : shown[i] = meant[i] /\ ~IsTerminal(shown[i].type)
      /\ \A i \in DOMAIN out : out[i] = meant[Len(shown) + i] /\ ~IsTerminal(out[i].type)
  BY DEF InOrder
<1> SUFFICES ASSUME meant # <<>> PROVE ~IsTerminal(meant[Len(meant)].type)
  BY DEF RunEnded, Last
<1>3. CASE Len(out) > 0
  <2>1. Len(out) \in DOMAIN out /\ Len(shown) + Len(out) = Len(meant)
    BY <1>1, <1>3 DEF Delivered
  <2> QED BY <1>2, <2>1
<1>4. CASE Len(out) = 0
  <2>1. Len(shown) \in DOMAIN shown /\ Len(shown) = Len(meant)
    BY <1>1, <1>4 DEF Delivered
  <2> QED BY <1>2, <2>1
<1> QED BY <1>1, <1>3, <1>4

\* The event the service reads from the wire is the next the Agent meant.
LEMMA NextDue ==
  ASSUME RelayInv, Forward, page = "reading", NEW type, NEW n,
         type = Meaning(name, Head(wire).body), n = Head(wire).n
  PROVE  /\ Delivered < Len(meant)
         /\ meant[Delivered + 1] = IF type = "hollow" THEN Err ELSE [type |-> type, n |-> n]
         /\ \E m \in [0..Len(wire) -> Nat] : Tallied(m) /\ m[1] = Delivered + 1
<1>1. TypeOK /\ InOrder /\ Reading
  BY DEF RelayInv
<1>2. relay = "read" /\ Underway
  BY DEF Forward, Underway
<1>3. PICK m \in [0..Len(wire) -> Nat] : Tallied(m)
  BY <1>1, <1>2 DEF Reading
<1>4. Len(wire) > 0 /\ Head(wire) = wire[1] /\ Len(wire) \in Nat
  BY <1>1, LineRead DEF TypeOK
<1>5. EventAt(name, wire, 1)
  BY <1>1, <1>4, Forwards DEF EventAt, NameAt, Forward, Silent
<1>6. 1 \in 1..Len(wire) /\ 1 - 1 = 0 /\ 1 \in 0..Len(wire)
  BY <1>4
<1>7. /\ m[0] = Delivered /\ m[1] = m[0] + 1 /\ (m[1] > Len(meant) => RunEnded)
      /\ m[1] <= Len(meant) => meant[m[1]] = MeantAt(name, wire, 1)
  BY <1>3, <1>5, <1>6 DEF Tallied, Delivered
<1>8. Delivered \in Nat /\ Len(meant) \in Nat /\ Delivered <= Len(meant)
  BY <1>1, <1>2 DEF TypeOK, InOrder, Delivered
<1>9. Delivered < Len(meant)
  BY <1>1, <1>2, <1>7, <1>8, NotEndedYet
<1>10. MeantAt(name, wire, 1) = IF type = "hollow" THEN Err ELSE [type |-> type, n |-> n]
  BY <1>4 DEF MeantAt, Meant, NameAt, Err
<1> QED BY <1>3, <1>7, <1>8, <1>9, <1>10

-----------------------------------------------------------------------------
(* What the backend writes and the page handles *)

\* The comment line that opens the stream is no event.
LEMMA MarkerIsNoEvent == Marker \notin Events
BY DEF Marker, Events, Types

\* The page handles the first of what is under way.
LEMMA ReceivedFirst ==
  ASSUME TypeOK, Receive
  PROVE  /\ Len(out) > 0 /\ out[1] \in Chunks /\ Len(out') = Len(out) - 1
         /\ \A i \in 1..Len(out') : out'[i] = out[i + 1]
         /\ shown' = (IF out[1] = Marker THEN shown ELSE Append(shown, out[1]))
         /\ page' = After(out[1].type)
         /\ UNCHANGED <<upstream, backend, fault>>
<1>1. out \in Seq(Chunks) /\ out # <<>> /\ out' = Tail(out)
  BY DEF TypeOK, Receive, Chunks
<1>2. Head(out) = out[1] /\ Len(out) > 0
  BY <1>1
<1>3. Len(out') = Len(out) - 1 /\ \A i \in 1..Len(out') : out'[i] = out[i + 1]
  BY <1>1
<1> QED BY <1>2, <1>3, Received DEF Receive

\* While the service works on the run, that is an event.
LEMMA ReceivedEvent ==
  ASSUME TypeOK, InOrder, Receive, Underway
  PROVE  /\ out[1] \in Events /\ shown' = Append(shown, out[1])
         /\ Len(shown') = Len(shown) + 1
         /\ Len(shown') + Len(out') = Len(shown) + Len(out)
<1>1. Len(out) > 0 /\ out \in Seq(Events \cup {Marker}) /\ shown \in Seq(Events)
  BY ReceivedFirst DEF TypeOK
<1>2. 1 \in DOMAIN out /\ Len(shown) + 1 \in DOMAIN meant
  BY <1>1 DEF InOrder, TypeOK, Delivered
<1>3. out[1] = meant[Len(shown) + 1] /\ meant \in Seq(Events)
  BY <1>2 DEF InOrder, TypeOK
<1>4. out[1] \in Events
  BY <1>2, <1>3
<1>5. shown' = Append(shown, out[1]) /\ Len(out') = Len(out) - 1
  BY <1>4, ReceivedFirst, MarkerIsNoEvent
<1> QED BY <1>1, <1>4, <1>5

\* What a step of the backend writes while the page reads: nothing, the next
\* event the Agent meant, or an error at the end.
Written ==
  \/ out' = out
  \/ \E e \in Events :
       /\ e = Err \/ (Delivered < Len(meant) /\ e = meant[Delivered + 1])
       /\ \/ out' = out \o <<e>> /\ relay' = (IF IsTerminal(e.type) THEN "ended" ELSE "read")
          \/ out' = out \o <<e, Marker>> /\ relay' = "ended"

\* What a step of the relay writes is the next event, an error in its place, or nothing the page could take for one.
LEMMA Writes ==
  ASSUME RelayInv, page = "reading", Connect \/ Forward \/ Save \/ Exhausted
  PROVE  Written /\ UNCHANGED <<meant, shown, page>>
<1>1. TypeOK /\ ~Gone
  BY DEF RelayInv, Gone
<1>2. UNCHANGED <<meant, shown, page>>
  BY DEF Connect, Forward, Save, Exhausted, upstream, client
<1> SUFFICES Written
  BY <1>2
<1>3. Err \in Events /\ IsTerminal(Err.type)
  BY EventType DEF Err, IsTerminal
<1>4. ASSUME Write(<<Err>>, "ended") PROVE Written
  BY <1>1, <1>3, <1>4 DEF Write, Written
<1>5. CASE Connect
  BY <1>4, <1>5 DEF Connect, Written
<1>6. CASE Forward
  <2> DEFINE type == Meaning(name, Head(wire).body)
             n == Head(wire).n
  <2>1. type \in Types \cup {"hollow"} /\ ForwardCases(n, type) /\ n \in 0..MaxFrames
    BY <1>1, <1>6, Forwards, BoundAssumption
  <2>2. /\ Delivered < Len(meant)
        /\ meant[Delivered + 1] = IF type = "hollow" THEN Err ELSE [type |-> type, n |-> n]
    BY <1>6, NextDue
  <2> HIDE DEF type, n
  <2>3. ASSUME NEW next, Write(<<[type |-> type, n |-> n]>>, next), type \in Types,
               next = IF IsTerminal(type) THEN "ended" ELSE "read"
        PROVE  Written
    <3> DEFINE e == [type |-> type, n |-> n]
    <3>1. e \in Events /\ e.type = type /\ e = meant[Delivered + 1]
      BY <2>1, <2>2, <2>3, EventType DEF Types
    <3>2. out' = out \o <<e>> /\ relay' = next
      BY <1>1, <2>3 DEF Write
    <3> HIDE DEF e
    <3> QED BY <2>2, <2>3, <3>1, <3>2 DEF Written
  <2> QED BY <1>4, <2>1, <2>3 DEF ForwardCases, Written, Types, IsTerminal
<1>7. CASE Save
  <2> DEFINE e == [type |-> "done", n |-> answer]
  <2>1. Delivered < Len(meant) /\ e = meant[Delivered + 1]
    BY <1>7 DEF RelayInv, Saving, Save
  <2>2. e \in Events
    BY <1>1, EventType DEF TypeOK, Types
  <2>3. out' = out \/ (out' = out \o <<e, Marker>> /\ relay' = "ended")
    BY <1>1, <1>7 DEF Save, Write
  <2> HIDE DEF e
  <2> QED BY <2>1, <2>2, <2>3 DEF Written
<1>8. CASE Exhausted
  BY <1>4, <1>8 DEF Exhausted, Written
<1> QED BY <1>5, <1>6, <1>7, <1>8

\* What is still on the wire is the part of the meaning that was not forwarded yet.
LEMMA ReadingStep ==
  ASSUME RelayInv, [Next]_vars
  PROVE  Reading'
<1> SUFFICES ASSUME relay' = "read", page' = "reading"
             PROVE  \E t \in [0..Len(wire') -> Nat] : Tallied(t)'
  BY DEF Reading
<1>1. TypeOK /\ NameReset /\ InOrder /\ Reading /\ Unconnected
  BY DEF RelayInv
<1>2. ASSUME NEW f \in Frames, Emit(f) PROVE \E t \in [0..Len(wire') -> Nat] : Tallied(t)'
  <2>1. relay = "read" /\ page = "reading"
    BY <1>2 DEF Emit, backend, client
  <2> QED BY <1>1, <1>2, <2>1, TallySent DEF Reading
<1>3. CASE Break
  <2>1. relay = "read" /\ page = "reading"
    BY <1>3 DEF Break, backend, client
  <2> QED BY <1>1, <1>3, <2>1, TallyBroken DEF Reading
<1>4. ASSUME UNCHANGED <<wire, meant, name, relay>>, page = "reading",
             agent' # "broken" => agent # "broken",
             Len(shown') + Len(out') = Len(shown) + Len(out)
      PROVE  \E t \in [0..Len(wire') -> Nat] : Tallied(t)'
  BY <1>1, <1>4, TallyStays DEF Reading
<1>5. CASE Hangup \/ Partial \/ UNCHANGED vars
  BY <1>4, <1>5 DEF Hangup, Partial, vars, upstream, backend, client
<1>6. CASE Receive
  <2>1. relay = "read" /\ page = "reading" /\ UNCHANGED <<upstream, backend>>
    BY <1>6 DEF Receive, backend
  <2>2. Len(shown') + Len(out') = Len(shown) + Len(out)
    BY <1>1, <1>6, <2>1, ReceivedEvent DEF Underway
  <2> QED BY <1>4, <2>1, <2>2 DEF upstream, backend
<1>7. CASE Connect
  <2>1. /\ wire' = <<>> /\ meant' = <<>> /\ out' = <<>> /\ shown' = <<>>
    BY <1>1, <1>7 DEF Connect, Unconnected, Write, upstream, client
  <2> DEFINE t == [k \in 0..0 |-> 0]
  <2>2. t \in [0..Len(wire') -> Nat] /\ t[0] = 0 /\ Len(wire') = 0
    BY <2>1
  <2> HIDE DEF t
  <2>3. Tallied(t)'
    BY <2>1, <2>2 DEF Tallied
  <2> QED BY <2>2, <2>3
<1>8. CASE Skip
  <2>1. relay = "read" /\ page = "reading" /\ shown' = shown /\ out' = out
    BY <1>8 DEF Skip, client
  <2>2. PICK m \in [0..Len(wire) -> Nat] : Tallied(m)
    BY <1>1, <2>1 DEF Reading
  <2>3. ~EventAt(name, wire, 1) /\ 1 \in 1..Len(wire)
    <3>1. Len(wire) > 0 /\ Head(wire) = wire[1] /\ Len(wire) \in Nat
      BY <1>1, <1>8, LineRead DEF TypeOK
    <3> QED BY <1>8, <3>1 DEF EventAt, NameAt, Skip, Silent
  <2>4. m[1] = m[0] /\ m[0] = Len(shown) + Len(out)
    <3>1. m[1] = m[1 - 1] + 0 /\ m[0] \in Nat
      BY <2>2, <2>3 DEF Tallied
    <3> QED BY <2>2, <3>1 DEF Tallied
  <2> QED BY <1>1, <1>8, <2>1, <2>2, <2>4, TallyRead
<1>9. CASE Forward
  <2>1. page = "reading" /\ shown' = shown
    BY <1>9 DEF Forward, client
  <2>2. PICK m \in [0..Len(wire) -> Nat] : Tallied(m) /\ m[1] = Delivered + 1
    BY <1>9, <2>1, NextDue
  <2>3. Len(out') = Len(out) + 1
    <3> DEFINE type == Meaning(name, Head(wire).body)
               n == Head(wire).n
    <3>1. ForwardCases(n, type) /\ ~Gone
      BY <1>1, <1>9, <2>1, Forwards DEF Gone
    <3> HIDE DEF type, n
    <3>2. out' = out \o <<[type |-> type, n |-> n]>>
      BY <3>1 DEF ForwardCases, Write
    <3> QED BY <1>1, <3>2 DEF TypeOK
  <2>4. Len(shown') + Len(out') = m[1]
    BY <1>1, <2>1, <2>2, <2>3 DEF Delivered, TypeOK
  <2> QED BY <1>1, <1>9, <2>2, <2>4, TallyRead
<1>10. CASE Save \/ Exhausted \/ Timeout
  BY <1>10 DEF Save, Exhausted, Timeout, Write
<1>11. CASE EndOfBody \/ \E how \in {"aborted", "failed"} : Leave(how)
  BY <1>11 DEF EndOfBody, Leave
<1> QED BY <1>2, <1>3, <1>5, <1>6, <1>7, <1>8, <1>9, <1>10, <1>11 DEF Next

\* The steps that leave alone what the page has and what is under way to it.
LEMMA Apart ==
  ASSUME \/ (\E f \in Frames : Emit(f)) \/ Hangup \/ Break \/ Skip \/ Timeout \/ Partial
         \/ UNCHANGED vars
  PROVE  UNCHANGED <<shown, out, page, answer>> /\ (relay' = relay \/ relay' = "ended")
BY DEF Emit, Hangup, Break, Skip, Timeout, Partial, vars, backend, client

\* What is shown and under way is a beginning of the meaning, whoever writes or reads next.
LEMMA InOrderStep ==
  ASSUME RelayInv, [Next]_vars
  PROVE  InOrder'
<1> SUFFICES ASSUME Underway' PROVE InOrder'
  BY DEF InOrder
<1>1. TypeOK /\ InOrder
  BY DEF RelayInv
<1>2. /\ shown \in Seq(Events) /\ out \in Seq(Chunks) /\ meant \in Seq(Events)
      /\ Len(meant) <= Len(meant') /\ meant' \in Seq(Events)
      /\ \A i \in DOMAIN meant : i \in DOMAIN meant' /\ meant'[i] = meant[i]
  BY <1>1, MeantGrows DEF TypeOK, Chunks
<1>3. ASSUME Underway, shown' = shown, out' = out PROVE InOrder'
  <2>1. \A i \in DOMAIN shown : i \in DOMAIN meant
    BY <1>1, <1>2, <1>3 DEF InOrder, Delivered
  <2>2. \A i \in DOMAIN out : Len(shown) + i \in DOMAIN meant
    BY <1>1, <1>2, <1>3 DEF InOrder, Delivered
  <2>3. Delivered' <= Len(meant')
    BY <1>1, <1>2, <1>3 DEF InOrder, Delivered
  <2> QED BY <1>1, <1>2, <1>3, <2>1, <2>2, <2>3 DEF InOrder
<1>4. ASSUME \/ (\E f \in Frames : Emit(f)) \/ Hangup \/ Break \/ Skip \/ Timeout \/ Partial
             \/ UNCHANGED vars
      PROVE  InOrder'
  BY <1>3, <1>4, Apart DEF Underway
<1>5. ASSUME Connect \/ Forward \/ Save \/ Exhausted PROVE InOrder'
  <2>1. Underway
    BY <1>5 DEF Underway, Connect, Forward, Save, Exhausted, client
  <2>2. Written /\ UNCHANGED <<meant, shown, page>>
    BY <1>5, <2>1, Writes DEF Underway
  <2>3. ASSUME NEW e \in Events, e = Err \/ (Delivered < Len(meant) /\ e = meant[Delivered + 1]),
               out' = out \o <<e>>, relay' = (IF IsTerminal(e.type) THEN "ended" ELSE "read")
        PROVE  InOrder'
    <3>1. ~IsTerminal(e.type)
      BY <2>3 DEF Underway
    <3>2. Delivered < Len(meant) /\ e = meant[Delivered + 1]
      BY <2>3, <3>1 DEF Err, IsTerminal
    <3>3. e \in Chunks
      BY DEF Chunks
    <3>4. Len(out') = Len(out) + 1 /\ out'[Len(out) + 1] = e /\ \A i \in 1..Len(out) : out'[i] = out[i]
      BY <1>2, <2>3, <3>3
    <3>5. Delivered' <= Len(meant')
      BY <1>2, <2>2, <3>2, <3>4 DEF Delivered
    <3>6. ASSUME NEW i \in DOMAIN out'
          PROVE  out'[i] = meant[Len(shown) + i] /\ ~IsTerminal(out'[i].type)
      <4>1. CASE i \in 1..Len(out)
        BY <1>1, <1>2, <2>1, <3>4, <4>1 DEF InOrder
      <4>2. CASE i = Len(out) + 1
        <5>1. Len(shown) + i = Delivered + 1
          BY <1>2, <4>2 DEF Delivered
        <5> QED BY <3>1, <3>2, <3>4, <4>2, <5>1
      <4>3. out' \in Seq(Chunks)
        BY <1>2, <2>3, <3>3
      <4>4. i \in 1..(Len(out) + 1)
        BY <3>4, <4>3
      <4> QED BY <1>2, <4>1, <4>2, <4>4
    <3>7. \A i \in DOMAIN shown : shown[i] = meant[i] /\ ~IsTerminal(shown[i].type)
      BY <1>1, <2>1 DEF InOrder
    <3> QED BY <2>2, <3>5, <3>6, <3>7 DEF InOrder
  <2>4. CASE out' = out
    BY <1>3, <2>1, <2>2, <2>4
  <2> QED BY <2>2, <2>3, <2>4 DEF Written, Underway
<1>6. ASSUME Receive PROVE InOrder'
  <2>1. UNCHANGED <<upstream, backend>> /\ page = "reading"
    BY <1>6 DEF Receive
  <2>2. Underway /\ meant' = meant
    BY <2>1 DEF Underway, upstream, backend
  <2>3. /\ out[1] \in Events /\ shown' = Append(shown, out[1]) /\ Len(shown') = Len(shown) + 1
        /\ Len(out) > 0 /\ Len(out') = Len(out) - 1
        /\ \A i \in 1..Len(out') : out'[i] = out[i + 1]
    BY <1>1, <1>6, <2>2, ReceivedEvent, ReceivedFirst
  <2>4. /\ Delivered <= Len(meant)
        /\ \A i \in DOMAIN shown : shown[i] = meant[i] /\ ~IsTerminal(shown[i].type)
        /\ \A i \in DOMAIN out : out[i] = meant[Len(shown) + i] /\ ~IsTerminal(out[i].type)
    BY <1>1, <2>2 DEF InOrder
  <2>5. Delivered' <= Len(meant')
    BY <1>2, <2>2, <2>3, <2>4 DEF Delivered
  <2>6. ASSUME NEW i \in DOMAIN shown'
        PROVE  shown'[i] = meant[i] /\ ~IsTerminal(shown'[i].type)
    <3>1. i \in 1..(Len(shown) + 1)
      BY <1>2, <2>3
    <3>2. CASE i \in 1..Len(shown)
      BY <1>2, <2>3, <2>4, <3>2
    <3>3. CASE i = Len(shown) + 1
      <4>1. shown'[i] = out[1] /\ 1 \in DOMAIN out
        BY <1>2, <2>3, <3>3
      <4> QED BY <2>4, <3>3, <4>1
    <3> QED BY <1>2, <3>1, <3>2, <3>3
  <2>7. ASSUME NEW i \in DOMAIN out'
        PROVE  out'[i] = meant[Len(shown') + i] /\ ~IsTerminal(out'[i].type)
    <3>1. out' \in Seq(Chunks)
      BY <1>1, TypeStep DEF TypeOK, Chunks
    <3>2. i \in 1..Len(out') /\ Len(out) \in Nat /\ Len(shown) \in Nat /\ DOMAIN out = 1..Len(out)
      BY <1>2, <3>1
    <3>3. Len(shown') = Len(shown) + 1 /\ Len(out') = Len(out) - 1
      BY <2>3
    <3>4. i + 1 \in DOMAIN out /\ Len(shown) + (i + 1) = Len(shown') + i
      BY <3>2, <3>3
    <3> QED BY <2>3, <2>4, <3>2, <3>4
  <2> QED BY <2>2, <2>5, <2>6, <2>7 DEF InOrder
<1>7. CASE EndOfBody \/ \E how \in {"aborted", "failed"} : Leave(how)
  BY <1>7 DEF EndOfBody, Leave, Underway
<1> QED BY <1>4, <1>5, <1>6, <1>7 DEF Next

\* While the answer is being stored, the event that follows is its done.
LEMMA SavingStep ==
  ASSUME RelayInv, [Next]_vars
  PROVE  Saving'
<1> SUFFICES ASSUME relay' = "save", page' = "reading"
             PROVE  Delivered' < Len(meant')
                      /\ meant'[Delivered' + 1] = [type |-> "done", n |-> answer']
  BY DEF Saving
<1>1. TypeOK /\ InOrder /\ Saving
  BY DEF RelayInv
<1>2. /\ Len(shown) \in Nat /\ Len(out) \in Nat /\ Delivered \in Nat /\ meant \in Seq(Events)
      /\ Len(meant) <= Len(meant') /\ meant' \in Seq(Events)
      /\ \A i \in DOMAIN meant : i \in DOMAIN meant' /\ meant'[i] = meant[i]
  BY <1>1, MeantGrows DEF TypeOK, Chunks, Delivered
<1>3. ASSUME relay = "save", page = "reading", Delivered' = Delivered, answer' = answer
      PROVE  Delivered' < Len(meant')
               /\ meant'[Delivered' + 1] = [type |-> "done", n |-> answer']
  <2>1. Delivered < Len(meant) /\ meant[Delivered + 1] = [type |-> "done", n |-> answer]
    BY <1>1, <1>3 DEF Saving
  <2>2. Delivered + 1 \in DOMAIN meant
    BY <1>2, <2>1
  <2> QED BY <1>2, <1>3, <2>1, <2>2
<1>4. CASE \/ (\E f \in Frames : Emit(f)) \/ Hangup \/ Break \/ Skip \/ Timeout \/ Partial
           \/ UNCHANGED vars
  BY <1>3, <1>4, Apart DEF Delivered
<1>5. CASE Receive
  <2>1. page = "reading" /\ relay = "save" /\ answer' = answer
    BY <1>5 DEF Receive, backend
  <2>2. Delivered' = Delivered
    BY <1>1, <1>5, <2>1, ReceivedEvent DEF Underway, Delivered
  <2> QED BY <1>3, <2>1, <2>2
<1>6. CASE Forward
  <2> DEFINE type == Meaning(name, Head(wire).body)
             n == Head(wire).n
  <2>1. page = "reading" /\ shown' = shown /\ meant' = meant
    BY <1>6 DEF Forward, client
  <2>2. ForwardCases(n, type) /\ ~Gone
    BY <1>1, <1>6, <2>1, Forwards DEF Gone
  <2>3. /\ Delivered < Len(meant)
        /\ meant[Delivered + 1] = IF type = "hollow" THEN Err ELSE [type |-> type, n |-> n]
    BY <1>6, <2>1, NextDue
  <2> HIDE DEF type, n
  <2>4. type = "done" /\ answer' = n /\ out' = out
    BY <2>2 DEF ForwardCases, Write
  <2> QED BY <2>1, <2>3, <2>4 DEF Delivered
<1>7. CASE Connect \/ Save \/ Exhausted
  BY <1>7 DEF Connect, Save, Exhausted, Write
<1>8. CASE EndOfBody \/ \E how \in {"aborted", "failed"} : Leave(how)
  BY <1>8 DEF EndOfBody, Leave
<1> QED BY <1>4, <1>5, <1>6, <1>7, <1>8 DEF Next

\* What is under way stays the next event each time, or an error, and nothing follows an end.
LEMMA AllowedStep ==
  ASSUME RelayInv, [Next]_vars
  PROVE  Allowed'
<1> SUFFICES ASSUME page' = "reading" PROVE Allowed'
  BY DEF Allowed
<1>1. TypeOK /\ InOrder /\ Allowed
  BY DEF RelayInv
<1>2. /\ shown \in Seq(Events) /\ out \in Seq(Chunks) /\ meant \in Seq(Events)
      /\ shown' \in Seq(Events) /\ out' \in Seq(Chunks)
      /\ Len(meant) <= Len(meant') /\ meant' \in Seq(Events)
      /\ \A i \in DOMAIN meant : i \in DOMAIN meant' /\ meant'[i] = meant[i]
  BY <1>1, MeantGrows, TypeStep DEF TypeOK, Chunks
\* Nothing new is under way.
<1>3. ASSUME page = "reading", shown' = shown, out' = out, Underway' => ~ShownEnded
      PROVE  Allowed'
  <2>1. /\ \A i \in DOMAIN out : Due(i)
        /\ \A i \in DOMAIN out : IsTerminal(out[i].type) \/ out[i] = Marker => LastDue(i)
        /\ ShownEnded => out \in {<<>>, <<Marker>>}
    BY <1>1, <1>3 DEF Allowed
  <2>2. ASSUME NEW i \in DOMAIN out
        PROVE  \/ out[i] \in {Marker, Err}
               \/ Len(shown) + i <= Len(meant') /\ out[i] = meant'[Len(shown) + i]
    <3>1. CASE Len(shown) + i <= Len(meant) /\ out[i] = meant[Len(shown) + i]
      <4>1. Len(shown) + i \in DOMAIN meant
        BY <1>2, <3>1
      <4> QED BY <1>2, <3>1, <4>1
    <3> QED BY <2>1, <3>1 DEF Due
  <2> QED BY <1>3, <2>1, <2>2 DEF Allowed, Due, LastDue, ShownEnded
<1>4. ASSUME page = "reading", ShownEnded PROVE relay \in {"ended", "crashed"}
  BY <1>1, <1>4 DEF Allowed, Underway, TypeOK
<1>5. ASSUME \/ (\E f \in Frames : Emit(f)) \/ Hangup \/ Break \/ Skip \/ Timeout \/ Partial
             \/ UNCHANGED vars
      PROVE  Allowed'
  <2>1. UNCHANGED <<shown, out, page>> /\ (relay' = relay \/ relay' = "ended")
    BY <1>5, Apart
  <2>2. Underway' => ~ShownEnded
    BY <1>4, <2>1 DEF Underway
  <2> QED BY <1>3, <2>1, <2>2
<1>6. ASSUME Connect \/ Forward \/ Save \/ Exhausted PROVE Allowed'
  <2>1. Underway /\ page = "reading"
    BY <1>6 DEF Underway, Connect, Forward, Save, Exhausted, client
  <2>2. Written /\ UNCHANGED <<meant, shown, page>>
    BY <1>6, <2>1, Writes
  <2>3. ~ShownEnded
    BY <1>4, <2>1 DEF Underway
  <2>4. \A i \in DOMAIN out :
           /\ Len(shown) + i <= Len(meant) /\ out[i] = meant[Len(shown) + i]
           /\ ~IsTerminal(out[i].type) /\ out[i] # Marker
    <3> SUFFICES ASSUME NEW i \in DOMAIN out
                 PROVE  /\ Len(shown) + i <= Len(meant) /\ out[i] = meant[Len(shown) + i]
                        /\ ~IsTerminal(out[i].type) /\ out[i] # Marker
      OBVIOUS
    <3>1. out[i] = meant[Len(shown) + i] /\ ~IsTerminal(out[i].type) /\ Delivered <= Len(meant)
      BY <1>1, <2>1 DEF InOrder
    <3>2. Len(shown) + i \in 1..Len(meant)
      BY <1>2, <3>1 DEF Delivered
    <3>3. out[i] \in Events
      BY <1>2, <3>1, <3>2
    <3> QED BY <1>2, <3>1, <3>2, <3>3, MarkerIsNoEvent
  <2>5. ASSUME NEW e \in Events, e = Err \/ (Delivered < Len(meant) /\ e = meant[Delivered + 1]),
               \/ out' = out \o <<e>> /\ relay' = (IF IsTerminal(e.type) THEN "ended" ELSE "read")
               \/ out' = out \o <<e, Marker>> /\ relay' = "ended"
        PROVE  Allowed'
    <3>1. e \in Chunks /\ Marker \in Chunks /\ Len(out) \in Nat /\ Len(shown) \in Nat
      BY <1>2 DEF Chunks
    <3>2. /\ \A i \in 1..Len(out) : out'[i] = out[i]
          /\ out'[Len(out) + 1] = e
          /\ \/ Len(out') = Len(out) + 1
             \/ Len(out') = Len(out) + 2 /\ out'[Len(out) + 2] = Marker
      BY <1>2, <2>5, <3>1
    <3>3. ~ShownEnded'
      BY <2>2, <2>3 DEF ShownEnded
    <3>4. ASSUME NEW i \in DOMAIN out'
          PROVE  /\ \/ out'[i] \in {Marker, Err}
                    \/ Len(shown) + i <= Len(meant) /\ out'[i] = meant[Len(shown) + i]
                 /\ IsTerminal(out'[i].type) \/ out'[i] = Marker =>
                      i = Len(out') \/ (i = Len(out') - 1 /\ out'[i + 1] = Marker)
      <4>1. CASE i \in 1..Len(out)
        BY <1>2, <2>4, <3>2, <4>1
      <4>2. CASE i = Len(out) + 1
        <5>1. Len(shown) + i = Delivered + 1 /\ Delivered \in Nat
          BY <3>1, <4>2 DEF Delivered
        <5>2. e = Err \/ (Len(shown) + i <= Len(meant) /\ e = meant[Len(shown) + i])
          BY <1>2, <2>5, <5>1
        <5> QED BY <3>1, <3>2, <4>2, <5>2
      <4>3. CASE i = Len(out) + 2 /\ out'[Len(out) + 2] = Marker /\ Len(out') = Len(out) + 2
        BY <4>3
      <4>4. i \in 1..Len(out')
        BY <1>2
      <4> QED BY <3>1, <3>2, <4>1, <4>2, <4>3, <4>4
    <3> QED BY <2>2, <3>3, <3>4 DEF Allowed, Due, LastDue
  <2>6. CASE out' = out
    BY <1>3, <2>1, <2>2, <2>3, <2>6
  <2> QED BY <2>2, <2>5, <2>6 DEF Written
<1>7. ASSUME Receive PROVE Allowed'
  <2>1. /\ page = "reading" /\ Len(out) > 0 /\ Len(out') = Len(out) - 1
        /\ \A i \in 1..Len(out') : out'[i] = out[i + 1]
        /\ UNCHANGED <<upstream, backend>> /\ meant' = meant /\ relay' = relay
    BY <1>1, <1>7, ReceivedFirst DEF Receive, upstream, backend
  <2>2. out[1] # Marker /\ out[1] \in Events /\ shown' = Append(shown, out[1])
    BY <1>1, <1>7, ReceivedFirst DEF After, Marker, Chunks
  <2>3. Len(shown') = Len(shown) + 1 /\ shown'[Len(shown')] = out[1]
        /\ Len(shown) \in Nat /\ Len(out) \in Nat /\ DOMAIN out = 1..Len(out)
        /\ DOMAIN out' = 1..Len(out')
    BY <1>2, <2>2
  <2>4. /\ \A i \in DOMAIN out : Due(i)
        /\ \A i \in DOMAIN out : IsTerminal(out[i].type) \/ out[i] = Marker => LastDue(i)
    BY <1>1, <2>1 DEF Allowed
  <2>5. ASSUME NEW i \in DOMAIN out' PROVE Due(i)' /\ (IsTerminal(out'[i].type) \/ out'[i] = Marker => LastDue(i)')
    <3>1. /\ i \in 1..Len(out') /\ i + 1 \in DOMAIN out
          /\ Len(shown') + i = Len(shown) + (i + 1)
          /\ i + 1 = Len(out) => i = Len(out')
          /\ i + 1 = Len(out) - 1 => i = Len(out') - 1 /\ i + 1 \in 1..Len(out')
      <4>1. /\ i \in 1..Len(out') /\ Len(shown) \in Nat /\ Len(out) \in Nat
            /\ DOMAIN out = 1..Len(out) /\ Len(shown') = Len(shown) + 1
        BY <2>3
      <4>2. Len(out') = Len(out) - 1
        BY <2>1
      <4> QED BY <4>1, <4>2
    <3>2. out'[i] = out[i + 1] /\ (i + 1 \in 1..Len(out') => out'[i + 1] = out[(i + 1) + 1])
      BY <2>1, <3>1
    <3>3. Due(i + 1) /\ (IsTerminal(out[i + 1].type) \/ out[i + 1] = Marker => LastDue(i + 1))
      BY <2>4, <3>1
    <3>4. Due(i)'
      BY <2>1, <3>1, <3>2, <3>3 DEF Due
    <3>5. LastDue(i + 1) => LastDue(i)'
      BY <3>1, <3>2 DEF LastDue
    <3> QED BY <3>2, <3>3, <3>4, <3>5
  <2>6. ASSUME ShownEnded' PROVE out' \in {<<>>, <<Marker>>} /\ ~Underway'
    <3>1. IsTerminal(out[1].type) /\ 1 \in DOMAIN out
      BY <2>1, <2>3, <2>6 DEF ShownEnded
    <3>2. ~Underway'
      BY <1>1, <2>1, <3>1 DEF InOrder, Underway
    <3>3. LastDue(1)
      BY <2>4, <3>1
    <3>4. Len(out') = 0 \/ (Len(out') = 1 /\ out'[1] = Marker)
      BY <2>1, <2>3, <3>3 DEF LastDue
    <3> QED BY <1>2, <3>2, <3>4
  <2> QED BY <2>5, <2>6 DEF Allowed
<1>8. CASE EndOfBody \/ \E how \in {"aborted", "failed"} : Leave(how)
  BY <1>8 DEF EndOfBody, Leave
<1> QED BY <1>5, <1>6, <1>7, <1>8 DEF Next

-----------------------------------------------------------------------------
(* The invariant, and what the page gets *)

\* The invariant holds before the Agent is called.
LEMMA RelayInvInit == Init => RelayInv
<1> SUFFICES ASSUME Init PROVE RelayInv
  OBVIOUS
<1>1. TypeOK
  <2>1. <<>> \in Seq(Lines) /\ <<>> \in Seq(Events) /\ <<>> \in Seq(Events \cup {Marker})
    OBVIOUS
  <2>2. 0 \in 0..MaxFrames
    BY BoundAssumption
  <2>3. name \in Names
    BY DEF Init, Names
  <2> QED BY <2>1, <2>2, <2>3 DEF Init, TypeOK
<1>2. OneEnd /\ NameReset /\ Unconnected /\ Reading /\ Saving
  BY DEF Init, OneEnd, NameReset, NameAt, Unconnected, Reading, Saving
<1>3. InOrder /\ Allowed
  BY DEF Init, InOrder, Delivered, Allowed, ShownEnded, Underway
<1> QED BY <1>1, <1>2, <1>3 DEF RelayInv

\* Every step keeps the invariant.
LEMMA RelayInvStep ==
  ASSUME RelayInv, [Next]_vars
  PROVE  RelayInv'
<1>1. TypeOK /\ OneEnd /\ NameReset /\ Unconnected
  BY DEF RelayInv
<1>2. TypeOK' /\ OneEnd' /\ NameReset' /\ Unconnected'
  BY <1>1, TypeStep, OneEndStep, NameResetStep, UnconnectedStep
<1>3. InOrder' /\ Reading' /\ Saving' /\ Allowed'
  BY InOrderStep, ReadingStep, SavingStep, AllowedStep
<1> QED BY <1>2, <1>3 DEF RelayInv

\* The invariant holds of every behaviour.
LEMMA RelayInvariant == Spec => []RelayInv
BY RelayInvInit, RelayInvStep, PTL DEF Spec

\* Handling a chunk delivers the next event or an error, or closes the stream.
LEMMA ReceiveDelivers ==
  ASSUME RelayInv, Receive
  PROVE  Stream!Deliver \/ Stream!Close
<1>1. TypeOK /\ Allowed /\ page = "reading" /\ meant' = meant
  BY DEF RelayInv, Receive, upstream
<1>2. /\ Len(out) > 0 /\ shown' = (IF out[1] = Marker THEN shown ELSE Append(shown, out[1]))
      /\ page' = After(out[1].type) /\ out \in Seq(Chunks)
  BY <1>1, ReceivedFirst DEF TypeOK, Chunks
<1>3. CASE out[1] = Marker
  <2>1. page' = "resolved"
    BY <1>2, <1>3 DEF After, Marker
  <2> QED BY <1>1, <1>2, <1>3, <2>1 DEF Stream!Close
<1>4. CASE out[1] # Marker
  <2>1. shown' = Append(shown, out[1]) /\ Due(1)
    BY <1>1, <1>2, <1>4 DEF Allowed
  <2>2. ~Stream!Ended(shown)
    <3>1. ~ShownEnded
      BY <1>1, <1>2, <1>4 DEF Allowed
    <3> QED BY <3>1 DEF ShownEnded, IsTerminal, Stream!Ended, Stream!Terminal
  <2>3. \/ shown' = Append(shown, Err)
        \/ Len(shown) + 1 \in DOMAIN meant /\ shown' = Append(shown, meant[Len(shown) + 1])
    <3>1. Len(shown) \in Nat /\ DOMAIN meant = 1..Len(meant) /\ Len(meant) \in Nat
      BY <1>1 DEF TypeOK
    <3> QED BY <1>4, <2>1, <3>1 DEF Due
  <2>4. shown' \in {Append(shown, Err)} \cup
                   {Append(shown, meant[i]) : i \in {Len(shown) + 1} \cap DOMAIN meant}
    BY <2>3
  <2> QED BY <1>1, <2>2, <2>4 DEF Stream!Deliver
<1> QED BY <1>3, <1>4

\* What the Agent sends is sent, as long as the run goes on.
LEMMA EmitSends ==
  ASSUME RelayInv, NEW f \in Frames, Emit(f), meant' # meant
  PROVE  Stream!Send
<1>1. [Next]_vars /\ TypeOK
  BY DEF Next, RelayInv
<1>2. ~RunEnded /\ meant' = Append(meant, Meant(f, sent + 1)) /\ UNCHANGED <<shown, page>>
  BY DEF Emit, client
<1>3. Meant(f, sent + 1) \in Events
  <2>1. meant' \in Seq(Events) /\ meant \in Seq(Events)
    BY <1>1, MeantGrows DEF TypeOK
  <2>2. Len(meant') \in DOMAIN meant' /\ meant'[Len(meant')] = Meant(f, sent + 1)
    BY <1>2, <2>1
  <2> QED BY <2>1, <2>2
<1>4. ~Stream!Ended(meant)
  BY <1>2 DEF RunEnded, Last, IsTerminal, Stream!Ended, Stream!Terminal
<1> QED BY <1>2, <1>3, <1>4 DEF Stream!Send

(***************************************************************************)
(* Every step of the relay is a step of the stream it promises: the next   *)
(* event is handled, the Agent means one more, the page stops reading, or  *)
(* nothing of it happens.                                                  *)
(***************************************************************************)
LEMMA StepIsStreamStep ==
  ASSUME RelayInv, [Next]_vars
  PROVE  [Stream!Next]_<<meant, shown, (page = "reading")>>
<1>1. ASSUME NEW f \in Frames, Emit(f) PROVE Stream!Next \/ UNCHANGED <<meant, shown, page>>
  <2>1. UNCHANGED <<shown, page>>
    BY <1>1 DEF Emit, client
  <2> QED BY <1>1, <2>1, EmitSends DEF Stream!Next
<1>2. CASE Receive
  BY <1>2, ReceiveDelivers DEF Stream!Next
<1>3. CASE EndOfBody \/ \E how \in {"aborted", "failed"} : Leave(how)
  <2>1. Stream!Close
    BY <1>3 DEF EndOfBody, Leave, Stream!Close, upstream
  <2> QED BY <2>1 DEF Stream!Next
<1>4. CASE \/ Hangup \/ Break \/ Connect \/ Skip \/ Forward \/ Save \/ Exhausted \/ Timeout
           \/ Partial \/ UNCHANGED vars
  BY <1>4 DEF Hangup, Break, Connect, Skip, Forward, Save, Exhausted, Timeout, Partial,
              vars, upstream, client
<1> QED BY <1>1, <1>2, <1>3, <1>4 DEF Next

(***************************************************************************)
(* The parser, the service, the writer and the reader together implement   *)
(* the abstract stream: what the page handles is what the Agent meant, in  *)
(* order and once, with at most one error of the service in place of the   *)
(* rest, wherever lines, chunks and connections break.                     *)
(***************************************************************************)
THEOREM Implements == Spec => ImplementsStream
<1>1. Init => Stream!Init
  BY DEF Init, Stream!Init
<1>2. RelayInv /\ [Next]_vars => [Stream!Next]_<<meant, shown, (page = "reading")>>
  BY StepIsStreamStep
<1> QED BY <1>1, <1>2, RelayInvariant, PTL DEF Spec, ImplementsStream, Stream!Spec

-----------------------------------------------------------------------------
(* A run nothing cut short *)

(***************************************************************************)
(* As long as nothing has cut the run short, what the page has together    *)
(* with what is under way to it is, once the service is done, the whole    *)
(* run, and the page keeps reading until it has handled the last of it.    *)
(***************************************************************************)
Ending == IF RunEnded THEN meant ELSE Append(meant, Err)
Full == IF Ending[Len(Ending)].type = "done" THEN Append(Ending, Marker) ELSE Ending
Concluded == /\ RunEnded \/ agent = "closed"
             /\ page = "reading" => out # <<>> /\ shown \o out = Full
             /\ page # "reading" => shown = Ending
Whole ==
  ~fault => /\ agent # "broken" /\ relay # "crashed"
            /\ relay # "ended" => page = "reading"
            /\ relay = "ended" => Concluded

\* Writing one chunk or two adds them to what is shown and under way.
LEMMA ConcatAppend ==
  ASSUME NEW s \in Seq(Chunks), NEW t \in Seq(Chunks), NEW e \in Chunks, NEW f \in Chunks
  PROVE  /\ s \o (t \o <<e>>) = Append(s \o t, e)
         /\ s \o (t \o <<e, f>>) = Append(Append(s \o t, e), f)
<1>1. s \o (t \o <<e>>) = Append(s \o t, e)
  OBVIOUS
<1>2. s \o (t \o <<e, f>>) = Append(Append(s \o t, e), f)
  OBVIOUS
<1> QED BY <1>1, <1>2

\* Handling a chunk moves it from what is under way to what is shown.
LEMMA MoveFirst ==
  ASSUME NEW S, NEW s \in Seq(S), NEW t \in Seq(S), t # <<>>
  PROVE  Append(s, t[1]) \o Tail(t) = s \o t
OBVIOUS

\* The run ends in an event that says so; nothing before it does.
LEMMA EndingEnds ==
  ASSUME TypeOK
  PROVE  /\ Ending \in Seq(Events) /\ Len(Ending) > 0
         /\ IsTerminal(Ending[Len(Ending)].type)
<1>1. meant \in Seq(Events) /\ Err \in Events /\ IsTerminal(Err.type)
  BY EventType DEF TypeOK, Err, IsTerminal
<1>2. CASE RunEnded
  BY <1>1, <1>2 DEF Ending, RunEnded, Last
<1>3. CASE ~RunEnded
  BY <1>1, <1>3 DEF Ending
<1> QED BY <1>2, <1>3

\* While the service works on the run, everything before its next event has been
\* passed on.
LEMMA Passed ==
  ASSUME TypeOK, InOrder, Underway
  PROVE  /\ Delivered = Len(meant) => shown \o out = meant
         /\ Delivered + 1 = Len(meant) => Append(shown \o out, meant[Len(meant)]) = meant
<1>1. /\ shown \in Seq(Chunks) /\ out \in Seq(Chunks) /\ meant \in Seq(Chunks)
      /\ Len(shown) \in Nat /\ Len(out) \in Nat /\ Len(meant) \in Nat
  BY DEF TypeOK, Chunks
<1>2. /\ \A i \in DOMAIN shown : shown[i] = meant[i]
      /\ \A i \in DOMAIN out : out[i] = meant[Len(shown) + i]
  BY DEF InOrder
<1> DEFINE all == shown \o out
<1>3. all \in Seq(Chunks) /\ Len(all) = Delivered /\ Delivered \in Nat
  BY <1>1 DEF Delivered
<1>4. \A i \in 1..Delivered : all[i] = meant[i]
  <2> SUFFICES ASSUME NEW i \in 1..Delivered PROVE all[i] = meant[i]
    OBVIOUS
  <2>1. CASE i <= Len(shown)
    BY <1>1, <1>2, <2>1 DEF Delivered
  <2>2. CASE i > Len(shown)
    <3>1. all[i] = out[i - Len(shown)] /\ i - Len(shown) \in DOMAIN out
      BY <1>1, <2>2 DEF Delivered
    <3> QED BY <1>1, <1>2, <3>1
  <2>3. i <= Len(shown) \/ i > Len(shown)
    BY <1>1, <1>3
  <2> QED BY <2>1, <2>2, <2>3
<1> HIDE DEF all
<1>5. ASSUME Delivered = Len(meant) PROVE all = meant
  BY <1>1, <1>3, <1>4, <1>5, SeqEqual
<1>6. ASSUME Delivered + 1 = Len(meant) PROVE Append(all, meant[Len(meant)]) = meant
  <2> DEFINE more == Append(all, meant[Len(meant)])
  <2>1. meant[Len(meant)] \in Chunks
    BY <1>1, <1>6, <1>3
  <2>2. more \in Seq(Chunks) /\ Len(more) = Len(meant)
    BY <1>1, <1>3, <1>6, <2>1
  <2>3. \A i \in 1..Len(more) : more[i] = meant[i]
    BY <1>1, <1>3, <1>4, <1>6, <2>1, <2>2
  <2> HIDE DEF more
  <2>4. more = meant
    BY <1>1, <2>2, <2>3, SeqEqual
  <2> QED BY <2>4 DEF more
<1> QED BY <1>5, <1>6 DEF all

\* The service reports the event that ends the run: with it, all is under way.
LEMMA LastWritten ==
  ASSUME RelayInv, Underway, page' = "reading", agent' = agent, UNCHANGED <<meant, shown>>,
         relay' = "ended", NEW e \in Events, IsTerminal(e.type),
         \/ Delivered < Len(meant) /\ e = meant[Delivered + 1]
         \/ Delivered = Len(meant) /\ e = Err /\ agent = "closed",
         out' = IF e.type = "done" THEN out \o <<e, Marker>> ELSE out \o <<e>>
  PROVE  Concluded'
<1>1. TypeOK /\ InOrder /\ OneEnd /\ Ending' = Ending /\ Full' = Full /\ RunEnded' = RunEnded
  BY DEF RelayInv, Ending, Full, RunEnded
<1>2. /\ shown \in Seq(Chunks) /\ out \in Seq(Chunks) /\ meant \in Seq(Events)
      /\ Len(shown) \in Nat /\ Len(out) \in Nat /\ Len(meant) \in Nat /\ Delivered \in Nat
      /\ e \in Chunks /\ Marker \in Chunks
  BY <1>1 DEF TypeOK, Chunks, Delivered
<1>3. Ending = Append(shown \o out, e) /\ (RunEnded \/ agent = "closed")
  <2>1. CASE Delivered < Len(meant) /\ e = meant[Delivered + 1]
    <3>1. Delivered + 1 \in DOMAIN meant
      BY <1>2, <2>1
    <3>2. Delivered + 1 = Len(meant)
      BY <1>1, <2>1, <3>1 DEF OneEnd
    <3>3. RunEnded
      BY <1>2, <2>1, <3>2 DEF RunEnded, Last
    <3> QED BY <1>1, <2>1, <3>2, <3>3, Passed DEF Ending
  <2>2. CASE Delivered = Len(meant) /\ e = Err /\ agent = "closed"
    <3>1. ~RunEnded /\ shown \o out = meant
      BY <1>1, <2>2, NotEndedYet, Passed
    <3> QED BY <2>2, <3>1 DEF Ending
  <2> QED BY <2>1, <2>2
<1>4. Ending[Len(Ending)] = e
  BY <1>2, <1>3
<1>5. shown \o out' = Full
  <2>1. /\ shown \o (out \o <<e>>) = Ending
        /\ shown \o (out \o <<e, Marker>>) = Append(Ending, Marker)
    <3>1. /\ shown \o (out \o <<e>>) = Append(shown \o out, e)
          /\ shown \o (out \o <<e, Marker>>) = Append(Append(shown \o out, e), Marker)
      <4>1. shown \in Seq(Chunks) /\ out \in Seq(Chunks) /\ e \in Chunks /\ Marker \in Chunks
        BY <1>2
      <4> QED BY <4>1, ConcatAppend
    <3> QED BY <1>3, <3>1
  <2>2. CASE e.type = "done"
    BY <1>4, <2>1, <2>2 DEF Full
  <2>3. CASE e.type # "done"
    BY <1>4, <2>1, <2>3 DEF Full
  <2> QED BY <2>2, <2>3
<1>6. out' # <<>>
  BY <1>2
<1> QED BY <1>1, <1>3, <1>5, <1>6 DEF Concluded

\* What is left of a run on its way is handled to its end.
LEMMA LastReceived ==
  ASSUME RelayInv, Receive, relay = "ended", Concluded
  PROVE  Concluded'
<1>1. TypeOK /\ Allowed /\ page = "reading"
  BY DEF RelayInv, Receive
<1>2. /\ UNCHANGED <<upstream, relay>> /\ out' = Tail(out) /\ out # <<>> /\ Len(out) > 0
      /\ shown' = (IF out[1] = Marker THEN shown ELSE Append(shown, out[1]))
      /\ page' = After(out[1].type) /\ out[1] \in Chunks
      /\ Len(out') = Len(out) - 1 /\ \A i \in 1..Len(out') : out'[i] = out[i + 1]
  BY <1>1, ReceivedFirst DEF Receive, backend
<1>3. Ending' = Ending /\ Full' = Full /\ RunEnded' = RunEnded /\ agent' = agent
  BY <1>2 DEF Ending, Full, RunEnded, upstream
<1>4. /\ Ending \in Seq(Events) /\ Len(Ending) > 0 /\ IsTerminal(Ending[Len(Ending)].type)
  BY <1>1, EndingEnds
<1>5. /\ shown \in Seq(Events) /\ shown \in Seq(Chunks) /\ out \in Seq(Chunks)
      /\ Ending \in Seq(Chunks) /\ Len(shown) \in Nat /\ Len(out) \in Nat
      /\ Len(Ending) \in Nat /\ Marker \in Chunks
  BY <1>1, <1>4 DEF TypeOK, Chunks
<1>6. shown \o out = Full /\ (RunEnded \/ agent = "closed")
  BY <1>1 DEF Concluded
<1>7. CASE out[1] = Marker
  <2>1. page' = "resolved" /\ shown' = shown
    BY <1>2, <1>7 DEF After, Marker
  <2>2. LastDue(1) /\ 1 \in DOMAIN out
    BY <1>1, <1>2, <1>5, <1>7 DEF Allowed
  <2>3. (shown \o out)[Len(shown) + 1] = Marker /\ Len(shown \o out) = Len(shown) + Len(out)
    BY <1>2, <1>5, <1>7
  <2>4. Full = Append(Ending, Marker)
    <3>1. Full # Ending
      <4>1. Len(shown) + 1 \in 1..Len(shown \o out)
        BY <1>2, <1>5, <2>3
      <4> QED BY <1>4, <1>6, <2>3, <4>1, MarkerIsNoEvent
    <3> QED BY <3>1 DEF Full
  <2>5. Len(shown) + Len(out) = Len(Ending) + 1
    BY <1>5, <1>6, <2>3, <2>4
  <2>6. Len(out) = 1
    <3>1. CASE Len(out) = 2
      <4>1. Len(shown) + 1 \in 1..Len(Ending)
        BY <1>5, <2>5, <3>1
      <4>2. Full[Len(shown) + 1] = Ending[Len(shown) + 1]
        BY <1>5, <2>4, <4>1
      <4> QED BY <1>4, <1>6, <2>3, <4>1, <4>2, MarkerIsNoEvent
    <3> QED BY <1>5, <2>2, <3>1 DEF LastDue
  <2>7. shown = Ending
    <3>1. out = <<Marker>>
      BY <1>5, <1>7, <2>6
    <3>2. Append(shown, Marker) = Append(Ending, Marker)
      BY <1>5, <1>6, <2>4, <3>1
    <3> QED BY <1>5, <3>2, AppendInjective
  <2> QED BY <1>3, <1>6, <2>1, <2>7 DEF Concluded
<1>8. CASE out[1] # Marker
  <2>1. /\ shown' = Append(shown, out[1]) /\ out[1] \in Events /\ out[1].type \in Types
        /\ 1 \in DOMAIN out
    BY <1>2, <1>5, <1>8 DEF Chunks, Events
  <2>2. shown' \o out' = Full
    BY <1>2, <1>5, <1>6, <2>1, MoveFirst
  <2>3. page' = IF out[1].type \in {"interrupt", "cancelled", "error"} THEN out[1].type
                ELSE "reading"
    BY <1>2, <2>1 DEF After, Types
  \* The last chunk: it says how the run ends.
  <2>4. ASSUME out' = <<>> PROVE shown' = Ending /\ out[1].type \in {"interrupt", "cancelled", "error"}
    <3>1. shown' = Full /\ shown'[Len(shown')] = out[1]
      BY <1>5, <2>1, <2>2, <2>4
    <3>2. Full = Ending
      BY <1>5, <1>8, <3>1 DEF Full
    <3> QED BY <1>4, <3>1, <3>2 DEF Full, IsTerminal
  <2>5. ASSUME out' # <<>>, out[1].type \in {"interrupt", "cancelled", "error"} PROVE FALSE
    <3>1. LastDue(1)
      BY <1>1, <2>1, <2>5 DEF Allowed, IsTerminal
    <3>2. Len(out) = 2 /\ out[2] = Marker
      BY <1>2, <1>5, <2>5, <3>1 DEF LastDue
    <3>3. out' = <<Marker>>
      <4>1. out' \in Seq(Chunks)
        BY <1>2, <1>5
      <4>2. Len(out') = Len(out) - 1 /\ \A i \in 1..Len(out') : out'[i] = out[i + 1]
        BY <1>2
      <4>3. Len(out') = 1 /\ out'[1] = out[1 + 1]
        BY <3>2, <4>2
      <4> QED BY <3>2, <4>1, <4>3
    <3>4. Full = Append(shown', Marker) /\ shown' \in Seq(Chunks)
      <4>1. shown' \in Seq(Chunks)
        BY <1>2, <1>5, <2>1
      <4>2. shown' \o <<Marker>> = Append(shown', Marker)
        BY <1>5, <4>1
      <4> QED BY <2>2, <3>3, <4>1, <4>2
    <3>5. Full # Ending
      <4>1. Len(Full) \in 1..Len(Full) /\ Full[Len(Full)] = Marker
        BY <1>5, <3>4
      <4> QED BY <1>4, <4>1, MarkerIsNoEvent
    <3>6. shown' = Ending /\ Ending[Len(Ending)].type = "done"
      BY <1>5, <3>4, <3>5, AppendInjective DEF Full
    <3>7. shown'[Len(shown')] = out[1]
      BY <1>5, <2>1
    <3> QED BY <2>5, <3>6, <3>7
  <2> QED BY <1>3, <1>6, <2>2, <2>3, <2>4, <2>5 DEF Concluded
<1> QED BY <1>7, <1>8

\* Without a fault, a run that is over is shown, or under way, to its end.
LEMMA WholeStep ==
  ASSUME RelayInv, Whole, [Next]_vars
  PROVE  Whole'
<1>1. TypeOK /\ InOrder /\ Allowed /\ TypeOK'
  BY TypeStep DEF RelayInv
<1>2. fault => fault'
  <2>1. fault \in BOOLEAN /\ fault' \in BOOLEAN
    BY <1>1 DEF TypeOK
  <2>2. fault' = fault \/ fault' = TRUE
    <3>1. CASE Forward
      BY <1>1, <3>1, Forwards DEF ForwardCases
    <3>2. CASE ~Forward
      BY <3>2 DEF Next, vars, Emit, Hangup, Break, Connect, Skip, Save, Exhausted, Timeout,
                  Partial, Receive, EndOfBody, Leave
    <3> QED BY <3>1, <3>2
  <2> QED BY <2>1, <2>2
<1> SUFFICES ASSUME ~fault' PROVE Whole'
  BY DEF Whole
<1>3. /\ agent # "broken" /\ relay # "crashed" /\ (relay # "ended" => page = "reading")
      /\ relay = "ended" => Concluded
  BY <1>2 DEF Whole
\* What is on its way, and what the run is, stay.
<1>4. ASSUME UNCHANGED <<meant, relay, out, shown, page>>,
             agent' \in {agent, "closed"}
      PROVE  Whole'
  BY <1>3, <1>4 DEF Whole, Concluded, Ending, Full, RunEnded
<1>5. ASSUME NEW f \in Frames, Emit(f) PROVE Whole'
  <2>1. UNCHANGED <<agent, relay, out, shown, page>> /\ agent = "open"
    BY <1>5 DEF Emit, backend, client
  <2>2. CASE relay = "ended"
    <3>1. RunEnded
      BY <1>3, <2>1, <2>2 DEF Concluded
    <3> QED BY <1>4, <1>5, <2>1, <3>1 DEF Emit
  <2>3. CASE relay # "ended"
    BY <1>3, <2>1, <2>3 DEF Whole
  <2> QED BY <2>2, <2>3
<1>6. CASE Hangup \/ Skip \/ Partial \/ UNCHANGED vars
  BY <1>4, <1>6 DEF Hangup, Skip, Partial, vars, upstream, backend, client
<1>7. CASE Connect
  <2>1. relay' = "read" /\ page' = page /\ agent' = agent /\ relay = "connect"
    BY <1>7 DEF Connect, upstream, client
  <2> QED BY <1>3, <2>1 DEF Whole
<1>8. CASE Forward
  <2> DEFINE type == Meaning(name, Head(wire).body)
             n == Head(wire).n
  <2>1. /\ relay = "read" /\ page = "reading" /\ page' = page /\ agent' = agent
        /\ UNCHANGED <<meant, shown>>
    BY <1>3, <1>8 DEF Forward, client
  <2>2. /\ type \in Types \cup {"hollow"} /\ ForwardCases(n, type) /\ ~Gone
        /\ n \in 0..MaxFrames
    BY <1>1, <1>8, <2>1, Forwards, BoundAssumption DEF Gone
  <2>3. /\ Delivered < Len(meant)
        /\ meant[Delivered + 1] = IF type = "hollow" THEN Err ELSE [type |-> type, n |-> n]
    BY <1>8, <2>1, NextDue
  <2>4. type \in Types => [type |-> type, n |-> n] \in Events
    BY <2>2, EventType
  <2> HIDE DEF type, n
  <2>5. \/ relay' \in {"read", "save"}
        \/ \E e \in Events : /\ e = meant[Delivered + 1] /\ IsTerminal(e.type) /\ e.type # "done"
                             /\ out' = out \o <<e>> /\ relay' = "ended"
    <3>1. CASE type = "done" \/ type \in {"loop", "delta"}
      BY <2>2, <3>1 DEF ForwardCases, Write
    <3>2. CASE type = "hollow"
      <4>1. Err \in Events /\ IsTerminal(Err.type) /\ Err.type # "done"
        BY EventType DEF Err, IsTerminal
      <4>2. out' = out \o <<Err>> /\ relay' = "ended"
        BY <2>2, <3>2 DEF ForwardCases, Write
      <4> QED BY <2>3, <3>2, <4>1, <4>2
    <3>3. CASE type \in {"interrupt", "cancelled", "error"}
      <4> DEFINE e == [type |-> type, n |-> n]
      <4>1. e \in Events /\ IsTerminal(e.type) /\ e.type # "done" /\ e = meant[Delivered + 1]
        BY <2>3, <2>4, <3>3 DEF IsTerminal, Types
      <4>2. out' = out \o <<e>> /\ relay' = "ended"
        BY <2>2, <3>3 DEF ForwardCases, Write
      <4> HIDE DEF e
      <4> QED BY <4>1, <4>2
    <3> QED BY <2>2, <3>1, <3>2, <3>3 DEF Types
  <2>6. ASSUME NEW e \in Events, e = meant[Delivered + 1], IsTerminal(e.type), e.type # "done",
               out' = out \o <<e>>, relay' = "ended"
        PROVE  Concluded'
    BY <2>1, <2>3, <2>6, LastWritten DEF Underway
  <2> QED BY <1>3, <2>1, <2>5, <2>6 DEF Whole
<1>9. CASE Save
  <2> DEFINE e == [type |-> "done", n |-> answer]
  <2>1. /\ relay = "save" /\ page = "reading" /\ page' = page /\ agent' = agent
        /\ UNCHANGED <<meant, shown>> /\ relay' = "ended" /\ out' = out \o <<e, Marker>>
    BY <1>3, <1>9 DEF Save, Write, Gone, upstream, client
  <2>2. Delivered < Len(meant) /\ e = meant[Delivered + 1]
    BY <2>1 DEF RelayInv, Saving
  <2>3. e \in Events /\ IsTerminal(e.type) /\ e.type = "done"
    BY <1>1, EventType DEF TypeOK, Types, IsTerminal
  <2> HIDE DEF e
  <2>4. Concluded'
    BY <2>1, <2>2, <2>3, LastWritten DEF Underway
  <2> QED BY <1>3, <2>1, <2>4 DEF Whole
<1>10. CASE Exhausted
  <2>1. /\ relay = "read" /\ page = "reading" /\ page' = page /\ agent' = agent
        /\ UNCHANGED <<meant, shown>> /\ wire = <<>> /\ agent = "closed"
        /\ relay' = "ended" /\ out' = out \o <<Err>>
    BY <1>1, <1>3, <1>10 DEF Exhausted, Write, Gone, upstream, client, TypeOK
  <2>2. Delivered = Len(meant)
    <3>1. PICK m \in [0..Len(wire) -> Nat] : Tallied(m)
      BY <2>1 DEF RelayInv, Reading
    <3>2. m[0] = Delivered /\ m[0] >= Len(meant)
      BY <2>1, <3>1 DEF Tallied, Delivered
    <3>3. Delivered <= Len(meant) /\ Delivered \in Nat /\ Len(meant) \in Nat
      BY <1>1, <2>1 DEF InOrder, Underway, Delivered, TypeOK
    <3> QED BY <3>2, <3>3
  <2>3. Err \in Events /\ IsTerminal(Err.type) /\ Err.type # "done"
    BY EventType DEF Err, IsTerminal
  <2>4. Concluded'
    BY <2>1, <2>2, <2>3, LastWritten DEF Underway
  <2> QED BY <1>3, <2>1, <2>4 DEF Whole
<1>11. CASE Receive
  <2>1. page = "reading" /\ relay' = relay /\ agent' = agent
    BY <1>11 DEF Receive, upstream, backend
  <2>2. CASE relay = "ended"
    BY <1>3, <1>11, <2>1, <2>2, LastReceived DEF Whole
  <2>3. CASE relay # "ended"
    <3>1. Underway
      BY <1>1, <1>3, <2>1, <2>3 DEF Underway, TypeOK
    <3>2. Len(out) > 0 /\ page' = After(out[1].type) /\ 1 \in DOMAIN out /\ out[1] \in Events
      BY <1>1, <1>11, <3>1, ReceivedFirst, ReceivedEvent DEF TypeOK
    <3>3. out[1].type \in Types /\ ~IsTerminal(out[1].type)
      BY <1>1, <3>1, <3>2 DEF InOrder, Events
    <3>4. page' = "reading"
      BY <3>2, <3>3 DEF After, Types, IsTerminal
    <3> QED BY <1>3, <2>1, <2>3, <3>4 DEF Whole
  <2> QED BY <2>2, <2>3
<1>12. CASE EndOfBody
  BY <1>3, <1>12 DEF EndOfBody, Concluded
<1>13. CASE Break \/ Timeout \/ \E how \in {"aborted", "failed"} : Leave(how)
  BY <1>13 DEF Break, Timeout, Leave
<1> QED BY <1>5, <1>6, <1>7, <1>8, <1>9, <1>10, <1>11, <1>12, <1>13 DEF Next

(***************************************************************************)
(* A run that no connection, store or user cut short is shown in full once *)
(* the page stops reading, with the service's error after it when the      *)
(* Agent stopped without saying how the run ended.                         *)
(***************************************************************************)
THEOREM NothingIsLost == Spec => []NothingLost
<1>1. Init => Whole
  BY DEF Init, Whole
<1>2. RelayInv /\ Whole /\ [Next]_vars => Whole'
  BY WholeStep
<1>3. Whole => NothingLost
  BY DEF Whole, Concluded, Ending, NothingLost
<1> QED BY <1>1, <1>2, <1>3, RelayInvariant, PTL DEF Spec

=============================================================================
