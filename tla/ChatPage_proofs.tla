--------------------------- MODULE ChatPage_proofs ---------------------------
(***************************************************************************)
(* Proofs about ChatPage, for any set of sessions and any bounds on the    *)
(* streams and loads of the page: its types, that the stop button reaches  *)
(* the stream, that paused runs stay with their session, and that what the *)
(* user sent stays on the screen.                                          *)
(***************************************************************************)
EXTENDS ChatPage, TLAPS

StreamRecords ==
  [session : Sessions, run : 0..MaxStreams, edit : 0..MaxStreams,
   client : {"none", "open", "over"}, server : {"none", "running", "over", "denied"},
   how : {"none", "done", "interrupt", "error", "refused", "late"}]

LoadRecords ==
  [session : Sessions, restore : BOOLEAN, at : {"none", "sent", "answered", "over"},
   answer : {"none", "row", "missing", "error", "lost"}, texts : Seq(Streams)]

(***************************************************************************)
(* The parts of TypeOK, by what disturbs them.                             *)
(***************************************************************************)
StreamsOK ==
  /\ started \in 0..MaxStreams
  /\ stream \in [Streams -> StreamRecords]
  /\ \A i \in Streams : stream[i].client = "none" <=> i > started

LoadsOK ==
  /\ loads \in 0..MaxLoads
  /\ load \in [Loads -> LoadRecords]
  /\ \A k \in Loads : load[k].at = "none" <=> k > loads

SessionsOK ==
  /\ current \in Sessions /\ sessionId \in Sessions
  /\ hitl \in [Sessions -> 0..MaxStreams]
  /\ whatever \in [Sessions -> BOOLEAN]
  /\ card \in 0..MaxStreams
  /\ owner \in [Sessions -> {"nobody", "visitor", "other"}]
  /\ lost \subseteq Sessions /\ ids \subseteq Sessions

ScreenOK ==
  /\ sending \in BOOLEAN
  /\ creation \in [Sessions -> {"none", "sent", "left", "made"}]
  /\ streamAbort \in 0..MaxStreams
  /\ moved \in BOOLEAN /\ hasty \in BOOLEAN /\ blurred \in BOOLEAN

TextsOK ==
  /\ view \in [session : Sessions, texts : Seq(Streams)]
  /\ rows \in [Sessions -> Seq(Streams)]

\* The types, split by what the steps change together.
LEMMA TypeParts ==
  TypeOK <=> StreamsOK /\ LoadsOK /\ SessionsOK /\ ScreenOK /\ TextsOK
BY DEF TypeOK, StreamsOK, LoadsOK, SessionsOK, ScreenOK, TextsOK, StreamRecords, LoadRecords

(***************************************************************************)
(* What is read of a row, a row that is made and a row that comes back.    *)
(***************************************************************************)
LEMMA TextsType ==
  ASSUME TextsOK, NEW s \in Sessions
  PROVE  Texts(s) \in Seq(Streams)
BY DEF Texts, TextsOK

\* A session that gets a row: other sessions may lose theirs.
LEMMA AdmitType ==
  ASSUME SessionsOK, NEW s \in Sessions, Admit(s)
  PROVE  /\ owner' \in [Sessions -> {"nobody", "visitor", "other"}]
         /\ lost \subseteq lost' /\ lost' \subseteq Sessions
         /\ \A z \in lost' : z \in lost \/ owner[z] = "visitor"
         /\ owner'[s] = "visitor"
         /\ \A z \in Sessions \ {s} : owner'[z] = owner[z] \/ (owner'[z] = "nobody" /\ z \in lost')
<1>1. PICK gone \in SUBSET Sessions :
        /\ \A z \in gone : owner[z] = "visitor"
        /\ owner' = [z \in Sessions |-> IF z = s THEN "visitor"
                                        ELSE IF z \in gone THEN "nobody" ELSE owner[z]]
        /\ lost' = lost \cup gone
  <2>1. CASE owner[s] = "visitor"
    BY <2>1 DEF Admit
  <2>2. CASE owner[s] # "visitor"
    BY <2>2 DEF Admit
  <2> QED BY <2>1, <2>2
<1> QED BY <1>1 DEF SessionsOK

\* A row that comes back: its texts are gone, or as they were.
LEMMA CameBackType ==
  ASSUME SessionsOK, TextsOK, NEW i \in Streams, stream[i].session \in Sessions, CameBack(i)
  PROVE  /\ owner' \in [Sessions -> {"nobody", "visitor", "other"}]
         /\ lost' = lost \cup {stream[i].session} /\ lost' \subseteq Sessions
         /\ owner'[stream[i].session] = "visitor"
         /\ \A z \in Sessions \ {stream[i].session} : owner'[z] = owner[z]
         /\ rows' \in [Sessions -> Seq(Streams)]
         /\ \A z \in Sessions : rows'[z] = rows[z] \/ (rows'[z] = <<>> /\ z \in lost')
<1> DEFINE s == stream[i].session
<1>1. /\ owner' = [owner EXCEPT ![s] = "visitor"] /\ lost' = lost \cup {s}
      /\ rows' = [rows EXCEPT ![s] = <<>>] \/ rows' = rows
  BY DEF CameBack
<1>2. s \in Sessions /\ <<>> \in Seq(Streams)
  OBVIOUS
<1> HIDE DEF s
<1>3. /\ owner' \in [Sessions -> {"nobody", "visitor", "other"}]
      /\ owner'[s] = "visitor" /\ \A z \in Sessions \ {s} : owner'[z] = owner[z]
      /\ lost' \subseteq Sessions
  BY <1>1, <1>2 DEF SessionsOK
<1>4. CASE rows' = rows
  BY <1>1, <1>3, <1>4 DEF TextsOK, s
<1>5. CASE rows' = [rows EXCEPT ![s] = <<>>]
  <2>1. /\ rows' \in [Sessions -> Seq(Streams)] /\ rows'[s] = <<>>
        /\ \A z \in Sessions \ {s} : rows'[z] = rows[z]
    BY <1>2, <1>5 DEF TextsOK
  <2> QED BY <1>1, <1>2, <1>3, <2>1 DEF s
<1> QED BY <1>1, <1>4, <1>5

(***************************************************************************)
(* The steps that start a stream, and the steps that send a load.          *)
(***************************************************************************)
LEMMA StartType ==
  ASSUME StreamsOK, NEW s \in Sessions, NEW run \in 0..MaxStreams,
         NEW edit \in 0..MaxStreams, NEW others \in [Streams -> StreamRecords],
         \A i \in Streams : others[i].client = "none" <=> i > started,
         Start(s, run, edit, others)
  PROVE  /\ StreamsOK' /\ sending' = TRUE /\ streamAbort' = started + 1
         /\ started + 1 \in Streams /\ started' = started + 1
         /\ stream'[started + 1] =
              [session |-> s, run |-> IF run = 0 THEN started + 1 ELSE run,
               edit |-> edit, client |-> "open", server |-> "none", how |-> "none"]
         /\ \A i \in Streams \ {started + 1} : stream'[i] = others[i]
<1> DEFINE new == [session |-> s, run |-> IF run = 0 THEN started + 1 ELSE run,
                   edit |-> edit, client |-> "open", server |-> "none", how |-> "none"]
<1>1. started + 1 \in Streams /\ started \in 0..MaxStreams
  BY BoundsAssumption DEF Start, StreamsOK, Streams
<1>2. new \in StreamRecords /\ new.client = "open"
  BY <1>1, BoundsAssumption DEF StreamRecords, Streams
<1>3. stream' = [others EXCEPT ![started + 1] = new] /\ started' = started + 1
      /\ sending' = TRUE /\ streamAbort' = started + 1
  BY DEF Start
<1> HIDE DEF new
<1>4. stream' \in [Streams -> StreamRecords]
  BY <1>1, <1>2, <1>3
<1>5. stream'[started + 1] = new /\ \A i \in Streams \ {started + 1} : stream'[i] = others[i]
  BY <1>1, <1>3
<1>6. \A i \in Streams : stream'[i].client = "none" <=> i > started'
  <2> TAKE i \in Streams
  <2>1. CASE i = started + 1
    BY <1>1, <1>2, <1>3, <1>5, <2>1
  <2>2. CASE i # started + 1
    <3>1. i > started <=> i > started'
      BY <1>1, <1>3, <2>2 DEF Streams
    <3> QED BY <1>5, <2>2, <3>1
  <2> QED BY <2>1, <2>2
<1>7. started' \in 0..MaxStreams
  BY <1>1, <1>3 DEF Streams
<1> QED BY <1>1, <1>3, <1>4, <1>5, <1>6, <1>7 DEF StreamsOK, new

\* A load that is sent is the next one, and the others stay.
LEMMA FetchType ==
  ASSUME LoadsOK, NEW s \in Sessions, NEW restore \in BOOLEAN, Fetch(s, restore)
  PROVE  /\ LoadsOK' /\ loads + 1 \in Loads
         /\ load'[loads + 1] = [session |-> s, restore |-> restore, at |-> "sent",
                                answer |-> "none", texts |-> <<>>]
         /\ \A k \in Loads \ {loads + 1} : load'[k] = load[k]
<1> DEFINE new == [session |-> s, restore |-> restore, at |-> "sent",
                   answer |-> "none", texts |-> <<>>]
<1>1. loads + 1 \in Loads /\ loads \in 0..MaxLoads
  BY BoundsAssumption DEF Fetch, LoadsOK, Loads
<1>2. new \in LoadRecords /\ new.at = "sent"
  BY DEF LoadRecords
<1>3. load' = [load EXCEPT ![loads + 1] = new] /\ loads' = loads + 1
  BY DEF Fetch
<1> HIDE DEF new
<1>4. load' \in [Loads -> LoadRecords]
  BY <1>1, <1>2, <1>3 DEF LoadsOK
<1>5. load'[loads + 1] = new /\ \A k \in Loads \ {loads + 1} : load'[k] = load[k]
  BY <1>1, <1>3 DEF LoadsOK
<1>6. \A k \in Loads : load'[k].at = "none" <=> k > loads'
  <2> TAKE k \in Loads
  <2>1. CASE k = loads + 1
    BY <1>1, <1>2, <1>3, <1>5, <2>1
  <2>2. CASE k # loads + 1
    <3>1. k > loads <=> k > loads'
      BY <1>1, <1>3, <2>2 DEF Loads
    <3> QED BY <1>5, <2>2, <3>1 DEF LoadsOK
  <2> QED BY <2>1, <2>2
<1>7. loads' \in 0..MaxLoads
  BY <1>1, <1>3 DEF Loads
<1> QED BY <1>1, <1>3, <1>4, <1>5, <1>6, <1>7 DEF LoadsOK, new

\* A stream and a load that were not started yet are records of their kind.
LEMMA UnsentType ==
  /\ Unsent \in LoadRecords /\ Unsent.at = "none"
  /\ Idle \in StreamRecords /\ Idle.client = "none"
<1> DEFINE s == CHOOSE s \in Sessions : TRUE
<1>1. s \in Sessions
  BY SessionsAssumption
<1> HIDE DEF s
<1>2. Unsent = [session |-> s, restore |-> FALSE, at |-> "none", answer |-> "none",
                texts |-> <<>>]
  BY DEF Unsent, s
<1>3. Idle = [session |-> s, run |-> 0, edit |-> 0, client |-> "none",
              server |-> "none", how |-> "none"]
  BY DEF Idle, s
<1> QED BY <1>1, <1>2, <1>3, BoundsAssumption DEF LoadRecords, StreamRecords

(***************************************************************************)
(* What ends a load leaves the others alone.                               *)
(***************************************************************************)
LEMMA OverType ==
  ASSUME LoadsOK, NEW k \in Loads, load[k].at = "answered", Over(k)
  PROVE  /\ LoadsOK' /\ load'[k].at = "over"
         /\ \A j \in Loads \ {k} : load'[j] = load[j]
<1>1. Forgotten \in LoadRecords /\ Forgotten.at = "over"
  BY UnsentType DEF Forgotten, LoadRecords
<1>2. load' = [load EXCEPT ![k] = Forgotten] /\ loads' = loads
  BY DEF Over
<1>3. load' \in [Loads -> LoadRecords] /\ load'[k] = Forgotten
      /\ \A j \in Loads \ {k} : load'[j] = load[j]
  BY <1>1, <1>2 DEF LoadsOK
<1>4. ~(k > loads)
  BY DEF LoadsOK
<1> QED BY <1>1, <1>2, <1>3, <1>4 DEF LoadsOK

(***************************************************************************)
(* Ends and news of a stream change nothing of what it is.                 *)
(***************************************************************************)
LEMMA ClosedType ==
  ASSUME StreamsOK, NEW i \in Streams, stream[i].client # "none"
  PROVE  /\ Closed(i) \in [Streams -> StreamRecords]
         /\ Closed(i)[i].client = "over"
         /\ \A j \in Streams : /\ Closed(i)[j].client = "none" <=> j > started
                             /\ Closed(i)[j].session = stream[j].session
                             /\ Closed(i)[j].run = stream[j].run
         /\ \A j \in Streams \ {i} : Closed(i)[j] = stream[j]
BY DEF Closed, StreamsOK, StreamRecords

Same(i) == /\ stream'[i].session = stream[i].session /\ stream'[i].run = stream[i].run
           /\ stream'[i].client = stream[i].client

\* The backend moves a stream on without changing whose it is.
LEMMA NewsType ==
  ASSUME StreamsOK, NEW i \in Streams, Accept(i) \/ Finish(i) \/ Drop(i)
  PROVE  StreamsOK' /\ UNCHANGED started /\ \A j \in Streams : Same(j)
<1>1. started' = started
  BY DEF Accept, Finish, Drop
<1>2. stream' \in [Streams -> StreamRecords] /\ \A j \in Streams : Same(j)
  <2>1. CASE Accept(i)
    BY <2>1 DEF Accept, StreamsOK, StreamRecords, Same
  <2>2. CASE Finish(i)
    BY <2>2 DEF Finish, StreamsOK, StreamRecords, Same
  <2>3. CASE Drop(i)
    <3> DEFINE server == IF stream[i].server = "none" THEN "denied" ELSE stream[i].server
    <3>1. server \in {"none", "running", "over", "denied"}
      BY DEF StreamsOK, StreamRecords
    <3>2. stream' = [stream EXCEPT ![i].how = "error", ![i].server = server]
      BY <2>3 DEF Drop
    <3> HIDE DEF server
    <3> DEFINE middle == [stream EXCEPT ![i].how = "error"]
    <3>3. middle \in [Streams -> StreamRecords] /\ stream' = [middle EXCEPT ![i].server = server]
          /\ \A j \in Streams : /\ middle[j].session = stream[j].session
                             /\ middle[j].run = stream[j].run
                             /\ middle[j].client = stream[j].client
      BY <3>2 DEF StreamsOK, StreamRecords
    <3> HIDE DEF middle
    <3> QED BY <3>1, <3>3 DEF StreamRecords, Same
  <2> QED BY <2>1, <2>2, <2>3
<1> QED BY <1>1, <1>2 DEF StreamsOK, Same

(***************************************************************************)
(* The numbers of streams and runs that the page remembers are in use.     *)
(***************************************************************************)
Numbered ==
  /\ streamAbort <= started /\ card <= started
  /\ \A s \in Sessions : hitl[s] <= started
  /\ \A i \in 1..started : stream[i].run \in 1..started

Answered == \A k \in Loads : load[k].at = "answered" => load[k].answer # "none"

IInv == TypeOK /\ Numbered /\ Answered

\* The invariant holds of a page that was just opened.
LEMMA InitIInv == Init => IInv
<1> SUFFICES ASSUME Init PROVE IInv
  OBVIOUS
<1>1. StreamsOK
  <2>1. stream = [i \in Streams |-> Idle] /\ started = 0
    BY DEF Init
  <2> QED BY <2>1, UnsentType, BoundsAssumption DEF StreamsOK, Streams
<1>2. LoadsOK
  <2>1. [Unsent EXCEPT !.session = current, !.restore = TRUE, !.at = "sent"] \in LoadRecords
    BY UnsentType DEF Init, LoadRecords
  <2>2. [Unsent EXCEPT !.session = current, !.restore = TRUE, !.at = "sent"].at = "sent"
    BY UnsentType DEF LoadRecords
  <2> DEFINE new == [Unsent EXCEPT !.session = current, !.restore = TRUE, !.at = "sent"]
  <2>3. load = [k \in Loads |-> IF k = 1 THEN new ELSE Unsent] /\ loads = 1
    BY DEF Init
  <2> HIDE DEF new
  <2>4. \A k \in Loads : (k = 1) = ~(k > loads)
    BY <2>3 DEF Loads
  <2> QED BY <2>1, <2>2, <2>3, <2>4, UnsentType, BoundsAssumption DEF LoadsOK, Loads, new
<1>3. SessionsOK /\ ScreenOK
  <2>1. 0 \in 0..MaxStreams
    BY BoundsAssumption
  <2>2. owner \in [Sessions -> {"nobody", "visitor", "other"}]
    BY DEF Init
  <2> QED BY <2>1, <2>2 DEF Init, SessionsOK, ScreenOK
<1>4. TextsOK
  BY DEF Init, TextsOK
<1>5. Numbered
  BY DEF Init, Numbered
<1>6. Answered
  <2>1. [Unsent EXCEPT !.session = current, !.restore = TRUE, !.at = "sent"].at = "sent"
    BY UnsentType DEF LoadRecords
  <2> DEFINE new == [Unsent EXCEPT !.session = current, !.restore = TRUE, !.at = "sent"]
  <2>2. load = [k \in Loads |-> IF k = 1 THEN new ELSE Unsent]
    BY DEF Init
  <2> HIDE DEF new
  <2> QED BY <2>1, <2>2, UnsentType DEF Answered, new
<1> QED BY <1>1, <1>2, <1>3, <1>4, <1>5, <1>6, TypeParts DEF IInv

(***************************************************************************)
(* What each step does to the streams: it leaves them alone, brings news,  *)
(* closes some, or starts the next one.                                    *)
(***************************************************************************)
Quieted(i) == /\ started' = started /\ stream' = Closed(i) /\ stream[i].client = "open"

Begun(others) == \E run \in 1..started + 1, edit \in 0..MaxStreams :
  /\ run = started + 1 \/ run = card \/ \E i \in Open : run = stream[i].run
  /\ Start(current, IF run = started + 1 THEN 0 ELSE run, edit, others)

\* The id of a text is that of the stream that carried it, or none.
LEMMA IdOfText ==
  ASSUME StreamsOK, NEW t \in Streams
  PROVE  Id(t) \in 0..MaxStreams
BY DEF Id, StreamsOK, StreamRecords, Streams

\* Whatever starts a stream starts the next one, in the current session.
LEMMA Begins ==
  ASSUME IInv
  PROVE  /\ Send => Begun(stream)
         /\ \A k \in Streams : Edit(k) => Begun(stream)
         /\ Answer => Begun(stream)
         /\ \A i \in Streams : Interrupted(i) /\ whatever[current] => Begun(Closed(i))
<1> USE TypeParts DEF IInv
<1>0. started \in 0..MaxStreams
  BY DEF StreamsOK
<1>1. ASSUME Send PROVE Begun(stream)
  <2>1. Start(current, 0, 0, stream)
    BY <1>1 DEF Send
  <2>2. 0 \in 0..MaxStreams /\ started + 1 \in 1..started + 1
    BY <1>0, BoundsAssumption
  <2> QED BY <2>1, <2>2 DEF Begun
<1>2. ASSUME NEW k \in Streams, Edit(k) PROVE Begun(stream)
  <2>1. view.texts[k] \in Streams
    BY <1>2 DEF Edit, TextsOK
  <2>2. Id(view.texts[k]) \in 0..MaxStreams
    BY <2>1, IdOfText
  <2>3. Start(current, 0, Id(view.texts[k]), stream)
    BY <1>2 DEF Edit
  <2> QED BY <1>0, <2>2, <2>3 DEF Begun
<1>3. ASSUME Answer PROVE Begun(stream)
  <2>1. card \in 1..started /\ card # started + 1 /\ card \in 1..started + 1
    BY <1>0, <1>3 DEF Answer, Numbered, SessionsOK
  <2>2. Start(current, card, 0, stream)
    BY <1>3 DEF Answer
  <2> QED BY <2>1, <2>2, BoundsAssumption DEF Begun
<1>4. ASSUME NEW i \in Streams, Interrupted(i), whatever[current] PROVE Begun(Closed(i))
  <2>1. stream[i].client = "open" /\ i \in 1..started /\ i \in Open
    BY <1>0, <1>4 DEF Interrupted, StreamsOK, Streams, Open
  <2> DEFINE run == stream[i].run
  <2>2. run \in 1..started
    BY <2>1 DEF Numbered
  <2>3. run # started + 1 /\ run \in 1..started + 1
    BY <1>0, <2>2
  <2>4. Start(current, run, 0, Closed(i))
    BY <1>4 DEF Interrupted
  <2> HIDE DEF run
  <2> QED BY <2>1, <2>3, <2>4, BoundsAssumption DEF Begun, run
<1> QED BY <1>1, <1>2, <1>3, <1>4

\* What a step may do to the streams.
LEMMA StreamCases ==
  ASSUME IInv, [Next]_vars
  PROVE  \/ UNCHANGED <<started, stream>>
         \/ StreamsOK' /\ UNCHANGED started /\ \A i \in Streams : Same(i)
         \/ sending /\ streamAbort # 0 /\ started' = started /\ stream' = Closed(streamAbort)
         \/ \E i \in Streams : Quieted(i)
         \/ Reload
         \/ Begun(stream)
         \/ \E i \in Streams : stream[i].client = "open" /\ Begun(Closed(i))
<1>1. ASSUME User PROVE \/ UNCHANGED <<started, stream>>
                        \/ sending /\ streamAbort # 0 /\ started' = started
                           /\ stream' = Closed(streamAbort)
                        \/ Reload
                        \/ Begun(stream)
  <2>1. CASE StartEdit \/ RunWhatever \/ Create
    BY <2>1 DEF StartEdit, RunWhatever, Create
  <2>2. CASE Stop
    BY <2>2 DEF Stop, Closed
  <2>3. CASE \E s \in Sessions : Switch(s)
    BY <2>3 DEF Switch, SwitchTo
  <2> QED BY <1>1, <2>1, <2>2, <2>3, Begins DEF User
<1>2. ASSUME Callback PROVE \/ UNCHANGED <<started, stream>>
                            \/ \E i \in Streams : Quieted(i)
                            \/ \E i \in Streams : stream[i].client = "open"
                                                  /\ Begun(Closed(i))
  <2>1. CASE CreateFailed \/ \E s \in Sessions : Created(s)
    BY <2>1 DEF CreateFailed, Created, SwitchTo
  <2>2. ASSUME NEW k \in Loads, Repaint(k) \/ Show(k) PROVE UNCHANGED <<started, stream>>
    BY <2>2 DEF Repaint, Show
  <2>3. ASSUME NEW i \in Streams, Finished(i) \/ Refused(i) PROVE Quieted(i)
    BY <2>3 DEF Finished, Refused, Fetch, Quieted
  <2>4. ASSUME NEW i \in Streams, Interrupted(i)
        PROVE  Quieted(i) \/ (stream[i].client = "open" /\ Begun(Closed(i)))
    <3>1. CASE whatever[current]
      BY <2>4, <3>1, Begins DEF Interrupted
    <3>2. CASE ~whatever[current]
      BY <2>4, <3>2 DEF Interrupted, Quieted
    <3> QED BY <3>1, <3>2
  <2> QED BY <1>2, <2>1, <2>2, <2>3, <2>4 DEF Callback
<1>3. ASSUME Backend PROVE \/ UNCHANGED <<started, stream>>
                           \/ StreamsOK' /\ UNCHANGED started /\ \A i \in Streams : Same(i)
  <2>1. ASSUME NEW k \in Loads, Serve(k) PROVE UNCHANGED <<started, stream>>
    BY <2>1 DEF Serve
  <2>2. ASSUME NEW s \in Sessions, Make(s) PROVE UNCHANGED <<started, stream>>
    BY <2>2 DEF Make
  <2> QED BY <1>3, <2>1, <2>2, NewsType, TypeParts DEF Backend, IInv
<1>4. ASSUME UNCHANGED vars PROVE UNCHANGED <<started, stream>>
  BY <1>4 DEF vars
<1> QED BY <1>1, <1>2, <1>3, <1>4 DEF Next

(***************************************************************************)
(* Streams keep their types and stay numbered without gaps.                *)
(***************************************************************************)
LEMMA StreamsStep ==
  ASSUME IInv, [Next]_vars
  PROVE  /\ StreamsOK' /\ started' \in started..started + 1
         /\ \A i \in 1..started' : stream'[i].run \in 1..started'
         /\ \A i \in 1..started : /\ stream'[i].run = stream[i].run
                                  /\ stream'[i].session = stream[i].session
<1> USE TypeParts DEF IInv
<1>0. started \in 0..MaxStreams /\ 1..started \subseteq Streams
      /\ \A i \in 1..started : stream[i].run \in 1..started
  BY BoundsAssumption DEF StreamsOK, Streams, Numbered
<1> DEFINE Good == /\ StreamsOK' /\ started' \in started..started + 1
                   /\ \A i \in 1..started' : stream'[i].run \in 1..started'
                   /\ \A i \in 1..started : /\ stream'[i].run = stream[i].run
                                            /\ stream'[i].session = stream[i].session
<1>1. CASE UNCHANGED <<started, stream>>
  BY <1>0, <1>1 DEF StreamsOK
<1>2. CASE StreamsOK' /\ UNCHANGED started /\ \A i \in Streams : Same(i)
  BY <1>0, <1>2 DEF Same
<1>3. ASSUME NEW i \in Streams, stream[i].client # "none", started' = started,
             stream' = Closed(i)
      PROVE  Good
  BY <1>0, <1>3, ClosedType DEF StreamsOK
<1>4. CASE sending /\ streamAbort # 0 /\ started' = started /\ stream' = Closed(streamAbort)
  <2>1. streamAbort \in 1..started
    BY <1>0, <1>4 DEF Numbered, ScreenOK
  <2>2. stream[streamAbort].client # "none" /\ streamAbort \in Streams
    BY <1>0, <2>1 DEF StreamsOK
  <2> QED BY <1>3, <1>4, <2>2
<1>5. CASE \E i \in Streams : Quieted(i)
  BY <1>3, <1>5 DEF Quieted
<1>6. CASE Reload
  <2>1. started' = started /\
        stream' = [i \in Streams |->
                     IF i \in Open THEN [stream[i] EXCEPT !.client = "over"] ELSE stream[i]]
    BY <1>6 DEF Reload
  <2>2. stream' \in [Streams -> StreamRecords]
    BY <2>1 DEF StreamsOK, StreamRecords
  <2>3. \A i \in Streams : /\ stream'[i].run = stream[i].run
                           /\ stream'[i].session = stream[i].session
                           /\ stream'[i].client = "none" <=> stream[i].client = "none"
    BY <2>1 DEF StreamsOK, StreamRecords, Open
  <2> QED BY <1>0, <2>1, <2>2, <2>3 DEF StreamsOK
<1>7. ASSUME NEW others \in [Streams -> StreamRecords], Begun(others),
             \A i \in Streams : /\ others[i].client = "none" <=> i > started
                                /\ others[i].session = stream[i].session
                                /\ others[i].run = stream[i].run
      PROVE  Good
  <2>1. PICK run \in 1..started + 1, edit \in 0..MaxStreams :
          /\ run = started + 1 \/ run = card \/ \E i \in Open : run = stream[i].run
          /\ Start(current, IF run = started + 1 THEN 0 ELSE run, edit, others)
    BY <1>7 DEF Begun
  <2>2. started + 1 \in Streams
    BY <1>0, <2>1, BoundsAssumption DEF Start, Streams
  <2> DEFINE asked == IF run = started + 1 THEN 0 ELSE run
  <2>3. asked \in 0..MaxStreams /\ current \in Sessions
    BY <1>0, <2>1, <2>2, BoundsAssumption DEF SessionsOK, Streams
  <2>4. Start(current, asked, edit, others)
    BY <2>1
  <2>5. (IF asked = 0 THEN started + 1 ELSE asked) = run
    BY <1>0, <2>1
  <2> HIDE DEF asked
  <2>6. StreamsOK' /\ started' = started + 1 /\ stream'[started + 1].run = run
        /\ \A i \in Streams \ {started + 1} : stream'[i] = others[i]
    <3>1. \A i \in Streams : others[i].client = "none" <=> i > started
      BY <1>7
    <3>2. /\ StreamsOK' /\ started' = started + 1
          /\ stream'[started + 1] =
               [session |-> current, run |-> IF asked = 0 THEN started + 1 ELSE asked,
                edit |-> edit, client |-> "open", server |-> "none", how |-> "none"]
          /\ \A i \in Streams \ {started + 1} : stream'[i] = others[i]
      BY <2>3, <2>4, <3>1, StartType
    <3> QED BY <2>5, <3>2
  <2>7. \A i \in 1..started : i \in Streams \ {started + 1}
    BY <1>0
  <2> QED BY <1>0, <1>7, <2>1, <2>6, <2>7
<1>8. CASE Begun(stream)
  BY <1>7, <1>8 DEF StreamsOK
<1>9. CASE \E i \in Streams : stream[i].client = "open" /\ Begun(Closed(i))
  <2>1. PICK i \in Streams : stream[i].client = "open" /\ Begun(Closed(i))
    BY <1>9
  <2> QED BY <1>7, <2>1, ClosedType
<1> QED BY <1>1, <1>2, <1>4, <1>5, <1>6, <1>8, <1>9, StreamCases

-----------------------------------------------------------------------------
(* Loads *)

\* An answered load keeps its session and its purpose.
LEMMA ServeType ==
  ASSUME TypeOK, NEW k \in Loads, Serve(k)
  PROVE  /\ LoadsOK' /\ load'[k].at = "answered"
         /\ load'[k].session = load[k].session /\ load'[k].restore = load[k].restore
         /\ load'[k].answer \in {"row", "missing", "error", "lost"}
         /\ load'[k].answer \in {"row", "missing"} \/ blurred'
         /\ \A j \in Loads \ {k} : load'[j] = load[j]
<1> USE TypeParts
<1>1. PICK answer \in {"row", "missing", "error", "lost"}, texts \in Seq(Streams) :
        /\ load' = [load EXCEPT ![k].at = "answered", ![k].answer = answer,
                                ![k].texts = texts]
        /\ answer \in {"row", "missing"} \/ blurred'
  <2>1. Texts(load[k].session) \in Seq(Streams) /\ <<>> \in Seq(Streams)
    BY TextsType DEF LoadsOK, LoadRecords
  <2>2. CASE load' = [load EXCEPT ![k].at = "answered",
                        ![k].answer = IF owner[load[k].session] = "other" THEN "missing"
                                      ELSE "row",
                        ![k].texts = Texts(load[k].session)]
    <3>1. CASE owner[load[k].session] = "other"
      BY <2>1, <2>2, <3>1
    <3>2. CASE owner[load[k].session] # "other"
      BY <2>1, <2>2, <3>2
    <3> QED BY <3>1, <3>2
  <2>3. ASSUME NEW failure \in {"error", "lost"},
               load' = [load EXCEPT ![k].at = "answered", ![k].answer = failure,
                                    ![k].texts = <<>>],
               blurred' = TRUE
        PROVE  \E answer \in {"row", "missing", "error", "lost"}, texts \in Seq(Streams) :
                 /\ load' = [load EXCEPT ![k].at = "answered", ![k].answer = answer,
                                         ![k].texts = texts]
                 /\ answer \in {"row", "missing"} \/ blurred'
    BY <2>1, <2>3
  <2> QED BY <2>2, <2>3 DEF Serve
<1>2. loads' = loads /\ load[k].at = "sent"
  BY DEF Serve
<1> DEFINE middle == [load EXCEPT ![k].at = "answered", ![k].answer = answer]
<1>3. middle \in [Loads -> LoadRecords] /\ load' = [middle EXCEPT ![k].texts = texts]
  BY <1>1 DEF LoadsOK, LoadRecords
<1>4. /\ middle[k].at = "answered" /\ middle[k].answer = answer
      /\ middle[k].session = load[k].session /\ middle[k].restore = load[k].restore
      /\ \A j \in Loads \ {k} : middle[j] = load[j]
  BY DEF LoadsOK, LoadRecords
<1> HIDE DEF middle
<1>5. load' \in [Loads -> LoadRecords] /\ \A j \in Loads \ {k} : load'[j] = load[j]
  BY <1>3, <1>4 DEF LoadRecords
<1>6. /\ load'[k].at = "answered" /\ load'[k].answer = answer
      /\ load'[k].session = load[k].session /\ load'[k].restore = load[k].restore
  BY <1>3, <1>4 DEF LoadRecords
<1>7. \A j \in Loads : load'[j].at = "none" <=> j > loads
  BY <1>2, <1>5, <1>6 DEF LoadsOK
<1> QED BY <1>1, <1>2, <1>5, <1>6, <1>7 DEF LoadsOK

\* A page that is opened anew waits for one load, and every earlier one is over.
LEMMA ReloadType ==
  ASSUME LoadsOK, current \in Sessions, Reload
  PROVE  /\ LoadsOK' /\ loads + 1 \in Loads
         /\ load'[loads + 1].session = current
         /\ \A k \in Loads \ {loads + 1} : load'[k].at \in {"none", "over"}
<1> DEFINE new == [Unsent EXCEPT !.session = current, !.restore = TRUE, !.at = "sent"]
<1>1. loads + 1 \in Loads /\ loads \in 0..MaxLoads /\ loads' = loads + 1
  BY BoundsAssumption DEF Reload, LoadsOK, Loads
<1>2. new \in LoadRecords /\ new.at = "sent" /\ new.session = current
  BY UnsentType DEF LoadRecords
<1>3. Forgotten \in LoadRecords /\ Forgotten.at = "over"
  BY UnsentType DEF Forgotten, LoadRecords
<1>4. load' = [k \in Loads |-> IF k = loads + 1 THEN new
                               ELSE IF k \in Pending THEN Forgotten ELSE load[k]]
  BY DEF Reload
<1> HIDE DEF new
<1>5. load' \in [Loads -> LoadRecords] /\ load'[loads + 1] = new
  BY <1>1, <1>2, <1>3, <1>4 DEF LoadsOK
<1>6. ASSUME NEW k \in Loads \ {loads + 1}
      PROVE  /\ load'[k].at \in {"none", "over"}
             /\ load'[k].at = "none" <=> k > loads + 1
  <2>1. k > loads <=> k > loads + 1
    BY <1>1, <1>6 DEF Loads
  <2>2. load[k].at = "none" <=> k > loads
    BY DEF LoadsOK
  <2>3. CASE k \in Pending
    BY <1>3, <1>4, <2>1, <2>2, <2>3 DEF Pending
  <2>4. CASE k \notin Pending
    BY <1>4, <2>1, <2>2, <2>4 DEF Pending, LoadsOK, LoadRecords
  <2> QED BY <2>3, <2>4
<1>7. loads' \in 0..MaxLoads /\ ~(loads + 1 > loads')
  BY <1>1 DEF Loads
<1> QED BY <1>1, <1>2, <1>5, <1>6, <1>7 DEF LoadsOK

\* What a step may do to the loads.
LEMMA LoadCases ==
  ASSUME [Next]_vars
  PROVE  \/ UNCHANGED <<loads, load>>
         \/ Fetch(current', FALSE) /\ (\E s \in Sessions : SwitchTo(s) /\ s = current')
         \/ \E i \in Streams : Refused(i)
         \/ \E k \in Loads : load[k].at = "answered" /\ Over(k) /\ (Repaint(k) \/ Show(k))
         \/ \E k \in Loads : Serve(k)
         \/ Reload
<1>1. CASE \/ StartEdit \/ RunWhatever \/ Create \/ Stop \/ Send \/ Answer
           \/ \E k \in Streams : Edit(k)
  BY <1>1 DEF StartEdit, RunWhatever, Create, Stop, Send, Answer, Edit, NoFetch
<1>2. ASSUME NEW s \in Sessions, SwitchTo(s)
      PROVE  Fetch(current', FALSE) /\ SwitchTo(s) /\ s = current'
  BY <1>2 DEF SwitchTo
<1>3. CASE \E i \in Streams : Finished(i) \/ Interrupted(i) \/ Accept(i) \/ Finish(i) \/ Drop(i)
  BY <1>3 DEF Finished, Interrupted, Accept, Finish, Drop, NoFetch
<1>4. CASE \E k \in Loads : Repaint(k) \/ Show(k)
  BY <1>4 DEF Repaint, Show
<1>5. CASE CreateFailed \/ \E s \in Sessions : Created(s) \/ Make(s)
  BY <1>2, <1>5 DEF CreateFailed, Created, Make, NoFetch
<1>6. CASE \E s \in Sessions : Switch(s)
  BY <1>2, <1>6 DEF Switch
<1>7. CASE UNCHANGED vars
  BY <1>7 DEF vars
<1> QED BY <1>1, <1>3, <1>4, <1>5, <1>6, <1>7 DEF Next, User, Callback, Backend

(***************************************************************************)
(* Loads keep their types and stay numbered without gaps.                  *)
(***************************************************************************)
LEMMA LoadsStep ==
  ASSUME TypeOK, SessionsOK', [Next]_vars
  PROVE  LoadsOK'
<1> USE TypeParts
<1>1. CASE UNCHANGED <<loads, load>>
  BY <1>1 DEF LoadsOK
<1>2. CASE Fetch(current', FALSE)
  BY <1>2, FetchType DEF SessionsOK
<1>3. CASE \E i \in Streams : Refused(i)
  BY <1>3, FetchType DEF Refused, SessionsOK
<1>4. CASE \E k \in Loads : load[k].at = "answered" /\ Over(k)
  BY <1>4, OverType
<1>5. CASE \E k \in Loads : Serve(k)
  BY <1>5, ServeType
<1>6. CASE Reload
  BY <1>6, ReloadType DEF SessionsOK
<1> QED BY <1>1, <1>2, <1>3, <1>4, <1>5, <1>6, LoadCases

(***************************************************************************)
(* A load has an answer when it is painted, so that these are all cases.   *)
(***************************************************************************)
LEMMA RepaintCases ==
  ASSUME IInv, NEW k \in Loads, Repaint(k)
  PROVE  /\ load[k].at = "answered" /\ load[k].restore /\ Over(k)
         /\ UNCHANGED <<hitl, whatever, creation, started, stream, owner, rows, lost, hasty,
                        blurred, streamAbort>>
         /\ \/ /\ view' = [session |-> load[k].session, texts |-> load[k].texts]
               /\ sending' = FALSE /\ card' = hitl[sessionId]
               /\ UNCHANGED <<current, sessionId, ids, moved>>
            \/ \E s \in Sessions \ ids :
                 /\ ids' = ids \cup {s} /\ current' = s /\ sessionId' = s
                 /\ view' = [session |-> s, texts |-> <<>>]
                 /\ sending' = FALSE /\ card' = hitl[s]
                 /\ moved' = (moved \/ Open # {})
            \/ /\ sending' = FALSE /\ card' = hitl[sessionId]
               /\ UNCHANGED <<current, sessionId, view, ids, moved>>
            \/ /\ load[k].answer = "lost"
               /\ UNCHANGED <<current, sessionId, sending, card, view, ids, moved>>
<1>1. load[k].answer \in {"row", "missing", "error", "lost"}
  BY TypeParts DEF IInv, Answered, Repaint, LoadsOK, LoadRecords
<1>2. streamAbort' = streamAbort
  BY <1>1 DEF Repaint, Restored, screen
<1>3. CASE load[k].answer = "row"
  BY <1>2, <1>3 DEF Repaint, Restored, backend
<1>4. CASE load[k].answer = "missing"
  BY <1>2, <1>4 DEF Repaint, Restored, backend
<1>5. CASE load[k].answer = "error"
  BY <1>2, <1>5 DEF Repaint, Restored, backend
<1>6. CASE load[k].answer = "lost"
  BY <1>2, <1>6 DEF Repaint, Restored, backend, screen
<1> QED BY <1>1, <1>3, <1>4, <1>5, <1>6

\* A load that was answered has an answer.
LEMMA AnsweredStep ==
  ASSUME IInv, SessionsOK', [Next]_vars
  PROVE  Answered'
<1> USE TypeParts DEF IInv
<1>1. ASSUME NEW k \in Loads, load'[k].at # "answered",
             \A j \in Loads \ {k} : load'[j] = load[j]
      PROVE  Answered'
  BY <1>1 DEF Answered
<1>2. CASE UNCHANGED <<loads, load>>
  BY <1>2 DEF Answered
<1>3. ASSUME NEW s \in Sessions, NEW restore \in BOOLEAN, Fetch(s, restore)
      PROVE  Answered'
  <2>1. /\ loads + 1 \in Loads /\ \A k \in Loads \ {loads + 1} : load'[k] = load[k]
        /\ load'[loads + 1] = [session |-> s, restore |-> restore, at |-> "sent",
                               answer |-> "none", texts |-> <<>>]
    BY <1>3, FetchType
  <2>2. load'[loads + 1].at # "answered"
    BY <2>1
  <2> QED BY <1>1, <2>1, <2>2
<1>4. CASE \E i \in Streams : Refused(i)
  BY <1>3, <1>4 DEF Refused, SessionsOK
<1>5. CASE \E k \in Loads : load[k].at = "answered" /\ Over(k)
  BY <1>1, <1>5, OverType
<1>6. CASE \E k \in Loads : Serve(k)
  BY <1>6, ServeType DEF Answered
<1>7. CASE Reload
  <2>1. loads + 1 \in Loads /\ \A k \in Loads \ {loads + 1} : load'[k].at \in {"none", "over"}
    BY <1>7, ReloadType DEF SessionsOK
  <2>2. load'[loads + 1] = [Unsent EXCEPT !.session = current, !.restore = TRUE, !.at = "sent"]
    BY <1>7, <2>1 DEF Reload
  <2>3. load'[loads + 1].at = "sent"
    BY <2>2, UnsentType DEF LoadRecords
  <2> QED BY <2>1, <2>3 DEF Answered
<1> QED BY <1>2, <1>3, <1>4, <1>5, <1>6, <1>7, LoadCases DEF SessionsOK

-----------------------------------------------------------------------------
(* Types *)

(***************************************************************************)
(* Sessions, cards and records of paused runs keep their types.            *)
(***************************************************************************)
LEMMA SessionsStep ==
  ASSUME IInv, [Next]_vars
  PROVE  SessionsOK'
<1> USE TypeParts DEF IInv, SessionsOK, local, screen, backend, history
<1>0. 0 \in 0..MaxStreams /\ started \in Nat
  BY BoundsAssumption DEF StreamsOK
<1>1. CASE \/ Send \/ Answer \/ StartEdit \/ RunWhatever \/ Stop \/ Create \/ Reload
           \/ \E k \in Streams : Edit(k)
  BY <1>0, <1>1 DEF Send, Answer, StartEdit, RunWhatever, Stop, Create, Reload, Edit
<1>2. ASSUME NEW s \in Sessions, SwitchTo(s), UNCHANGED <<owner, lost, ids>>
      PROVE  SessionsOK'
  BY <1>2 DEF SwitchTo
<1>3. CASE \E s \in Sessions : Switch(s) \/ Created(s)
  BY <1>2, <1>3 DEF Switch, Created
<1>4. CASE CreateFailed \/ \E s \in Sessions : Make(s)
  <2>1. ASSUME NEW s \in Sessions, Make(s) PROVE SessionsOK'
    BY <2>1, AdmitType DEF Make
  <2> QED BY <1>4, <2>1 DEF CreateFailed
<1>5. ASSUME NEW i \in Streams, Finished(i) \/ Refused(i)
      PROVE  SessionsOK'
  BY <1>5 DEF Finished, Refused
<1>6. ASSUME NEW i \in Streams, Interrupted(i)
      PROVE  SessionsOK'
  <2>1. stream[i].run \in 0..MaxStreams
    BY DEF StreamsOK, StreamRecords
  <2> QED BY <1>0, <1>6, <2>1 DEF Interrupted
<1>7. ASSUME NEW k \in Loads, Repaint(k) PROVE SessionsOK'
  BY <1>7, RepaintCases
<1>8. ASSUME NEW k \in Loads, Show(k) PROVE SessionsOK'
  <2>1. load[k].session \in Sessions
    BY DEF LoadsOK, LoadRecords
  <2> QED BY <1>8, <2>1 DEF Show, Restored
<1>9. ASSUME NEW i \in Streams, Accept(i) PROVE SessionsOK'
  <2>1. stream[i].session \in Sessions
    BY DEF StreamsOK, StreamRecords
  <2>2. UNCHANGED backend \/ Admit(stream[i].session)
    BY <1>9 DEF Accept
  <2>3. UNCHANGED <<local, screen, ids>>
    BY <1>9 DEF Accept
  <2>4. /\ owner' \in [Sessions -> {"nobody", "visitor", "other"}]
        /\ lost' \subseteq Sessions
    BY <2>1, <2>2, AdmitType
  <2> QED BY <2>3, <2>4
<1>10. ASSUME NEW i \in Streams, Finish(i) PROVE SessionsOK'
  <2>1. stream[i].session \in Sessions
    BY DEF StreamsOK, StreamRecords
  <2>2. UNCHANGED backend \/ CameBack(i)
    BY <1>10 DEF Finish
  <2>3. UNCHANGED <<local, screen, ids>>
    BY <1>10 DEF Finish
  <2>4. /\ owner' \in [Sessions -> {"nobody", "visitor", "other"}]
        /\ lost' \subseteq Sessions
    BY <2>1, <2>2, CameBackType
  <2> QED BY <2>3, <2>4
<1>11. CASE \/ \E i \in Streams : Drop(i)
            \/ \E k \in Loads : Serve(k)
            \/ UNCHANGED vars
  BY <1>11 DEF Drop, Serve, vars
<1> QED BY <1>1, <1>3, <1>4, <1>5, <1>6, <1>7, <1>8, <1>9, <1>10, <1>11
        DEF Next, User, Callback, Backend

(***************************************************************************)
(* Which steps give streamAbort, the card and the records new values.      *)
(***************************************************************************)
LEMMA NumberedStep ==
  ASSUME IInv, [Next]_vars
  PROVE  Numbered' /\ streamAbort' \in Nat
<1> USE TypeParts DEF IInv, local, screen, backend, history
<1>0. /\ started \in Nat /\ started' \in Nat /\ started <= started'
      /\ \A i \in 1..started' : stream'[i].run \in 1..started'
  BY StreamsStep DEF StreamsOK
<1>1. \A i \in Streams : stream[i].client # "none" => stream[i].run <= started
  BY DEF StreamsOK, Streams, Numbered
<1> DEFINE Old(n) == n = 0 \/ n = card \/ n = streamAbort \/ (\E s \in Sessions : n = hitl[s])
                     \/ (\E i \in Streams : stream[i].client # "none" /\ n = stream[i].run)
<1>2. \A n : Old(n) => n <= started'
  BY <1>0, <1>1, BoundsAssumption DEF Numbered, SessionsOK, ScreenOK, StreamsOK, StreamRecords
<1>3. streamAbort' = streamAbort \/ streamAbort' = 0 \/ streamAbort' = started'
  <2>1. CASE User
    BY <2>1 DEF User, Send, Answer, StartEdit, RunWhatever, Stop, Create, Reload, Edit,
                Start, Switch, SwitchTo
  <2>2. ASSUME NEW i \in Streams, Finished(i) \/ Refused(i) \/ Interrupted(i)
        PROVE  streamAbort' = streamAbort \/ streamAbort' = 0 \/ streamAbort' = started'
    BY <2>2 DEF Finished, Refused, Interrupted, Start
  <2>3. CASE Backend \/ UNCHANGED vars
    BY <2>3 DEF Backend, Make, Accept, Finish, Drop, Serve, vars
  <2>4. ASSUME NEW k \in Loads, Repaint(k) \/ Show(k) PROVE streamAbort' = streamAbort
    BY <2>4, RepaintCases DEF Show, Restored
  <2>5. CASE CreateFailed \/ \E s \in Sessions : Created(s)
    BY <2>5 DEF CreateFailed, Created, SwitchTo
  <2> QED BY <2>1, <2>2, <2>3, <2>4, <2>5 DEF Next, Callback
<1>4. Old(card')
  <2>1. CASE User
    BY <2>1 DEF User, Send, Answer, StartEdit, RunWhatever, Stop, Create, Reload, Edit,
                Switch, SwitchTo
  <2>2. ASSUME NEW i \in Streams, Finished(i) \/ Refused(i) \/ Interrupted(i)
        PROVE  Old(card')
    BY <2>2 DEF Finished, Refused, Interrupted
  <2>3. ASSUME NEW k \in Loads, Repaint(k) PROVE Old(card')
    BY <2>3, RepaintCases DEF SessionsOK
  <2>4. ASSUME NEW k \in Loads, Show(k) PROVE Old(card')
    <3>1. load[k].session \in Sessions
      BY DEF LoadsOK, LoadRecords
    <3> QED BY <2>4, <3>1 DEF Show, Restored
  <2>5. CASE CreateFailed \/ \E s \in Sessions : Created(s)
    BY <2>5 DEF CreateFailed, Created, SwitchTo
  <2>6. CASE Backend \/ UNCHANGED vars
    BY <2>6 DEF Backend, Make, Accept, Finish, Drop, Serve, vars
  <2> QED BY <2>1, <2>2, <2>3, <2>4, <2>5, <2>6 DEF Next, Callback
<1>5. \A s \in Sessions : Old(hitl'[s])
  <2>1. CASE User
    BY <2>1 DEF User, Send, Answer, StartEdit, RunWhatever, Stop, Create, Reload, Edit,
                Switch, SwitchTo, SessionsOK
  <2>2. ASSUME NEW i \in Streams, Finished(i) \/ Refused(i) \/ Interrupted(i)
        PROVE  \A s \in Sessions : Old(hitl'[s])
    BY <2>2 DEF Finished, Refused, Interrupted, SessionsOK
  <2>3. ASSUME NEW k \in Loads, Repaint(k) \/ Show(k) PROVE hitl' = hitl
    BY <2>3 DEF Repaint, Show
  <2>4. CASE CreateFailed \/ \E s \in Sessions : Created(s)
    BY <2>4 DEF CreateFailed, Created, SwitchTo
  <2>5. CASE Backend \/ UNCHANGED vars
    BY <2>5 DEF Backend, Make, Accept, Finish, Drop, Serve, vars
  <2> QED BY <2>1, <2>2, <2>3, <2>4, <2>5 DEF Next, Callback
<1>6. streamAbort' \in Nat
  BY <1>0, <1>3, BoundsAssumption DEF ScreenOK
<1> HIDE DEF Old
<1>7. streamAbort' <= started'
  BY <1>0, <1>2, <1>3 DEF Old
<1> QED BY <1>0, <1>2, <1>4, <1>5, <1>6, <1>7 DEF Numbered

(***************************************************************************)
(* Switches of the page and histories are Boolean.                         *)
(***************************************************************************)
LEMMA ScreenStep ==
  ASSUME IInv, [Next]_vars
  PROVE  ScreenOK'
<1> USE TypeParts DEF IInv, ScreenOK, local, screen, backend, history
<1>1. streamAbort' \in 0..MaxStreams
  <2>1. started' \in 0..MaxStreams
    BY StreamsStep DEF StreamsOK
  <2>2. streamAbort' \in Nat /\ streamAbort' <= started'
    BY NumberedStep DEF Numbered
  <2> QED BY <2>1, <2>2, BoundsAssumption
<1> DEFINE Creations == [Sessions -> {"none", "sent", "left", "made"}]
<1>0. GivenUp \in Creations
  BY DEF GivenUp
<1>2. ASSUME User PROVE sending' \in BOOLEAN /\ creation' \in Creations
  <2>1. CASE Create
    BY <2>1 DEF Create
  <2>2. CASE User /\ ~Create
    BY <1>0, <2>2 DEF User, Send, Answer, StartEdit, RunWhatever, Stop, Reload, Edit,
                      Start, Switch, SwitchTo
  <2> QED BY <1>2, <2>1, <2>2
<1>3. ASSUME User PROVE moved' \in BOOLEAN /\ hasty' \in BOOLEAN /\ blurred' \in BOOLEAN
  BY <1>3 DEF User, Send, Answer, StartEdit, RunWhatever, Stop, Create, Reload, Edit,
              Switch, SwitchTo
<1>4. ASSUME NEW i \in Streams, Finished(i) \/ Refused(i) \/ Interrupted(i)
      PROVE  ScreenOK'
  BY <1>1, <1>4 DEF Finished, Refused, Interrupted, Start
<1>5. ASSUME NEW k \in Loads, Repaint(k) PROVE ScreenOK'
  BY <1>1, <1>5, RepaintCases
<1>6. ASSUME NEW k \in Loads, Show(k) PROVE ScreenOK'
  BY <1>1, <1>6 DEF Show, Restored
<1>7. CASE CreateFailed \/ \E s \in Sessions : Created(s) \/ Make(s)
  <2>1. ASSUME NEW s \in Sessions, Created(s) \/ Make(s) PROVE ScreenOK'
    BY <1>1, <2>1 DEF Created, Make, SwitchTo
  <2>2. CASE CreateFailed
    BY <1>0, <1>1, <2>2 DEF CreateFailed
  <2> QED BY <1>7, <2>1, <2>2
<1>8. ASSUME NEW k \in Loads, Serve(k) PROVE ScreenOK'
  <2>1. blurred' \in BOOLEAN
    BY <1>8 DEF Serve
  <2> QED BY <1>1, <1>8, <2>1 DEF Serve
<1>9. CASE \/ \E i \in Streams : Accept(i) \/ Finish(i) \/ Drop(i)
           \/ UNCHANGED vars
  BY <1>1, <1>9 DEF Accept, Finish, Drop, vars
<1> QED BY <1>1, <1>2, <1>3, <1>4, <1>5, <1>6, <1>7, <1>8, <1>9 DEF Next, Callback, Backend

(***************************************************************************)
(* Texts are lists of streams: in the view, in the answer of a load and in *)
(* the rows.                                                               *)
(***************************************************************************)
LEMMA CutType ==
  ASSUME NEW list \in Seq(Streams), NEW k \in DOMAIN list
  PROVE  SubSeq(list, 1, k - 1) \in Seq(Streams)
OBVIOUS

\* What an accepted post or edit leaves is a list of texts.
LEMMA StoredType ==
  ASSUME TypeOK, NEW i \in Streams,
         stream[i].edit # 0 => Places(Texts(stream[i].session), stream[i].edit) # {}
  PROVE  Stored(i) \in Seq(Streams)
<1> DEFINE old == Texts(stream[i].session)
           place == CHOOSE k \in Places(old, stream[i].edit) : TRUE
           kept == IF stream[i].edit = 0 THEN old ELSE SubSeq(old, 1, place - 1)
<1>1. old \in Seq(Streams)
  BY TypeParts, TextsType DEF StreamsOK, StreamRecords
<1>2. stream[i].edit # 0 => place \in 1..Len(old)
  BY <1>1 DEF Places
<1> HIDE DEF old, place
<1>3. kept \in Seq(Streams)
  BY <1>1, <1>2
<1> HIDE DEF kept
<1>4. Append(kept, i) \in Seq(Streams)
  BY <1>3
<1> QED BY <1>4 DEF Stored, old, place, kept

\* The texts in rows, views and answers are those of streams that were started.
LEMMA TextsStep ==
  ASSUME IInv, [Next]_vars
  PROVE  TextsOK'
<1> USE TypeParts DEF IInv, local, screen, backend, history
<1>0. /\ started' \in 0..MaxStreams /\ started \in 0..MaxStreams
      /\ view.texts \in Seq(Streams) /\ <<>> \in Seq(Streams)
      /\ current \in Sessions /\ sessionId \in Sessions
  BY StreamsStep DEF StreamsOK, TextsOK, SessionsOK
<1>1. CASE Send
  <2>1. started + 1 \in Streams
    BY <1>0, <1>1, BoundsAssumption DEF Send, Start, Streams
  <2>2. Append(view.texts, started + 1) \in Seq(Streams)
    BY <1>0, <2>1
  <2> QED BY <1>1, <2>2 DEF Send, TextsOK
<1>2. ASSUME NEW k \in Streams, Edit(k) PROVE TextsOK'
  <2>1. started + 1 \in Streams
    BY <1>0, <1>2, BoundsAssumption DEF Edit, Start, Streams
  <2>2. SubSeq(view.texts, 1, k - 1) \in Seq(Streams)
    BY <1>0, <1>2, CutType DEF Edit
  <2>3. Append(SubSeq(view.texts, 1, k - 1), started + 1) \in Seq(Streams)
    BY <2>1, <2>2
  <2> QED BY <1>2, <2>3 DEF Edit, TextsOK
<1>3. CASE Reload
  BY <1>0, <1>3 DEF Reload, TextsOK
<1>4. ASSUME NEW k \in Loads, Repaint(k) \/ Show(k) PROVE TextsOK'
  <2>1. load[k].session \in Sessions /\ load[k].texts \in Seq(Streams)
    BY DEF LoadsOK, LoadRecords
  <2>2. CASE Repaint(k)
    <3>1. view' = [session |-> load[k].session, texts |-> load[k].texts]
          \/ (\E s \in Sessions : view' = [session |-> s, texts |-> <<>>])
          \/ view' = view
      BY <2>2, RepaintCases
    <3>2. rows' = rows
      BY <2>2, RepaintCases
    <3>3. view' \in [session : Sessions, texts : Seq(Streams)]
      <4>1. ASSUME NEW s \in Sessions, NEW texts \in Seq(Streams)
            PROVE  [session |-> s, texts |-> texts] \in [session : Sessions, texts : Seq(Streams)]
        OBVIOUS
      <4>2. CASE view' = view
        BY <4>2 DEF TextsOK
      <4> QED BY <1>0, <2>1, <3>1, <4>1, <4>2
    <3> QED BY <3>2, <3>3 DEF TextsOK
  <2>3. CASE Show(k)
    BY <2>1, <2>3 DEF Show, TextsOK
  <2> QED BY <1>4, <2>2, <2>3
<1>5. ASSUME NEW i \in Streams, Accept(i) PROVE TextsOK'
  <2>1. CASE rows' = rows
    BY <1>5, <2>1 DEF Accept, TextsOK
  <2>2. CASE ~(rows' = rows)
    <3>1. rows' = [rows EXCEPT ![stream[i].session] = Stored(i)]
      BY <1>5, <2>2 DEF Accept
    <3>2. stream[i].edit # 0 => Places(Texts(stream[i].session), stream[i].edit) # {}
      BY <1>5, <2>2 DEF Accept
    <3> QED BY <1>5, <3>1, <3>2, StoredType DEF Accept, TextsOK
  <2> QED BY <2>1, <2>2
<1>6. CASE \/ Answer \/ StartEdit \/ RunWhatever \/ Stop \/ Create
           \/ \E s \in Sessions : Switch(s)
  BY <1>6 DEF Answer, StartEdit, RunWhatever, Stop, Create, Switch, SwitchTo, TextsOK
<1>7. CASE \/ CreateFailed \/ \E s \in Sessions : Created(s) \/ Make(s)
           \/ \E i \in Streams : Finished(i) \/ Refused(i) \/ Interrupted(i)
  BY <1>7 DEF CreateFailed, Created, Make, SwitchTo, Finished, Refused, Interrupted, TextsOK
<1>8. ASSUME NEW i \in Streams, Finish(i) PROVE TextsOK'
  <2>1. view' = view /\ (UNCHANGED backend \/ CameBack(i))
    BY <1>8 DEF Finish
  <2>2. stream[i].session \in Sessions
    BY DEF StreamsOK, StreamRecords
  <2> QED BY <2>1, <2>2, CameBackType DEF TextsOK
<1>9. CASE \/ \E i \in Streams : Drop(i)
           \/ \E k \in Loads : Serve(k)
           \/ UNCHANGED vars
  BY <1>9 DEF Drop, Serve, vars, TextsOK
<1> QED BY <1>1, <1>2, <1>3, <1>4, <1>5, <1>6, <1>7, <1>8, <1>9 DEF Next, User, Callback, Backend

(***************************************************************************)
(* The page's variables keep their types and its numbers stay in use.      *)
(***************************************************************************)
THEOREM Inductive == Spec => []IInv
<1>1. IInv /\ [Next]_vars => IInv'
  <2> SUFFICES ASSUME IInv, [Next]_vars PROVE IInv'
    OBVIOUS
  <2>1. SessionsOK' /\ StreamsOK' /\ ScreenOK' /\ TextsOK' /\ Numbered'
    BY SessionsStep, StreamsStep, ScreenStep, TextsStep, NumberedStep
  <2>2. LoadsOK' /\ Answered'
    BY <2>1, LoadsStep, AnsweredStep DEF IInv
  <2>3. TypeOK'
    BY <2>1, <2>2 DEF TypeOK, StreamsOK, LoadsOK, SessionsOK, ScreenOK, TextsOK,
                      StreamRecords, LoadRecords
  <2> QED BY <2>1, <2>2, <2>3 DEF IInv
<1> QED BY <1>1, InitIInv, PTL DEF Spec

(***************************************************************************)
(* Type correctness of the page's state in app.js.                         *)
(***************************************************************************)
THEOREM TypeCorrect == Spec => []TypeOK
<1>1. IInv => TypeOK
  BY DEF IInv
<1> QED BY <1>1, Inductive, PTL

-----------------------------------------------------------------------------
(* The stop button *)

(***************************************************************************)
(* While a stream is open no load is on its way and no card is shown: so   *)
(* nothing resets sending under it, and no second stream starts.           *)
(***************************************************************************)
Undisturbed == ~moved /\ ~hasty =>
  /\ Open = IF sending THEN {streamAbort} ELSE {}
  /\ Open # {} => Pending = {} /\ card = 0

(***************************************************************************)
(* The set of open streams after each kind of step.                        *)
(***************************************************************************)
LEMMA OpenAfter ==
  ASSUME IInv
  PROVE  /\ \A i \in Streams : stream[i].client # "none" /\ stream' = Closed(i)
              => Open' = Open \ {i}
         /\ \A i \in Streams : Begun(Closed(i)) /\ stream[i].client = "open"
              => Open' = (Open \ {i}) \cup {started + 1} /\ sending' = TRUE
                 /\ streamAbort' = started + 1
         /\ Begun(stream) => Open' = Open \cup {started + 1} /\ sending' = TRUE
                             /\ streamAbort' = started + 1
         /\ (\A i \in Streams : Same(i)) => Open' = Open
         /\ Reload => Open' = {}
<1> USE TypeParts DEF IInv
<1>1. ASSUME NEW i \in Streams, stream[i].client # "none", stream' = Closed(i)
      PROVE  Open' = Open \ {i}
  <2>1. stream'[i].client = "over" /\ \A j \in Streams \ {i} : stream'[j] = stream[j]
    BY <1>1, ClosedType
  <2> QED BY <2>1 DEF Open
<1>2. ASSUME NEW others \in [Streams -> StreamRecords],
             \A j \in Streams : others[j].client = "none" <=> j > started,
             Begun(others)
      PROVE  /\ Open' = {j \in Streams : others[j].client = "open"} \cup {started + 1}
             /\ sending' = TRUE /\ streamAbort' = started + 1
  <2>1. PICK run \in 1..started + 1, edit \in 0..MaxStreams :
          Start(current, IF run = started + 1 THEN 0 ELSE run, edit, others)
    BY <1>2 DEF Begun
  <2>2. (IF run = started + 1 THEN 0 ELSE run) \in 0..MaxStreams
    BY <2>1, BoundsAssumption DEF Start, StreamsOK
  <2> DEFINE asked == IF run = started + 1 THEN 0 ELSE run
  <2> HIDE DEF asked
  <2>3. Start(current, asked, edit, others) /\ asked \in 0..MaxStreams
        /\ current \in Sessions
    BY <2>1, <2>2 DEF asked, SessionsOK
  <2>4. /\ sending' = TRUE /\ streamAbort' = started + 1 /\ started + 1 \in Streams
        /\ stream'[started + 1] =
             [session |-> current, run |-> IF asked = 0 THEN started + 1 ELSE asked,
              edit |-> edit, client |-> "open", server |-> "none", how |-> "none"]
        /\ \A j \in Streams \ {started + 1} : stream'[j] = others[j]
    BY <1>2, <2>3, StartType
  <2>5. stream'[started + 1].client = "open"
    BY <2>4
  <2> QED BY <2>4, <2>5 DEF Open
<1>3. ASSUME NEW i \in Streams, stream[i].client = "open", Begun(Closed(i))
      PROVE  Open' = (Open \ {i}) \cup {started + 1} /\ sending' = TRUE
             /\ streamAbort' = started + 1
  <2>1. /\ Closed(i) \in [Streams -> StreamRecords] /\ Closed(i)[i].client = "over"
        /\ \A j \in Streams : Closed(i)[j].client = "none" <=> j > started
        /\ \A j \in Streams \ {i} : Closed(i)[j] = stream[j]
    BY <1>3, ClosedType
  <2>2. {j \in Streams : Closed(i)[j].client = "open"} = Open \ {i}
    BY <2>1 DEF Open
  <2> QED BY <1>2, <1>3, <2>1, <2>2
<1>4. Begun(stream) => Open' = Open \cup {started + 1} /\ sending' = TRUE
                       /\ streamAbort' = started + 1
  BY <1>2 DEF StreamsOK, Open
<1>5. (\A i \in Streams : Same(i)) => Open' = Open
  BY DEF Same, Open
<1>6. Reload => Open' = {}
  BY DEF Reload, Open, StreamsOK, StreamRecords
<1> QED BY <1>1, <1>3, <1>4, <1>5, <1>6

(***************************************************************************)
(* The loads on their way after each kind of step.                         *)
(***************************************************************************)
LEMMA PendingAfter ==
  ASSUME IInv
  PROVE  /\ \A s \in Sessions, restore \in BOOLEAN : Fetch(s, restore)
              => Pending' = Pending \cup {loads + 1}
         /\ \A k \in Loads : load[k].at = "answered" /\ Over(k)
              => k \in Pending /\ Pending' = Pending \ {k}
         /\ \A k \in Loads : Serve(k) => Pending' = Pending
         /\ load' = load => Pending' = Pending
<1> USE TypeParts DEF IInv
<1>1. ASSUME NEW s \in Sessions, NEW restore \in BOOLEAN, Fetch(s, restore)
      PROVE  Pending' = Pending \cup {loads + 1}
  <2>1. /\ loads + 1 \in Loads /\ \A k \in Loads \ {loads + 1} : load'[k] = load[k]
        /\ load'[loads + 1] = [session |-> s, restore |-> restore, at |-> "sent",
                               answer |-> "none", texts |-> <<>>]
    BY <1>1, FetchType
  <2>2. load'[loads + 1].at = "sent"
    BY <2>1
  <2> QED BY <2>1, <2>2 DEF Pending
<1>2. ASSUME NEW k \in Loads, load[k].at = "answered", Over(k)
      PROVE  k \in Pending /\ Pending' = Pending \ {k}
  BY <1>2, OverType DEF Pending
<1>3. ASSUME NEW k \in Loads, Serve(k) PROVE Pending' = Pending
  <2>1. load[k].at = "sent" /\ load'[k].at = "answered"
        /\ \A j \in Loads \ {k} : load'[j] = load[j]
    BY <1>3, ServeType DEF Serve
  <2> QED BY <2>1 DEF Pending
<1> QED BY <1>1, <1>2, <1>3 DEF Pending

(***************************************************************************)
(* The histories of the page only ever turn TRUE.                          *)
(***************************************************************************)
LEMMA HistoriesStay ==
  ASSUME IInv, [Next]_vars
  PROVE  (moved => moved') /\ (hasty => hasty') /\ (blurred => blurred')
<1> USE TypeParts DEF IInv, ScreenOK, local, screen, backend, history
<1> DEFINE Good == (moved => moved') /\ (hasty => hasty') /\ (blurred => blurred')
<1>1. ASSUME \/ Send \/ Answer \/ StartEdit \/ RunWhatever \/ Stop \/ Create \/ Reload
             \/ \E k \in Streams : Edit(k)
      PROVE  Good
  BY <1>1 DEF Send, Answer, StartEdit, RunWhatever, Stop, Create, Reload, Edit
<1>2. ASSUME NEW s \in Sessions, SwitchTo(s) PROVE Good
  BY <1>2 DEF SwitchTo
<1>3. ASSUME CreateFailed \/ \E s \in Sessions : Created(s) \/ Make(s) PROVE Good
  BY <1>2, <1>3 DEF CreateFailed, Created, Make
<1>4. ASSUME NEW i \in Streams, Finished(i) \/ Interrupted(i) PROVE Good
  BY <1>4 DEF Finished, Interrupted
<1>5. ASSUME NEW i \in Streams, Refused(i) PROVE Good
  BY <1>5 DEF Refused
<1>6. ASSUME NEW k \in Loads, Repaint(k) PROVE Good
  <2>1. UNCHANGED <<hasty, blurred>> /\ (moved' = moved \/ moved' = (moved \/ Open # {}))
    BY <1>6, RepaintCases
  <2> QED BY <2>1
<1>7. ASSUME NEW k \in Loads, Show(k) PROVE Good
  BY <1>7 DEF Show
<1>8. ASSUME NEW i \in Streams, Accept(i) \/ Finish(i) \/ Drop(i) PROVE Good
  BY <1>8 DEF Accept, Finish, Drop
<1>9. ASSUME NEW k \in Loads, Serve(k) PROVE Good
  BY <1>9 DEF Serve
<1>10. ASSUME UNCHANGED vars PROVE Good
  BY <1>10 DEF vars
<1>11. ASSUME NEW s \in Sessions, Switch(s) PROVE Good
  BY <1>2, <1>11 DEF Switch
<1> HIDE DEF Good
<1>12. Good
  BY <1>1, <1>3, <1>4, <1>5, <1>6, <1>7, <1>8, <1>9, <1>10, <1>11
     DEF Next, User, Callback, Backend
<1> QED BY <1>12 DEF Good

(***************************************************************************)
(* No step disturbs a stream, in a history in which none began while a     *)
(* load was on its way and no session changed under one.                   *)
(***************************************************************************)
LEMMA UndisturbedStep ==
  ASSUME IInv, Undisturbed, [Next]_vars
  PROVE  Undisturbed'
<1> USE TypeParts DEF IInv, local, screen, backend, history
<1> SUFFICES ASSUME ~moved', ~hasty'
             PROVE  /\ Open' = IF sending' THEN {streamAbort'} ELSE {}
                    /\ Open' # {} => Pending' = {} /\ card' = 0
  BY DEF Undisturbed
<1> DEFINE Good == /\ Open' = IF sending' THEN {streamAbort'} ELSE {}
                   /\ Open' # {} => Pending' = {} /\ card' = 0
<1>1. /\ ~moved /\ ~hasty
      /\ Open = IF sending THEN {streamAbort} ELSE {}
      /\ Open # {} => Pending = {} /\ card = 0
      /\ card \in Nat /\ sending \in BOOLEAN
  <2>1. ~moved /\ ~hasty
    BY HistoriesStay
  <2> QED BY <2>1, BoundsAssumption DEF Undisturbed, SessionsOK, ScreenOK
<1>2. \A i \in Open : i = streamAbort /\ Open = {i}
  BY <1>1
<1>3. ASSUME UNCHANGED <<stream, load, sending, streamAbort>>, card' = card \/ card' = 0
      PROVE  Good
  <2>1. Open' = Open /\ Pending' = Pending
    BY <1>3 DEF Open, Pending
  <2> QED BY <1>1, <1>3, <2>1
<1>4. ASSUME Begun(stream), Open = {}, load' = load, card' = 0,
             hasty' = (hasty \/ Pending # {})
      PROVE  Good
  <2>1. Open' = {started + 1} /\ sending' = TRUE /\ streamAbort' = started + 1
    BY <1>4, OpenAfter
  <2>2. Pending' = {}
    BY <1>4 DEF Pending
  <2> QED BY <1>4, <2>1, <2>2
<1>5. ASSUME Send PROVE Good
  BY <1>1, <1>4, <1>5, Begins DEF Send, NoFetch
<1>6. ASSUME NEW k \in Streams, Edit(k) PROVE Good
  BY <1>1, <1>4, <1>6, Begins DEF Edit, NoFetch
<1>7. ASSUME Answer PROVE Good
  BY <1>1, <1>4, <1>7, Begins DEF Answer, NoFetch
<1>8. ASSUME StartEdit \/ RunWhatever \/ Create PROVE Good
  BY <1>3, <1>8 DEF StartEdit, RunWhatever, Create, NoFetch
<1>9. ASSUME Stop PROVE Good
  <2>1. streamAbort \in Open
    BY <1>1, <1>9 DEF Stop
  <2>2. streamAbort \in Streams /\ stream[streamAbort].client # "none"
    BY <2>1 DEF Open
  <2>3. Open' = Open \ {streamAbort}
    BY <1>9, <2>2, OpenAfter DEF Stop, Closed
  <2> QED BY <1>2, <1>9, <2>1, <2>3 DEF Stop
<1>10. ASSUME Reload PROVE Good
  BY <1>10, OpenAfter DEF Reload
<1>11. ASSUME NEW s \in Sessions, SwitchTo(s) PROVE Good
  <2>1. Open = {} /\ Open' = {}
    BY <1>1, <1>11 DEF SwitchTo, Open
  <2> QED BY <1>1, <1>11, <2>1 DEF SwitchTo
<1>12. ASSUME CreateFailed \/ \E s \in Sessions : Created(s) \/ Make(s) PROVE Good
  BY <1>3, <1>11, <1>12 DEF CreateFailed, Created, Make, NoFetch
<1>13. ASSUME NEW i \in Streams, Finished(i) \/ Refused(i) PROVE Good
  <2>1. i \in Open /\ stream' = Closed(i) /\ sending' = FALSE
    BY <1>13 DEF Finished, Refused, Open
  <2>2. Open' = Open \ {i}
    BY <2>1, OpenAfter DEF Open
  <2> QED BY <1>2, <2>1, <2>2
<1>14. ASSUME NEW i \in Streams, Interrupted(i) PROVE Good
  <2>1. i \in Open /\ load' = load
    BY <1>14 DEF Interrupted, Open, NoFetch
  <2>2. Pending' = {}
    BY <1>1, <2>1 DEF Pending
  <2>3. CASE whatever[current]
    <3>1. Begun(Closed(i)) /\ stream[i].client = "open" /\ card' = 0
      BY <1>14, <2>3, Begins DEF Interrupted
    <3>2. Open' = {started + 1} /\ sending' = TRUE /\ streamAbort' = started + 1
      BY <1>2, <2>1, <3>1, OpenAfter
    <3> QED BY <2>2, <3>1, <3>2
  <2>4. CASE ~whatever[current]
    <3>1. stream' = Closed(i) /\ sending' = FALSE
      BY <1>14, <2>4 DEF Interrupted
    <3>2. Open' = Open \ {i}
      BY <2>1, <3>1, OpenAfter DEF Open
    <3> QED BY <1>2, <2>1, <3>1, <3>2
  <2> QED BY <2>3, <2>4
<1>15. ASSUME NEW k \in Loads, load[k].at = "answered", stream' = stream,
              sending' = FALSE \/ sending' = sending, streamAbort' = streamAbort
       PROVE  Good
  <2>1. Open = {}
    BY <1>1, <1>15 DEF Pending
  <2>2. Open' = {} /\ ~sending
    BY <1>1, <1>15, <2>1 DEF Open
  <2> QED BY <1>1, <1>15, <2>2
<1>16. ASSUME NEW k \in Loads, Repaint(k) PROVE Good
  BY <1>15, <1>16, RepaintCases
<1>17. ASSUME NEW k \in Loads, Show(k) PROVE Good
  BY <1>15, <1>17 DEF Show, Restored
<1>18. ASSUME NEW i \in Streams, Accept(i) \/ Finish(i) \/ Drop(i) PROVE Good
  <2>1. Open' = Open
    BY <1>18, NewsType, OpenAfter
  <2>2. UNCHANGED <<load, sending, streamAbort, card>>
    BY <1>18 DEF Accept, Finish, Drop, NoFetch
  <2>3. Pending' = Pending
    BY <2>2 DEF Pending
  <2> QED BY <1>1, <2>1, <2>2, <2>3
<1>19. ASSUME NEW k \in Loads, Serve(k) PROVE Good
  <2>1. Pending' = Pending
    BY <1>19, PendingAfter
  <2>2. UNCHANGED <<stream, sending, streamAbort, card>>
    BY <1>19 DEF Serve
  <2>3. Open' = Open
    BY <2>2 DEF Open
  <2> QED BY <1>1, <2>1, <2>2, <2>3
<1>20. ASSUME UNCHANGED vars PROVE Good
  BY <1>3, <1>20 DEF vars
<1>21. ASSUME \E s \in Sessions : Switch(s) PROVE Good
  BY <1>11, <1>21 DEF Switch
<1> HIDE DEF Good
<1>22. Good
  BY <1>5, <1>6, <1>7, <1>8, <1>9, <1>10, <1>12, <1>13, <1>14, <1>16, <1>17, <1>18, <1>19,
     <1>20, <1>21 DEF Next, User, Callback, Backend
<1> QED BY <1>22 DEF Good

(***************************************************************************)
(* The stop button reaches the one open stream, for any number of streams  *)
(* and loads, unless a stream began while a load was on its way or a       *)
(* session changed under one.                                              *)
(***************************************************************************)
THEOREM StopReaches == Spec => []StopReachesStream
<1>1. Init => Undisturbed
  BY UnsentType DEF Init, Undisturbed, Open
<1>2. IInv /\ Undisturbed /\ [Next]_vars => Undisturbed'
  BY UndisturbedStep
<1>3. Undisturbed => StopReachesStream
  BY DEF Undisturbed, StopReachesStream
<1> QED BY <1>1, <1>2, <1>3, Inductive, PTL DEF Spec

-----------------------------------------------------------------------------
(* Paused runs *)

\* A record of a paused run is in its own session.
Kept == \A s \in Sessions : hitl[s] # 0 => Home(hitl[s]) = s

\* A run is resumed in its own session.
Resumed == \A i \in 1..started : stream[i].session = Home(stream[i].run)

\* The card is the current session's, unless a load is about to replace it.
Offered == card # 0 /\ Pending = {} => Home(card) = current

\* A stream is the current session's.
Here == \A i \in Open : stream[i].session = current

\* One load at most is on its way: the current session's, and it succeeds.
Loading == \A k \in Pending :
  /\ Pending = {k} /\ load[k].session = current
  /\ load[k].restore => sessionId = current
  /\ load[k].at = "answered" => load[k].answer \in {"row", "missing"}

AtHome == ~moved /\ ~hasty /\ ~blurred =>
            Kept /\ Resumed /\ Offered /\ Here /\ Loading

(***************************************************************************)
(* The next stream belongs where its run does.                             *)
(***************************************************************************)
LEMMA BegunAtHome ==
  ASSUME IInv, Resumed, Here, card # 0 => Home(card) = current, current' = current,
         NEW others \in [Streams -> StreamRecords], Begun(others),
         \A i \in Streams : /\ others[i].client = "none" <=> i > started
                            /\ others[i].client = "open" => stream[i].client = "open"
                            /\ others[i].session = stream[i].session
                            /\ others[i].run = stream[i].run
  PROVE  Resumed' /\ Here'
<1> USE TypeParts DEF IInv
<1>1. PICK run \in 1..started + 1, edit \in 0..MaxStreams :
        /\ run = started + 1 \/ run = card \/ \E i \in Open : run = stream[i].run
        /\ Start(current, IF run = started + 1 THEN 0 ELSE run, edit, others)
  BY DEF Begun
<1>0. started \in 0..MaxStreams /\ started + 1 \in Streams
      /\ 1..started \subseteq Streams \ {started + 1}
  BY <1>1, BoundsAssumption DEF Start, Streams, StreamsOK
<1> DEFINE asked == IF run = started + 1 THEN 0 ELSE run
<1>2. asked \in 0..MaxStreams /\ current \in Sessions
  BY <1>0, <1>1, BoundsAssumption DEF SessionsOK, Streams
<1>3. Start(current, asked, edit, others)
  BY <1>1
<1>4. (IF asked = 0 THEN started + 1 ELSE asked) = run
  BY <1>0, <1>1
<1> HIDE DEF asked
<1>5. \A i \in Streams : others[i].client = "none" <=> i > started
  OBVIOUS
<1>6. /\ started' = started + 1
      /\ stream'[started + 1] =
           [session |-> current, run |-> IF asked = 0 THEN started + 1 ELSE asked,
            edit |-> edit, client |-> "open", server |-> "none", how |-> "none"]
      /\ \A i \in Streams \ {started + 1} : stream'[i] = others[i]
  BY <1>2, <1>3, <1>5, StartType
<1>7. stream'[started + 1].session = current /\ stream'[started + 1].run = run
  BY <1>4, <1>6
<1>8. \A i \in Streams \ {started + 1} : /\ stream'[i].session = stream[i].session
                                         /\ stream'[i].run = stream[i].run
                                         /\ stream'[i].client = "open" => i \in Open
  BY <1>6 DEF Open
<1>9. stream'[run].session = current
  <2>1. CASE run = started + 1
    BY <1>7, <2>1
  <2>2. CASE run # started + 1 /\ run = card
    <3>1. run \in 1..started
      BY <1>0, <1>1, <2>2
    <3> QED BY <1>0, <1>8, <2>2, <3>1 DEF Home
  <2>3. CASE run # started + 1 /\ \E i \in Open : run = stream[i].run
    <3>1. PICK i \in Open : run = stream[i].run
      BY <2>3
    <3>2. i \in 1..started /\ run \in 1..started
      BY <1>0, <1>1, <2>3 DEF Open, StreamsOK, Streams
    <3>3. Home(run) = current
      BY <3>1, <3>2 DEF Resumed, Here
    <3> QED BY <1>0, <1>8, <3>2, <3>3 DEF Home
  <2> QED BY <1>1, <2>1, <2>2, <2>3
<1>10. ASSUME NEW i \in 1..started' PROVE stream'[i].session = stream'[stream'[i].run].session
  <2>1. CASE i = started + 1
    BY <1>7, <1>9, <2>1 DEF Home
  <2>2. CASE i # started + 1
    <3>1. i \in 1..started
      BY <1>0, <1>6, <2>2
    <3>2. stream[i].run \in 1..started /\ stream[i].session = Home(stream[i].run)
      BY <3>1 DEF Numbered, Resumed
    <3> QED BY <1>0, <1>8, <3>1, <3>2 DEF Home
  <2> QED BY <2>1, <2>2
<1>11. ASSUME NEW i \in Open' PROVE stream'[i].session = current'
  BY <1>7, <1>8, <1>11 DEF Open, Here
<1> QED BY <1>10, <1>11 DEF Resumed, Here, Home

(***************************************************************************)
(* A run stays where it began; steps that begin no stream leave every      *)
(* stream in its place.                                                    *)
(***************************************************************************)
LEMMA HomesStay ==
  ASSUME IInv, [Next]_vars
  PROVE  /\ \A run \in 1..started : Home(run)' = Home(run)
         /\ started' = started /\ Resumed => Resumed'
         /\ Open' \subseteq Open /\ current' = current /\ Here => Here'
         /\ \A s \in Sessions : hitl[s] # 0 => hitl[s] \in 1..started
         /\ card # 0 => card \in 1..started
<1> USE TypeParts DEF IInv
<1>0. started \in Nat /\ started \in 0..MaxStreams
  BY BoundsAssumption DEF StreamsOK
<1>1. \A run \in 1..started : Home(run)' = Home(run)
  BY StreamsStep DEF Home
<1>2. \A s \in Sessions : hitl[s] # 0 => hitl[s] \in 1..started
  <2> SUFFICES ASSUME NEW s \in Sessions, hitl[s] # 0 PROVE hitl[s] \in 1..started
    OBVIOUS
  <2>1. hitl[s] \in 0..MaxStreams /\ hitl[s] <= started
    BY DEF SessionsOK, Numbered
  <2> QED BY <1>0, <2>1, BoundsAssumption
<1>3. card # 0 => card \in 1..started
  BY <1>0, BoundsAssumption DEF SessionsOK, Numbered
<1>4. started' = started /\ Resumed => Resumed'
  <2> SUFFICES ASSUME started' = started, Resumed, NEW i \in 1..started
               PROVE  stream'[i].session = stream'[stream'[i].run].session
    BY DEF Resumed, Home
  <2>1. stream'[i].session = stream[i].session /\ stream'[i].run = stream[i].run
    BY StreamsStep
  <2>2. stream[i].run \in 1..started
    BY DEF Numbered
  <2> QED BY <1>1, <2>1, <2>2 DEF Resumed, Home
<1>5. Open' \subseteq Open /\ current' = current /\ Here => Here'
  <2> SUFFICES ASSUME Open' \subseteq Open, current' = current, Here, NEW i \in Open'
               PROVE  stream'[i].session = current
    BY DEF Here
  <2>1. i \in Open /\ i \in 1..started
    BY <1>0 DEF Open, StreamsOK, Streams
  <2>2. stream'[i].session = stream[i].session
    BY <2>1, StreamsStep
  <2> QED BY <2>1, <2>2 DEF Here
<1> QED BY <1>1, <1>2, <1>3, <1>4, <1>5

(***************************************************************************)
(* A load that is sent when no other is on its way finds its session.      *)
(***************************************************************************)
LEMMA FetchAtHome ==
  ASSUME IInv, NEW s \in Sessions, NEW restore \in BOOLEAN, Fetch(s, restore),
         Pending = {}, current' = s, restore => sessionId' = s
  PROVE  Loading' /\ Pending' # {}
<1>1. /\ loads + 1 \in Loads
      /\ load'[loads + 1] = [session |-> s, restore |-> restore, at |-> "sent",
                             answer |-> "none", texts |-> <<>>]
  BY FetchType, TypeParts DEF IInv
<1>2. /\ load'[loads + 1].session = s /\ load'[loads + 1].restore = restore
      /\ load'[loads + 1].at = "sent"
  BY <1>1
<1>3. Pending' = {loads + 1}
  BY PendingAfter
<1> QED BY <1>2, <1>3 DEF Loading

(***************************************************************************)
(* No step takes a paused run away from its session, in a history in which *)
(* the user waits for loads and they succeed.                              *)
(***************************************************************************)
LEMMA AtHomeStep ==
  ASSUME IInv, Undisturbed, AtHome, [Next]_vars
  PROVE  AtHome'
<1> USE TypeParts DEF IInv, local, screen, backend, history
<1> DEFINE Good == Kept' /\ Resumed' /\ Offered' /\ Here' /\ Loading'
<1> SUFFICES ASSUME ~moved', ~hasty', ~blurred' PROVE Good
  BY DEF AtHome
<1>1. /\ ~moved /\ ~hasty /\ ~blurred /\ Kept /\ Resumed /\ Offered /\ Here /\ Loading
      /\ Open # {} => Pending = {} /\ card = 0
      /\ current \in Sessions /\ sessionId \in Sessions
      /\ \A i \in Open : Open = {i}
  <2>1. ~moved /\ ~hasty /\ ~blurred
    BY HistoriesStay
  <2> QED BY <2>1 DEF AtHome, Undisturbed, SessionsOK
<1>2. /\ \A run \in 1..started : Home(run)' = Home(run)
      /\ started' = started => Resumed'
      /\ Open' \subseteq Open /\ current' = current => Here'
      /\ \A s \in Sessions : hitl[s] # 0 => hitl[s] \in 1..started
      /\ card # 0 => card \in 1..started
  BY <1>1, HomesStay
<1>3. ASSUME \A s \in Sessions : hitl'[s] = 0 \/ hitl'[s] = hitl[s] PROVE Kept'
  <2> SUFFICES ASSUME NEW s \in Sessions, hitl'[s] # 0 PROVE stream'[hitl'[s]].session = s
    BY <1>3 DEF Kept, Home
  <2>1. hitl'[s] = hitl[s] /\ hitl[s] # 0
    BY <1>3
  <2> QED BY <1>1, <1>2, <2>1 DEF Kept, Home
<1>4. ASSUME NEW s \in Sessions, hitl' = [hitl EXCEPT ![s] = 0] \/ hitl' = hitl PROVE Kept'
  BY <1>3, <1>4 DEF SessionsOK
<1>5. ASSUME card' = 0 PROVE Offered'
  BY <1>5 DEF Offered
<1>6. ASSUME card' = card, current' = current, Pending' = Pending PROVE Offered'
  BY <1>1, <1>2, <1>6 DEF Offered, Home
<1>7. ASSUME NEW s \in Sessions, card' = hitl[s], current' = s PROVE Offered'
  BY <1>1, <1>2, <1>7 DEF Offered, Kept, Home
<1>8. ASSUME UNCHANGED <<load, current, sessionId>> PROVE Loading' /\ Pending' = Pending
  BY <1>1, <1>8 DEF Loading, Pending
<1>9. ASSUME Begun(stream), load' = load, hasty' = (hasty \/ Pending # {}),
             UNCHANGED <<current, sessionId>>, card' = 0,
             hitl' = [hitl EXCEPT ![current] = 0]
      PROVE  Good
  <2>1. card # 0 => Home(card) = current
    BY <1>1, <1>9 DEF Offered
  <2>2. Resumed' /\ Here'
    BY <1>1, <1>9, <2>1, BegunAtHome DEF StreamsOK
  <2> QED BY <1>1, <1>4, <1>5, <1>8, <1>9, <2>2
<1>10. ASSUME Send PROVE Good
  BY <1>9, <1>10, Begins DEF Send, NoFetch
<1>11. ASSUME NEW k \in Streams, Edit(k) PROVE Good
  BY <1>9, <1>11, Begins DEF Edit, NoFetch
<1>12. ASSUME Answer PROVE Good
  BY <1>9, <1>12, Begins DEF Answer, NoFetch
<1>13. ASSUME StartEdit \/ RunWhatever \/ Create PROVE Good
  <2>1. /\ UNCHANGED <<load, current, sessionId, hitl, started, stream>>
        /\ card' = 0 \/ card' = card
    BY <1>13 DEF StartEdit, RunWhatever, Create, NoFetch
  <2>2. Open' = Open
    BY <2>1 DEF Open
  <2> QED BY <1>1, <1>2, <1>4, <1>5, <1>6, <1>8, <2>1, <2>2
<1>14. ASSUME Stop PROVE Good
  <2>1. UNCHANGED <<load, current, sessionId, hitl, started, card>>
    BY <1>14 DEF Stop, NoFetch
  <2>2. streamAbort \in Streams /\ stream[streamAbort].client # "none"
    BY <1>1, <1>14 DEF Stop, Undisturbed, Open
  <2>3. Open' \subseteq Open
    BY <1>14, <2>2, OpenAfter DEF Stop, Closed
  <2> QED BY <1>1, <1>2, <1>4, <1>6, <1>8, <2>1, <2>3
<1>15. ASSUME Reload PROVE Good
  <2>1. UNCHANGED <<current, hitl, started>> /\ sessionId' = current
    BY <1>15 DEF Reload
  <2>2. Open' = {}
    BY <1>15, OpenAfter
  <2>3. /\ loads + 1 \in Loads /\ load'[loads + 1].session = current
        /\ \A k \in Loads \ {loads + 1} : load'[k].at \in {"none", "over"}
    BY <1>1, <1>15, ReloadType
  <2>4. load'[loads + 1].at = "sent"
    <3>1. load'[loads + 1] = [Unsent EXCEPT !.session = current, !.restore = TRUE, !.at = "sent"]
      BY <1>15, <2>3 DEF Reload
    <3> QED BY <3>1, UnsentType DEF LoadRecords
  <2>5. Pending' = {loads + 1}
    BY <2>3, <2>4 DEF Pending
  <2>6. Loading' /\ Offered'
    BY <2>1, <2>3, <2>4, <2>5 DEF Loading, Offered
  <2> QED BY <1>1, <1>2, <1>4, <2>1, <2>2, <2>6
<1>16. ASSUME NEW s \in Sessions, SwitchTo(s) PROVE Good
  <2>1. UNCHANGED <<hitl, started, stream>> /\ current' = s /\ Fetch(s, FALSE)
        /\ Open = {} /\ Pending = {}
    BY <1>1, <1>16 DEF SwitchTo
  <2>2. Loading' /\ Pending' # {}
    BY <2>1, FetchAtHome
  <2>3. Open' = {}
    BY <2>1 DEF Open
  <2> QED BY <1>1, <1>2, <1>4, <2>1, <2>2, <2>3 DEF Offered, Here
<1>17. ASSUME CreateFailed \/ \E s \in Sessions : Created(s) \/ Make(s) PROVE Good
  <2>1. CASE UNCHANGED <<load, current, sessionId, hitl, started, stream, card>>
    <3>1. Open' = Open
      BY <2>1 DEF Open
    <3> QED BY <1>1, <1>2, <1>4, <1>6, <1>8, <2>1, <3>1
  <2> QED BY <1>16, <1>17, <2>1 DEF CreateFailed, Created, Make, NoFetch
<1>18. ASSUME NEW s \in Sessions, Switch(s) PROVE Good
  BY <1>16, <1>18 DEF Switch
<1>19. ASSUME NEW i \in Streams, Finished(i) PROVE Good
  <2>1. UNCHANGED <<load, current, sessionId, hitl, started, card>>
    BY <1>19 DEF Finished, NoFetch
  <2>2. Open' \subseteq Open
    BY <1>19, OpenAfter DEF Finished
  <2> QED BY <1>1, <1>2, <1>4, <1>6, <1>8, <2>1, <2>2
<1>20. ASSUME NEW i \in Streams, Refused(i) PROVE Good
  <2>1. /\ UNCHANGED <<current, hitl, started>> /\ sessionId' = current
        /\ Fetch(current, TRUE) /\ Pending = {}
    BY <1>1, <1>20 DEF Refused
  <2>2. Open' \subseteq Open
    BY <1>20, OpenAfter DEF Refused
  <2>3. Loading' /\ Pending' # {}
    BY <1>1, <2>1, FetchAtHome
  <2> QED BY <1>1, <1>2, <1>4, <2>1, <2>2, <2>3 DEF Offered
<1>21. ASSUME NEW i \in Streams, Interrupted(i) PROVE Good
  <2>1. i \in Open /\ UNCHANGED <<load, current, sessionId>>
    BY <1>21 DEF Interrupted, Open, NoFetch
  <2>2. Pending = {} /\ card = 0
    BY <1>1, <2>1
  <2>3. CASE whatever[current]
    <3>1. Begun(Closed(i)) /\ card' = 0 /\ hitl' = [hitl EXCEPT ![current] = 0]
      BY <1>21, <2>3, Begins DEF Interrupted
    <3>2. Closed(i) \in [Streams -> StreamRecords] /\
          \A j \in Streams : /\ Closed(i)[j].client = "none" <=> j > started
                             /\ Closed(i)[j].client = "open" => stream[j].client = "open"
                             /\ Closed(i)[j].session = stream[j].session
                             /\ Closed(i)[j].run = stream[j].run
      BY <2>1, ClosedType DEF Open
    <3>3. Resumed' /\ Here'
      BY <1>1, <2>1, <2>2, <3>1, <3>2, BegunAtHome
    <3> QED BY <1>1, <1>4, <1>5, <1>8, <2>1, <3>1, <3>3
  <2>4. CASE ~whatever[current]
    <3> DEFINE run == stream[i].run
    <3>1. /\ UNCHANGED started /\ stream' = Closed(i) /\ card' = run
          /\ hitl' = [hitl EXCEPT ![current] = run]
      BY <1>21, <2>4 DEF Interrupted
    <3>2. i \in 1..started /\ run \in 1..started
      BY <2>1 DEF Open, StreamsOK, Streams, Numbered
    <3>3. Home(run) = current
      BY <1>1, <2>1, <3>2 DEF Resumed, Here
    <3>4. Open' \subseteq Open
      BY <2>1, <3>1, OpenAfter DEF Open
    <3> HIDE DEF run
    <3>5. stream'[run].session = current
      <4>1. stream'[run].session = stream[run].session
        BY <3>2, StreamsStep
      <4> QED BY <3>3, <4>1 DEF Home
    <3>6. Offered'
      BY <2>1, <3>1, <3>5 DEF Offered, Home
    <3>7. Kept'
      <4> SUFFICES ASSUME NEW s \in Sessions, hitl'[s] # 0
                   PROVE  stream'[hitl'[s]].session = s
        BY DEF Kept, Home
      <4>1. CASE s = current
        BY <1>1, <3>1, <3>5, <4>1 DEF SessionsOK, Home
      <4>2. CASE s # current
        <5>1. hitl'[s] = hitl[s]
          BY <3>1, <4>2 DEF SessionsOK
        <5> QED BY <1>1, <1>2, <5>1 DEF Kept, Home
      <4> QED BY <4>1, <4>2
    <3> QED BY <1>2, <1>8, <2>1, <3>1, <3>4, <3>6, <3>7
  <2> QED BY <2>3, <2>4
<1>22. ASSUME NEW k \in Loads, load[k].at = "answered", Over(k), started' = started,
              hitl' = hitl, stream' = stream, NEW s \in Sessions, card' = hitl[s], current' = s
       PROVE  Good
  <2>1. Pending = {k} /\ Pending' = {}
    BY <1>1, <1>22, PendingAfter DEF Loading
  <2>2. Open' = {}
    BY <1>1, <1>22, <2>1 DEF Open
  <2>3. Loading' /\ Here'
    BY <2>1, <2>2 DEF Loading, Here
  <2> QED BY <1>1, <1>2, <1>4, <1>7, <1>22, <2>3
<1>23. ASSUME NEW k \in Loads, Repaint(k) PROVE Good
  <2>1. load[k].at = "answered" /\ Over(k) /\ UNCHANGED <<started, hitl, stream>>
    BY <1>23, RepaintCases
  <2>2. k \in Pending /\ sessionId = current /\ load[k].answer # "lost"
    BY <1>1, <1>23, <2>1, RepaintCases DEF Loading, Pending
  <2>3. \E s \in Sessions : card' = hitl[s] /\ current' = s
    BY <1>1, <1>23, <2>2, RepaintCases
  <2> QED BY <1>22, <2>1, <2>3
<1>24. ASSUME NEW k \in Loads, Show(k) PROVE Good
  <2>1. load[k].at = "answered" /\ Over(k) /\ UNCHANGED <<started, hitl, stream, current>>
    BY <1>24 DEF Show
  <2>2. load[k].session = current /\ load[k].answer # "lost"
    BY <1>1, <2>1 DEF Loading, Pending
  <2>3. card' = hitl[current]
    BY <1>24, <2>2 DEF Show, Restored
  <2> QED BY <1>1, <1>22, <2>1, <2>3
<1>25. ASSUME NEW i \in Streams, Accept(i) \/ Finish(i) \/ Drop(i) PROVE Good
  <2>1. UNCHANGED <<load, current, sessionId, hitl, started, card>>
    BY <1>25 DEF Accept, Finish, Drop, NoFetch
  <2>2. Open' = Open
    BY <1>25, NewsType, OpenAfter
  <2> QED BY <1>1, <1>2, <1>4, <1>6, <1>8, <2>1, <2>2
<1>26. ASSUME NEW k \in Loads, Serve(k) PROVE Good
  <2>1. UNCHANGED <<current, sessionId, hitl, started, stream, card>>
    BY <1>26 DEF Serve
  <2>2. Pending' = Pending /\ Open' = Open
    BY <1>26, <2>1, PendingAfter DEF Open
  <2>3. /\ load'[k].session = load[k].session /\ load'[k].restore = load[k].restore
        /\ load'[k].answer \in {"row", "missing"}
        /\ \A j \in Loads \ {k} : load'[j] = load[j]
    BY <1>26, ServeType
  <2>4. Loading'
    BY <1>1, <2>1, <2>2, <2>3 DEF Loading, Pending
  <2> QED BY <1>1, <1>2, <1>4, <1>6, <2>1, <2>2, <2>4
<1>27. ASSUME UNCHANGED vars PROVE Good
  <2>1. UNCHANGED <<load, current, sessionId, hitl, started, stream, card>>
    BY <1>27 DEF vars
  <2>2. Open' = Open
    BY <2>1 DEF Open
  <2> QED BY <1>1, <1>2, <1>4, <1>6, <1>8, <2>1, <2>2
<1> HIDE DEF Good
<1> QED BY <1>10, <1>11, <1>12, <1>13, <1>14, <1>15, <1>17, <1>18, <1>19, <1>20, <1>21, <1>23,
           <1>24, <1>25, <1>26, <1>27 DEF Next, User, Callback, Backend

\* The two invariants hold together.
LEMMA HomesInvariant == Spec => [](Undisturbed /\ AtHome)
<1>1. Init => Undisturbed /\ AtHome
  <2> SUFFICES ASSUME Init PROVE Undisturbed /\ AtHome
    OBVIOUS
  <2>1. Open = {} /\ started = 0 /\ card = 0 /\ sessionId = current /\ current \in Sessions
    BY UnsentType DEF Init, Open
  <2>2. [Unsent EXCEPT !.session = current, !.restore = TRUE, !.at = "sent"].at = "sent"
        /\ [Unsent EXCEPT !.session = current, !.restore = TRUE, !.at = "sent"].session = current
    BY <2>1, UnsentType DEF LoadRecords
  <2> DEFINE new == [Unsent EXCEPT !.session = current, !.restore = TRUE, !.at = "sent"]
  <2>3. load = [k \in Loads |-> IF k = 1 THEN new ELSE Unsent]
    BY DEF Init
  <2>4. new.at = "sent" /\ new.session = current
    BY <2>2
  <2> HIDE DEF new
  <2>5. \A k \in Pending : k = 1 /\ load[k] = new
    BY <2>3, UnsentType DEF Pending
  <2>6. Loading
    BY <2>1, <2>4, <2>5 DEF Loading
  <2>7. Kept /\ Resumed /\ Offered /\ Here
    BY <2>1 DEF Init, Kept, Resumed, Offered, Here
  <2>8. Undisturbed
    BY <2>1 DEF Init, Undisturbed
  <2> QED BY <2>6, <2>7, <2>8 DEF AtHome
<1>2. IInv /\ Undisturbed /\ AtHome /\ [Next]_vars => Undisturbed' /\ AtHome'
  BY UndisturbedStep, AtHomeStep
<1> QED BY <1>1, <1>2, Inductive, PTL DEF Spec

(***************************************************************************)
(* A paused run is kept, offered and resumed in its own session, for any   *)
(* number of sessions, streams and loads, in the histories of RunsAtHome.  *)
(***************************************************************************)
THEOREM PausedRunsAtHome == Spec => []RunsAtHome
<1>1. AtHome => RunsAtHome
  BY DEF AtHome, RunsAtHome, Kept, Resumed, Offered
<1> QED BY <1>1, HomesInvariant, PTL

-----------------------------------------------------------------------------
(* Texts: what NothingVanishes says of one state of the streams S, the n    *)
(* streams that were started, the rows R of a session and the texts V that  *)
(* are painted.                                                             *)

IdIn(S, t) == IF S[t].edit = 0 THEN t ELSE S[t].edit

\* A list of texts: in the order in which they were sent, their ids too, and each
\* id once.
Listed(S, n, list) ==
  /\ \A a \in DOMAIN list : list[a] <= n
  /\ \A a, b \in DOMAIN list : a < b => list[a] < list[b]
  /\ \A a, b \in DOMAIN list : a < b => IdIn(S, list[a]) < IdIn(S, list[b])
  /\ \A a, b \in DOMAIN list : IdIn(S, list[a]) = IdIn(S, list[b]) => a = b

\* An edit carries the id of an earlier text, and a run of its own.
Ordered(S, n) == \A i \in 1..n : S[i].edit < i /\ (S[i].edit # 0 => S[i].run = i)

\* The view has no older text under an id than the rows have.
Newer(S, R, V) == \A k \in DOMAIN R, m \in DOMAIN V :
  IdIn(S, R[k]) = IdIn(S, V[m]) => R[k] <= V[m]

\* Stream i is an edit that was not taken, of a text at k or before.
Drops(S, s, i, R, k) ==
  /\ S[i].session = s /\ S[i].edit # 0 /\ S[i].server \in {"none", "denied"}
  /\ \A j \in DOMAIN R : IdIn(S, R[j]) = S[i].edit => j <= k

Shows(S, n, s, R, V) == \A k \in DOMAIN R :
  (\E m \in DOMAIN V : V[m] = R[k]) \/ (\E i \in R[k]..n : Drops(S, s, i, R, k))

\* A text of V that the backend took is in R.
Stores(S, R, V) == \A m \in DOMAIN V :
  S[V[m]].run = V[m] /\ S[V[m]].server \in {"running", "over"} => \E k \in DOMAIN R : R[k] = V[m]

\* new is list up to k, with x at k.
Spliced(list, k, x, new) ==
  /\ k \in 1..Len(list) + 1 /\ new \in Seq(Streams) /\ Len(new) = k /\ new[k] = x
  /\ \A a \in 1..k - 1 : new[a] = list[a]

(***************************************************************************)
(* A text at the end of a list, and a text in the place of what followed.  *)
(***************************************************************************)
LEMMA AppendSplices ==
  ASSUME NEW list \in Seq(Streams), NEW x \in Streams
  PROVE  Spliced(list, Len(list) + 1, x, Append(list, x))
BY DEF Spliced

\* An edit takes the place of what it replaces and of all that follows.
LEMMA CutSplices ==
  ASSUME NEW list \in Seq(Streams), NEW x \in Streams, NEW k \in DOMAIN list
  PROVE  Spliced(list, k, x, Append(SubSeq(list, 1, k - 1), x))
<1> DEFINE cut == SubSeq(list, 1, k - 1)
<1>1. k \in 1..Len(list)
  OBVIOUS
<1>2. /\ cut \in Seq(Streams) /\ Len(cut) = k - 1
      /\ \A a \in 1..k - 1 : cut[a] = list[a]
  BY <1>1
<1> HIDE DEF cut
<1>3. /\ Append(cut, x) \in Seq(Streams) /\ Len(Append(cut, x)) = Len(cut) + 1
      /\ Append(cut, x)[Len(cut) + 1] = x
      /\ \A a \in 1..Len(cut) : Append(cut, x)[a] = cut[a]
  BY <1>2
<1> QED BY <1>1, <1>2, <1>3 DEF Spliced, cut

\* A spliced list is as long as it must be and has the texts of both.
LEMMA SplicedTexts ==
  ASSUME NEW list \in Seq(Streams), NEW k, NEW x, NEW new, Spliced(list, k, x, new)
  PROVE  /\ DOMAIN list = 1..Len(list) /\ Len(list) \in Nat /\ k \in Nat
         /\ DOMAIN new = 1..k /\ k \in DOMAIN new
         /\ \A a \in DOMAIN new : (a = k /\ new[a] = x)
                                  \/ (a < k /\ a \in DOMAIN list /\ new[a] = list[a])
         /\ \A a \in DOMAIN list : a < k => a \in DOMAIN new /\ new[a] = list[a]
<1>1. Len(list) \in Nat /\ DOMAIN list = 1..Len(list)
  OBVIOUS
<1>2. /\ k \in 1..Len(list) + 1 /\ new \in Seq(Streams) /\ Len(new) = k /\ new[k] = x
      /\ \A a \in 1..k - 1 : new[a] = list[a]
  BY DEF Spliced
<1>3. DOMAIN new = 1..k
  BY <1>2
<1> HIDE DEF Spliced
<1> DEFINE len == Len(list)
<1>4. len \in Nat /\ DOMAIN list = 1..len /\ k \in 1..len + 1
  BY <1>1, <1>2
<1> HIDE DEF len
<1> QED BY <1>1, <1>2, <1>3, <1>4 DEF len

(***************************************************************************)
(* What an id can be.                                                      *)
(***************************************************************************)
LEMMA IdsAreEarlier ==
  ASSUME NEW S \in [Streams -> StreamRecords], NEW n \in 0..MaxStreams, Ordered(S, n),
         NEW t \in Streams, t <= n
  PROVE  IdIn(S, t) \in Nat /\ IdIn(S, t) # 0 /\ IdIn(S, t) <= t /\ t \in 1..n
<1>1. t \in 1..n /\ S[t].edit \in 0..MaxStreams
  BY BoundsAssumption DEF Streams, StreamRecords
<1> QED BY <1>1, BoundsAssumption DEF IdIn, Ordered

\* S and T are the same streams, and an edit that was not taken is not taken in T.
Alike(S, T, n) == \A i \in 1..n :
  /\ T[i].edit = S[i].edit /\ T[i].session = S[i].session
  /\ S[i].edit # 0 /\ S[i].server \in {"none", "denied"}
       => T[i].server \in {"none", "denied"}

\* The ids of the first n texts are the same.
SameIds(S, T, n) == \A i \in 1..n : T[i].edit = S[i].edit

(***************************************************************************)
(* Steps that leave rows and view alone.                                   *)
(***************************************************************************)
LEMMA AlikeTexts ==
  ASSUME NEW n \in 0..MaxStreams, NEW m \in 0..MaxStreams, n <= m, NEW S, NEW T,
         SameIds(S, T, n), NEW list \in Seq(Streams), Listed(S, n, list)
  PROVE  /\ Listed(T, m, list)
         /\ \A a \in DOMAIN list : list[a] \in 1..n /\ IdIn(T, list[a]) = IdIn(S, list[a])
<1>1. \A a \in DOMAIN list : list[a] \in Streams
  OBVIOUS
<1>2. \A a \in DOMAIN list : list[a] \in 1..n
  BY <1>1, BoundsAssumption DEF Listed, Streams
<1>3. \A a \in DOMAIN list : IdIn(T, list[a]) = IdIn(S, list[a])
  BY <1>2 DEF IdIn, SameIds
<1>4. \A a \in DOMAIN list : list[a] <= m
  BY <1>2
<1> QED BY <1>2, <1>3, <1>4 DEF Listed

\* Streams that change no id and take no edit change nothing of what is painted.
LEMMA AlikeView ==
  ASSUME NEW n \in 0..MaxStreams, NEW m \in 0..MaxStreams, n <= m, NEW S, NEW T,
         Alike(S, T, n), NEW s, NEW R \in Seq(Streams), NEW V \in Seq(Streams),
         Listed(S, n, R), Listed(S, n, V), Newer(S, R, V), Shows(S, n, s, R, V)
  PROVE  Listed(T, m, R) /\ Listed(T, m, V) /\ Newer(T, R, V) /\ Shows(T, m, s, R, V)
<1>1. /\ Listed(T, m, R) /\ \A a \in DOMAIN R : R[a] \in 1..n /\ IdIn(T, R[a]) = IdIn(S, R[a])
      /\ Listed(T, m, V) /\ \A a \in DOMAIN V : IdIn(T, V[a]) = IdIn(S, V[a])
  <2>1. SameIds(S, T, n)
    BY DEF Alike, SameIds
  <2>2. /\ Listed(T, m, R)
        /\ \A a \in DOMAIN R : R[a] \in 1..n /\ IdIn(T, R[a]) = IdIn(S, R[a])
    BY <2>1, AlikeTexts
  <2>3. Listed(T, m, V) /\ \A a \in DOMAIN V : IdIn(T, V[a]) = IdIn(S, V[a])
    BY <2>1, AlikeTexts
  <2> QED BY <2>2, <2>3
<1>2. Newer(T, R, V)
  BY <1>1 DEF Newer
<1>3. Shows(T, m, s, R, V)
  <2> SUFFICES ASSUME NEW k \in DOMAIN R, ~\E a \in DOMAIN V : V[a] = R[k]
               PROVE  \E i \in R[k]..m : Drops(T, s, i, R, k)
    BY DEF Shows
  <2>1. PICK i \in R[k]..n : Drops(S, s, i, R, k)
    BY DEF Shows
  <2>2. i \in 1..n /\ i \in R[k]..m
    BY <1>1, <2>1
  <2>3. Drops(T, s, i, R, k)
    BY <1>1, <2>1, <2>2 DEF Drops, Alike
  <2> QED BY <2>2, <2>3
<1> QED BY <1>1, <1>2, <1>3

(***************************************************************************)
(* A post or an edit enters the view.                                      *)
(***************************************************************************)
LEMMA ToldView ==
  ASSUME NEW n \in 0..MaxStreams, n + 1 \in Streams,
         NEW S \in [Streams -> StreamRecords], NEW T, Alike(S, T, n), Ordered(S, n), NEW s,
         NEW R \in Seq(Streams), NEW V \in Seq(Streams),
         Listed(S, n, R), Listed(S, n, V), Newer(S, R, V), Shows(S, n, s, R, V),
         T[n + 1].session = s, T[n + 1].server = "none",
         NEW k, NEW W, Spliced(V, k, n + 1, W),
         \/ k = Len(V) + 1 /\ T[n + 1].edit = 0
         \/ k \in DOMAIN V /\ T[n + 1].edit = IdIn(S, V[k])
  PROVE  /\ Listed(T, n + 1, R) /\ Listed(T, n + 1, W)
         /\ Newer(T, R, W) /\ Shows(T, n + 1, s, R, W)
         /\ T[n + 1].edit < n + 1
<1>0. n \in Nat /\ n + 1 \in 0..MaxStreams /\ n <= n + 1
  BY BoundsAssumption DEF Streams
<1>1. /\ \A a \in DOMAIN V : V[a] \in 1..n /\ IdIn(T, V[a]) = IdIn(S, V[a])
      /\ \A a \in DOMAIN R : R[a] \in 1..n /\ IdIn(T, R[a]) = IdIn(S, R[a])
      /\ Listed(T, n + 1, V) /\ Listed(T, n + 1, R)
  <2>1. SameIds(S, T, n)
    BY DEF Alike, SameIds
  <2>2. /\ \A a \in DOMAIN V : V[a] \in 1..n /\ IdIn(T, V[a]) = IdIn(S, V[a])
        /\ Listed(T, n + 1, V)
    BY <1>0, <2>1, AlikeTexts
  <2>3. /\ \A a \in DOMAIN R : R[a] \in 1..n /\ IdIn(T, R[a]) = IdIn(S, R[a])
        /\ Listed(T, n + 1, R)
    BY <1>0, <2>1, AlikeTexts
  <2> QED BY <2>2, <2>3
<1>2. /\ \A a \in DOMAIN V : IdIn(S, V[a]) \in 1..n /\ IdIn(S, V[a]) <= V[a]
      /\ \A a \in DOMAIN R : IdIn(S, R[a]) \in 1..n
  <2>1. ASSUME NEW t \in Streams, t \in 1..n PROVE IdIn(S, t) \in 1..n /\ IdIn(S, t) <= t
    <3>1. IdIn(S, t) \in Nat /\ IdIn(S, t) # 0 /\ IdIn(S, t) <= t
      BY <1>0, <2>1, IdsAreEarlier
    <3> QED BY <1>0, <2>1, <3>1
  <2>2. 1..n \subseteq Streams
    BY <1>0, BoundsAssumption DEF Streams
  <2> QED BY <1>1, <2>1, <2>2
<1>3. /\ DOMAIN V = 1..Len(V) /\ Len(V) \in Nat /\ k \in Nat
      /\ DOMAIN W = 1..k /\ k \in DOMAIN W
      /\ \A a \in DOMAIN W : (a = k /\ W[a] = n + 1) \/ (a < k /\ a \in DOMAIN V /\ W[a] = V[a])
      /\ \A a \in DOMAIN V : a < k => a \in DOMAIN W /\ W[a] = V[a]
  BY SplicedTexts
<1> DEFINE len == Len(V)
           e == T[n + 1].edit
           id == IdIn(T, n + 1)
<1>4. len \in Nat /\ DOMAIN V = 1..len
  BY <1>3
<1>5. \/ k = len + 1 /\ e = 0
      \/ k \in DOMAIN V /\ e = IdIn(S, V[k])
  OBVIOUS
<1>6. id = IF e = 0 THEN n + 1 ELSE e
  BY DEF IdIn
<1> HIDE DEF len, e, id
<1>7. e < n + 1 /\ e \in Nat
  BY <1>0, <1>2, <1>5
<1>8. /\ \A a \in DOMAIN V : a < k => IdIn(S, V[a]) # id /\ IdIn(S, V[a]) < id
      /\ k \in DOMAIN V => id = e /\ e # 0 /\ id = IdIn(S, V[k])
      /\ k \notin DOMAIN V => id = n + 1
  <2>1. CASE e = 0
    <3>1. id = n + 1 /\ k = len + 1 /\ k \notin DOMAIN V
      BY <1>2, <1>4, <1>5, <1>6, <2>1
    <3> QED BY <1>0, <1>2, <3>1
  <2>2. CASE e # 0
    <3>1. k \in DOMAIN V /\ id = e /\ e = IdIn(S, V[k])
      BY <1>5, <1>6, <2>2
    <3>2. ASSUME NEW a \in DOMAIN V, a < k PROVE IdIn(S, V[a]) # id /\ IdIn(S, V[a]) < id
      <4>1. id = IdIn(S, V[k])
        BY <3>1
      <4>2. IdIn(S, V[a]) < IdIn(S, V[k])
        BY <3>1, <3>2 DEF Listed
      <4>3. IdIn(S, V[a]) \in 1..n /\ IdIn(S, V[k]) \in 1..n
        BY <1>2, <3>1
      <4> QED BY <1>0, <4>1, <4>2, <4>3
    <3> QED BY <2>2, <3>1, <3>2
  <2> QED BY <2>1, <2>2
<1>9. Listed(T, n + 1, W)
  <2>1. \A a \in DOMAIN W : W[a] <= n + 1
    BY <1>0, <1>1, <1>3
  <2>2. ASSUME NEW a \in DOMAIN W, NEW b \in DOMAIN W, a < b PROVE W[a] < W[b]
    <3>1. a < k /\ a \in DOMAIN V /\ W[a] = V[a] /\ V[a] \in 1..n
      BY <1>1, <1>3, <2>2
    <3>2. CASE b = k
      BY <1>0, <1>3, <3>1, <3>2
    <3>3. CASE b # k
      BY <1>3, <2>2, <3>1, <3>3 DEF Listed
    <3> QED BY <3>2, <3>3
  <2>3. /\ \A c \in DOMAIN W : c = k => IdIn(T, W[c]) = id
        /\ \A c \in DOMAIN W : c # k => c < k /\ c \in DOMAIN V /\ IdIn(T, W[c]) = IdIn(S, V[c])
    BY <1>1, <1>3 DEF id
  <2>4. ASSUME NEW a \in DOMAIN W, NEW b \in DOMAIN W, IdIn(T, W[a]) = IdIn(T, W[b])
        PROVE  a = b
    <3>1. CASE a = k \/ b = k
      BY <1>8, <2>3, <2>4, <3>1
    <3>2. CASE a # k /\ b # k
      BY <2>3, <2>4, <3>2 DEF Listed
    <3> QED BY <3>1, <3>2
  <2>5. ASSUME NEW a \in DOMAIN W, NEW b \in DOMAIN W, a < b
        PROVE  IdIn(T, W[a]) < IdIn(T, W[b])
    <3>1. a < k /\ a \in DOMAIN V /\ IdIn(T, W[a]) = IdIn(S, V[a])
      BY <1>3, <2>3, <2>5
    <3>2. CASE b = k
      BY <1>8, <2>3, <3>1, <3>2
    <3>3. CASE b # k
      BY <2>3, <2>5, <3>1, <3>3 DEF Listed
    <3> QED BY <3>2, <3>3
  <2> QED BY <2>1, <2>2, <2>4, <2>5 DEF Listed
<1>10. Newer(T, R, W)
  <2> SUFFICES ASSUME NEW j \in DOMAIN R, NEW m \in DOMAIN W, IdIn(T, R[j]) = IdIn(T, W[m])
               PROVE  R[j] <= W[m]
    BY DEF Newer
  <2>1. CASE m = k
    <3>1. W[m] = n + 1 /\ R[j] \in 1..n
      BY <1>0, <1>1, <1>3, <2>1
    <3> QED BY <1>0, <3>1
  <2>2. CASE m # k
    BY <1>1, <1>3, <2>2 DEF Newer
  <2> QED BY <2>1, <2>2
<1>11. Shows(T, n + 1, s, R, W)
  <2> SUFFICES ASSUME NEW j \in DOMAIN R, ~\E a \in DOMAIN W : W[a] = R[j]
               PROVE  \E i \in R[j]..n + 1 : Drops(T, s, i, R, j)
    BY DEF Shows
  <2>0. R[j] \in 1..n /\ n + 1 \in R[j]..n + 1
    BY <1>0, <1>1
  <2>1. ASSUME NEW m \in DOMAIN V, V[m] = R[j]
        PROVE  Drops(T, s, n + 1, R, j)
    <3>1. ~(m < k) /\ m \in 1..len /\ k \in 1..len + 1 /\ k \in 1..len
      BY <1>3, <1>4, <2>1
    <3>2. k \in DOMAIN V /\ k <= m
      BY <1>4, <3>1
    <3>3. e # 0 /\ e = IdIn(S, V[k])
      BY <1>8, <3>2
    <3>4. V[k] <= V[m]
      <4>1. CASE k = m
        BY <1>1, <2>1, <4>1
      <4>2. CASE k # m
        <5>1. k < m
          BY <1>3, <3>1, <3>2, <4>2
        <5>2. V[k] < V[m]
          BY <3>2, <5>1 DEF Listed
        <5> QED BY <1>1, <3>2, <5>2
      <4> QED BY <4>1, <4>2
    <3>5. ASSUME NEW q \in DOMAIN R, IdIn(T, R[q]) = e PROVE q <= j
      <4>1. R[q] <= V[k]
        BY <1>1, <3>2, <3>3, <3>5 DEF Newer
      <4>2. R[q] <= R[j]
        BY <1>1, <2>1, <3>2, <3>4, <4>1
      <4>3. ~(j < q)
        BY <1>1, <4>2 DEF Listed
      <4>4. q \in Nat /\ j \in Nat
        OBVIOUS
      <4> QED BY <4>3, <4>4
    <3> QED BY <3>3, <3>5 DEF Drops, e
  <2>2. CASE \E m \in DOMAIN V : V[m] = R[j]
    BY <2>0, <2>1, <2>2
  <2>3. CASE ~\E m \in DOMAIN V : V[m] = R[j]
    <3>1. PICK i \in R[j]..n : Drops(S, s, i, R, j)
      BY <2>3 DEF Shows
    <3>2. i \in 1..n /\ i \in R[j]..n + 1
      BY <1>0, <2>0, <3>1
    <3>3. Drops(T, s, i, R, j)
      BY <1>1, <3>1, <3>2 DEF Drops, Alike
    <3> QED BY <3>2, <3>3
  <2> QED BY <2>2, <2>3
<1> QED BY <1>1, <1>7, <1>9, <1>10, <1>11 DEF e

(***************************************************************************)
(* The backend takes the newest text: the list it leaves, and the ids.     *)
(***************************************************************************)
LEMMA TakenList ==
  ASSUME NEW n \in 1..MaxStreams,
         NEW S \in [Streams -> StreamRecords], NEW T, SameIds(S, T, n), Ordered(S, n),
         NEW R \in Seq(Streams), Listed(S, n, R), \A a \in DOMAIN R : R[a] # n,
         NEW p, NEW Q, Spliced(R, p, n, Q),
         \/ p = Len(R) + 1 /\ S[n].edit = 0
         \/ p \in DOMAIN R /\ S[n].edit = IdIn(S, R[p])
  PROVE  /\ Listed(T, n, Q)
         /\ \A a \in DOMAIN R : R[a] \in 1..n - 1 /\ IdIn(T, R[a]) = IdIn(S, R[a])
         /\ \A t \in 1..n : IdIn(S, t) \in 1..n /\ IdIn(S, t) <= t
         /\ IdIn(T, n) = IdIn(S, n)
         /\ S[n].edit # 0 => /\ p \in DOMAIN R /\ IdIn(S, n) = S[n].edit
                             /\ S[n].edit = IdIn(S, R[p])
         /\ S[n].edit = 0 => IdIn(S, n) = n /\ p = Len(R) + 1
         /\ \A c \in DOMAIN Q :
              /\ c = p => Q[c] = n /\ IdIn(T, Q[c]) = IdIn(S, n)
              /\ c # p => /\ c < p /\ c \in DOMAIN R /\ Q[c] = R[c]
                         /\ IdIn(T, Q[c]) = IdIn(S, R[c])
<1>0. n \in Nat /\ n \in 0..MaxStreams /\ n <= n /\ n \in Streams /\ 1..n \subseteq Streams
  BY BoundsAssumption DEF Streams
<1>2. \A a \in DOMAIN R : R[a] \in 1..n - 1 /\ IdIn(T, R[a]) = IdIn(S, R[a])
  <2>1. \A a \in DOMAIN R : R[a] \in 1..n /\ IdIn(T, R[a]) = IdIn(S, R[a])
    BY <1>0, AlikeTexts
  <2> QED BY <1>0, <2>1
<1>3. \A t \in 1..n : IdIn(S, t) \in 1..n /\ IdIn(S, t) <= t
  <2> TAKE t \in 1..n
  <2>1. IdIn(S, t) \in Nat /\ IdIn(S, t) # 0 /\ IdIn(S, t) <= t
    BY <1>0, IdsAreEarlier
  <2> QED BY <1>0, <2>1
<1>4. /\ DOMAIN R = 1..Len(R) /\ Len(R) \in Nat /\ p \in Nat
      /\ DOMAIN Q = 1..p /\ p \in DOMAIN Q
      /\ \A a \in DOMAIN Q : (a = p /\ Q[a] = n) \/ (a < p /\ a \in DOMAIN R /\ Q[a] = R[a])
      /\ \A a \in DOMAIN R : a < p => a \in DOMAIN Q /\ Q[a] = R[a]
  BY SplicedTexts
<1> DEFINE len == Len(R)
           e == S[n].edit
           id == IdIn(S, n)
<1>5. len \in Nat /\ DOMAIN R = 1..len
  BY <1>4
<1>6. \/ p = len + 1 /\ e = 0
      \/ p \in DOMAIN R /\ e = IdIn(S, R[p])
  OBVIOUS
<1>7. id = (IF e = 0 THEN n ELSE e) /\ IdIn(T, n) = id
  BY <1>0 DEF IdIn, SameIds
<1> HIDE DEF len, e, id
<1>8. /\ \A a \in DOMAIN R : a < p => IdIn(S, R[a]) # id /\ IdIn(S, R[a]) < id
      /\ e # 0 => p \in DOMAIN R /\ id = e /\ e = IdIn(S, R[p])
      /\ e = 0 => id = n /\ p = len + 1
  <2>1. CASE e = 0
    <3>1. id = n /\ p = len + 1
      BY <1>0, <1>2, <1>3, <1>6, <1>7, <2>1
    <3>2. \A a \in DOMAIN R : /\ IdIn(S, R[a]) <= R[a] /\ R[a] < n
                             /\ R[a] \in Nat /\ IdIn(S, R[a]) \in Nat
      BY <1>0, <1>2, <1>3
    <3> QED BY <1>0, <2>1, <3>1, <3>2
  <2>2. CASE e # 0
    <3>1. p \in DOMAIN R /\ id = e /\ e = IdIn(S, R[p])
      BY <1>6, <1>7, <2>2
    <3>2. ASSUME NEW a \in DOMAIN R, a < p PROVE IdIn(S, R[a]) # id /\ IdIn(S, R[a]) < id
      <4>1. R[a] \in 1..n /\ R[p] \in 1..n
        BY <1>0, <1>2, <3>1
      <4>2. id = IdIn(S, R[p])
        BY <3>1
      <4>3. IdIn(S, R[a]) < IdIn(S, R[p])
        BY <3>1, <3>2 DEF Listed
      <4>4. IdIn(S, R[a]) \in 1..n /\ IdIn(S, R[p]) \in 1..n
        BY <1>3, <4>1
      <4> QED BY <1>0, <4>2, <4>3, <4>4
    <3> QED BY <2>2, <3>1, <3>2
  <2> QED BY <2>1, <2>2
<1>9. \A c \in DOMAIN Q : /\ c = p => Q[c] = n /\ IdIn(T, Q[c]) = id
                          /\ c # p => c < p /\ c \in DOMAIN R /\ Q[c] = R[c]
                                      /\ IdIn(T, Q[c]) = IdIn(S, R[c])
  BY <1>2, <1>4, <1>7
<1>10. Listed(T, n, Q)
  <2>1. \A a \in DOMAIN Q : Q[a] <= n
    BY <1>0, <1>2, <1>4
  <2>2. ASSUME NEW a \in DOMAIN Q, NEW b \in DOMAIN Q, a < b PROVE Q[a] < Q[b]
    <3>1. a < p /\ a \in DOMAIN R /\ Q[a] = R[a] /\ R[a] \in 1..n - 1
      BY <1>2, <1>4, <2>2
    <3>2. CASE b = p
      <4>1. Q[b] = n
        BY <1>4, <3>2
      <4> QED BY <1>0, <3>1, <4>1
    <3>3. CASE b # p
      BY <1>4, <2>2, <3>1, <3>3 DEF Listed
    <3> QED BY <3>2, <3>3
  <2>3. ASSUME NEW a \in DOMAIN Q, NEW b \in DOMAIN Q, IdIn(T, Q[a]) = IdIn(T, Q[b])
        PROVE  a = b
    <3>1. CASE a = p \/ b = p
      BY <1>8, <1>9, <2>3, <3>1
    <3>2. CASE a # p /\ b # p
      BY <1>9, <2>3, <3>2 DEF Listed
    <3> QED BY <3>1, <3>2
  <2>4. ASSUME NEW a \in DOMAIN Q, NEW b \in DOMAIN Q, a < b
        PROVE  IdIn(T, Q[a]) < IdIn(T, Q[b])
    <3>1. a # p /\ a < p /\ a \in DOMAIN R /\ IdIn(T, Q[a]) = IdIn(S, R[a])
      BY <1>4, <1>9, <2>4
    <3>2. CASE b = p
      BY <1>8, <1>9, <3>1, <3>2
    <3>3. CASE b # p
      BY <1>9, <2>4, <3>1, <3>3 DEF Listed
    <3> QED BY <3>2, <3>3
  <2> QED BY <2>1, <2>2, <2>3, <2>4 DEF Listed
<1> QED BY <1>2, <1>3, <1>7, <1>8, <1>9, <1>10 DEF len, e, id

\* The newest text, which is in the view, is taken: all is on the screen still.
LEMMA TakenView ==
  ASSUME NEW n \in 1..MaxStreams,
         NEW S \in [Streams -> StreamRecords], NEW T, Alike(S, T, n - 1), Ordered(S, n),
         T[n].edit = S[n].edit, NEW s,
         NEW R \in Seq(Streams), NEW V \in Seq(Streams),
         Listed(S, n, R), Listed(S, n, V), Newer(S, R, V), Shows(S, n, s, R, V),
         \A a \in DOMAIN R : R[a] # n, \E m \in DOMAIN V : V[m] = n,
         NEW p, NEW Q, Spliced(R, p, n, Q),
         \/ p = Len(R) + 1 /\ S[n].edit = 0
         \/ p \in DOMAIN R /\ S[n].edit = IdIn(S, R[p])
  PROVE  Listed(T, n, Q) /\ Listed(T, n, V) /\ Newer(T, Q, V) /\ Shows(T, n, s, Q, V)
<1>0. n \in Nat /\ n \in 0..MaxStreams /\ n <= n /\ n \in Streams /\ 1..n \subseteq Streams
  BY BoundsAssumption DEF Streams
<1>1. SameIds(S, T, n)
  BY <1>0 DEF Alike, SameIds
<1> DEFINE len == Len(R)
           e == S[n].edit
           id == IdIn(S, n)
<1>2. /\ Listed(T, n, Q)
      /\ \A a \in DOMAIN R : R[a] \in 1..n - 1 /\ IdIn(T, R[a]) = IdIn(S, R[a])
      /\ \A t \in 1..n : IdIn(S, t) \in 1..n /\ IdIn(S, t) <= t
      /\ IdIn(T, n) = id
      /\ e # 0 => p \in DOMAIN R /\ id = e /\ e = IdIn(S, R[p])
      /\ e = 0 => id = n /\ p = len + 1
      /\ \A c \in DOMAIN Q : /\ c = p => Q[c] = n /\ IdIn(T, Q[c]) = id
                             /\ c # p => c < p /\ c \in DOMAIN R /\ Q[c] = R[c]
                                         /\ IdIn(T, Q[c]) = IdIn(S, R[c])
  BY <1>1, TakenList
<1> HIDE DEF len, e, id
<1>3. \A a \in DOMAIN V : V[a] \in 1..n /\ IdIn(T, V[a]) = IdIn(S, V[a])
  BY <1>0, <1>1, AlikeTexts
<1>4. Listed(T, n, V)
  BY <1>0, <1>1, AlikeTexts
<1>5. len \in Nat /\ DOMAIN R = 1..len /\ p \in Nat
  BY SplicedTexts DEF len
<1>11. Newer(T, Q, V)
  <2> SUFFICES ASSUME NEW j \in DOMAIN Q, NEW m \in DOMAIN V, IdIn(T, Q[j]) = IdIn(T, V[m])
               PROVE  Q[j] <= V[m]
    BY DEF Newer
  <2>1. CASE j # p
    BY <1>2, <1>3, <2>1 DEF Newer
  <2>2. CASE j = p
    <3>1. PICK q \in DOMAIN V : V[q] = n
      OBVIOUS
    <3>2. Q[j] = n /\ IdIn(T, V[m]) = id /\ IdIn(T, V[q]) = id
      BY <1>2, <2>2, <3>1
    <3>3. m = q
      BY <1>4, <3>2 DEF Listed
    <3> QED BY <1>0, <3>1, <3>2, <3>3
  <2> QED BY <2>1, <2>2
<1>12. Shows(T, n, s, Q, V)
  <2> SUFFICES ASSUME NEW k \in DOMAIN Q, ~\E a \in DOMAIN V : V[a] = Q[k]
               PROVE  \E i \in Q[k]..n : Drops(T, s, i, Q, k)
    BY DEF Shows
  <2>1. k # p /\ k < p /\ k \in DOMAIN R /\ Q[k] = R[k] /\ R[k] \in 1..n - 1
    BY <1>2
  <2>2. PICK i \in R[k]..n : Drops(S, s, i, R, k)
    BY <2>1 DEF Shows
  <2>3. i \in 1..n
    BY <1>0, <2>1
  <2>4. ASSUME p \in DOMAIN R PROVE IdIn(S, R[p]) # S[i].edit
    <3>1. ~(p <= k)
      BY <1>5, <2>1
    <3> QED BY <2>2, <2>4, <3>1 DEF Drops
  <2>5. i # n
    <3>1. CASE e = 0
      BY <2>2, <3>1 DEF Drops, e
    <3>2. CASE e # 0
      BY <1>2, <2>4, <3>2 DEF e
    <3> QED BY <3>1, <3>2
  <2>6. i \in 1..n - 1 /\ i < n
    BY <1>0, <2>3, <2>5
  <2>7. id # S[i].edit
    <3>1. CASE e = 0
      <4>1. id = n /\ S[i].edit < i
        BY <1>2, <2>3, <3>1 DEF Ordered
      <4>2. S[i].edit \in 0..MaxStreams
        BY <1>0, <2>3 DEF StreamRecords
      <4> QED BY <1>0, <2>6, <4>1, <4>2, BoundsAssumption
    <3>2. CASE e # 0
      BY <1>2, <2>4, <3>2
    <3> QED BY <3>1, <3>2
  <2>8. ASSUME NEW q \in DOMAIN Q, IdIn(T, Q[q]) = S[i].edit PROVE q <= k
    <3>1. q # p
      BY <1>2, <2>7, <2>8
    <3>2. q \in DOMAIN R /\ IdIn(S, R[q]) = S[i].edit
      BY <1>2, <2>8, <3>1
    <3> QED BY <2>2, <3>2 DEF Drops
  <2>9. /\ T[i].edit = S[i].edit /\ T[i].session = S[i].session
        /\ S[i].edit # 0 /\ S[i].server \in {"none", "denied"}
             => T[i].server \in {"none", "denied"}
    BY <2>6 DEF Alike
  <2>10. Drops(T, s, i, Q, k)
    BY <2>2, <2>8, <2>9 DEF Drops
  <2> QED BY <2>1, <2>2, <2>10
<1> QED BY <1>2, <1>4, <1>11, <1>12

(***************************************************************************)
(* What is on the screen and was taken is stored: the same after a step    *)
(* by which no stream is taken, by which one is told, and by which the     *)
(* newest is taken.                                                        *)
(***************************************************************************)
Untaken(S, T, n) == \A i \in 1..n :
  T[i].run = S[i].run /\ (T[i].run = i /\ T[i].server \in {"running", "over"}
                            => S[i].server \in {"running", "over"})

LEMMA SameStores ==
  ASSUME NEW n, NEW S, NEW T, Untaken(S, T, n), NEW R, NEW V,
         \A m \in DOMAIN V : V[m] \in 1..n, Stores(S, R, V)
  PROVE  Stores(T, R, V)
BY DEF Stores, Untaken

\* A text that was only told is not taken.
LEMMA ToldStores ==
  ASSUME NEW n, NEW S, NEW T, Untaken(S, T, n), NEW R, NEW V \in Seq(Streams),
         \A m \in DOMAIN V : V[m] \in 1..n, Stores(S, R, V),
         NEW x, T[x].server = "none", NEW k, NEW W, Spliced(V, k, x, W)
  PROVE  Stores(T, R, W)
<1> SUFFICES ASSUME NEW m \in DOMAIN W, T[W[m]].run = W[m],
                    T[W[m]].server \in {"running", "over"}
             PROVE  \E j \in DOMAIN R : R[j] = W[m]
  BY DEF Stores
<1>1. W[m] # x
  OBVIOUS
<1>2. m \in DOMAIN V /\ W[m] = V[m]
  BY <1>1, SplicedTexts
<1> QED BY <1>2 DEF Stores, Untaken

\* The texts that a taken edit cuts off are not on the screen: their ids are later.
LEMMA TakenStores ==
  ASSUME NEW n \in 1..MaxStreams,
         NEW S \in [Streams -> StreamRecords], NEW T, Untaken(S, T, n - 1), SameIds(S, T, n),
         Ordered(S, n),
         NEW R \in Seq(Streams), NEW V \in Seq(Streams),
         Listed(S, n, R), Listed(S, n, V), Stores(S, R, V),
         \A a \in DOMAIN R : R[a] # n, \E m \in DOMAIN V : V[m] = n,
         NEW p, NEW Q, Spliced(R, p, n, Q),
         \/ p = Len(R) + 1 /\ S[n].edit = 0
         \/ p \in DOMAIN R /\ S[n].edit = IdIn(S, R[p])
  PROVE  Stores(T, Q, V)
<1>0. n \in Nat /\ n \in 0..MaxStreams /\ n <= n
  BY BoundsAssumption
<1>1. /\ S[n].edit # 0 => /\ p \in DOMAIN R /\ IdIn(S, n) = S[n].edit
                          /\ S[n].edit = IdIn(S, R[p])
      /\ S[n].edit = 0 => p = Len(R) + 1
      /\ \A t \in 1..n : IdIn(S, t) \in 1..n
      /\ \A a \in DOMAIN R : R[a] \in 1..n - 1
  BY TakenList
<1>2. \A m \in DOMAIN V : V[m] \in 1..n
  BY <1>0, AlikeTexts
<1>3. /\ DOMAIN R = 1..Len(R) /\ Len(R) \in Nat /\ p \in Nat
      /\ p \in DOMAIN Q /\ \A a \in DOMAIN R : a < p => a \in DOMAIN Q /\ Q[a] = R[a]
  BY SplicedTexts
<1>4. Q[p] = n
  BY DEF Spliced
<1> SUFFICES ASSUME NEW m \in DOMAIN V, T[V[m]].run = V[m],
                    T[V[m]].server \in {"running", "over"}, V[m] # n
             PROVE  \E j \in DOMAIN Q : Q[j] = V[m]
  BY <1>3, <1>4 DEF Stores
<1>5. V[m] \in 1..n - 1
  BY <1>0, <1>2
<1>6. PICK j \in DOMAIN R : R[j] = V[m]
  BY <1>5 DEF Stores, Untaken
<1>7. j < p
  <2>1. CASE S[n].edit = 0
    <3> DEFINE len == Len(R)
    <3>1. j \in 1..len /\ p = len + 1 /\ len \in Nat
      BY <1>1, <1>3, <1>6, <2>1
    <3> QED BY <3>1
  <2>2. CASE S[n].edit # 0
    <3>1. PICK q \in DOMAIN V : V[q] = n
      OBVIOUS
    <3>2. m \in Nat /\ q \in Nat
      OBVIOUS
    <3>3. m < q
      <4>1. ~(q < m)
        BY <1>0, <1>2, <3>1 DEF Listed
      <4> QED BY <3>1, <3>2, <4>1
    <3>4. IdIn(S, R[j]) < IdIn(S, R[p])
      BY <1>1, <1>6, <2>2, <3>1, <3>3 DEF Listed
    <3>5. /\ p \in DOMAIN R /\ j \in Nat
          /\ IdIn(S, R[j]) \in Nat /\ IdIn(S, R[p]) \in Nat
      <4>1. p \in DOMAIN R /\ j \in Nat
        BY <1>1, <1>3, <1>6, <2>2
      <4>2. R[j] \in 1..n /\ R[p] \in 1..n
        <5>1. R[j] \in 1..n - 1 /\ R[p] \in 1..n - 1
          BY <1>1, <4>1
        <5> QED BY <1>0, <5>1
      <4>3. IdIn(S, R[j]) \in 1..n /\ IdIn(S, R[p]) \in 1..n
        BY <1>1, <4>2
      <4> QED BY <1>0, <4>1, <4>3
    <3>6. ~(p < j) /\ p # j
      BY <1>6, <3>4, <3>5 DEF Listed
    <3> QED BY <1>3, <3>5, <3>6
  <2> QED BY <2>1, <2>2
<1> QED BY <1>3, <1>6, <1>7

-----------------------------------------------------------------------------
(* What a step tells of a stream *)

\* A step that changes of a stream no more than whether the page listens to it.
Stays(i) ==
  /\ stream'[i].session = stream[i].session /\ stream'[i].run = stream[i].run
  /\ stream'[i].edit = stream[i].edit /\ stream'[i].server = stream[i].server
  /\ stream'[i].how = stream[i].how

\* A page that no longer listens changes nothing of what the backend knows.
LEMMA ClosedStays ==
  ASSUME StreamsOK
  PROVE  /\ \A i \in Streams : stream' = Closed(i) => \A j \in Streams : Stays(j)
         /\ stream' = stream => \A j \in Streams : Stays(j)
         /\ Reload => \A j \in Streams : Stays(j)
<1>1. ASSUME NEW i \in Streams, stream' = Closed(i), NEW j \in Streams PROVE Stays(j)
  BY <1>1 DEF Closed, Stays, StreamsOK, StreamRecords
<1>2. stream' = stream => \A j \in Streams : Stays(j)
  BY DEF Stays
<1>3. ASSUME Reload, NEW j \in Streams PROVE Stays(j)
  <2>1. stream' = [i \in Streams |->
                     IF i \in Open THEN [stream[i] EXCEPT !.client = "over"] ELSE stream[i]]
    BY <1>3 DEF Reload
  <2>2. stream'[j] = [stream[j] EXCEPT !.client = "over"] \/ stream'[j] = stream[j]
    BY <2>1
  <2>3. stream[j] \in StreamRecords
    BY DEF StreamsOK
  <2> QED BY <2>2, <2>3 DEF Stays, StreamRecords
<1> QED BY <1>1, <1>2, <1>3

(***************************************************************************)
(* What the backend tells of stream i: server and how.                     *)
(***************************************************************************)
Told(i, server, how) ==
  /\ stream'[i].server = server /\ stream'[i].how = how
  /\ stream'[i].session = stream[i].session /\ stream'[i].run = stream[i].run
  /\ stream'[i].edit = stream[i].edit /\ stream'[i].client = stream[i].client
  /\ \A j \in Streams \ {i} : stream'[j] = stream[j]

\* The fields of a stream of which the backend told something.
LEMMA News ==
  ASSUME StreamsOK, NEW i \in Streams, NEW server, NEW how,
         \/ stream' = [stream EXCEPT ![i].server = server, ![i].how = how]
         \/ stream' = [stream EXCEPT ![i].how = how, ![i].server = server]
  PROVE  Told(i, server, how)
<1>0. stream[i] \in StreamRecords
  BY DEF StreamsOK
<1> DEFINE r == [stream[i] EXCEPT !.server = server, !.how = how]
<1>1. /\ r.server = server /\ r.how = how /\ r.session = stream[i].session
      /\ r.run = stream[i].run /\ r.edit = stream[i].edit /\ r.client = stream[i].client
      /\ r = [stream[i] EXCEPT !.how = how, !.server = server]
  BY <1>0 DEF StreamRecords
<1>2. stream'[i] = r /\ \A j \in Streams \ {i} : stream'[j] = stream[j]
  <2>1. CASE stream' = [stream EXCEPT ![i].server = server, ![i].how = how]
    BY <2>1 DEF StreamsOK
  <2>2. CASE stream' = [stream EXCEPT ![i].how = how, ![i].server = server]
    BY <2>2, <1>1 DEF StreamsOK
  <2> QED BY <2>1, <2>2
<1> HIDE DEF r
<1> QED BY <1>1, <1>2 DEF Told

\* The ways in which a request is answered.
LEMMA AcceptCases ==
  ASSUME IInv, NEW i \in Streams, Accept(i)
  PROVE  /\ stream[i].client # "none" /\ stream[i].server = "none" /\ stream[i].how = "none"
         /\ i \in 1..started /\ lost \subseteq lost'
         /\ UNCHANGED <<loads, load, current, view, started, ids, creation,
                       moved, hasty, blurred>>
         /\ \/ /\ UNCHANGED <<owner, rows, lost>>
               /\ Told(i, "denied", "refused") \/ Told(i, "denied", "error")
            \/ /\ stream[i].run # i /\ UNCHANGED <<owner, rows, lost>>
               /\ Told(i, "running", IF stream[i].client = "over" THEN "late" ELSE "none")
            \/ /\ stream[i].run = i
               /\ stream[i].edit # 0
                    => Places(Texts(stream[i].session), stream[i].edit) # {}
               /\ Told(i, "running", IF stream[i].client = "over" THEN "late" ELSE "none")
               /\ Admit(stream[i].session)
               /\ rows' = [rows EXCEPT ![stream[i].session] = Stored(i)]
<1> USE TypeParts DEF IInv
<1> DEFINE s == stream[i].session
           foreign == owner[s] = "other"
           unknown == stream[i].edit # 0 /\ Places(Texts(s), stream[i].edit) = {}
<1>1. /\ stream[i].client # "none" /\ stream[i].server = "none" /\ stream[i].how = "none"
      /\ UNCHANGED <<loads, load, current, view, started, ids, creation,
                    moved, hasty, blurred>>
  BY DEF Accept, NoFetch, local, screen, history
<1>2. i \in 1..started /\ s \in Sessions
  BY <1>1, BoundsAssumption DEF StreamsOK, Streams, StreamRecords
<1>3. CASE foreign \/ Busy(s) \/ unknown
  <2> DEFINE how == IF ~foreign /\ Busy(s) THEN "refused" ELSE "error"
  <2>1. /\ UNCHANGED <<owner, rows, lost>>
        /\ stream' = [stream EXCEPT ![i].server = "denied", ![i].how = how]
    BY <1>3 DEF Accept, backend
  <2>2. Told(i, "denied", how)
    BY <2>1, News
  <2> QED BY <1>1, <1>2, <2>1, <2>2
<1>4. CASE ~(foreign \/ Busy(s) \/ unknown)
  <2> DEFINE how == IF stream[i].client = "over" THEN "late" ELSE "none"
  <2>1. stream' = [stream EXCEPT ![i].server = "running", ![i].how = how]
    <3>1. stream' = [stream EXCEPT ![i].server = "running",
                       ![i].how = IF stream[i].client = "over" THEN "late" ELSE @]
      BY <1>4 DEF Accept
    <3>2. stream \in [Streams -> StreamRecords]
      BY DEF StreamsOK
    <3> QED BY <1>1, <3>1, <3>2 DEF StreamRecords
  <2>2. Told(i, "running", how)
    BY <2>1, News
  <2>3. IF stream[i].run = i
          THEN Admit(s) /\ rows' = [rows EXCEPT ![s] = Stored(i)]
          ELSE UNCHANGED <<owner, rows, lost>>
    BY <1>4 DEF Accept, backend
  <2>4. Admit(s) => lost \subseteq lost'
    BY <1>2, AdmitType
  <2> QED BY <1>1, <1>2, <1>4, <2>2, <2>3, <2>4
<1> QED BY <1>3, <1>4

\* A run that ends, a connection that fails.
LEMMA EndCases ==
  ASSUME IInv, NEW i \in Streams, Finish(i) \/ Drop(i)
  PROVE  /\ UNCHANGED <<loads, load, current, view, started, ids, creation,
                        moved, hasty, blurred>>
         /\ lost \subseteq lost'
         /\ \A z \in Sessions : rows'[z] = rows[z] \/ (rows'[z] = <<>> /\ z \in lost')
         /\ \/ stream[i].server = "running" /\ Told(i, "over", stream[i].how)
            \/ /\ stream[i].server = "running" /\ stream[i].how = "none"
               /\ \E how \in {"done", "interrupt", "error"} : Told(i, "over", how)
            \/ stream[i].server = "none" /\ stream[i].how = "none" /\ Told(i, "denied", "error")
            \/ stream[i].server # "none" /\ stream[i].how = "none"
               /\ Told(i, stream[i].server, "error")
<1> USE TypeParts DEF IInv
<1>0. stream \in [Streams -> StreamRecords] /\ StreamsOK
  BY DEF StreamsOK
<1>1. /\ UNCHANGED <<loads, load, current, view, started, ids, creation, moved, hasty, blurred>>
      /\ lost \subseteq lost'
      /\ \A z \in Sessions : rows'[z] = rows[z] \/ (rows'[z] = <<>> /\ z \in lost')
  <2>1. UNCHANGED <<loads, load, current, view, started, ids, creation, moved, hasty, blurred>>
    BY DEF Finish, Drop, NoFetch, local, screen, history
  <2>2. UNCHANGED backend \/ CameBack(i)
    BY DEF Finish, Drop
  <2>3. stream[i].session \in Sessions
    BY <1>0 DEF StreamRecords
  <2> QED BY <2>1, <2>2, <2>3, CameBackType DEF backend
<1>2. CASE Finish(i)
  <2>1. PICK how \in {"done", "interrupt", "error"} :
          stream' = [stream EXCEPT ![i].server = "over",
                       ![i].how = IF stream[i].client = "open" /\ @ = "none" THEN how ELSE @]
    BY <1>2 DEF Finish
  <2>2. CASE stream[i].client = "open" /\ stream[i].how = "none"
    <3>1. stream' = [stream EXCEPT ![i].server = "over", ![i].how = how]
      BY <1>0, <2>1, <2>2 DEF StreamRecords
    <3>2. Told(i, "over", how)
      BY <1>0, <3>1, News
    <3> QED BY <1>1, <1>2, <2>2, <3>2 DEF Finish
  <2>3. CASE ~(stream[i].client = "open" /\ stream[i].how = "none")
    <3>1. stream' = [stream EXCEPT ![i].server = "over", ![i].how = stream[i].how]
      BY <1>0, <2>1, <2>3 DEF StreamRecords
    <3>2. Told(i, "over", stream[i].how)
      BY <1>0, <3>1, News
    <3> QED BY <1>1, <1>2, <3>2 DEF Finish
  <2> QED BY <2>2, <2>3
<1>3. CASE Drop(i)
  <2>1. stream[i].how = "none"
        /\ stream' = [stream EXCEPT ![i].how = "error",
                        ![i].server = IF @ = "none" THEN "denied" ELSE @]
    BY <1>3 DEF Drop
  <2>2. CASE stream[i].server = "none"
    <3>1. stream' = [stream EXCEPT ![i].how = "error", ![i].server = "denied"]
      BY <1>0, <2>1, <2>2 DEF StreamRecords
    <3>2. Told(i, "denied", "error")
      BY <1>0, <3>1, News
    <3> QED BY <1>1, <2>1, <2>2, <3>2
  <2>3. CASE stream[i].server # "none"
    <3>1. stream' = [stream EXCEPT ![i].how = "error", ![i].server = stream[i].server]
      BY <1>0, <2>1, <2>3 DEF StreamRecords
    <3>2. Told(i, stream[i].server, "error")
      BY <1>0, <3>1, News
    <3> QED BY <1>1, <2>1, <2>3, <3>2
  <2> QED BY <2>2, <2>3
<1> QED BY <1>2, <1>3

-----------------------------------------------------------------------------
(* Sessions that were handed out *)

\* The current session, and those of the streams, were handed out; the backend
\* has heard of no stream that was not started.
Issued ==
  /\ current \in ids
  /\ \A i \in 1..started : stream[i].session \in ids
  /\ \A i \in Streams : stream[i].server # "none" => stream[i].client # "none"

\* So was every session that has a row, lost one or is about to get one; where
\* there is no row there are no texts, unless it was deleted.
Placed == \A s \in Sessions :
  /\ owner[s] = "visitor" \/ s \in lost \/ rows[s] # <<>> \/ creation[s] # "none" => s \in ids
  /\ owner[s] = "visitor" \/ s \in lost \/ rows[s] = <<>>

\* What a reader finds in a session whose row was never deleted.
LEMMA RowsRead ==
  ASSUME Placed, NEW s \in Sessions, s \notin lost
  PROVE  Texts(s) = rows[s]
BY DEF Placed, Texts

\* A stream that begins is the current session's; the others stay where they are.
LEMMA NewHome ==
  ASSUME IInv, [Next]_vars, NEW i \in 1..started'
  PROVE  \/ i \in 1..started /\ stream'[i].session = stream[i].session
         \/ stream'[i].session = current
<1> USE TypeParts DEF IInv
<1>0. /\ started \in 0..MaxStreams /\ stream \in [Streams -> StreamRecords]
      /\ \A j \in Streams : stream[j].client = "none" <=> j > started
  BY DEF StreamsOK
<1>1. \A j \in 1..started : stream'[j].session = stream[j].session
  BY StreamsStep
<1>2. ASSUME NEW others \in [Streams -> StreamRecords], Begun(others),
             \A j \in Streams : others[j].client = "none" <=> j > started
      PROVE  started' = started + 1 /\ stream'[started + 1].session = current
  <2>1. PICK run \in 1..started + 1, edit \in 0..MaxStreams :
          Start(current, IF run = started + 1 THEN 0 ELSE run, edit, others)
    BY <1>2 DEF Begun
  <2> DEFINE asked == IF run = started + 1 THEN 0 ELSE run
  <2>2. asked \in 0..MaxStreams /\ current \in Sessions
    BY <1>0, <2>1, BoundsAssumption DEF SessionsOK
  <2>3. Start(current, asked, edit, others)
    BY <2>1
  <2> HIDE DEF asked
  <2>4. /\ started' = started + 1
        /\ stream'[started + 1] =
             [session |-> current, run |-> IF asked = 0 THEN started + 1 ELSE asked,
              edit |-> edit, client |-> "open", server |-> "none", how |-> "none"]
    BY <1>2, <2>2, <2>3, StartType
  <2> QED BY <2>4
<1>3. ASSUME Begun(stream) \/ \E j \in Streams : stream[j].client = "open" /\ Begun(Closed(j))
      PROVE  started' = started + 1 /\ stream'[started + 1].session = current
  <2>1. CASE Begun(stream)
    BY <1>0, <1>2, <2>1
  <2>2. CASE \E j \in Streams : stream[j].client = "open" /\ Begun(Closed(j))
    <3>1. PICK j \in Streams : stream[j].client = "open" /\ Begun(Closed(j))
      BY <2>2
    <3>2. /\ Closed(j) \in [Streams -> StreamRecords]
          /\ \A k \in Streams : Closed(j)[k].client = "none" <=> k > started
      BY <3>1, ClosedType
    <3> QED BY <1>2, <3>1, <3>2
  <2> QED BY <1>3, <2>1, <2>2
<1>4. started' = started \/ (started' = started + 1 /\ stream'[started + 1].session = current)
  BY <1>3, StreamCases DEF Quieted, Reload
<1> QED BY <1>0, <1>1, <1>4, BoundsAssumption

\* A stream of which the backend has heard was started.
LEMMA HeardStep ==
  ASSUME IInv, Issued, [Next]_vars, NEW i \in Streams, stream'[i].server # "none"
  PROVE  stream'[i].client # "none"
<1> USE TypeParts DEF IInv, local, screen, backend, history
<1>0. /\ started \in 0..MaxStreams /\ stream \in [Streams -> StreamRecords]
      /\ stream[i].server # "none" => stream[i].client # "none"
  BY DEF StreamsOK, Issued
<1> DEFINE Good == stream'[i].client # "none"
<1>1. ASSUME NEW others \in [Streams -> StreamRecords], Begun(others),
             others[i].server # "none" => others[i].client # "none"
      PROVE  Good
  <2>1. PICK s, run, edit :
          stream' = [others EXCEPT ![started + 1] =
            [session |-> s, run |-> run, edit |-> edit, client |-> "open",
             server |-> "none", how |-> "none"]]
    BY <1>1 DEF Begun, Start
  <2> DEFINE new == [session |-> s, run |-> run, edit |-> edit, client |-> "open",
                     server |-> "none", how |-> "none"]
  <2>2. new.client = "open"
    OBVIOUS
  <2> HIDE DEF new
  <2>3. stream' = [others EXCEPT ![started + 1] = new]
    BY <2>1 DEF new
  <2>4. stream'[i] = new \/ stream'[i] = others[i]
    BY <2>3
  <2> QED BY <1>1, <2>2, <2>4
<1>2. ASSUME NEW j \in Streams
      PROVE  /\ Closed(j) \in [Streams -> StreamRecords]
             /\ Closed(j)[i].server # "none" => Closed(j)[i].client # "none"
  BY <1>0 DEF Closed, StreamRecords
<1>3. CASE UNCHANGED stream
  BY <1>0, <1>3
<1>4. ASSUME NEW j \in Streams, stream' = Closed(j) PROVE Good
  BY <1>2, <1>4
<1>5. ASSUME NEW j \in Streams, NEW server, NEW how, Told(j, server, how),
             stream[j].client # "none"
      PROVE  Good
  BY <1>0, <1>5 DEF Told
<1>6. CASE User
  <2>1. CASE Send \/ Answer \/ \E k \in Streams : Edit(k)
    BY <1>0, <1>1, <2>1, Begins
  <2>2. CASE StartEdit \/ RunWhatever \/ Create \/ \E s \in Sessions : Switch(s)
    BY <1>3, <2>2 DEF StartEdit, RunWhatever, Create, Switch, SwitchTo
  <2>3. CASE Stop
    <3>1. streamAbort \in Streams /\ stream' = Closed(streamAbort)
      BY <1>0, <2>3, BoundsAssumption DEF Stop, Closed, ScreenOK, Streams
    <3> QED BY <1>4, <3>1
  <2>4. CASE Reload
    <3>1. stream' = [j \in Streams |->
                       IF j \in Open THEN [stream[j] EXCEPT !.client = "over"] ELSE stream[j]]
      BY <2>4 DEF Reload
    <3>2. stream'[i] = [stream[i] EXCEPT !.client = "over"] \/ stream'[i] = stream[i]
      BY <3>1
    <3> QED BY <1>0, <3>2 DEF StreamRecords
  <2> QED BY <1>6, <2>1, <2>2, <2>3, <2>4 DEF User
<1>7. CASE Callback
  <2>1. CASE CreateFailed \/ \E s \in Sessions : Created(s)
    BY <1>3, <2>1 DEF CreateFailed, Created, SwitchTo
  <2>2. CASE \E k \in Loads : Repaint(k) \/ Show(k)
    BY <1>3, <2>2 DEF Repaint, Show
  <2>3. CASE \E j \in Streams : Finished(j) \/ Refused(j)
    BY <1>4, <2>3 DEF Finished, Refused
  <2>4. ASSUME NEW j \in Streams, Interrupted(j) PROVE Good
    <3>1. CASE whatever[current]
      BY <1>1, <1>2, <2>4, <3>1, Begins
    <3>2. CASE ~whatever[current]
      BY <1>4, <2>4, <3>2 DEF Interrupted
    <3> QED BY <3>1, <3>2
  <2> QED BY <1>7, <2>1, <2>2, <2>3, <2>4 DEF Callback
<1>8. ASSUME NEW j \in Streams, Accept(j) PROVE Good
  <2>1. stream[j].client # "none" /\ \E server, how : Told(j, server, how)
    BY <1>8, AcceptCases
  <2> QED BY <1>5, <2>1
<1>9. ASSUME NEW j \in Streams, Finish(j) \/ Drop(j) PROVE Good
  <2>1. \E server, how : Told(j, server, how)
    BY <1>9, EndCases
  <2>2. stream[j].client # "none"
    BY <1>9 DEF Finish, Drop, Issued
  <2> QED BY <1>5, <2>1, <2>2
<1>10. CASE \/ \E s \in Sessions : Make(s)
            \/ \E k \in Loads : Serve(k)
            \/ UNCHANGED vars
  BY <1>3, <1>10 DEF Make, Serve, vars
<1> HIDE DEF Good
<1>11. Good
  BY <1>6, <1>7, <1>8, <1>9, <1>10 DEF Next, Backend, Good
<1> QED BY <1>11 DEF Good

(***************************************************************************)
(* No row, no request and no stream is of a session that nobody was given. *)
(***************************************************************************)
LEMMA PlacedStep ==
  ASSUME IInv, Issued, Placed, [Next]_vars
  PROVE  Issued' /\ Placed'
<1> USE TypeParts DEF IInv, local, screen, backend, history
<1>1. ASSUME current' \in ids', ids \subseteq ids' PROVE Issued'
  <2>1. current \in ids
    BY DEF Issued
  <2>2. \A i \in 1..started' : stream'[i].session \in ids'
    BY <1>1, <2>1, NewHome DEF Issued
  <2>3. \A i \in Streams : stream'[i].server # "none" => stream'[i].client # "none"
    BY HeardStep
  <2> QED BY <1>1, <2>2, <2>3 DEF Issued
<1>2. ASSUME UNCHANGED <<owner, rows, lost>>, ids \subseteq ids',
             \A s \in Sessions : creation'[s] # "none" => creation[s] # "none" \/ s \in ids'
      PROVE  Placed'
  BY <1>2 DEF Placed
<1>3. ASSUME UNCHANGED <<owner, rows, lost, creation, ids>>, current' \in ids
      PROVE  Issued' /\ Placed'
  BY <1>1, <1>2, <1>3
<1>4. current \in ids /\ current \in Sessions
      /\ \A s \in Sessions : owner[s] = "visitor" \/ s \in lost \/ creation[s] # "none" => s \in ids
      /\ \A i \in 1..started : stream[i].session \in ids
  BY DEF Issued, Placed, SessionsOK
<1>5. CASE \/ Send \/ StartEdit \/ RunWhatever \/ Answer \/ Stop
           \/ \E k \in Streams : Edit(k)
  BY <1>3, <1>4, <1>5 DEF Send, StartEdit, RunWhatever, Answer, Stop, Edit
<1>6. CASE \E i \in Streams : Finished(i) \/ Refused(i) \/ Interrupted(i) \/ Drop(i)
  BY <1>3, <1>4, <1>6 DEF Finished, Refused, Interrupted, Drop
<1>7. CASE \E k \in Loads : Show(k) \/ Serve(k)
  BY <1>3, <1>4, <1>7 DEF Show, Serve
<1>8. CASE UNCHANGED vars
  BY <1>3, <1>4, <1>8 DEF vars
<1>9. CASE Create
  <2>1. PICK s \in Sessions : creation' = [creation EXCEPT ![s] = "sent"] /\ ids' = ids \cup {s}
    BY <1>9 DEF Create
  <2>2. \A z \in Sessions : creation'[z] # "none" => creation[z] # "none" \/ z \in ids'
    BY <2>1 DEF ScreenOK
  <2> QED BY <1>1, <1>2, <1>4, <1>9, <2>1, <2>2 DEF Create
<1>10. CASE Reload \/ CreateFailed
  <2>1. UNCHANGED <<owner, rows, lost, ids, current>> /\ creation' = GivenUp
    BY <1>10 DEF Reload, CreateFailed
  <2>2. \A z \in Sessions : creation'[z] # "none" => creation[z] # "none"
    BY <2>1 DEF GivenUp
  <2> QED BY <1>1, <1>2, <1>4, <2>1, <2>2
<1>11. CASE \E s \in Sessions : Switch(s)
  BY <1>3, <1>4, <1>11 DEF Switch, SwitchTo
<1>12. ASSUME NEW s \in Sessions, Created(s) PROVE Issued' /\ Placed'
  <2>1. UNCHANGED <<owner, rows, lost, ids>> /\ current' = s /\ s \in ids
        /\ creation' = [creation EXCEPT ![s] = "none"]
    BY <1>4, <1>12 DEF Created, SwitchTo
  <2>2. \A z \in Sessions : creation'[z] # "none" => creation[z] # "none"
    BY <2>1 DEF ScreenOK
  <2> QED BY <1>1, <1>2, <2>1, <2>2
<1>13. ASSUME NEW k \in Loads, Repaint(k) PROVE Issued' /\ Placed'
  <2>1. UNCHANGED <<owner, rows, lost, creation>>
    BY <1>13 DEF Repaint
  <2>2. \/ UNCHANGED <<current, ids>>
        \/ \E s \in Sessions \ ids : ids' = ids \cup {s} /\ current' = s
    BY <1>13, RepaintCases
  <2>3. ids \subseteq ids' /\ current' \in ids'
    BY <1>4, <2>2
  <2> QED BY <1>1, <1>2, <2>1, <2>3
<1>14. ASSUME NEW s \in Sessions, s \in ids, Admit(s), UNCHANGED <<current, ids>>,
              \A z \in Sessions \ {s} : rows'[z] = rows[z],
              \A z \in Sessions : creation'[z] # "none" => creation[z] # "none"
       PROVE  Issued' /\ Placed'
  <2>1. /\ lost \subseteq lost' /\ \A z \in lost' : z \in lost \/ owner[z] = "visitor"
        /\ owner'[s] = "visitor" /\ lost' \subseteq Sessions
        /\ \A z \in Sessions \ {s} : owner'[z] = owner[z] \/ (owner'[z] = "nobody" /\ z \in lost')
    BY <1>14, AdmitType
  <2>2. Placed'
    <3> SUFFICES ASSUME NEW z \in Sessions
                 PROVE  /\ \/ owner'[z] = "visitor" \/ z \in lost' \/ rows'[z] # <<>>
                           \/ creation'[z] # "none"
                           => z \in ids'
                        /\ owner'[z] = "visitor" \/ z \in lost' \/ rows'[z] = <<>>
      BY DEF Placed
    <3>1. CASE z = s
      BY <1>14, <2>1, <3>1
    <3>2. CASE z # s
      BY <1>14, <2>1, <3>2 DEF Placed
    <3> QED BY <3>1, <3>2
  <2> QED BY <1>1, <1>4, <1>14, <2>2
<1>15. ASSUME NEW s \in Sessions, Make(s) PROVE Issued' /\ Placed'
  <2>1. /\ s \in ids /\ Admit(s) /\ UNCHANGED <<current, ids, rows>>
        /\ creation' = [creation EXCEPT ![s] = IF @ = "sent" THEN "made" ELSE "none"]
        /\ creation[s] # "none"
    BY <1>4, <1>15 DEF Make
  <2>2. \A z \in Sessions : creation'[z] # "none" => creation[z] # "none"
    BY <2>1 DEF ScreenOK
  <2> QED BY <1>14, <2>1, <2>2
<1>16. ASSUME NEW i \in Streams, Accept(i) PROVE Issued' /\ Placed'
  <2>1. /\ stream[i].session \in Sessions /\ stream[i].session \in ids
        /\ UNCHANGED <<current, ids, creation>>
    <3>1. i \in 1..started /\ UNCHANGED <<current, ids, creation>>
      BY <1>16, AcceptCases
    <3>2. stream[i].session \in Sessions
      BY DEF StreamsOK, StreamRecords
    <3>3. stream[i].session \in ids
      BY <3>1 DEF Issued
    <3> QED BY <3>1, <3>2, <3>3
  <2>2. CASE UNCHANGED backend
    BY <1>3, <1>4, <2>1, <2>2
  <2>3. CASE Admit(stream[i].session) /\ rows' = [rows EXCEPT ![stream[i].session] = Stored(i)]
    <3>1. \A z \in Sessions \ {stream[i].session} : rows'[z] = rows[z]
      BY <2>3 DEF TextsOK
    <3> QED BY <1>14, <2>1, <2>3, <3>1
  <2> QED BY <1>16, <2>2, <2>3 DEF Accept
<1>17. ASSUME NEW i \in Streams, Finish(i) PROVE Issued' /\ Placed'
  <2>1. /\ stream[i].session \in Sessions /\ stream[i].session \in ids
        /\ UNCHANGED <<current, ids, creation>>
    <3>1. i \in 1..started
      <4>1. stream[i].client # "none"
        BY <1>17 DEF Finish, Issued
      <4> QED BY <4>1, BoundsAssumption DEF StreamsOK, Streams
    <3>2. UNCHANGED <<current, ids, creation>>
      BY <1>17, EndCases
    <3>3. stream[i].session \in Sessions
      BY DEF StreamsOK, StreamRecords
    <3>4. stream[i].session \in ids
      BY <3>1 DEF Issued
    <3> QED BY <3>2, <3>3, <3>4
  <2>2. CASE UNCHANGED backend
    BY <1>3, <1>4, <2>1, <2>2
  <2>3. CASE CameBack(i)
    <3>1. /\ lost' = lost \cup {stream[i].session} /\ owner'[stream[i].session] = "visitor"
          /\ \A z \in Sessions \ {stream[i].session} : owner'[z] = owner[z]
          /\ \A z \in Sessions : rows'[z] = rows[z] \/ rows'[z] = <<>>
      BY <2>1, <2>3, CameBackType
    <3>2. Placed'
      BY <2>1, <3>1 DEF Placed
    <3> QED BY <1>1, <1>4, <2>1, <3>2
  <2> QED BY <1>17, <2>2, <2>3 DEF Finish
<1> QED BY <1>5, <1>6, <1>7, <1>8, <1>9, <1>10, <1>11, <1>12, <1>13, <1>15, <1>16, <1>17
        DEF Next, User, Callback, Backend

\* Rows, requests and streams are of sessions that were handed out.
LEMMA PlacedInvariant == Spec => [](Issued /\ Placed)
<1>1. Init => Issued /\ Placed
  <2> SUFFICES ASSUME Init PROVE Issued /\ Placed
    OBVIOUS
  <2>1. /\ started = 0 /\ ids = {current} /\ lost = {} /\ Idle.server = "none"
        /\ rows = [s \in Sessions |-> <<>>] /\ creation = [s \in Sessions |-> "none"]
        /\ stream = [i \in Streams |-> Idle]
        /\ \A s \in Sessions : owner[s] = "visitor" => s = current
    BY DEF Init, Idle
  <2> QED BY <2>1 DEF Issued, Placed
<1>2. IInv /\ Issued /\ Placed /\ [Next]_vars => Issued' /\ Placed'
  BY PlacedStep
<1> QED BY <1>1, <1>2, Inductive, PTL DEF Spec

-----------------------------------------------------------------------------
(* The histories of NothingVanishes *)

Calm == ~moved /\ ~hasty /\ ~blurred /\ \A i \in 1..started : stream[i].how # "late"

\* The rows hold texts that were taken, in order.
Ledger == \A s \in Sessions :
  /\ Listed(stream, started, rows[s])
  /\ \A k \in DOMAIN rows[s] : stream[rows[s][k]].server \in {"running", "over"}

\* Only the newest stream may be open.
Newest == \A i \in Open : i = started

Sound == Ordered(stream, started) /\ Ledger /\ Newest

\* Nothing is shown, or about to be, that was not told.
Seen ==
  /\ \A a \in DOMAIN view.texts : view.texts[a] <= started
  /\ \A k \in Pending : load[k].at = "answered"
       => \A a \in DOMAIN load[k].texts : load[k].texts[a] <= started

\* The answer of a load is still what the rows hold.
Fresh == \A k \in Pending : load[k].at = "answered" => load[k].texts = rows[current]

\* What is open and stores a text is in the view.
Own(S, V) == \A i \in Streams :
  S[i].client = "open" /\ S[i].run = i /\ S[i].how # "refused" => \E m \in DOMAIN V : V[m] = i

Painted ==
  /\ view.session = current
  /\ Listed(stream, started, view.texts)
  /\ Newer(stream, rows[current], view.texts)
  /\ Shows(stream, started, current, rows[current], view.texts)
  /\ Own(stream, view.texts)
  /\ Stores(stream, rows[current], view.texts)

Settled == Calm =>
  Sound /\ Seen /\ (current \notin lost => Fresh /\ (Pending = {} => Painted))

(***************************************************************************)
(* Steps that store no text and start no stream.                           *)
(***************************************************************************)
LEMMA QuietSound ==
  ASSUME IInv, Sound, started' = started, \A i \in Streams : Stays(i), Open' \subseteq Open,
         rows' = rows
  PROVE  Sound'
<1> USE TypeParts DEF IInv
<1>0. started \in 0..MaxStreams /\ 1..started \subseteq Streams
  BY BoundsAssumption DEF StreamsOK, Streams
<1>1. Ordered(stream', started')
  BY <1>0 DEF Sound, Ordered, Stays
<1>2. Newest'
  BY DEF Sound, Newest
<1>3. ASSUME NEW s \in Sessions
      PROVE  /\ Listed(stream', started', rows'[s])
             /\ \A k \in DOMAIN rows'[s] : stream'[rows'[s][k]].server \in {"running", "over"}
  <2>1. rows[s] \in Seq(Streams) /\ Listed(stream, started, rows[s])
    BY DEF TextsOK, Sound, Ledger
  <2>2. SameIds(stream, stream', started)
    BY <1>0 DEF SameIds, Stays
  <2>3. /\ Listed(stream', started, rows[s])
        /\ \A a \in DOMAIN rows[s] : rows[s][a] \in 1..started
    BY <1>0, <2>1, <2>2, AlikeTexts
  <2>4. \A k \in DOMAIN rows[s] : stream'[rows[s][k]].server \in {"running", "over"}
    BY <1>0, <2>3 DEF Sound, Ledger, Stays
  <2> QED BY <2>3, <2>4
<1>4. Ledger'
  BY <1>3 DEF Ledger
<1> QED BY <1>1, <1>2, <1>4 DEF Sound

\* What was painted stays so if rows, view and session stay.
LEMMA QuietPainted ==
  ASSUME IInv, Ledger, Painted, started' = started, \A i \in Streams : Stays(i),
         Open' \subseteq Open, rows' = rows, current' = current, view' = view
  PROVE  Painted'
<1> USE TypeParts DEF IInv
<1> DEFINE R == rows[current]
           V == view.texts
<1>0. /\ started \in 0..MaxStreams /\ 1..started \subseteq Streams /\ started <= started
      /\ R \in Seq(Streams) /\ V \in Seq(Streams)
  BY BoundsAssumption DEF StreamsOK, Streams, TextsOK, SessionsOK
<1>1. /\ Listed(stream, started, R) /\ Listed(stream, started, V)
      /\ Newer(stream, R, V) /\ Shows(stream, started, current, R, V)
      /\ Own(stream, V) /\ Stores(stream, R, V) /\ view.session = current
  BY DEF Painted, Ledger, SessionsOK
<1>2. rows'[current'] = R /\ view'.texts = V /\ view'.session = current'
  BY <1>1
<1> HIDE DEF R, V
<1>3. Alike(stream, stream', started)
  BY <1>0 DEF Alike, Stays
<1>4. /\ Listed(stream', started, V) /\ Newer(stream', R, V)
      /\ Shows(stream', started, current, R, V)
  BY <1>0, <1>1, <1>3, AlikeView
<1>5. Own(stream', V)
  BY <1>1 DEF Own, Open, Stays
<1>6. Stores(stream', R, V)
  <2>1. Untaken(stream, stream', started)
    BY <1>0 DEF Untaken, Stays
  <2> QED BY <1>0, <1>1, <1>3, <2>1, SameStores, AlikeTexts DEF Alike, SameIds
<1> QED BY <1>2, <1>4, <1>5, <1>6 DEF Painted

\* What is painted afresh shows all that is stored.
LEMMA Repainted ==
  ASSUME TextsOK', Ledger', current' \in Sessions, Open' = {},
         view'.session = current', view'.texts = rows'[current']
  PROVE  Painted'
<1> DEFINE R == rows'[current']
<1>1. Listed(stream', started', R) /\ view'.texts = R /\ R \in Seq(Streams)
  BY DEF Ledger, TextsOK
<1> HIDE DEF R
<1>2. Newer(stream', R, R)
  <2> SUFFICES ASSUME NEW k \in DOMAIN R, NEW m \in DOMAIN R,
                      IdIn(stream', R[k]) = IdIn(stream', R[m])
               PROVE  R[k] <= R[m]
    BY DEF Newer
  <2>1. k = m
    BY <1>1 DEF Listed
  <2>2. R[k] \in Streams
    BY <1>1
  <2>3. R[k] \in Nat
    BY <2>2 DEF Streams
  <2> QED BY <2>1, <2>3
<1>3. Shows(stream', started', current', R, R)
  BY DEF Shows
<1>4. Own(stream', R) /\ Stores(stream', R, R)
  BY DEF Own, Open, Stores
<1> QED BY <1>1, <1>2, <1>3, <1>4 DEF Painted, R

(***************************************************************************)
(* A stream begins while none is open: the rows stay, and it is the newest.*)
(***************************************************************************)
LEMMA StartSound ==
  ASSUME IInv, Sound, NEW run \in 0..MaxStreams, NEW edit \in 0..MaxStreams,
         NEW others \in [Streams -> StreamRecords], Start(current, run, edit, others),
         \A i \in Streams :
           /\ others[i].client = "none" <=> i > started
           /\ others[i].client # "open"
           /\ others[i].session = stream[i].session /\ others[i].run = stream[i].run
           /\ others[i].edit = stream[i].edit /\ others[i].server = stream[i].server,
         edit < started + 1, edit # 0 => run = 0, rows' = rows
  PROVE  /\ Sound' /\ Open' = {started + 1} /\ started' = started + 1
         /\ started + 1 \in Streams /\ Alike(stream, stream', started)
         /\ Untaken(stream, stream', started)
         /\ stream'[started + 1] =
              [session |-> current, run |-> IF run = 0 THEN started + 1 ELSE run,
               edit |-> edit, client |-> "open", server |-> "none", how |-> "none"]
<1> USE TypeParts DEF IInv
<1> DEFINE n == started + 1
<1>1. /\ started' = n /\ n \in Streams /\ current \in Sessions
      /\ stream'[n] =
           [session |-> current, run |-> IF run = 0 THEN n ELSE run,
            edit |-> edit, client |-> "open", server |-> "none", how |-> "none"]
      /\ \A i \in Streams \ {n} : stream'[i] = others[i]
  <2>1. \A i \in Streams : others[i].client = "none" <=> i > started
    OBVIOUS
  <2>2. current \in Sessions
    BY DEF SessionsOK
  <2> QED BY <2>1, <2>2, StartType
<1>2. /\ stream'[n].session = current /\ stream'[n].run = (IF run = 0 THEN n ELSE run)
      /\ stream'[n].edit = edit /\ stream'[n].client = "open"
  BY <1>1
<1>3. started \in Nat /\ started \in 0..MaxStreams /\ n \in 0..MaxStreams /\ started <= n
      /\ 1..started \subseteq Streams \ {n} /\ 1..n = 1..started \cup {n}
  BY <1>1, BoundsAssumption DEF StreamsOK, Streams
<1>4. \A i \in 1..started : /\ stream'[i].session = stream[i].session
                             /\ stream'[i].run = stream[i].run
                             /\ stream'[i].edit = stream[i].edit
                             /\ stream'[i].server = stream[i].server
  BY <1>1, <1>3
<1>5. Open' = {n}
  BY <1>1, <1>2 DEF Open
<1> HIDE DEF n
<1>6. Ordered(stream', n)
  BY <1>2, <1>3, <1>4 DEF Sound, Ordered, n
<1>7. /\ SameIds(stream, stream', started) /\ Alike(stream, stream', started)
      /\ Untaken(stream, stream', started)
  BY <1>4 DEF SameIds, Alike, Untaken
<1>8. ASSUME NEW s \in Sessions
      PROVE  /\ Listed(stream', n, rows[s])
             /\ \A k \in DOMAIN rows[s] : stream'[rows[s][k]].server \in {"running", "over"}
  <2>1. rows[s] \in Seq(Streams) /\ Listed(stream, started, rows[s])
    BY DEF TextsOK, Sound, Ledger
  <2>2. /\ Listed(stream', n, rows[s])
        /\ \A a \in DOMAIN rows[s] : rows[s][a] \in 1..started
    BY <1>3, <1>7, <2>1, AlikeTexts
  <2>3. \A k \in DOMAIN rows[s] : stream[rows[s][k]].server \in {"running", "over"}
    BY DEF Sound, Ledger
  <2> QED BY <1>4, <2>2, <2>3
<1>9. Ledger'
  BY <1>1, <1>8 DEF Ledger, Sound
<1>10. Newest'
  BY <1>1, <1>5 DEF Newest
<1>11. Sound'
  BY <1>1, <1>6, <1>9, <1>10 DEF Sound
<1> QED BY <1>1, <1>5, <1>7, <1>11 DEF n

\* A resumed run, which stores no text, begins.
LEMMA ResumedPainted ==
  ASSUME IInv, Ledger, Painted, NEW run \in 1..started, UNCHANGED <<current, rows, view>>,
         Open' = {started + 1}, started' = started + 1, started + 1 \in Streams,
         Alike(stream, stream', started), Untaken(stream, stream', started),
         stream'[started + 1].run = run
  PROVE  Painted'
<1> USE TypeParts DEF IInv
<1> DEFINE R == rows[current]
           V == view.texts
           n == started + 1
<1>1. /\ started \in 0..MaxStreams /\ n \in 0..MaxStreams /\ started <= n /\ run # n
      /\ R \in Seq(Streams) /\ V \in Seq(Streams)
  BY BoundsAssumption DEF StreamsOK, Streams, TextsOK, SessionsOK
<1>2. /\ Listed(stream, started, R) /\ Listed(stream, started, V)
      /\ Newer(stream, R, V) /\ Shows(stream, started, current, R, V)
      /\ Stores(stream, R, V) /\ view.session = current
  BY DEF Painted, Ledger, SessionsOK
<1>3. /\ rows'[current'] = R /\ view'.texts = V /\ view'.session = current'
      /\ started' = n /\ Alike(stream, stream', started) /\ current' = current
  BY <1>2
<1>4. Own(stream', V)
  <2>1. \A i \in Streams : stream'[i].client = "open" => i = n
    BY DEF Open
  <2> QED BY <1>1, <2>1 DEF Own
<1> HIDE DEF R, V, n
<1>5. /\ Listed(stream', n, V) /\ Newer(stream', R, V)
      /\ Shows(stream', n, current, R, V)
  BY <1>1, <1>2, <1>3, AlikeView
<1>6. Stores(stream', R, V)
  BY <1>1, <1>2, <1>3, SameStores, AlikeTexts DEF Alike, SameIds
<1> QED BY <1>3, <1>4, <1>5, <1>6 DEF Painted

\* A post or an edit begins, and is painted.
LEMMA ToldPainted ==
  ASSUME IInv, Sound, Painted, UNCHANGED <<current, rows>>,
         Open' = {started + 1}, started' = started + 1, started + 1 \in Streams,
         Alike(stream, stream', started), Untaken(stream, stream', started),
         stream'[started + 1].session = current, stream'[started + 1].server = "none",
         NEW k, view'.session = view.session,
         Spliced(view.texts, k, started + 1, view'.texts),
         \/ k = Len(view.texts) + 1 /\ stream'[started + 1].edit = 0
         \/ k \in DOMAIN view.texts /\ stream'[started + 1].edit = IdIn(stream, view.texts[k])
  PROVE  Painted'
<1> USE TypeParts DEF IInv
<1> DEFINE R == rows[current]
           V == view.texts
           W == view'.texts
           n == started + 1
<1>1. /\ started \in 0..MaxStreams /\ R \in Seq(Streams) /\ V \in Seq(Streams)
      /\ stream \in [Streams -> StreamRecords] /\ n \in Streams
      /\ Ordered(stream, started)
  BY DEF StreamsOK, TextsOK, SessionsOK, Sound
<1>2. /\ Listed(stream, started, R) /\ Listed(stream, started, V)
      /\ Newer(stream, R, V) /\ Shows(stream, started, current, R, V)
      /\ Stores(stream, R, V) /\ view.session = current
  BY DEF Painted, Sound, Ledger, SessionsOK
<1>3. /\ rows'[current'] = R /\ view'.session = current' /\ current' = current
      /\ started' = n /\ Alike(stream, stream', started)
      /\ stream'[n].session = current /\ stream'[n].server = "none"
      /\ Spliced(V, k, n, W)
      /\ \/ k = Len(V) + 1 /\ stream'[n].edit = 0
         \/ k \in DOMAIN V /\ stream'[n].edit = IdIn(stream, V[k])
  BY <1>2
<1>4. Own(stream', W)
  <2>1. \A i \in Streams : stream'[i].client = "open" => i = n
    BY DEF Open
  <2>2. k \in DOMAIN W /\ W[k] = n
    BY <1>3 DEF Spliced
  <2> QED BY <2>1, <2>2 DEF Own
<1> HIDE DEF R, V, W
<1>5. /\ Listed(stream', n, W) /\ Newer(stream', R, W)
      /\ Shows(stream', n, current, R, W)
  BY <1>1, <1>2, <1>3, ToldView
<1>6. \A m \in DOMAIN V : V[m] \in 1..started
  BY <1>1, <1>2, AlikeTexts DEF SameIds
<1>7. Stores(stream', R, W)
  BY <1>1, <1>2, <1>3, <1>6, ToldStores
<1> HIDE DEF n
<1> QED BY <1>3, <1>4, <1>5, <1>7 DEF Painted, W

(***************************************************************************)
(* News that stores no text: a row keeps its texts, or loses them all.     *)
(***************************************************************************)
LEMMA NewsSettled ==
  ASSUME IInv, Sound, NEW i \in Streams, NEW server, NEW how, Told(i, server, how),
         UNCHANGED <<current, view, started>>,
         \A s \in Sessions : rows'[s] = rows[s] \/ rows'[s] = <<>>,
         stream[i].server \in {"running", "over"} => server \in {"running", "over"},
         stream[i].run = i /\ server \in {"running", "over"}
           => stream[i].server \in {"running", "over"},
         stream[i].edit # 0 /\ stream[i].server \in {"none", "denied"}
           => server \in {"none", "denied"},
         how # "refused" => stream[i].how # "refused"
  PROVE  Sound' /\ (Painted /\ rows'[current] = rows[current] => Painted')
<1> USE TypeParts DEF IInv
<1>0. /\ started \in 0..MaxStreams /\ 1..started \subseteq Streams /\ started <= started
  BY BoundsAssumption DEF StreamsOK, Streams
<1>1. \A j \in Streams : /\ stream'[j].session = stream[j].session
                         /\ stream'[j].run = stream[j].run
                         /\ stream'[j].edit = stream[j].edit
                         /\ stream'[j].client = stream[j].client
                         /\ j # i => stream'[j] = stream[j]
  BY DEF Told
<1>2. Open' = Open
  BY <1>1 DEF Open
<1>3. Newest'
  BY <1>2 DEF Sound, Newest
<1>4. Ordered(stream', started)
  BY <1>0, <1>1 DEF Sound, Ordered
<1>5. SameIds(stream, stream', started)
  BY <1>0, <1>1 DEF SameIds
<1>6. ASSUME NEW s \in Sessions
      PROVE  /\ Listed(stream', started, rows'[s])
             /\ \A k \in DOMAIN rows'[s] : stream'[rows'[s][k]].server \in {"running", "over"}
  <2>1. rows[s] \in Seq(Streams) /\ Listed(stream, started, rows[s])
    BY DEF TextsOK, Sound, Ledger
  <2>2. /\ Listed(stream', started, rows[s])
        /\ \A a \in DOMAIN rows[s] : rows[s][a] \in 1..started
    BY <1>0, <1>5, <2>1, AlikeTexts
  <2>3. \A k \in DOMAIN rows[s] : stream'[rows[s][k]].server \in {"running", "over"}
    <3> SUFFICES ASSUME NEW k \in DOMAIN rows[s]
                 PROVE  stream'[rows[s][k]].server \in {"running", "over"}
      OBVIOUS
    <3>1. stream[rows[s][k]].server \in {"running", "over"} /\ rows[s][k] \in Streams
      BY <1>0, <2>2 DEF Sound, Ledger
    <3>2. CASE rows[s][k] = i
      BY <3>1, <3>2 DEF Told
    <3>3. CASE rows[s][k] # i
      BY <1>1, <3>1, <3>3
    <3> QED BY <3>2, <3>3
  <2>4. CASE rows'[s] = rows[s]
    BY <2>2, <2>3, <2>4
  <2>5. CASE rows'[s] = <<>>
    BY <2>5 DEF Listed
  <2> QED BY <2>4, <2>5
<1>7. Sound'
  <2>1. Ledger'
    BY <1>6 DEF Ledger
  <2> QED BY <1>3, <1>4, <2>1 DEF Sound
<1>8. ASSUME Painted, rows'[current] = rows[current] PROVE Painted'
  <2> DEFINE R == rows[current]
             V == view.texts
  <2>1. R \in Seq(Streams) /\ V \in Seq(Streams)
    BY DEF TextsOK, SessionsOK
  <2>2. /\ Listed(stream, started, R) /\ Listed(stream, started, V)
        /\ Newer(stream, R, V) /\ Shows(stream, started, current, R, V)
        /\ Own(stream, V) /\ Stores(stream, R, V) /\ view.session = current
    BY <1>8 DEF Painted, Sound, Ledger, SessionsOK
  <2>3. rows'[current'] = R /\ view'.texts = V /\ view'.session = current'
    BY <1>8, <2>2
  <2> HIDE DEF R, V
  <2>4. Alike(stream, stream', started)
    <3> SUFFICES ASSUME NEW j \in 1..started
                 PROVE  stream[j].edit # 0 /\ stream[j].server \in {"none", "denied"}
                          => stream'[j].server \in {"none", "denied"}
      BY <1>0, <1>1 DEF Alike
    <3>1. CASE j = i
      BY <3>1 DEF Told
    <3>2. CASE j # i
      BY <1>0, <1>1, <3>2
    <3> QED BY <3>1, <3>2
  <2>5. /\ Listed(stream', started, V) /\ Newer(stream', R, V)
        /\ Shows(stream', started, current, R, V)
    BY <1>0, <2>1, <2>2, <2>4, AlikeView
  <2>6. Own(stream', V)
    <3> SUFFICES ASSUME NEW j \in Streams, stream'[j].client = "open", stream'[j].run = j,
                        stream'[j].how # "refused"
                 PROVE  \E m \in DOMAIN V : V[m] = j
      BY DEF Own
    <3>1. stream[j].client = "open" /\ stream[j].run = j
      BY <1>1
    <3>2. stream[j].how # "refused"
      BY <1>1 DEF Told
    <3> QED BY <2>2, <3>1, <3>2 DEF Own
  <2>7. Stores(stream', R, V)
    <3>1. Untaken(stream, stream', started)
      <4> SUFFICES ASSUME NEW j \in 1..started, stream[j].run = j,
                          stream'[j].server \in {"running", "over"}
                   PROVE  stream[j].server \in {"running", "over"}
        BY <1>0, <1>1 DEF Untaken
      <4>1. CASE j = i
        BY <4>1 DEF Told
      <4>2. CASE j # i
        BY <1>0, <1>1, <4>2
      <4> QED BY <4>1, <4>2
    <3>2. \A m \in DOMAIN V : V[m] \in 1..started
      BY <1>0, <1>5, <2>1, <2>2, AlikeTexts
    <3> QED BY <2>2, <3>1, <3>2, SameStores
  <2> QED BY <2>3, <2>5, <2>6, <2>7 DEF Painted
<1> QED BY <1>7, <1>8

(***************************************************************************)
(* What an accepted post or edit stores.                                   *)
(***************************************************************************)
LEMMA StoredSplices ==
  ASSUME TypeOK, NEW i \in Streams, stream[i].run = i,
         stream[i].edit # 0 => Places(Texts(stream[i].session), stream[i].edit) # {}
  PROVE  LET old == Texts(stream[i].session)
         IN  \E p : /\ Spliced(old, p, i, Stored(i))
                    /\ \/ p = Len(old) + 1 /\ stream[i].edit = 0
                       \/ p \in DOMAIN old /\ stream[i].edit = IdIn(stream, old[p])
<1> DEFINE old == Texts(stream[i].session)
           place == CHOOSE k \in Places(old, stream[i].edit) : TRUE
<1>1. old \in Seq(Streams)
  BY TypeParts, TextsType DEF StreamsOK, StreamRecords
<1>2. CASE stream[i].edit = 0
  <2>1. Stored(i) = Append(old, i)
    BY <1>2 DEF Stored
  <2>2. Spliced(old, Len(old) + 1, i, Stored(i))
    BY <1>1, <2>1, AppendSplices
  <2> QED BY <1>2, <2>2
<1>3. CASE stream[i].edit # 0
  <2>1. place \in DOMAIN old /\ Id(old[place]) = stream[i].edit
    BY <1>3 DEF Places
  <2>2. Stored(i) = Append(SubSeq(old, 1, place - 1), i)
    BY <1>3 DEF Stored
  <2> HIDE DEF place
  <2>3. Spliced(old, place, i, Stored(i))
    BY <1>1, <2>1, <2>2, CutSplices
  <2>4. stream[i].edit = IdIn(stream, old[place])
    BY <2>1 DEF Id, IdIn
  <2> QED BY <2>1, <2>3, <2>4
<1> QED BY <1>2, <1>3

(***************************************************************************)
(* The backend takes a post or an edit of the page, the newest text: the   *)
(* row ends with it, and what was on the screen still is what is stored.   *)
(***************************************************************************)
LEMMA TakenSettled ==
  ASSUME IInv, Sound, NEW i \in 1..started, i = started,
         stream[i].session = current, stream[i].run = i, stream[i].client = "open",
         stream[i].server = "none", stream[i].how = "none",
         stream[i].edit # 0 => Places(Texts(current), stream[i].edit) # {},
         Told(i, "running", "none"),
         UNCHANGED <<current, view, started>>,
         rows' = [rows EXCEPT ![current] = Stored(i)]
  PROVE  Sound' /\ (Painted /\ Texts(current) = rows[current] => Painted')
<1> USE TypeParts DEF IInv
<1> DEFINE R == Texts(current)
           V == view.texts
           Q == Stored(i)
<1>0. /\ started \in 0..MaxStreams /\ 1..started \subseteq Streams /\ started <= started
      /\ i \in Streams /\ i \in 1..MaxStreams /\ current \in Sessions
      /\ V \in Seq(Streams) /\ stream \in [Streams -> StreamRecords]
  BY BoundsAssumption DEF StreamsOK, Streams, TextsOK, SessionsOK
<1>1. \A j \in Streams : /\ stream'[j].session = stream[j].session
                         /\ stream'[j].run = stream[j].run
                         /\ stream'[j].edit = stream[j].edit
                         /\ stream'[j].client = stream[j].client
                         /\ j # i => stream'[j] = stream[j]
  BY DEF Told
<1>2. Open' = Open
  BY <1>1 DEF Open
<1>3. Newest' /\ SameIds(stream, stream', started)
  BY <1>0, <1>1, <1>2 DEF Sound, Newest, SameIds
<1>4. Ordered(stream, i) /\ Ordered(stream', started)
  BY <1>0, <1>1 DEF Sound, Ordered
<1>5. /\ R \in Seq(Streams) /\ Listed(stream, i, R)
      /\ \A k \in DOMAIN R : stream[R[k]].server \in {"running", "over"}
  <2>1. R \in Seq(Streams) /\ (R = rows[current] \/ R = <<>>)
    BY <1>0, TextsType DEF Texts
  <2>2. CASE R = rows[current]
    BY <1>0, <2>1, <2>2 DEF Sound, Ledger
  <2>3. CASE R = <<>>
    BY <2>1, <2>3 DEF Listed
  <2> QED BY <2>1, <2>2, <2>3
<1>6. \A a \in DOMAIN R : R[a] # i
  BY <1>5
<1>7. PICK p : /\ Spliced(R, p, i, Q)
               /\ \/ p = Len(R) + 1 /\ stream[i].edit = 0
                  \/ p \in DOMAIN R /\ stream[i].edit = IdIn(stream, R[p])
  BY <1>0, StoredSplices
<1>8. rows'[current] = Q /\ \A s \in Sessions : s # current => rows'[s] = rows[s]
  BY <1>0 DEF TextsOK
<1>9. /\ Alike(stream, stream', i - 1) /\ stream'[i].edit = stream[i].edit
      /\ SameIds(stream, stream', i) /\ Untaken(stream, stream', i - 1)
  <2>1. \A j \in 1..i - 1 : j \in Streams /\ j # i
    BY <1>0
  <2> QED BY <1>0, <1>1, <1>3, <2>1 DEF Alike, Untaken
<1> HIDE DEF R, V, Q
<1>10. Listed(stream', i, Q)
  BY <1>0, <1>4, <1>5, <1>6, <1>7, <1>9, TakenList
<1>11. ASSUME Painted, R = rows[current] PROVE Painted'
  <2>1. /\ Listed(stream, i, V)
        /\ Newer(stream, R, V) /\ Shows(stream, i, current, R, V)
        /\ Own(stream, V) /\ Stores(stream, R, V) /\ view.session = current
    BY <1>0, <1>11 DEF Painted, V
  <2>2. \E m \in DOMAIN V : V[m] = i
    BY <1>0, <2>1 DEF Own
  <2>3. /\ Listed(stream', i, V)
        /\ Newer(stream', Q, V) /\ Shows(stream', i, current, Q, V)
    BY <1>0, <1>4, <1>5, <1>6, <1>7, <1>9, <2>1, <2>2, TakenView
  <2>4. Stores(stream', Q, V)
    BY <1>0, <1>4, <1>5, <1>6, <1>7, <1>9, <2>1, <2>2, TakenStores
  <2>5. Own(stream', V)
    <3> SUFFICES ASSUME NEW j \in Streams, stream'[j].client = "open"
                 PROVE  \E m \in DOMAIN V : V[m] = j
      BY DEF Own
    <3>1. j = i
      BY <1>1 DEF Open, Sound, Newest
    <3> QED BY <2>2, <3>1
  <2> QED BY <1>8, <2>1, <2>3, <2>4, <2>5 DEF Painted, V
<1>12. \A k \in DOMAIN Q : stream'[Q[k]].server \in {"running", "over"}
  <2> SUFFICES ASSUME NEW k \in DOMAIN Q PROVE stream'[Q[k]].server \in {"running", "over"}
    OBVIOUS
  <2>1. Q[k] = i \/ (k \in DOMAIN R /\ Q[k] = R[k])
    BY <1>5, <1>7, SplicedTexts
  <2>2. CASE Q[k] = i
    BY <2>2 DEF Told
  <2>3. CASE k \in DOMAIN R /\ Q[k] = R[k]
    <3>1. R[k] \in Streams /\ R[k] # i
      BY <1>5, <1>6, <2>3
    <3>2. stream[R[k]].server \in {"running", "over"}
      BY <1>5, <2>3
    <3> QED BY <1>1, <2>3, <3>1, <3>2
  <2> QED BY <2>1, <2>2, <2>3
<1>13. ASSUME NEW s \in Sessions, s # current
       PROVE  /\ Listed(stream', started, rows[s])
              /\ \A k \in DOMAIN rows[s] : stream'[rows[s][k]].server \in {"running", "over"}
  <2>1. rows[s] \in Seq(Streams) /\ Listed(stream, started, rows[s])
    BY DEF TextsOK, Sound, Ledger
  <2>2. Listed(stream', started, rows[s])
    BY <1>0, <1>3, <2>1, AlikeTexts
  <2>3. \A k \in DOMAIN rows[s] : /\ stream[rows[s][k]].server \in {"running", "over"}
                                   /\ rows[s][k] \in Streams
    BY <2>1 DEF Sound, Ledger
  <2>4. \A k \in DOMAIN rows[s] : stream'[rows[s][k]] = stream[rows[s][k]]
    BY <1>1, <2>3
  <2> QED BY <2>2, <2>3, <2>4
<1>14. Ledger'
  <2> SUFFICES ASSUME NEW s \in Sessions
               PROVE  /\ Listed(stream', started', rows'[s])
                      /\ \A k \in DOMAIN rows'[s] :
                           stream'[rows'[s][k]].server \in {"running", "over"}
    BY DEF Ledger
  <2>1. CASE s = current
    BY <1>8, <1>10, <1>12, <2>1
  <2>2. CASE s # current
    BY <1>8, <1>13, <2>2
  <2> QED BY <2>1, <2>2
<1> QED BY <1>3, <1>4, <1>11, <1>14 DEF Sound, R

\* A request that arrived late stays one.
LEMMA CalmStays ==
  ASSUME IInv, [Next]_vars, Calm'
  PROVE  Calm
<1> USE TypeParts DEF IInv, local, screen, backend, history
<1>0. /\ started \in 0..MaxStreams /\ 1..started \subseteq Streams \ {started + 1}
      /\ stream \in [Streams -> StreamRecords]
  BY BoundsAssumption DEF StreamsOK, Streams
<1> SUFFICES ASSUME NEW i \in 1..started, stream[i].how = "late"
             PROVE  stream'[i].how = "late"
  <2>1. 1..started \subseteq 1..started'
    BY StreamsStep DEF StreamsOK
  <2>2. ~moved /\ ~hasty /\ ~blurred
    BY HistoriesStay DEF Calm
  <2> QED BY <2>1, <2>2 DEF Calm
<1>1. ASSUME NEW others, others \in [Streams -> StreamRecords],
             \A j \in Streams : others[j].how = stream[j].how, Begun(others)
      PROVE  stream'[i].how = "late"
  <2>1. \E r : stream' = [others EXCEPT ![started + 1] = r]
    BY <1>1 DEF Begun, Start
  <2>2. stream'[i] = others[i]
    BY <1>0, <1>1, <2>1
  <2> QED BY <1>0, <1>1, <2>2
<1>2. Begun(stream) => stream'[i].how = "late"
  BY <1>0, <1>1
<1>3. ASSUME NEW j \in Streams, Begun(Closed(j)) PROVE stream'[i].how = "late"
  <2>1. Closed(j) \in [Streams -> StreamRecords]
        /\ \A k \in Streams : Closed(j)[k].how = stream[k].how
    BY DEF Closed, StreamsOK, StreamRecords
  <2> QED BY <1>1, <1>3, <2>1
<1>4. ASSUME \A j \in Streams : Stays(j) PROVE stream'[i].how = "late"
  BY <1>0, <1>4 DEF Stays
<1>5. ASSUME NEW j \in Streams, stream' = Closed(j) PROVE stream'[i].how = "late"
  BY <1>4, <1>5, ClosedStays
<1>6. ASSUME stream' = stream PROVE stream'[i].how = "late"
  BY <1>6
<1>7. ASSUME User PROVE stream'[i].how = "late"
  <2>1. CASE Send \/ Answer \/ \E k \in Streams : Edit(k)
    BY <1>2, <2>1, Begins
  <2>2. CASE StartEdit \/ RunWhatever \/ Create \/ \E s \in Sessions : Switch(s)
    BY <1>6, <2>2 DEF StartEdit, RunWhatever, Create, Switch, SwitchTo
  <2>3. CASE Stop
    <3>1. streamAbort \in Streams /\ stream' = Closed(streamAbort)
      BY <1>0, <2>3, BoundsAssumption DEF Stop, Closed, ScreenOK, Streams
    <3> QED BY <1>5, <3>1
  <2>4. CASE Reload
    BY <1>4, <2>4, ClosedStays
  <2> QED BY <1>7, <2>1, <2>2, <2>3, <2>4 DEF User
<1>8. ASSUME Callback PROVE stream'[i].how = "late"
  <2>1. CASE CreateFailed \/ \E s \in Sessions : Created(s)
    BY <1>6, <2>1 DEF CreateFailed, Created, SwitchTo
  <2>2. CASE \E k \in Loads : Repaint(k) \/ Show(k)
    BY <1>6, <2>2 DEF Repaint, Show
  <2>3. CASE \E j \in Streams : Finished(j) \/ Refused(j)
    BY <1>5, <2>3 DEF Finished, Refused
  <2>4. ASSUME NEW j \in Streams, Interrupted(j) PROVE stream'[i].how = "late"
    <3>1. CASE whatever[current]
      BY <1>3, <2>4, <3>1, Begins
    <3>2. CASE ~whatever[current]
      BY <1>5, <2>4, <3>2 DEF Interrupted
    <3> QED BY <3>1, <3>2
  <2> QED BY <1>8, <2>1, <2>2, <2>3, <2>4 DEF Callback
<1>9. ASSUME NEW j \in Streams, Accept(j) \/ Finish(j) \/ Drop(j)
      PROVE  stream'[i].how = "late"
  <2>1. CASE i # j
    <3>1. \E server, how : Told(j, server, how)
      BY <1>9, AcceptCases, EndCases
    <3> QED BY <1>0, <2>1, <3>1 DEF Told
  <2>2. CASE i = j
    <3>1. Told(i, "over", stream[i].how)
      BY <1>9, <2>2, AcceptCases, EndCases
    <3> QED BY <3>1 DEF Told
  <2> QED BY <2>1, <2>2
<1>10. CASE (\E s \in Sessions : Make(s)) \/ (\E k \in Loads : Serve(k)) \/ UNCHANGED vars
  BY <1>6, <1>10 DEF Make, Serve, vars
<1> QED BY <1>7, <1>8, <1>9, <1>10 DEF Next, Backend

\* A load that does not fail finds what there is to read.
LEMMA ServeTexts ==
  ASSUME TypeOK, NEW k \in Loads, Serve(k), ~blurred'
  PROVE  load'[k].texts = Texts(load[k].session)
<1> USE TypeParts
<1>1. load[k] \in LoadRecords /\ load \in [Loads -> LoadRecords]
  BY DEF LoadsOK
<1> DEFINE texts == Texts(load[k].session)
           answer == IF owner[load[k].session] = "other" THEN "missing" ELSE "row"
<1>2. load' = [load EXCEPT ![k].at = "answered", ![k].answer = answer, ![k].texts = texts]
  BY DEF Serve
<1> HIDE DEF texts, answer
<1>3. load'[k] = [load[k] EXCEPT !.at = "answered", !.answer = answer, !.texts = texts]
  BY <1>1, <1>2
<1>4. load'[k].texts = texts
  BY <1>1, <1>3 DEF LoadRecords
<1> QED BY <1>4 DEF texts

(***************************************************************************)
(* Every step keeps what is stored and what is painted together.           *)
(***************************************************************************)
LEMMA SettledStep ==
  ASSUME IInv, TypeOK', Undisturbed, AtHome, Issued, Placed, Settled, [Next]_vars
  PROVE  Settled'
<1> USE TypeParts DEF IInv
<1> DEFINE Good ==
      Sound' /\ Seen' /\ (current' \notin lost' => Fresh' /\ (Pending' = {} => Painted'))
<1> SUFFICES ASSUME Calm' PROVE Good
  BY DEF Settled
<1>0. TextsOK' /\ SessionsOK' /\ current \in Sessions
  BY DEF TypeOK, TextsOK, SessionsOK
<1>1. /\ Sound /\ Seen /\ (current \notin lost => Fresh /\ (Pending = {} => Painted))
      /\ Here /\ Loading /\ Offered
      /\ Open = IF sending THEN {streamAbort} ELSE {}
      /\ Open # {} => Pending = {} /\ card = 0
      /\ sending \in BOOLEAN
      /\ ~moved' /\ ~hasty' /\ ~blurred'
  <2>1. Calm
    BY CalmStays
  <2> QED BY <2>1 DEF Calm, Settled, AtHome, Undisturbed, ScreenOK
<1>2. /\ started \in 0..MaxStreams /\ 1..started \subseteq Streams
      /\ \A i \in Open : i \in 1..started /\ Open = {i} /\ i \in Streams
  <2>1. started \in 0..MaxStreams /\ 1..started \subseteq Streams
    BY BoundsAssumption DEF StreamsOK, Streams
  <2>2. \A i \in Open : i \in 1..started /\ i \in Streams
    BY <2>1, BoundsAssumption DEF Open, StreamsOK, Streams
  <2> QED BY <1>1, <2>1, <2>2
<1>3. ASSUME started' = started, \A i \in Streams : Stays(i), Open' \subseteq Open,
             UNCHANGED <<rows, current, view, load>>, lost \subseteq lost'
      PROVE  Good
  <2>1. Sound'
    BY <1>1, <1>3, QuietSound
  <2>2. Pending' = Pending
    BY <1>3 DEF Pending
  <2>3. Seen' /\ (Fresh => Fresh')
    BY <1>1, <1>3, <2>2 DEF Seen, Fresh
  <2>4. Painted => Painted'
    BY <1>1, <1>3, QuietPainted DEF Sound
  <2> QED BY <1>1, <1>3, <2>1, <2>2, <2>3, <2>4
<1>4. ASSUME started' = started, \A i \in Streams : Stays(i), Open' \subseteq Open, rows' = rows,
             view'.texts = view.texts \/ view'.texts = <<>>,
             NEW k \in Loads, Pending' = {k}, load'[k].at = "sent"
      PROVE  Good
  <2>1. Sound'
    BY <1>1, <1>4, QuietSound
  <2>2. Fresh' /\ Seen'
    BY <1>1, <1>4 DEF Fresh, Seen
  <2> QED BY <1>4, <2>1, <2>2
<1>5. ASSUME NEW s \in Sessions, NEW restore \in BOOLEAN, Fetch(s, restore), Pending = {}
      PROVE  loads + 1 \in Loads /\ Pending' = {loads + 1} /\ load'[loads + 1].at = "sent"
  <2>1. loads + 1 \in Loads
        /\ load'[loads + 1] = [session |-> s, restore |-> restore, at |-> "sent",
                               answer |-> "none", texts |-> <<>>]
    BY <1>5, FetchType
  <2>2. load'[loads + 1].at = "sent"
    BY <2>1
  <2>3. Pending' = {loads + 1}
    BY <1>5, PendingAfter
  <2> QED BY <2>1, <2>2, <2>3
<1>6. Open = {} => \A i \in Streams : /\ stream[i].client = "none" <=> i > started
                                     /\ stream[i].client # "open"
  BY DEF Open, StreamsOK
<1>7. 0 \in 0..MaxStreams /\ 0 < started + 1 /\ stream \in [Streams -> StreamRecords]
      /\ view.texts \in Seq(Streams)
  BY <1>2, BoundsAssumption DEF StreamsOK, TextsOK
<1>8. ASSUME NEW run \in 0..MaxStreams, NEW edit \in 0..MaxStreams,
             NEW others \in [Streams -> StreamRecords], Start(current, run, edit, others),
             \A i \in Streams :
               /\ others[i].client = "none" <=> i > started
               /\ others[i].client # "open"
               /\ others[i].session = stream[i].session /\ others[i].run = stream[i].run
               /\ others[i].edit = stream[i].edit /\ others[i].server = stream[i].server,
             edit < started + 1, edit # 0 => run = 0,
             UNCHANGED <<current, rows, lost, load>>, Pending = {},
             \/ run \in 1..started /\ view' = view
             \/ /\ run = 0 /\ view'.session = view.session
                /\ \E k : /\ Spliced(view.texts, k, started + 1, view'.texts)
                          /\ \/ k = Len(view.texts) + 1 /\ edit = 0
                             \/ k \in DOMAIN view.texts /\ edit = IdIn(stream, view.texts[k])
      PROVE  Good
  <2>1. /\ Sound' /\ Open' = {started + 1} /\ started' = started + 1
        /\ started + 1 \in Streams /\ Alike(stream, stream', started)
        /\ Untaken(stream, stream', started)
        /\ stream'[started + 1] =
             [session |-> current, run |-> IF run = 0 THEN started + 1 ELSE run,
              edit |-> edit, client |-> "open", server |-> "none", how |-> "none"]
    BY <1>1, <1>8, StartSound
  <2>2. /\ stream'[started + 1].session = current /\ stream'[started + 1].server = "none"
        /\ stream'[started + 1].edit = edit
        /\ stream'[started + 1].run = (IF run = 0 THEN started + 1 ELSE run)
    BY <2>1
  <2>3. Pending' = {} /\ Fresh' /\ (current' \notin lost' => Painted)
    BY <1>1, <1>8 DEF Pending, Fresh
  <2>4. CASE run \in 1..started /\ view' = view
    <3>1. stream'[started + 1].run = run
      BY <2>2, <2>4
    <3>2. Painted => Painted'
      BY <1>1, <1>8, <2>1, <2>4, <3>1, ResumedPainted DEF Sound
    <3>3. Seen'
      BY <1>1, <1>2, <1>7, <2>1, <2>3, <2>4, BoundsAssumption DEF Seen, Streams
    <3> QED BY <2>1, <2>3, <3>2, <3>3
  <2>5. CASE /\ run = 0 /\ view'.session = view.session
             /\ \E k : /\ Spliced(view.texts, k, started + 1, view'.texts)
                       /\ \/ k = Len(view.texts) + 1 /\ edit = 0
                          \/ k \in DOMAIN view.texts /\ edit = IdIn(stream, view.texts[k])
    <3>1. Painted => Painted'
      BY <1>1, <1>8, <2>1, <2>2, <2>5, ToldPainted
    <3>2. Seen'
      <4>1. PICK k : Spliced(view.texts, k, started + 1, view'.texts)
        BY <2>5
      <4>2. \A a \in DOMAIN view'.texts :
              \/ view'.texts[a] = started + 1
              \/ a \in DOMAIN view.texts /\ view'.texts[a] = view.texts[a]
        BY <1>7, <4>1, SplicedTexts
      <4>3. \A a \in DOMAIN view.texts : view.texts[a] \in Streams /\ view.texts[a] <= started
        BY <1>1, <1>7 DEF Seen
      <4>4. \A a \in DOMAIN view'.texts : view'.texts[a] <= started + 1
        BY <1>2, <4>2, <4>3, BoundsAssumption DEF Streams
      <4> QED BY <2>1, <2>3, <4>4 DEF Seen
    <3> QED BY <2>1, <2>3, <3>1, <3>2
  <2> QED BY <1>8, <2>4, <2>5
<1> HIDE DEF Good
<1>9. ASSUME Send PROVE Good
  <2>1. /\ Start(current, 0, 0, stream) /\ UNCHANGED <<current, rows, lost, load>>
        /\ view' = [view EXCEPT !.texts = Append(@, started + 1)]
        /\ Open = {} /\ Pending = {}
    BY <1>1, <1>9 DEF Send, NoFetch, backend
  <2>2. started + 1 \in Streams
    BY <1>2, <2>1, BoundsAssumption DEF Start, Streams
  <2>3. view'.session = view.session /\ view'.texts = Append(view.texts, started + 1)
    BY <2>1 DEF TextsOK
  <2>4. Spliced(view.texts, Len(view.texts) + 1, started + 1, view'.texts)
    BY <1>7, <2>2, <2>3, AppendSplices
  <2> QED BY <1>6, <1>7, <1>8, <2>1, <2>3, <2>4
<1>10. ASSUME NEW k \in Streams, Edit(k) PROVE Good
  <2> DEFINE t == view.texts[k]
             edit == Id(view.texts[k])
  <2>1. /\ Start(current, 0, edit, stream) /\ UNCHANGED <<current, rows, lost, load>>
        /\ view' = [view EXCEPT !.texts = Append(SubSeq(@, 1, k - 1), started + 1)]
        /\ Open = {} /\ Pending = {} /\ k \in DOMAIN view.texts
    BY <1>1, <1>10 DEF Edit, NoFetch, backend
  <2>2. started + 1 \in Streams
    BY <1>2, <2>1, BoundsAssumption DEF Start, Streams
  <2>3. view'.session = view.session
        /\ view'.texts = Append(SubSeq(view.texts, 1, k - 1), started + 1)
    BY <2>1 DEF TextsOK
  <2>4. Spliced(view.texts, k, started + 1, view'.texts)
    BY <1>7, <2>1, <2>2, <2>3, CutSplices
  <2>5. t \in Streams /\ edit = IdIn(stream, t)
    BY <1>7, <2>1 DEF Id, IdIn
  <2>6. t <= started /\ Ordered(stream, started)
    BY <1>1, <2>1 DEF Seen, Sound
  <2>7. IdIn(stream, t) \in Nat /\ IdIn(stream, t) # 0 /\ IdIn(stream, t) <= t /\ t \in 1..started
    BY <1>2, <1>7, <2>5, <2>6, IdsAreEarlier
  <2> HIDE DEF t, edit
  <2>8. edit \in 0..MaxStreams /\ edit < started + 1
    BY <1>2, <2>5, <2>7, BoundsAssumption
  <2> QED BY <1>6, <1>7, <1>8, <2>1, <2>3, <2>4, <2>5, <2>8 DEF t
<1>11. ASSUME Answer PROVE Good
  <2>1. /\ Start(current, card, 0, stream) /\ UNCHANGED <<current, rows, lost, load, view>>
        /\ Open = {} /\ Pending = {}
    BY <1>1, <1>11 DEF Answer, NoFetch, backend
  <2>2. card \in 1..started /\ card \in 0..MaxStreams
    BY <1>2, <1>11, BoundsAssumption DEF Answer, SessionsOK, Numbered
  <2> QED BY <1>6, <1>7, <1>8, <2>1, <2>2
<1>12. ASSUME \/ StartEdit \/ RunWhatever \/ Create \/ CreateFailed \/ UNCHANGED vars
              \/ \E s \in Sessions : Make(s)
       PROVE  Good
  <2>1. /\ UNCHANGED <<stream, started, rows, current, view, load>>
        /\ lost \subseteq lost'
    <3>1. CASE \E s \in Sessions : Make(s)
      BY <3>1, AdmitType DEF Make, NoFetch, local, screen
    <3>2. CASE StartEdit \/ RunWhatever \/ Create \/ CreateFailed \/ UNCHANGED vars
      BY <3>2
      DEF StartEdit, RunWhatever, Create, CreateFailed, NoFetch, local, screen, backend, vars
    <3> QED BY <1>12, <3>1, <3>2
  <2>2. Open' = Open /\ \A i \in Streams : Stays(i)
    BY <2>1, ClosedStays DEF Open
  <2> QED BY <1>3, <2>1, <2>2
<1>13. ASSUME NEW i \in Open, stream' = Closed(i), started' = started
       PROVE  Open' \subseteq Open /\ \A j \in Streams : Stays(j)
  BY <1>2, <1>13, ClosedStays, OpenAfter DEF Open
<1>14. ASSUME Stop PROVE Good
  <2>1. /\ UNCHANGED <<started, rows, lost, current, view, load>>
        /\ stream' = Closed(streamAbort) /\ streamAbort \in Open
    BY <1>1, <1>14 DEF Stop, NoFetch, local, backend, Closed
  <2> QED BY <1>3, <1>13, <2>1
<1>15. ASSUME NEW i \in Streams, Finished(i) PROVE Good
  <2>1. /\ UNCHANGED <<started, rows, lost, current, view, load>>
        /\ stream' = Closed(i) /\ i \in Open
    BY <1>15 DEF Finished, NoFetch, local, backend, Open
  <2> QED BY <1>3, <1>13, <2>1
<1>16. ASSUME NEW i \in Streams, Refused(i) PROVE Good
  <2>1. /\ UNCHANGED <<started, rows, current, view>> /\ stream' = Closed(i) /\ i \in Open
        /\ Fetch(current, TRUE) /\ Pending = {}
    BY <1>1, <1>16 DEF Refused, backend, Open
  <2>2. loads + 1 \in Loads /\ Pending' = {loads + 1} /\ load'[loads + 1].at = "sent"
    BY <1>0, <1>5, <2>1
  <2> QED BY <1>1, <1>4, <1>13, <2>1, <2>2
<1>17. ASSUME NEW i \in Streams, Interrupted(i) PROVE Good
  <2>1. /\ UNCHANGED <<rows, lost, current, view, load>> /\ i \in Open
    BY <1>17 DEF Interrupted, NoFetch, backend, Open
  <2>2. CASE ~whatever[current]
    BY <1>3, <1>13, <1>17, <2>1, <2>2 DEF Interrupted
  <2>3. CASE whatever[current]
    <3> DEFINE run == stream[i].run
    <3>1. Start(current, run, 0, Closed(i))
      BY <1>17, <2>3 DEF Interrupted
    <3>2. run \in 1..started /\ Pending = {} /\ Open = {i}
      BY <1>1, <1>2, <2>1 DEF Numbered
    <3>3. run \in 0..MaxStreams
      BY <1>7 DEF StreamRecords
    <3>4. /\ Closed(i) \in [Streams -> StreamRecords]
          /\ \A j \in Streams : /\ Closed(i)[j].client = "none" <=> j > started
                               /\ Closed(i)[j].session = stream[j].session
                               /\ Closed(i)[j].run = stream[j].run
          /\ Closed(i)[i].client = "over" /\ \A j \in Streams \ {i} : Closed(i)[j] = stream[j]
      BY <2>1, ClosedType DEF Open
    <3>5. \A j \in Streams : Closed(i)[j].client # "open"
      BY <3>2, <3>4 DEF Open
    <3>6. \A j \in Streams : /\ Closed(i)[j].edit = stream[j].edit
                            /\ Closed(i)[j].server = stream[j].server
      BY <1>7 DEF Closed, StreamRecords
    <3> HIDE DEF run
    <3> QED BY <1>8, <1>7, <2>1, <3>1, <3>2, <3>3, <3>4, <3>5, <3>6
  <2> QED BY <2>2, <2>3
<1>18. ASSUME Reload PROVE Good
  <2>1. /\ UNCHANGED <<started, rows>> /\ view'.texts = <<>>
        /\ Open' = {} /\ \A i \in Streams : Stays(i)
    BY <1>18, OpenAfter, ClosedStays DEF Reload, backend
  <2>2. /\ loads + 1 \in Loads
        /\ \A k \in Loads \ {loads + 1} : load'[k].at \in {"none", "over"}
    BY <1>0, <1>18, ReloadType
  <2>3. load'[loads + 1].at = "sent"
    <3>1. load'[loads + 1] = [Unsent EXCEPT !.session = current, !.restore = TRUE, !.at = "sent"]
      BY <1>18, <2>2 DEF Reload
    <3> QED BY <3>1, UnsentType DEF LoadRecords
  <2>4. Pending' = {loads + 1}
    BY <2>2, <2>3 DEF Pending
  <2> QED BY <1>1, <1>4, <2>1, <2>2, <2>3, <2>4
<1>19. ASSUME NEW s \in Sessions, SwitchTo(s), rows' = rows PROVE Good
  <2>1. UNCHANGED <<started, stream, view>> /\ current' = s /\ Fetch(s, FALSE) /\ Pending = {}
    BY <1>1, <1>19 DEF SwitchTo, screen
  <2>2. loads + 1 \in Loads /\ Pending' = {loads + 1} /\ load'[loads + 1].at = "sent"
    BY <1>5, <2>1
  <2>3. Open' = Open /\ \A i \in Streams : Stays(i)
    BY <2>1, ClosedStays DEF Open
  <2> QED BY <1>4, <1>19, <2>1, <2>2, <2>3
<1>20. ASSUME NEW s \in Sessions, Switch(s) \/ Created(s) PROVE Good
  BY <1>19, <1>20 DEF Switch, Created, backend
<1>22. ASSUME NEW k \in Loads, load[k].at = "answered", Over(k), started' = started,
              UNCHANGED <<stream, rows, lost>>,
              view'.texts = load[k].texts \/ view'.texts = <<>>,
              current' \notin lost => view'.session = current' /\ view'.texts = rows[current']
       PROVE  Good
  <2>1. Pending = {k} /\ Pending' = {}
    BY <1>1, <1>22, PendingAfter DEF Loading
  <2>2. Open' = {} /\ Open' \subseteq Open /\ \A i \in Streams : Stays(i)
    BY <1>1, <1>22, <2>1, ClosedStays DEF Open
  <2>3. Sound'
    BY <1>1, <1>22, <2>2, QuietSound
  <2>4. current' \notin lost' => Painted'
    BY <1>0, <1>22, <2>2, <2>3, Repainted DEF Sound, SessionsOK
  <2>5. Fresh' /\ Seen'
    BY <1>1, <1>22, <2>1 DEF Fresh, Seen
  <2> QED BY <2>3, <2>4, <2>5 DEF Good
<1>23. ASSUME NEW k \in Loads, Repaint(k) PROVE Good
  <2>1. /\ load[k].at = "answered" /\ Over(k) /\ UNCHANGED <<started, stream, rows, lost>>
        /\ k \in Pending
    BY <1>23, RepaintCases DEF Pending
  <2>2. /\ load[k].session = current /\ load[k].answer \in {"row", "missing"}
        /\ current \notin lost => load[k].texts = rows[current]
    BY <1>1, <2>1 DEF Loading, Fresh
  <2>3. CASE load[k].answer = "row"
    <3>1. /\ view' = [session |-> current, texts |-> load[k].texts]
          /\ UNCHANGED current
      BY <1>23, <2>2, <2>3 DEF Repaint
    <3>2. view'.session = current /\ view'.texts = load[k].texts
      BY <3>1
    <3> QED BY <1>22, <2>1, <2>2, <3>1, <3>2
  <2>4. CASE load[k].answer = "missing"
    <3>1. PICK s \in Sessions \ ids : /\ current' = s
                                      /\ view' = [session |-> s, texts |-> <<>>]
      BY <1>23, <2>4 DEF Repaint
    <3>2. rows[s] = <<>>
      BY DEF Placed
    <3>3. view'.session = s /\ view'.texts = <<>>
      BY <3>1
    <3> QED BY <1>22, <2>1, <3>1, <3>2, <3>3
  <2> QED BY <2>2, <2>3, <2>4
<1>24. ASSUME NEW k \in Loads, Show(k) PROVE Good
  <2>1. /\ load[k].at = "answered" /\ Over(k)
        /\ UNCHANGED <<started, stream, rows, lost, current>>
        /\ view' = [session |-> load[k].session, texts |-> load[k].texts] /\ k \in Pending
    BY <1>24 DEF Show, backend, Pending
  <2>2. load[k].session = current /\ (current \notin lost => load[k].texts = rows[current])
    BY <1>1, <2>1 DEF Loading, Fresh
  <2>3. view'.session = current /\ view'.texts = load[k].texts
    BY <2>1, <2>2
  <2> QED BY <1>22, <2>1, <2>2, <2>3
<1>25. ASSUME NEW k \in Loads, Serve(k) PROVE Good
  <2>1. /\ UNCHANGED <<started, stream, rows, lost, current, view>>
        /\ k \in Pending /\ Pending' = Pending
    BY <1>25, PendingAfter DEF Serve, local, screen, backend, Pending
  <2>2. Pending = {k} /\ load[k].session = current
    BY <1>1, <2>1 DEF Loading
  <2>3. load'[k].texts = Texts(current)
    BY <1>1, <1>25, <2>2, ServeTexts
  <2>4. current \notin lost => Fresh'
    BY <1>0, <2>1, <2>2, <2>3, RowsRead DEF Fresh
  <2>5. Open' = Open /\ \A i \in Streams : Stays(i)
    BY <2>1, ClosedStays DEF Open
  <2>6. Sound'
    BY <1>1, <2>1, <2>5, QuietSound
  <2>7. \A a \in DOMAIN load'[k].texts : load'[k].texts[a] <= started
    BY <1>0, <1>1, <2>3 DEF Texts, Sound, Ledger, Listed
  <2>8. Seen'
    BY <1>1, <2>1, <2>2, <2>7 DEF Seen
  <2> QED BY <2>1, <2>2, <2>4, <2>6, <2>8 DEF Good
<1>26. ASSUME UNCHANGED <<load, current, view, started>>, Sound', lost \subseteq lost',
              current \notin lost' => rows'[current] = rows[current] /\ (Painted => Painted')
       PROVE  Good
  <2>1. Pending' = Pending
    BY <1>26 DEF Pending
  <2>2. Seen'
    BY <1>1, <1>26, <2>1 DEF Seen
  <2> QED BY <1>1, <1>26, <2>1, <2>2 DEF Good, Fresh
<1>27. ASSUME NEW i \in Streams, Finish(i) \/ Drop(i) PROVE Good
  <2>1. /\ UNCHANGED <<load, current, view, started>> /\ lost \subseteq lost'
        /\ \A z \in Sessions : rows'[z] = rows[z] \/ (rows'[z] = <<>> /\ z \in lost')
    BY <1>27, EndCases
  <2>2. ASSUME NEW server, NEW how, Told(i, server, how),
               stream[i].server \in {"running", "over"} => server \in {"running", "over"},
               stream[i].server \in {"none", "denied"} => server \in {"none", "denied"},
               server \in {"running", "over"} => stream[i].server \in {"running", "over"},
               how # "refused" => stream[i].how # "refused"
        PROVE  Sound' /\ (Painted /\ rows'[current] = rows[current] => Painted')
    BY <1>1, <2>1, <2>2, NewsSettled
  <2>3. Sound' /\ (Painted /\ rows'[current] = rows[current] => Painted')
    BY <1>27, <2>2, EndCases
  <2>4. current \notin lost' => rows'[current] = rows[current]
    BY <1>0, <2>1
  <2> QED BY <1>26, <2>1, <2>3, <2>4
<1>28. ASSUME NEW i \in Streams, Accept(i) PROVE Good
  <2> DEFINE arrived == IF stream[i].client = "over" THEN "late" ELSE "none"
  <2>1. /\ stream[i].client # "none" /\ stream[i].server = "none" /\ stream[i].how = "none"
        /\ i \in 1..started /\ UNCHANGED <<load, current, view, started>>
        /\ lost \subseteq lost'
    BY <1>28, AcceptCases
  <2>2. ASSUME NEW server, NEW how, Told(i, server, how), rows' = rows,
               server = "denied" \/ stream[i].run # i
        PROVE  Good
    <3>1. stream[i].edit # 0 => stream[i].run = i
      BY <1>1, <2>1 DEF Sound, Ordered
    <3>2. Sound' /\ (Painted => Painted')
      BY <1>1, <2>1, <2>2, <3>1, NewsSettled
    <3> QED BY <1>26, <2>1, <2>2, <3>2
  <2>3. ASSUME stream[i].run = i, Told(i, "running", arrived),
               stream[i].edit # 0 => Places(Texts(stream[i].session), stream[i].edit) # {},
               rows' = [rows EXCEPT ![stream[i].session] = Stored(i)]
        PROVE  Good
    <3>1. stream[i].client = "open" /\ i \in Open
      <4>1. stream'[i].how # "late"
        BY <2>1 DEF Calm
      <4>2. stream[i].client # "over"
        BY <2>3, <4>1 DEF Told
      <4>3. stream[i].client \in {"none", "open", "over"}
        BY <1>7 DEF StreamRecords
      <4> QED BY <2>1, <4>2, <4>3 DEF Open
    <3>2. /\ i = started /\ stream[i].session = current /\ Pending = {}
          /\ Told(i, "running", "none")
      BY <1>1, <2>3, <3>1 DEF Here, Sound, Newest
    <3>3. Pending' = {} /\ Fresh' /\ Seen'
      BY <1>1, <2>1, <3>2 DEF Pending, Fresh, Seen
    <3>4. Sound' /\ (Painted /\ Texts(current) = rows[current] => Painted')
      BY <1>1, <2>1, <2>3, <3>1, <3>2, TakenSettled
    <3>5. current' \notin lost' => Painted /\ Texts(current) = rows[current]
      BY <1>0, <1>1, <2>1, <3>2, RowsRead
    <3> QED BY <3>3, <3>4, <3>5 DEF Good
  <2> QED BY <1>28, <2>2, <2>3, AcceptCases
<1> QED BY <1>9, <1>10, <1>11, <1>12, <1>14, <1>15, <1>16, <1>17, <1>18, <1>20, <1>23,
           <1>24, <1>25, <1>27, <1>28 DEF Next, User, Callback, Backend

(***************************************************************************)
(* What is stored stays on the screen, and what is on the screen stays     *)
(* stored once it was taken, in the histories of NothingVanishes: send,    *)
(* startEdit, resumeHitl, restoreSession and loadSessionIntoView of        *)
(* app.js, for any number of sessions, streams and loads, while creations  *)
(* delete other sessions.                                                  *)
(***************************************************************************)
THEOREM TextsStay == Spec => []NothingVanishes
<1> USE TypeParts DEF IInv
<1>1. ASSUME Init PROVE Settled
  <2>1. /\ started = 0 /\ current \in Sessions /\ Open = {}
        /\ rows = [s \in Sessions |-> <<>>] /\ view = [session |-> current, texts |-> <<>>]
    BY <1>1, UnsentType DEF Init, Open
  <2>2. Sound
    BY <2>1 DEF Sound, Ordered, Ledger, Newest, Listed
  <2>3. \A k \in Loads : load[k].at # "answered"
    <3>1. [Unsent EXCEPT !.session = current, !.restore = TRUE, !.at = "sent"].at = "sent"
      BY UnsentType DEF LoadRecords
    <3> DEFINE new == [Unsent EXCEPT !.session = current, !.restore = TRUE, !.at = "sent"]
    <3>2. load = [k \in Loads |-> IF k = 1 THEN new ELSE Unsent]
      BY <1>1 DEF Init
    <3> HIDE DEF new
    <3> QED BY <3>1, <3>2, UnsentType DEF new
  <2>4. Fresh /\ Seen
    BY <2>1, <2>3 DEF Fresh, Seen, Pending
  <2>5. Painted
    BY <2>1 DEF Painted, Listed, Newer, Shows, Own, Stores, Open
  <2> QED BY <2>2, <2>4, <2>5 DEF Settled
<1>2. ASSUME IInv, Placed, Settled PROVE NothingVanishes
  <2> SUFFICES ASSUME ~moved, ~hasty, ~blurred, Pending = {}, current \notin lost,
                      \A i \in Streams : stream[i].how # "late"
               PROVE  /\ view.session = current /\ Expected \subseteq Range(view.texts)
                      /\ {i \in Range(view.texts) : Taken(i)} \subseteq Range(Texts(current))
                      /\ \A i \in Open : stream[i].run = i /\ stream[i].how # "refused"
                                         => i \in Range(view.texts)
    BY DEF NothingVanishes
  <2>1. Painted
    <3>1. 1..started \subseteq Streams
      BY <1>2, BoundsAssumption DEF StreamsOK, Streams
    <3> QED BY <1>2, <3>1 DEF Settled, Calm
  <2>2. Texts(current) = rows[current]
    BY <1>2, RowsRead DEF SessionsOK
  <2>3. \A i \in Open : stream[i].run = i /\ stream[i].how # "refused" => i \in Range(view.texts)
    BY <2>1 DEF Painted, Own, Open, Range
  <2>4. ASSUME NEW k \in DOMAIN rows[current], ~Abandoned(k)
        PROVE  rows[current][k] \in Range(view.texts)
    <3>1. \A i \in rows[current][k]..started : ~Drops(stream, current, i, rows[current], k)
      BY <2>2, <2>4 DEF Abandoned, Drops, Places, Id, IdIn
    <3>2. \E m \in DOMAIN view.texts : view.texts[m] = rows[current][k]
      BY <2>1, <3>1 DEF Painted, Shows
    <3> QED BY <3>2 DEF Range
  <2>5. {i \in Range(view.texts) : Taken(i)} \subseteq Range(rows[current])
    BY <2>1 DEF Painted, Stores, Taken, Range
  <2> QED BY <2>1, <2>2, <2>3, <2>4, <2>5 DEF Painted, Expected
<1>3. IInv /\ TypeOK' /\ Undisturbed /\ AtHome /\ Issued /\ Placed /\ Settled /\ [Next]_vars
        => Settled'
  BY SettledStep
<1> QED BY <1>1, <1>2, <1>3, Inductive, TypeCorrect, HomesInvariant, PlacedInvariant, PTL DEF Spec

=============================================================================
