---------------------------- MODULE EventStream ----------------------------
(***************************************************************************)
(* What a stream of a run promises, whatever carries it: the page gets the *)
(* events the Agent meant, in order, none twice and none invented, up to   *)
(* the first one that ends the run. The only other thing it may get is an  *)
(* error in place of the rest; it may also get no more at all.             *)
(***************************************************************************)
EXTENDS Naturals, Sequences

CONSTANTS Events,  \* records with a type and the number of the frame they came in
          Err      \* the error the service reports on its own

VARIABLES sent,  \* what the Agent has meant so far
          got,   \* what the page has handled so far
          open   \* the page still reads

Terminal(e) == e.type \in {"interrupt", "cancelled", "done", "error"}
Ended(s) == s # <<>> /\ Terminal(s[Len(s)])

Init == sent = <<>> /\ got = <<>> /\ open = TRUE

Send ==
  /\ ~Ended(sent)
  /\ \E e \in Events : sent' = Append(sent, e)
  /\ UNCHANGED <<got, open>>

\* The page handles the next event, and may stop reading with it.
Deliver ==
  /\ open /\ ~Ended(got)
  /\ got' \in {Append(got, Err)} \cup
              {Append(got, sent[i]) : i \in {Len(got) + 1} \cap DOMAIN sent}
  /\ open' \in BOOLEAN
  /\ UNCHANGED sent

Close == open /\ open' = FALSE /\ UNCHANGED <<sent, got>>

Next == Send \/ Deliver \/ Close

Spec == Init /\ [][Next]_<<sent, got, open>>
=============================================================================
