----------------------------- MODULE MCChatPage -----------------------------
(***************************************************************************)
(* TLC instance of ChatPage. The histories only ever turn TRUE, and once   *)
(* one of the first two has, no property says anything any more: such a    *)
(* state is checked and not followed further. After a load that failed or  *)
(* overlapped with another, where only the stop button's property speaks,  *)
(* one stream less is followed.                                            *)
(***************************************************************************)
EXTENDS ChatPage, TLC
Judged == ~moved /\ ~hasty /\ (blurred => started < MaxStreams)
Symmetry == Permutations(Sessions)
=============================================================================
