--------------------------- MODULE SessionContract ---------------------------
(***************************************************************************)
(* What the sessions API promises about one session id, however requests,  *)
(* process crashes and daemon restarts interleave: the id is served during *)
(* one interval of its life.  When the daemon goes away it may be reported *)
(* as ended by the next one or be forgotten with the list it was in, and a *)
(* list that turns up again can only bring it back as ended.               *)
(***************************************************************************)
CONSTANT ids
VARIABLE life

Stages == {"new", "serving", "ending", "ended", "forgotten"}

Init == life = [s \in ids |-> "new"]

\* Create returned the id.
Publish(s) == life[s] = "new" /\ life' = [life EXCEPT ![s] = "serving"]

\* A stop was accepted; stopping an ended session again is accepted too.
BeginEnd(s) ==
  /\ life[s] \in {"serving", "ended"}
  /\ life' = [life EXCEPT ![s] = "ending"]

\* The stop is over, or the process was found dead.
End(s) ==
  /\ life[s] \in {"serving", "ending"}
  /\ life' = [life EXCEPT ![s] = "ended"]

\* The daemon is gone, or the list of sessions it left behind changed.
NextDaemon ==
  /\ life' \in [ids -> Stages]
  /\ \A s \in ids : IF life[s] = "new" THEN life'[s] = "new"
                    ELSE life'[s] \in {"ended", "forgotten"}

Next == (\E s \in ids : Publish(s) \/ BeginEnd(s) \/ End(s)) \/ NextDaemon

Spec == Init /\ [][Next]_life
=============================================================================
