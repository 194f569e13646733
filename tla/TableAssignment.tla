--------------------------- MODULE TableAssignment ---------------------------
(***************************************************************************)
(* What the instances of the bot promise each other about the tables on    *)
(* the screen (CAutoConnector.cpp, header: "automatically connecting to    *)
(* unserved poker-tables").  A session either holds one table or none.  It *)
(* takes a table only while it holds none itself and no other session      *)
(* holds that table; it never passes from one table to another without     *)
(* letting go in between.  Nothing is said of how the sessions find out.   *)
(***************************************************************************)

CONSTANTS SessionId, Table, NoTable

VARIABLE holds

Init == holds = [i \in SessionId |-> NoTable]

Claim(i, t) ==
  /\ holds[i] = NoTable
  /\ \A j \in SessionId : holds[j] # t
  /\ holds' = [holds EXCEPT ![i] = t]

Release(i) == holds' = [holds EXCEPT ![i] = NoTable]

Next == \E i \in SessionId : Release(i) \/ \E t \in Table : Claim(i, t)

Spec == Init /\ [][Next]_holds
=============================================================================
