------------------------------ MODULE TempStore ------------------------------
(* What the temporary store of uploads promises its clients: an upload is     *)
(* open until a commit takes it; the commit either spends it for good or      *)
(* opens it again; one that is not spent in time is lost, even from under the *)
(* commit that has taken it, which may still succeed.                         *)

CONSTANT Token
VARIABLE upload

State == {"unknown", "open", "taken", "spent", "lost"}

Moves ==
  {<<"unknown", "open">>, <<"open", "taken">>, <<"taken", "open">>,
   <<"taken", "spent">>, <<"open", "lost">>, <<"taken", "lost">>,
   <<"lost", "spent">>}

Init == upload = [t \in Token |-> "unknown"]

\* Several uploads may be lost in the step in which another one is taken.
Next ==
  /\ upload' \in [Token -> State]
  /\ \A t \in Token : upload'[t] # upload[t] => <<upload[t], upload'[t]>> \in Moves

Spec == Init /\ [][Next]_upload
=============================================================================
