---------------------------------- MODULE Link ----------------------------------
(* What the engine may rely on of the threads that serve one connection, as  *)
(* the variable thread of Swarm has it: a connector reports once; then the   *)
(* messages of the peer come, each of them, in the order in which the peer   *)
(* sent them and none after one that is bad; then Died, once, and nothing    *)
(* more.  After the engine has closed the socket some may still come.        *)
EXTENDS Integers, Sequences

CONSTANT Bad
VARIABLES
    script,         \* what the peer sends, again and again
    status,         \* "connecting", "open", "shut" (closed by us), "gone", or with
                    \* the engine, "over"
    heard,          \* which message of the script the engine waits for
    last            \* the message it handled last

Init == status = "connecting" /\ heard = 0 /\ last = Bad

(* Connected or ConnectFailed *)
Report ==
    /\ status = "connecting" /\ status' \in {"open", "shut", "gone"}
    /\ UNCHANGED <<script, heard, last>>

Hear ==
    /\ status \in {"open", "shut"}
    /\ last' = script[heard + 1] /\ last' # Bad
    /\ heard' = (heard + 1) % Len(script)
    /\ UNCHANGED <<script, status>>

Close == status = "open" /\ status' = "shut" /\ UNCHANGED <<script, heard, last>>

Die == status \in {"open", "shut"} /\ status' = "gone" /\ UNCHANGED <<script, heard, last>>

End == status' = "over" /\ UNCHANGED <<script, heard, last>>

Next == Report \/ Hear \/ Close \/ Die \/ End
Spec == Init /\ [][Next]_<<script, status, heard, last>>
=============================================================================
