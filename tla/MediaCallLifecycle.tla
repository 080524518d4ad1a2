------------------------- MODULE MediaCallLifecycle -------------------------
(***************************************************************************)
(* What the media call server promises about one call record, whichever    *)
(* requests, clients, sweeps and transfers are in flight: the record moves *)
(* through the states of IMediaCall, one session of the callee at most     *)
(* ever signs it, the end is final, and the end is reported to the call    *)
(* history no more than once.  CallServer implements it.                   *)
(***************************************************************************)
EXTENDS Naturals

CONSTANTS
    Calls,      \* identifiers a call record may get
    Sessions,   \* client sessions (contract ids)
    None        \* "no session"

VARIABLES
    state,      \* state[c]: the stored state, "absent" before the insertion
    contract,   \* contract[c]: the session that signed for the callee
    history     \* history[c]: how often the end of c was sent to the history

vars == <<state, contract, history>>

(* The states that the collection stores, and "absent" for no record. *)
States == {"absent", "none", "ringing", "accepted", "active", "hangup"}

(* The call is stored and has not ended. *)
Unfinished(c) == state[c] \notin {"absent", "hangup"}

Init == /\ state = [c \in Calls |-> "absent"]
        /\ contract = [c \in Calls |-> None]
        /\ history = [c \in Calls |-> 0]

(* A call starts in state none, or is stored as already over if an app     *)
(* prevented it.                                                           *)
Create(c) == /\ state[c] = "absent"
             /\ \E s \in {"none", "hangup"} : state' = [state EXCEPT ![c] = s]
             /\ UNCHANGED <<contract, history>>

Ring(c) == /\ state[c] = "none"
           /\ state' = [state EXCEPT ![c] = "ringing"]
           /\ UNCHANGED <<contract, history>>

Accept(c, s) == /\ state[c] \in {"none", "ringing"}
                /\ state' = [state EXCEPT ![c] = "accepted"]
                /\ contract' = [contract EXCEPT ![c] = s]
                /\ UNCHANGED history

Activate(c) == /\ state[c] = "accepted"
               /\ state' = [state EXCEPT ![c] = "active"]
               /\ UNCHANGED <<contract, history>>

End(c) == /\ Unfinished(c)
          /\ state' = [state EXCEPT ![c] = "hangup"]
          /\ UNCHANGED <<contract, history>>

(* The end reaches the history after it was stored, once. *)
Record(c) == /\ state[c] = "hangup"
             /\ history[c] = 0
             /\ history' = [history EXCEPT ![c] = 1]
             /\ UNCHANGED <<state, contract>>

Next == \E c \in Calls : \/ Create(c)
                         \/ Ring(c)
                         \/ \E s \in Sessions : Accept(c, s)
                         \/ Activate(c)
                         \/ End(c)
                         \/ Record(c)

Spec == Init /\ [][Next]_vars
=============================================================================
