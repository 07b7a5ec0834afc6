----------------------------- MODULE RemoteCall -----------------------------
(***************************************************************************)
(* What an exchange of packets with the remote stub promises its callers   *)
(* in gdb: requests one after the other, each executed while its call is   *)
(* outstanding, perhaps more than once; a call returns the reply to its    *)
(* own request, or nothing.  The promise is taken away when the line has   *)
(* failed too often, when a timeout goes off although the stub is only     *)
(* slow, and when a character of a payload is read in place of an ack.     *)
(***************************************************************************)
EXTENDS Naturals

CONSTANTS Requests, \* 1..n, in the order of the calls
          Nothing,  \* the result of a call that got no reply
          Garbage   \* a result that is the reply to no request

VARIABLES current,  \* the request whose call is outstanding, or the last
          busy,     \* its call has not returned
          executed, \* the executions of every request
          results,  \* what the calls returned
          reliable  \* the promise stands

vars == <<current, busy, executed, results, reliable>>

Init == /\ current = 0
        /\ busy = FALSE
        /\ executed = [r \in Requests |-> 0]
        /\ results = [r \in Requests |-> Nothing]
        /\ reliable = TRUE

Call == /\ ~busy
        /\ current + 1 \in Requests
        /\ current' = current + 1
        /\ busy' = TRUE
        /\ UNCHANGED <<executed, results>>

Execute(r) == /\ reliable' => busy /\ r = current
              /\ executed' = [executed EXCEPT ![r] = @ + 1]
              /\ UNCHANGED <<current, busy, results>>

Return(reply) ==
    /\ busy
    /\ reliable' /\ reply # Nothing => reply = current /\ executed[reply] > 0
    /\ busy' = FALSE
    /\ results' = [results EXCEPT ![current] = reply]
    /\ UNCHANGED <<current, executed>>

Next == /\ reliable' => reliable
        /\ \/ Call
           \/ \E r \in Requests : Execute(r)
           \/ \E reply \in Requests \union {Nothing, Garbage} : Return(reply)
           \/ UNCHANGED <<current, busy, executed, results>>

Spec == Init /\ [][Next]_vars
=============================================================================
