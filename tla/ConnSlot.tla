------------------------------ MODULE ConnSlot ------------------------------
(***************************************************************************)
(* What the connection manager promises the rest of the program, without   *)
(* its locks, its status bookkeeping and its callers: one slot per device, *)
(* sockets that are open or closed, and calls that are in progress on      *)
(* them.  ConnManager is shown to implement it.                            *)
(***************************************************************************)
CONSTANTS
  Device,  \* device identifiers
  Conn,    \* connections
  Thread,  \* goroutines that read and write
  None     \* nil: an empty slot, no owner of a closed socket, no user

VARIABLES
  slot,    \* the connection the manager hands out for a device
  owner,   \* the device an open socket leads to, None when it is closed
  user     \* who is in a Read or a Write on a connection

vars == <<slot, owner, user>>

TypeOK ==
  /\ slot \in [Device -> Conn \cup {None}]
  /\ owner \in [Conn -> Device \cup {None}]
  /\ user \in [Conn -> Thread \cup {None}]

Init ==
  /\ slot = [d \in Device |-> None]
  /\ owner = [c \in Conn |-> None]
  /\ user = [c \in Conn |-> None]

InSlot(c) == \E d \in Device : slot[d] = c

\* A caller that found the slot empty dials the device.
Dial(c, d) ==
  /\ owner[c] = None
  /\ user[c] = None
  /\ ~InSlot(c)
  /\ owner' = [owner EXCEPT ![c] = d]
  /\ UNCHANGED <<slot, user>>

\* Only an open socket is installed, in the empty slot of its own device.
Install(c) ==
  /\ owner[c] # None
  /\ ~InSlot(c)
  /\ slot[owner[c]] = None
  /\ slot' = [slot EXCEPT ![owner[c]] = c]
  /\ UNCHANGED <<owner, user>>

\* A save or a delete empties one slot, the shutdown all of them.
Remove(D) ==
  /\ slot' = [d \in Device |-> IF d \in D THEN None ELSE slot[d]]
  /\ UNCHANGED <<owner, user>>

\* Only a socket that is in no slot and that nobody uses is closed.
Close(c) ==
  /\ ~InSlot(c)
  /\ user[c] = None
  /\ owner' = [owner EXCEPT ![c] = None]
  /\ UNCHANGED <<slot, user>>

\* One call at a time on a connection.
Begin(c, t) ==
  /\ user[c] = None
  /\ user' = [user EXCEPT ![c] = t]
  /\ UNCHANGED <<slot, owner>>

End(c) ==
  /\ user[c] # None
  /\ user' = [user EXCEPT ![c] = None]
  /\ UNCHANGED <<slot, owner>>

Next ==
  \/ \E c \in Conn : \/ \E d \in Device : Dial(c, d)
                     \/ \E t \in Thread : Begin(c, t)
                     \/ Install(c) \/ Close(c) \/ End(c)
  \/ \E D \in SUBSET Device : Remove(D)

Spec == Init /\ [][Next]_vars

\* Progress the manager owes: a socket that is in no slot does not stay open
\* for ever, it is installed or closed.
StrayIsSettled ==
  \A c \in Conn : (owner[c] # None /\ ~InSlot(c)) ~> (owner[c] = None \/ InSlot(c))

=============================================================================
