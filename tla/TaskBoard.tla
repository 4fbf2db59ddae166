----------------------------- MODULE TaskBoard -----------------------------
(***************************************************************************)
(* What the collaboration server promises about tasks, without connections,*)
(* messages or a database: a board of tasks that devices work on.          *)
(*                                                                         *)
(* A device does not take a task in one step.  It looks at the board first *)
(* (Intend), which it may only when the task is free or its own, and       *)
(* changes the task later (Apply), whatever has become of it in between;   *)
(* it may also give up.  In the same way a claim is first seen to be       *)
(* overdue (Notice) and later put back (Release).                          *)
(***************************************************************************)
CONSTANTS Client, Url, Device, NoUrl, NoDevice

VARIABLES
  board,    \* each task's state and the device that has it
  intent,   \* what each client looked up and has not yet carried out
  overdue   \* the claims that were seen and may still be put back

boardVars == <<board, intent, overdue>>

Blank    == [state |-> "Absent", holder |-> NoDevice]
NoIntent == [url |-> NoUrl, device |-> NoDevice]

Init ==
  /\ board = [u \in Url |-> Blank]
  /\ intent = [c \in Client |-> NoIntent]
  /\ overdue = {}

Set(u, s, d) == board' = [board EXCEPT ![u] = [state |-> s, holder |-> d]]

Add(u) ==
  /\ board[u].state = "Absent"
  /\ Set(u, "Queued", NoDevice)
  /\ UNCHANGED <<intent, overdue>>

Intend(c, u, d) ==
  /\ board[u].state # "Absent" /\ board[u].holder \in {NoDevice, d}
  /\ intent' = [intent EXCEPT ![c] = [url |-> u, device |-> d]]
  /\ UNCHANGED <<board, overdue>>

Apply(c) ==
  /\ intent[c] # NoIntent
  /\ \E s \in {"Claimed", "Complete"} : Set(intent[c].url, s, intent[c].device)
  /\ intent' = [intent EXCEPT ![c] = NoIntent]
  /\ UNCHANGED overdue

\* Clients and the sweep may forget what they saw, all at once in a restart.
Forget ==
  /\ \A c \in Client : intent'[c] \in {intent[c], NoIntent}
  /\ overdue' \subseteq overdue
  /\ DOMAIN intent' = Client
  /\ UNCHANGED board

Notice ==
  /\ overdue' \subseteq {u \in Url : board[u].state = "Claimed"}
  /\ UNCHANGED <<board, intent>>

Release(u) ==
  /\ u \in overdue
  /\ Set(u, "Queued", NoDevice)
  /\ overdue' = overdue \ {u}
  /\ UNCHANGED intent

Next ==
  \/ \E u \in Url : Add(u) \/ Release(u)
  \/ \E c \in Client, u \in Url, d \in Device : Intend(c, u, d)
  \/ \E c \in Client : Apply(c)
  \/ Forget \/ Notice

Spec == Init /\ [][Next]_boardVars
============================================================================
