---------------------------- MODULE TransactionSpec ----------------------------
(***************************************************************************)
(* What an INVITE transaction promises to SipProvider, which lists it      *)
(* under its own key, and to the dialog, which it tells how it ended.      *)
(*                                                                         *)
(* A thread of the program first decides on an outcome, on what it sees,   *)
(* and tells the dialog later.  Nothing is locked, so that several threads *)
(* may have decided before the first tells; but once the dialog has been   *)
(* told nobody decides any more, each kind of outcome is told once, and a  *)
(* transaction that has left the provider's table never comes back.        *)
(***************************************************************************)
EXTENDS Sequences, Naturals

CONSTANT Outcome    \* the kinds of outcome

VARIABLES
  place,    \* "outside" the table until the transaction begins, "inside", "left"
  due,      \* the outcomes that are decided and not yet told
  told      \* what the dialog has been told, in order

vars == <<place, due, told>>

Init ==
  /\ place = "outside"
  /\ due = {}
  /\ told = <<>>

Enter ==
  /\ place = "outside" /\ place' = "inside"
  /\ UNCHANGED <<due, told>>

Leave ==
  /\ place = "inside" /\ place' = "left"
  /\ UNCHANGED <<due, told>>

Decide(o) ==
  /\ place = "inside" /\ told = <<>>
  /\ o \notin due /\ due' = due \cup {o}
  /\ UNCHANGED <<place, told>>

\* The dialog is told, unless the transaction has been dropped since; an outcome may take the
\* transaction out of the table.
Report(o) ==
  /\ o \in due /\ due' = due \ {o}
  /\ told' \in {told, Append(told, o)}
  /\ place' \in {place, "left"}

Next == Enter \/ Leave \/ \E o \in Outcome : Decide(o) \/ Report(o)

Spec == Init /\ [][Next]_vars

\* The dialog is never told the same kind of outcome twice.
ToldOnce == \A i, j \in 1..Len(told) : told[i] = told[j] => i = j
================================================================================
