------------------------------ MODULE Rendezvous ------------------------------
(***************************************************************************)
(* What a call of forts/trading.go relies on, with no ClOrdIDs and no maps *)
(* of registrations: it has a mailbox of its own; from the moment it has   *)
(* asked, one party at most claims the right to leave a result there,      *)
(* leaves one, and loses the right; the call returns once, with that       *)
(* result or with an error of its own.  A call may lose the right to any   *)
(* result (its ClOrdID is used again, or somebody gives up under it), and  *)
(* a result may be left that nobody takes.                                 *)
(***************************************************************************)
EXTENDS Sequences

CONSTANTS Calls,    \* the calls
          Errors    \* what a call may return of its own accord

VARIABLES right,    \* the right to leave a result: "unasked", "free", "claimed", "gone"
          mail,     \* what was left for each call and not taken
          answer    \* what each call returned

vars == <<right, mail, answer>>

Init == /\ right = [c \in Calls |-> "unasked"]
        /\ mail = [c \in Calls |-> <<>>]
        /\ answer = [c \in Calls |-> <<>>]

Free == {c \in Calls : right[c] = "free"}

\* The rights change as this says, except that some calls lose theirs.
Losing(lost, now) == [c \in Calls |-> IF c \in lost THEN "gone" ELSE now[c]]

Ask(c) ==
  /\ right[c] = "unasked" /\ answer[c] = <<>>
  /\ \E lost \in SUBSET Free : right' = Losing(lost, [right EXCEPT ![c] = "free"])
  /\ UNCHANGED <<mail, answer>>

Claim(c) ==
  /\ right[c] = "free"
  /\ right' = [right EXCEPT ![c] = "claimed"]
  /\ UNCHANGED <<mail, answer>>

\* A call returns an error, once.
Failed(c) ==
  /\ answer[c] = <<>>
  /\ \E e \in Errors : answer' = [answer EXCEPT ![c] = <<e>>]

\* Whoever has the right leaves a result, and may be a call that failed itself.
Leave(c) ==
  /\ right[c] = "claimed" /\ mail[c] = <<>>
  /\ right' = [right EXCEPT ![c] = "gone"]
  /\ Len(mail'[c]) = 1 /\ mail' = [mail EXCEPT ![c] = mail'[c]]
  /\ UNCHANGED answer \/ \E d \in Calls : Failed(d)

\* The call takes what was left for it and returns it.
Take(c) ==
  /\ answer[c] = <<>> /\ Len(mail[c]) = 1
  /\ answer' = [answer EXCEPT ![c] = mail[c]]
  /\ mail' = [mail EXCEPT ![c] = <<>>]
  /\ UNCHANGED right

\* A call that has not asked loses the right to do so.
Fail(c) ==
  /\ Failed(c)
  /\ \E lost \in SUBSET Free :
       right' = Losing(lost, [right EXCEPT ![c] = IF @ = "unasked" THEN "gone" ELSE @])
  /\ UNCHANGED mail

Next == \E c \in Calls : Ask(c) \/ Claim(c) \/ Leave(c) \/ Take(c) \/ Fail(c)

Spec == Init /\ [][Next]_vars
=============================================================================
