-------------------------------- MODULE Access --------------------------------
(***************************************************************************)
(* What a database account promises the person it belongs to               *)
(* (dbusers/requirements.md:48-65): access changes for one person at a     *)
(* time, its rank and its password only while that person signs in, and    *)
(* the password is theirs from then on until the account is reset or goes. *)
(* Nothing here knows of rows, role names, or the order of a login's       *)
(* transactions.                                                           *)
(***************************************************************************)
CONSTANTS
    Users,
    Ranks,
    NoOne,     \* nobody
    NoAccess   \* no account

VARIABLES
    access,    \* of each person: may they log in, with which ranks, whose password is it
    signingIn  \* whom the worker serves

Granted(rank, password) == [login |-> TRUE, ranks |-> {rank}, password |-> password]

Init ==
    /\ access = [u \in Users |-> NoAccess]
    /\ signingIn = NoOne

Begin(u) ==
    /\ signingIn = NoOne
    /\ signingIn' = u
    /\ UNCHANGED access

\* A login may be cut off at any point.
End ==
    /\ signingIn' = NoOne
    /\ UNCHANGED access

\* The rank follows the identity provider; the password stays what it is.
Reconcile(u) ==
    /\ signingIn = u
    /\ access[u] # NoAccess
    /\ \/ \E rank \in Ranks :
             access' = [access EXCEPT ![u] = Granted(rank, @.password)]
       \/ access' = [access EXCEPT ![u].login = FALSE, ![u].ranks = {}]
    /\ UNCHANGED signingIn

\* At the end of the login the password is made and shown, once. It comes with the rank
\* the account has, or, where the login was withdrawn, with one it had.
Claim(u) ==
    /\ signingIn = u
    /\ access[u] # NoAccess /\ access[u].password = NoOne
    /\ \E rank \in Ranks :
          /\ access[u].login => access[u].ranks = {rank}
          /\ access' = [access EXCEPT ![u] = Granted(rank, u)]
    /\ signingIn' = NoOne

\* An administrator gives access, asks for a new password, from a shell and at any time, or
\* takes access away.
Enroll(u) ==
    /\ signingIn = NoOne
    /\ access[u] = NoAccess
    /\ \E rank \in Ranks : access' = [access EXCEPT ![u] = Granted(rank, NoOne)]
    /\ UNCHANGED signingIn

Reset(u) ==
    /\ access[u] # NoAccess
    /\ access' = [access EXCEPT ![u].password = NoOne]
    /\ UNCHANGED signingIn

Remove(u) ==
    /\ signingIn = NoOne
    /\ access' = [access EXCEPT ![u] = NoAccess]
    /\ UNCHANGED signingIn

Next ==
    \/ \E u \in Users : Begin(u) \/ Reconcile(u) \/ Claim(u)
    \/ \E u \in Users : Enroll(u) \/ Reset(u) \/ Remove(u)
    \/ End

Spec == Init /\ [][Next]_<<access, signingIn>>
=============================================================================
